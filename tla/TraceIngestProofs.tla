-------------------------- MODULE TraceIngestProofs --------------------------
(***************************************************************************)
(* For any number of clients, partitions, messages, faults and restarts:   *)
(* the types; that an accepted trace is in the log; that no message is     *)
(* committed unhandled; that spans have a trace row and, from clients that *)
(* send traces whole, a payload; and that only a restart writes the rows   *)
(* of a message twice.                                                     *)
(***************************************************************************)
EXTENDS TraceIngest, SequenceTheorems, FiniteSetTheorems, TLAPS

LEMMA MessageFields ==
  ASSUME NEW m \in Messages
  PROVE  m.trace \in Traces /\ m.spans \in SUBSET Spans
  BY ConstantsAssumption DEF MessageType

LEMMA OffsetsArePairs ==
  ASSUME NEW o \in Offsets
  PROVE  o[1] \in Partitions /\ o[2] \in 1..MaxLog /\ o = <<o[1], o[2]>>
  BY DEF Offsets

LEMMA OffsetIsItsPair ==
  ASSUME NEW p \in Partitions, NEW i \in 1..MaxLog
  PROVE  /\ <<p, i>> \in Offsets
         /\ <<p, i>>[1] = p /\ <<p, i>>[2] = i
  BY DEF Offsets

-----------------------------------------------------------------------------
(* What the parts of the actions change.                                   *)

LogGrows ==
    \A p \in Partitions :
        /\ Len(topic[p]) <= Len(topic'[p])
        /\ \A i \in 1..Len(topic[p]) : topic'[p][i] = topic[p][i]

RowsGrow ==
    /\ \A t \in Traces : payload[t] # {} => payload'[t] # {}
    /\ \A m \in Messages :
          traceRows[m] <= traceRows'[m] /\ spanRows[m] <= spanRows'[m]
    /\ logged \subseteq logged'

Produced ==
    {m \in Messages :
        \E p \in Partitions : \E i \in DOMAIN topic[p] : topic[p][i] = m}

LEMMA AppendToLogGrows ==
  ASSUME TypeOK, NEW m \in Messages, AppendToLog(m)
  PROVE  /\ topic' \in [Partitions -> Seq(Messages)]
         /\ \A p \in Partitions : Len(topic'[p]) <= MaxLog
         /\ LogGrows
         /\ m \in Produced'
  <1>1. PICK p \in Partitions :
              /\ Len(topic[p]) < MaxLog
              /\ topic' = [topic EXCEPT ![p] = Append(@, m)]
    BY DEF AppendToLog
  <1>2. topic[p] \in Seq(Messages)
    BY DEF TypeOK
  <1>3. /\ Append(topic[p], m) \in Seq(Messages)
        /\ Len(Append(topic[p], m)) = Len(topic[p]) + 1
        /\ \A i \in 1..Len(topic[p]) : Append(topic[p], m)[i] = topic[p][i]
        /\ Append(topic[p], m)[Len(topic[p]) + 1] = m
    BY <1>2, AppendProperties
  <1>4. topic'[p] = Append(topic[p], m)
    BY <1>1 DEF TypeOK
  <1>5. \A q \in Partitions \ {p} : topic'[q] = topic[q]
    BY <1>1 DEF TypeOK
  <1>6. topic' \in [Partitions -> Seq(Messages)]
    BY <1>1, <1>3 DEF TypeOK
  <1>7. \A q \in Partitions : Len(topic[q]) \in Nat
    BY LenProperties DEF TypeOK
  <1>8. \A q \in Partitions : Len(topic'[q]) <= MaxLog
    BY <1>1, <1>3, <1>4, <1>5, <1>7, ConstantsAssumption DEF TypeOK
  <1>9. LogGrows
    BY <1>3, <1>4, <1>5, <1>7, SMTT(30) DEF LogGrows
  <1>10. m \in Produced'
    <2>1. DOMAIN topic'[p] = 1..Len(topic'[p])
      BY <1>6, LenProperties
    <2>2. Len(topic[p]) + 1 \in DOMAIN topic'[p]
      BY <2>1, <1>3, <1>4, <1>7
    <2>. QED  BY <2>2, <1>3, <1>4 DEF Produced
  <1>. QED  BY <1>6, <1>8, <1>9, <1>10

LEMMA SameLogGrows ==
  ASSUME TypeOK, UNCHANGED topic
  PROVE  LogGrows
  <1>1. \A p \in Partitions : Len(topic[p]) \in Nat
    BY LenProperties DEF TypeOK
  <1>. QED  BY <1>1 DEF LogGrows

LEMMA WriteGrows ==
  ASSUME TypeOK, NEW m \in Messages, Write(m) \/ UNCHANGED stores
  PROVE  /\ payload' \in [Traces -> SUBSET Messages]
         /\ traceRows' \in [Messages -> Nat]
         /\ spanRows' \in [Messages -> Nat]
         /\ \A t \in Traces : payload[t] # {} => payload'[t] # {}
         /\ \A n \in Messages :
               traceRows[n] <= traceRows'[n] /\ spanRows[n] <= spanRows'[n]
  <1>0. m.trace \in Traces
    BY MessageFields
  <1>1. \A n \in Messages :
           /\ traceRows[n] \in Nat /\ traceRows[n] <= traceRows[n]
           /\ spanRows[n] \in Nat /\ spanRows[n] <= spanRows[n]
    <2>1. \A k \in Nat : k <= k
      OBVIOUS
    <2>. QED  BY <2>1 DEF TypeOK
  <1>2. CASE UNCHANGED stores
    BY <1>1, <1>2 DEF stores, TypeOK
  <1>3. CASE PutPayload(m)
    <2>1. payload' = [payload EXCEPT ![m.trace] = {m}]
          /\ UNCHANGED <<traceRows, spanRows>>
      BY <1>3 DEF PutPayload
    <2>2. /\ payload' \in [Traces -> SUBSET Messages]
          /\ \A t \in Traces : payload[t] # {} => payload'[t] # {}
      BY <1>0, <2>1 DEF TypeOK
    <2>. QED  BY <1>1, <2>1, <2>2 DEF TypeOK
  <1>4. CASE InsertTrace(m)
    BY <1>4 DEF InsertTrace, TypeOK
  <1>5. CASE InsertSpans(m)
    BY <1>5 DEF InsertSpans, TypeOK
  <1>. QED  BY <1>2, <1>3, <1>4, <1>5 DEF Write

LEMMA ReturnType ==
  ASSUME TypeOK, NEW c \in Clients, Return(c)
  PROVE  /\ sent' \in [Clients -> Seq(Messages)]
         /\ left' \in [Clients -> Seq(Messages)]
  BY EmptySeq DEF Return, TypeOK

LEMMA GoOnType ==
  ASSUME TypeOK, NEW c \in Clients, left[c] # <<>>, GoOn(c)
  PROVE  /\ sent' \in [Clients -> Seq(Messages)]
         /\ left' \in [Clients -> Seq(Messages)]
         /\ accepted' \in SUBSET Messages
  <1>1. left[c] \in Seq(Messages) /\ sent[c] \in Seq(Messages)
    BY DEF TypeOK
  <1>2. CASE Len(left[c]) > 1
    <2>1. Tail(left[c]) \in Seq(Messages)
      BY <1>1, HeadTailProperties
    <2>. QED  BY <1>2, <2>1 DEF GoOn, TypeOK
  <1>3. CASE ~(Len(left[c]) > 1)
    <2>1. accepted' = accepted \cup Range(sent[c]) /\ Return(c)
      BY <1>3 DEF GoOn
    <2>2. \A i \in DOMAIN sent[c] : sent[c][i] \in Messages
      BY <1>1, LenProperties, ElementOfSeq
    <2>3. Range(sent[c]) \subseteq Messages
      BY <2>2 DEF Range
    <2>. QED  BY <2>1, <2>3, ReturnType DEF TypeOK
  <1>. QED  BY <1>2, <1>3

LEMMA CurrentIsMessage ==
  ASSUME TypeOK, NEW o \in current, o[2] <= Len(topic[o[1]])
  PROVE  /\ o[1] \in Partitions /\ o[2] \in 1..Len(topic[o[1]])
         /\ At(o) \in Messages
  <1>1. o \in Offsets
    BY DEF TypeOK
  <1>2. topic[o[1]] \in Seq(Messages)
    BY <1>1, OffsetsArePairs DEF TypeOK
  <1>3. o[2] \in 1..Len(topic[o[1]])
    BY <1>1, <1>2, OffsetsArePairs, LenProperties, ConstantsAssumption
  <1>. QED  BY <1>1, <1>2, <1>3, OffsetsArePairs, ElementOfSeq DEF At

-----------------------------------------------------------------------------
(* Types. The consumer only ever looks at offsets that are in the log.     *)

ReaderInLog ==
    /\ \A p \in Partitions :
          /\ position[p] <= Len(topic[p])
          /\ committed[p] <= Len(topic[p])
    /\ \A o \in current : o[2] <= Len(topic[o[1]])

TypeInv == TypeOK /\ ReaderInLog

LEMMA InLogStays ==
  ASSUME TypeInv, LogGrows, \A p \in Partitions : Len(topic'[p]) \in Nat,
         UNCHANGED consumer
  PROVE  ReaderInLog'
  <1>1. \A p \in Partitions : Len(topic[p]) \in Nat
    BY LenProperties DEF TypeInv, TypeOK
  <1>2. \A p \in Partitions : position[p] \in Nat /\ committed[p] \in Nat
    BY ConstantsAssumption DEF TypeInv, TypeOK
  <1>3. \A o \in current : o[1] \in Partitions /\ o[2] \in Nat
    BY OffsetsArePairs, ConstantsAssumption DEF TypeInv, TypeOK
  <1>4. position' = position /\ committed' = committed /\ current' = current
    BY DEF consumer
  <1>. QED
    BY <1>1, <1>2, <1>3, <1>4 DEF TypeInv, ReaderInLog, LogGrows

LEMMA InitTypes == Init => TypeInv
  <1>. SUFFICES ASSUME Init
               PROVE  TypeInv
    OBVIOUS
  <1>1. <<>> \in Seq(Messages) /\ Len(<<>>) = 0
    BY EmptySeq
  <1>. QED
    BY <1>1, ConstantsAssumption DEF Init, TypeInv, TypeOK, ReaderInLog

(* A call that fails is counted, and no more are allowed than MaxFaults.   *)
LEMMA FaultType ==
  ASSUME TypeOK, Fault
  PROVE  faults' \in 0..MaxFaults
  BY ConstantsAssumption DEF TypeOK, Fault

LEMMA MayRestartType ==
  ASSUME TypeOK, MayRestart
  PROVE  restarts' \in 0..MaxRestarts
  BY ConstantsAssumption DEF TypeOK, MayRestart

LEMMA ServiceTypes ==
  ASSUME TypeInv, NEW c \in Clients,
         Send(c) \/ Produce(c) \/ ProduceFails(c)
  PROVE  TypeInv' /\ LogGrows /\ RowsGrow
  <1>1. left[c] # <<>> => Head(left[c]) \in Messages
    BY HeadTailProperties DEF TypeInv, TypeOK
  <1>2. /\ topic' \in [Partitions -> Seq(Messages)]
        /\ \A p \in Partitions : Len(topic'[p]) <= MaxLog
        /\ LogGrows
    <2>1. CASE UNCHANGED topic
      BY <2>1, SameLogGrows DEF TypeInv, TypeOK
    <2>2. CASE left[c] # <<>> /\ AppendToLog(Head(left[c]))
      BY <2>2, <1>1, AppendToLogGrows DEF TypeInv
    <2>. QED  BY <2>1, <2>2 DEF Send, Produce, ProduceFails
  <1>3. /\ sent' \in [Clients -> Seq(Messages)]
        /\ left' \in [Clients -> Seq(Messages)]
        /\ accepted' \in SUBSET Messages
    <2>1. CASE Send(c)
      <3>0. PICK n \in 1..MaxBatch : \E request \in [1..n -> Messages] :
                  /\ sent' = [sent EXCEPT ![c] = request]
                  /\ left' = [left EXCEPT ![c] = request]
        BY <2>1 DEF Send
      <3>1. PICK request \in [1..n -> Messages] :
                  /\ sent' = [sent EXCEPT ![c] = request]
                  /\ left' = [left EXCEPT ![c] = request]
        BY <3>0
      <3>2. request \in Seq(Messages)
        BY ConstantsAssumption, SeqDef
      <3>3. accepted' = accepted
        BY <2>1 DEF Send
      <3>. QED  BY <3>1, <3>2, <3>3 DEF TypeInv, TypeOK
    <2>2. CASE Produce(c)
      BY <2>2, GoOnType DEF Produce, TypeInv
    <2>3. CASE ProduceFails(c)
      BY <2>3, ReturnType DEF ProduceFails, TypeInv, TypeOK
    <2>. QED  BY <2>1, <2>2, <2>3
  <1>4. UNCHANGED <<consumer, stores, logged, restarts>>
    BY DEF Send, Produce, ProduceFails
  <1>5. faults' \in 0..MaxFaults
    BY FaultType DEF TypeInv, TypeOK, Send, Produce, ProduceFails
  <1>6. ReaderInLog'
    BY <1>2, <1>4, InLogStays, LenProperties
  <1>7. TypeOK'
    BY <1>2, <1>3, <1>4, <1>5 DEF TypeInv, TypeOK, consumer, stores
  <1>8. RowsGrow
    <2>1. \A k \in Nat : k <= k
      OBVIOUS
    <2>. QED  BY <1>4, <2>1 DEF TypeInv, TypeOK, RowsGrow, stores
  <1>. QED  BY <1>2, <1>6, <1>7, <1>8 DEF TypeInv

LEMMA FetchTypes ==
  ASSUME TypeInv, FetchMessage
  PROVE  TypeInv'
  <1>1. PICK p \in Partitions :
              /\ position[p] < Len(topic[p])
              /\ position' = [position EXCEPT ![p] = @ + 1]
              /\ current' = {<<p, position[p] + 1>>}
    BY DEF FetchMessage
  <1>2. Len(topic[p]) \in Nat /\ Len(topic[p]) <= MaxLog
    BY LenProperties DEF TypeInv, TypeOK
  <1>3. position[p] + 1 \in 1..MaxLog
    BY <1>1, <1>2, ConstantsAssumption DEF TypeInv, TypeOK
  <1>4. current' \in SUBSET Offsets
    BY <1>1, <1>3, OffsetIsItsPair
  <1>5. position' \in [Partitions -> 0..MaxLog]
    BY <1>1, <1>3, ConstantsAssumption DEF TypeInv, TypeOK
  <1>6. /\ pc' = "put"
        /\ UNCHANGED <<service, topic, committed, stores, logged, faults, restarts>>
    BY DEF FetchMessage
  <1>7. TypeOK'
    BY <1>4, <1>5, <1>6 DEF TypeInv, TypeOK, service, stores
  <1>8. \A q \in Partitions : position'[q] <= Len(topic[q])
    BY <1>1, <1>2, ConstantsAssumption DEF TypeInv, TypeOK, ReaderInLog
  <1>9. \A o \in current' : o[2] <= Len(topic[o[1]])
    <2>1. current' = {<<p, position[p] + 1>>} /\ position[p] + 1 <= Len(topic[p])
      BY <1>1, <1>2, ConstantsAssumption DEF TypeInv, TypeOK
    <2>. QED  BY <2>1
  <1>. QED  BY <1>6, <1>7, <1>8, <1>9 DEF TypeInv, ReaderInLog

LEMMA WriteTypes ==
  ASSUME TypeInv, Process \/ ProcessFails
  PROVE  /\ TypeInv'
         /\ RowsGrow
  <1>1. PICK o \in current : Write(At(o)) \/ UNCHANGED stores
    BY DEF Process, ProcessFails
  <1>2. At(o) \in Messages
    BY CurrentIsMessage DEF TypeInv, ReaderInLog
  <1>3. /\ payload' \in [Traces -> SUBSET Messages]
        /\ traceRows' \in [Messages -> Nat]
        /\ spanRows' \in [Messages -> Nat]
        /\ \A t \in Traces : payload[t] # {} => payload'[t] # {}
        /\ \A n \in Messages :
              traceRows[n] <= traceRows'[n] /\ spanRows[n] <= spanRows'[n]
    BY <1>1, <1>2, WriteGrows DEF TypeInv
  <1>4. pc' \in {"insertTrace", "insertSpans", "commit"}
    BY DEF Process, ProcessFails, GoTo, Following
  <1>5. UNCHANGED <<service, topic, restarts, committed, position, current>>
    BY DEF Process, ProcessFails, GoTo
  <1>6. logged' \in SUBSET Offsets /\ logged \subseteq logged'
    BY DEF Process, ProcessFails, TypeInv, TypeOK
  <1>7. faults' \in 0..MaxFaults
    BY FaultType DEF Process, ProcessFails, TypeInv, TypeOK
  <1>8. TypeOK'
    BY <1>3, <1>4, <1>5, <1>6, <1>7 DEF TypeInv, TypeOK, service
  <1>. QED  BY <1>3, <1>5, <1>6, <1>8 DEF TypeInv, ReaderInLog, RowsGrow

LEMMA CommitTypes ==
  ASSUME TypeInv, CommitMessages \/ CommitFails
  PROVE  TypeInv'
  <1>1. committed' \in [Partitions -> 0..MaxLog]
    <2>1. CASE UNCHANGED committed
      BY <2>1 DEF TypeInv, TypeOK
    <2>2. CASE CommitCurrent
      <3>1. PICK o \in current : committed' = [committed EXCEPT ![o[1]] = o[2]]
        BY <2>2 DEF CommitCurrent
      <3>2. o[2] \in 0..MaxLog
        BY OffsetsArePairs, ConstantsAssumption DEF TypeInv, TypeOK
      <3>. QED  BY <3>1, <3>2 DEF TypeInv, TypeOK
    <2>. QED  BY <2>1, <2>2 DEF CommitMessages, CommitFails
  <1>2. \A p \in Partitions : committed'[p] <= Len(topic[p])
    <2>1. CASE UNCHANGED committed
      BY <2>1 DEF TypeInv, ReaderInLog
    <2>2. CASE CommitCurrent
      <3>1. PICK o \in current : committed' = [committed EXCEPT ![o[1]] = o[2]]
        BY <2>2 DEF CommitCurrent
      <3>2. o[2] <= Len(topic[o[1]])
        BY DEF TypeInv, ReaderInLog
      <3>. QED  BY <3>1, <3>2 DEF TypeInv, TypeOK, ReaderInLog
    <2>. QED  BY <2>1, <2>2 DEF CommitMessages, CommitFails
  <1>3. /\ pc' = "fetch" /\ current' = {}
        /\ UNCHANGED <<service, topic, position, stores, logged, restarts>>
    BY DEF CommitMessages, CommitFails
  <1>4. faults' \in 0..MaxFaults
    BY FaultType DEF CommitMessages, CommitFails, TypeInv, TypeOK
  <1>5. TypeOK'
    BY <1>1, <1>3, <1>4 DEF TypeInv, TypeOK, service, stores
  <1>. QED  BY <1>2, <1>3, <1>5 DEF TypeInv, ReaderInLog

LEMMA RestartTypes ==
  ASSUME TypeInv, Rejoin \/ Restart
  PROVE  TypeInv'
  <1>1. /\ position' = committed /\ current' \subseteq current
        /\ pc' = pc \/ pc' = "fetch"
        /\ UNCHANGED <<service, topic, committed, stores, logged, faults>>
    BY DEF Rejoin, Restart
  <1>2. restarts' \in 0..MaxRestarts
    BY MayRestartType DEF Rejoin, Restart, TypeInv
  <1>3. TypeOK'
    BY <1>1, <1>2 DEF TypeInv, TypeOK, service, stores
  <1>. QED  BY <1>1, <1>3 DEF TypeInv, ReaderInLog

(* What every step does to the types, the log and the rows. *)
LEMMA StepTypes ==
  ASSUME TypeInv, [Next]_vars
  PROVE  TypeInv' /\ LogGrows /\ RowsGrow
  <1>1. CASE \E c \in Clients : Send(c) \/ Produce(c) \/ ProduceFails(c)
    BY <1>1, ServiceTypes
  <1>2. CASE Process \/ ProcessFails
    <2>1. UNCHANGED topic
      BY <1>2 DEF Process, ProcessFails, GoTo
    <2>. QED  BY <1>2, <2>1, WriteTypes, SameLogGrows DEF TypeInv
  <1>3. CASE \/ FetchMessage
             \/ CommitMessages \/ CommitFails
             \/ Rejoin \/ Restart
             \/ UNCHANGED vars
    <2>1. UNCHANGED <<topic, stores, logged>>
      BY <1>3 DEF FetchMessage, CommitMessages, CommitFails, Rejoin, Restart, vars
    <2>2. RowsGrow
      <3>1. \A k \in Nat : k <= k
        OBVIOUS
      <3>. QED  BY <2>1, <3>1 DEF TypeInv, TypeOK, RowsGrow, stores
    <2>3. CASE UNCHANGED vars
      <3>1. TypeInv'
        BY <2>3 DEF vars, service, consumer, stores, TypeInv, TypeOK, ReaderInLog
      <3>. QED  BY <2>1, <2>2, <3>1, SameLogGrows DEF TypeInv
    <2>4. CASE ~UNCHANGED vars
      <3>1. TypeInv'
        BY <1>3, <2>4, FetchTypes, CommitTypes, RestartTypes
      <3>. QED  BY <2>1, <2>2, <3>1, SameLogGrows DEF TypeInv
    <2>. QED  BY <2>3, <2>4
  <1>. QED  BY <1>1, <1>2, <1>3 DEF Next, Consume

LEMMA TypesAlways == Spec => []TypeInv
  <1>1. Init => TypeInv
    BY InitTypes
  <1>2. TypeInv /\ [Next]_vars => TypeInv'
    BY StepTypes
  <1>. QED  BY <1>1, <1>2, PTL DEF Spec

(* The types hold, and with them every bound: a message is at an offset of *)
(* a log, and the consumer is never past the end of one.                   *)
THEOREM IngestTypes == Spec => []TypeOK
  <1>1. TypeInv => TypeOK
    BY DEF TypeInv
  <1>. QED  BY <1>1, TypesAlways, PTL

-----------------------------------------------------------------------------
(* The trace service. What a handler has still to produce is the end of    *)
(* what it was sent, and the rest is in the log.                           *)

RestIsProduced ==
    \A c \in Clients :
        /\ Len(left[c]) <= Len(sent[c])
        /\ \A i \in 1..Len(sent[c]) :
              /\ i <= Len(sent[c]) - Len(left[c]) => sent[c][i] \in Produced
              /\ i > Len(sent[c]) - Len(left[c]) =>
                    sent[c][i] = left[c][i - (Len(sent[c]) - Len(left[c]))]

ServiceInv == TypeInv /\ RestIsProduced /\ AcceptedIsProduced

LEMMA ProducedForEver ==
  ASSUME TypeInv, TypeInv', LogGrows
  PROVE  Produced \subseteq Produced'
  <1>. SUFFICES ASSUME NEW m \in Produced
               PROVE  m \in Produced'
    OBVIOUS
  <1>1. PICK p \in Partitions : \E i \in DOMAIN topic[p] : topic[p][i] = m
    BY DEF Produced
  <1>2. PICK i \in DOMAIN topic[p] : topic[p][i] = m
    BY <1>1
  <1>3. /\ DOMAIN topic[p] = 1..Len(topic[p]) /\ Len(topic[p]) \in Nat
        /\ DOMAIN topic'[p] = 1..Len(topic'[p]) /\ Len(topic'[p]) \in Nat
    BY LenProperties DEF TypeInv, TypeOK
  <1>4. i \in DOMAIN topic'[p] /\ topic'[p][i] = m
    BY <1>2, <1>3 DEF LogGrows
  <1>. QED  BY <1>4 DEF Produced

LEMMA AcceptedInProduced ==
  ASSUME TypeOK
  PROVE  AcceptedIsProduced <=> accepted \subseteq Produced
  BY DEF TypeOK, AcceptedIsProduced, Produced

LEMMA RequestLengths ==
  ASSUME TypeOK, NEW c \in Clients
  PROVE  /\ sent[c] \in Seq(Messages) /\ Len(sent[c]) \in Nat
         /\ left[c] \in Seq(Messages) /\ Len(left[c]) \in Nat
  BY LenProperties DEF TypeOK

LEMMA ServiceInvStep ==
  ASSUME ServiceInv, [Next]_vars
  PROVE  ServiceInv'
  <1>1. TypeInv' /\ LogGrows
    BY StepTypes DEF ServiceInv
  <1>2. /\ Produced \subseteq Produced'
        /\ accepted \subseteq Produced
        /\ accepted' \subseteq Produced' => AcceptedIsProduced'
    <2>1. accepted' \subseteq Produced' => AcceptedIsProduced'
      BY DEF AcceptedIsProduced, Produced
    <2>. QED
      BY <1>1, <2>1, ProducedForEver, AcceptedInProduced DEF ServiceInv, TypeInv
  <1>3. CASE UNCHANGED service
    <2>1. RestIsProduced'
      BY <1>2, <1>3 DEF ServiceInv, RestIsProduced, service
    <2>2. AcceptedIsProduced'
      BY <1>2, <1>3 DEF service
    <2>. QED  BY <1>1, <2>1, <2>2 DEF ServiceInv
  <1>4. ASSUME NEW c \in Clients, Send(c)
        PROVE  ServiceInv'
    <2>1. /\ sent' = [sent EXCEPT ![c] = sent'[c]]
          /\ left' = [left EXCEPT ![c] = sent'[c]]
          /\ accepted' = accepted /\ topic' = topic
      <3>1. PICK n \in 1..MaxBatch : \E request \in [1..n -> Messages] :
                  /\ sent' = [sent EXCEPT ![c] = request]
                  /\ left' = [left EXCEPT ![c] = request]
        BY <1>4 DEF Send
      <3>. QED  BY <1>4, <3>1 DEF Send, ServiceInv, TypeInv, TypeOK
    <2>2. left'[c] = sent'[c]
      BY <2>1 DEF ServiceInv, TypeInv, TypeOK
    <2>3. Len(sent'[c]) \in Nat
      BY <1>1, LenProperties DEF TypeInv, TypeOK
    <2>4. ASSUME NEW d \in Clients
          PROVE  /\ Len(left'[d]) <= Len(sent'[d])
                 /\ \A i \in 1..Len(sent'[d]) :
                      /\ i <= Len(sent'[d]) - Len(left'[d]) =>
                            sent'[d][i] \in Produced'
                      /\ i > Len(sent'[d]) - Len(left'[d]) =>
                            sent'[d][i] = left'[d][i - (Len(sent'[d]) - Len(left'[d]))]
      <3>1. CASE d = c
        BY <3>1, <2>2, <2>3
      <3>2. CASE d # c
        <4>1. sent'[d] = sent[d] /\ left'[d] = left[d]
          BY <2>1, <3>2 DEF ServiceInv, TypeInv, TypeOK
        <4>. QED  BY <4>1, <1>2 DEF ServiceInv, RestIsProduced
      <3>. QED  BY <3>1, <3>2
    <2>5. RestIsProduced'
      BY <2>4 DEF RestIsProduced
    <2>6. AcceptedIsProduced'
      BY <2>1, <1>2
    <2>. QED  BY <1>1, <2>5, <2>6 DEF ServiceInv
  <1>5. ASSUME NEW c \in Clients, Return(c)
        PROVE  RestIsProduced'
    <2>1. sent'[c] = <<>> /\ left'[c] = <<>>
      BY <1>5 DEF Return, ServiceInv, TypeInv, TypeOK
    <2>2. Len(sent'[c]) = 0 /\ Len(left'[c]) = 0
      BY <2>1, EmptySeq
    <2>3. ASSUME NEW d \in Clients
          PROVE  /\ Len(left'[d]) <= Len(sent'[d])
                 /\ \A i \in 1..Len(sent'[d]) :
                      /\ i <= Len(sent'[d]) - Len(left'[d]) =>
                            sent'[d][i] \in Produced'
                      /\ i > Len(sent'[d]) - Len(left'[d]) =>
                            sent'[d][i] = left'[d][i - (Len(sent'[d]) - Len(left'[d]))]
      <3>1. CASE d = c
        BY <3>1, <2>2
      <3>2. CASE d # c
        <4>1. sent'[d] = sent[d] /\ left'[d] = left[d]
          BY <1>5, <3>2 DEF Return, ServiceInv, TypeInv, TypeOK
        <4>. QED  BY <4>1, <1>2 DEF ServiceInv, RestIsProduced
      <3>. QED  BY <3>1, <3>2
    <2>. QED  BY <2>3 DEF RestIsProduced
  <1>6. ASSUME NEW c \in Clients, Produce(c)
        PROVE  ServiceInv'
    <2>1. PICK n, k : n = Len(sent[c]) /\ k = Len(sent[c]) - Len(left[c])
      OBVIOUS
    <2>2. left[c] # <<>> /\ AppendToLog(Head(left[c])) /\ GoOn(c)
      BY <1>6 DEF Produce
    <2>3. /\ sent[c] \in Seq(Messages) /\ Len(sent[c]) \in Nat
          /\ left[c] \in Seq(Messages) /\ Len(left[c]) \in Nat \ {0}
      BY <2>2, RequestLengths, EmptySeq DEF ServiceInv, TypeInv
    <2>4. Head(left[c]) \in Produced'
      BY <2>2, <2>3, HeadTailProperties, AppendToLogGrows DEF ServiceInv, TypeInv
    <2>5. /\ Len(left[c]) <= n
          /\ \A i \in 1..n : i <= k => sent[c][i] \in Produced
          /\ \A i \in 1..n : i > k => sent[c][i] = left[c][i - k]
      BY <2>1 DEF ServiceInv, RestIsProduced
    <2>6. k = n - Len(left[c])
      BY <2>1
    <2>7. n \in Nat
      BY <2>1, <2>3
    <2>8. k \in Nat /\ k + 1 \in 1..n
      <3>1. k \in Nat
        BY <2>7, <2>6, <2>3, <2>5
      <3>2. k + 1 \in 1..n
        BY <2>7, <2>6, <3>1, <2>3
      <3>. QED  BY <3>1, <3>2
    <2>9. sent[c][k + 1] = Head(left[c])
      <3>1. k + 1 > k /\ (k + 1) - k = 1
        BY <2>8
      <3>2. sent[c][k + 1] = left[c][1]
        BY <3>1, <2>5, <2>8
      <3>. QED  BY <3>2, <2>2, <2>3, HeadTailProperties
    <2>10. \A i \in 1..n : i <= k + 1 => sent[c][i] \in Produced'
      <3>1. \A i \in 1..n : i <= k + 1 => i <= k \/ i = k + 1
        BY <2>8
      <3>. QED  BY <3>1, <1>2, <2>4, <2>5, <2>9
    <2>11. CASE Len(left[c]) > 1
      <3>1. /\ left' = [left EXCEPT ![c] = Tail(@)]
            /\ sent' = sent /\ accepted' = accepted
        BY <2>2, <2>11 DEF GoOn
      <3>2. left'[c] = Tail(left[c])
        BY <3>1 DEF ServiceInv, TypeInv, TypeOK
      <3>3. /\ Len(left'[c]) = Len(left[c]) - 1
            /\ \A i \in 1..Len(left'[c]) : left'[c][i] = left[c][i + 1]
        BY <3>2, <2>2, <2>3, HeadTailProperties
      <3>4. ASSUME NEW d \in Clients
            PROVE  /\ Len(left'[d]) <= Len(sent[d])
                   /\ \A i \in 1..Len(sent[d]) :
                        /\ i <= Len(sent[d]) - Len(left'[d]) =>
                              sent[d][i] \in Produced'
                        /\ i > Len(sent[d]) - Len(left'[d]) =>
                              sent[d][i] = left'[d][i - (Len(sent[d]) - Len(left'[d]))]
        <4>1. CASE d = c
          <5>1. Len(left'[c]) <= n /\ n - Len(left'[c]) = k + 1
            <6>1. \A l \in Nat \ {0} : k = n - l =>
                    l - 1 <= n /\ n - (l - 1) = k + 1
              BY <2>8, <2>7
            <6>. QED  BY <6>1, <2>3, <2>6, <3>3
          <5>2. ASSUME NEW i \in 1..n, i > k + 1
                PROVE  sent[c][i] = left'[c][i - (k + 1)]
            <6>1. sent[c][i] = left[c][i - k]
              <7>1. i > k
                BY <5>2, <2>8
              <7>. QED  BY <7>1, <2>5
            <6>2. i - (k + 1) \in 1..Len(left'[c])
              <7>1. Len(left'[c]) \in Nat
                BY <1>1, LenProperties DEF TypeInv, TypeOK
              <7>2. Len(left'[c]) = n - (k + 1)
                BY <7>1, <5>1, <2>8, <2>7
              <7>3. i - (k + 1) \in 1..(n - (k + 1))
                BY <5>2, <2>8, <2>7
              <7>. QED  BY <7>2, <7>3
            <6>3. left'[c][i - (k + 1)] = left[c][(i - (k + 1)) + 1]
              BY <6>2, <3>3
            <6>4. (i - (k + 1)) + 1 = i - k
              BY <5>2, <2>8
            <6>. QED  BY <6>1, <6>3, <6>4
          <5>. QED  BY <4>1, <5>1, <5>2, <2>1, <2>10
        <4>2. CASE d # c
          <5>1. left'[d] = left[d]
            BY <3>1, <4>2 DEF ServiceInv, TypeInv, TypeOK
          <5>. QED  BY <5>1, <1>2 DEF ServiceInv, RestIsProduced
        <4>. QED  BY <4>1, <4>2
      <3>5. RestIsProduced'
        BY <3>1, <3>4 DEF RestIsProduced
      <3>6. AcceptedIsProduced'
        BY <3>1, <1>2
      <3>. QED  BY <1>1, <3>5, <3>6 DEF ServiceInv
    <2>12. CASE ~(Len(left[c]) > 1)
      <3>1. accepted' = accepted \cup Range(sent[c]) /\ Return(c)
        BY <2>2, <2>12 DEF GoOn
      <3>2. k + 1 = n
        BY <2>3, <2>6, <2>7, <2>12
      <3>3. \A m \in Range(sent[c]) : m \in Produced'
        <4>1. DOMAIN sent[c] = 1..n
          BY <2>1, <2>3, LenProperties
        <4>2. \A i \in 1..n : i <= n
          OBVIOUS
        <4>. QED  BY <4>1, <4>2, <3>2, <2>10 DEF Range
      <3>4. AcceptedIsProduced'
        BY <3>1, <3>3, <1>2
      <3>. QED  BY <1>1, <1>5, <3>1, <3>4 DEF ServiceInv
    <2>. QED  BY <2>11, <2>12
  <1>7. ASSUME NEW c \in Clients, ProduceFails(c)
        PROVE  ServiceInv'
    <2>1. accepted' = accepted
      BY <1>7 DEF ProduceFails
    <2>2. AcceptedIsProduced'
      BY <2>1, <1>2
    <2>3. CASE UNCHANGED <<sent, left>>
      BY <2>1, <2>3, <1>3 DEF service
    <2>4. CASE Return(c)
      BY <1>1, <2>2, <2>4, <1>5 DEF ServiceInv
    <2>. QED  BY <1>7, <2>3, <2>4 DEF ProduceFails
  <1>8. \/ \E c \in Clients : Send(c) \/ Produce(c) \/ ProduceFails(c)
        \/ UNCHANGED service
    BY DEF Next, Consume, FetchMessage, Process, ProcessFails, GoTo,
           CommitMessages, CommitFails, Rejoin, Restart, vars
  <1>. QED  BY <1>3, <1>4, <1>6, <1>7, <1>8

(* A trace that POST /traces answered with 200 is in the log, whatever     *)
(* calls to Kafka failed or were repeated while it was produced.           *)
THEOREM AcceptedTracesAreInTheLog == Spec => []AcceptedIsProduced
  <1>1. Init => ServiceInv
    <2>. SUFFICES ASSUME Init
                 PROVE  ServiceInv
      OBVIOUS
    <2>1. TypeInv
      BY InitTypes
    <2>2. Len(<<>>) = 0
      BY EmptySeq
    <2>3. RestIsProduced
      BY <2>2 DEF Init, RestIsProduced
    <2>4. AcceptedIsProduced
      BY DEF Init, AcceptedIsProduced
    <2>. QED  BY <2>1, <2>3, <2>4 DEF ServiceInv
  <1>2. ServiceInv /\ [Next]_vars => ServiceInv'
    BY ServiceInvStep
  <1>3. ServiceInv => AcceptedIsProduced
    BY DEF ServiceInv
  <1>. QED  BY <1>1, <1>2, <1>3, PTL DEF Spec

-----------------------------------------------------------------------------
(* The consumer. Whatever the reader has passed is handled, except for the *)
(* message in hand, and that one is as far as the next step says.          *)

WrittenSoFar(o) ==
    /\ pc = "insertTrace" => payload[At(o).trace] # {}
    /\ pc = "insertSpans" =>
          /\ payload[At(o).trace] # {}
          /\ traceRows[At(o)] > 0
    /\ pc = "commit" => Handled(o[1], o[2])

PassedIsHandled ==
    \A p \in Partitions : \A i \in 1..position[p] :
        Handled(p, i) \/ <<p, i>> \in current

BeforeCurrentIsHandled ==
    \A o \in current : \A i \in 1..(o[2] - 1) : Handled(o[1], i)

ConsumerInv ==
    /\ TypeInv
    /\ \A o, q \in current : o = q
    /\ pc = "fetch" => current = {}
    /\ \A o \in current : WrittenSoFar(o)
    /\ PassedIsHandled
    /\ BeforeCurrentIsHandled
    /\ CommittedIsHandled

LEMMA HandledForEver ==
  ASSUME TypeInv, TypeInv', LogGrows, RowsGrow,
         NEW p \in Partitions, NEW i \in 1..Len(topic[p]), Handled(p, i)
  PROVE  Handled(p, i)'
  <1>1. topic'[p][i] = topic[p][i]
    BY DEF LogGrows
  <1>2. topic[p][i] \in Messages
    BY ElementOfSeq DEF TypeInv, TypeOK
  <1>3. topic[p][i].trace \in Traces
    BY <1>2, MessageFields
  <1>4. CASE <<p, i>> \in logged
    BY <1>4 DEF Handled, RowsGrow
  <1>5. CASE Stored(topic[p][i])
    <2>. DEFINE m == topic[p][i]
    <2>1. /\ traceRows[m] \in Nat /\ traceRows'[m] \in Nat
          /\ spanRows[m] \in Nat /\ spanRows'[m] \in Nat
      BY <1>2 DEF TypeInv, TypeOK
    <2>2. /\ payload[m.trace] # {} => payload'[m.trace] # {}
          /\ traceRows[m] <= traceRows'[m] /\ spanRows[m] <= spanRows'[m]
      BY <1>2, <1>3 DEF RowsGrow
    <2>3. /\ payload'[m.trace] # {} /\ traceRows'[m] > 0
          /\ m.spans # {} => spanRows'[m] > 0
      BY <1>5, <2>1, <2>2 DEF Stored
    <2>. QED  BY <1>1, <2>3 DEF Handled, Stored
  <1>. QED  BY <1>4, <1>5 DEF Handled

(* A step of a client, or one that changes no more than the reader's       *)
(* position, leaves what is handled handled and the message in hand there. *)
LEMMA ConsumerIdles ==
  ASSUME ConsumerInv, TypeInv', LogGrows, RowsGrow,
         UNCHANGED <<committed, pc, current, stores, logged>>,
         position' = position \/ position' = committed
  PROVE  ConsumerInv'
  <1>0. TypeInv /\ TypeOK
    BY DEF ConsumerInv, TypeInv
  <1>1. \A p \in Partitions : \A i \in 1..Len(topic[p]) :
           Handled(p, i) => Handled(p, i)'
    BY <1>0, HandledForEver
  <1>2. \A p \in Partitions :
           /\ position[p] \in Nat /\ position[p] <= Len(topic[p])
           /\ committed[p] \in Nat /\ committed[p] <= Len(topic[p])
           /\ Len(topic[p]) \in Nat /\ Len(topic'[p]) \in Nat
           /\ DOMAIN topic[p] = 1..Len(topic[p])
           /\ DOMAIN topic'[p] = 1..Len(topic'[p])
    BY <1>0, LenProperties, ConstantsAssumption DEF TypeInv, TypeOK, ReaderInLog
  <1>3. \A o \in current :
           /\ o[1] \in Partitions /\ o[2] \in 1..Len(topic[o[1]])
           /\ At(o)' = At(o)
    <2>. SUFFICES ASSUME NEW o \in current
                 PROVE  /\ o[1] \in Partitions /\ o[2] \in 1..Len(topic[o[1]])
                        /\ topic'[o[1]][o[2]] = topic[o[1]][o[2]]
      BY DEF At
    <2>1. o[1] \in Partitions /\ o[2] \in 1..Len(topic[o[1]])
      BY <1>0, CurrentIsMessage DEF TypeInv, ReaderInLog
    <2>. QED  BY <2>1 DEF LogGrows
  <1>4. \A p \in Partitions : \A i \in 1..committed[p] :
           Handled(p, i) /\ Handled(p, i)'
    BY <1>1, <1>2 DEF ConsumerInv, CommittedIsHandled
  <1>5. CommittedIsHandled'
    BY <1>2, <1>4 DEF CommittedIsHandled, LogGrows
  <1>6. PassedIsHandled'
    <2>1. CASE position' = committed
      BY <1>4, <2>1 DEF PassedIsHandled
    <2>2. CASE position' = position
      <3>. SUFFICES ASSUME NEW p \in Partitions, NEW i \in 1..position[p]
                   PROVE  Handled(p, i)' \/ <<p, i>> \in current
        BY <2>2 DEF PassedIsHandled
      <3>1. i \in 1..Len(topic[p])
        BY <1>2
      <3>2. Handled(p, i) \/ <<p, i>> \in current
        BY DEF ConsumerInv, PassedIsHandled
      <3>. QED  BY <3>1, <3>2, <1>1
    <2>. QED  BY <2>1, <2>2
  <1>7. BeforeCurrentIsHandled'
    BY <1>1, <1>2, <1>3 DEF ConsumerInv, BeforeCurrentIsHandled
  <1>8. ASSUME NEW o \in current
        PROVE  WrittenSoFar(o)'
    <2>1. WrittenSoFar(o)
      BY DEF ConsumerInv
    <2>2. Handled(o[1], o[2]) => Handled(o[1], o[2])'
      BY <1>1, <1>3
    <2>. QED  BY <1>3, <2>1, <2>2 DEF WrittenSoFar, stores
  <1>. QED  BY <1>5, <1>6, <1>7, <1>8 DEF ConsumerInv

LEMMA FetchStep ==
  ASSUME ConsumerInv, TypeInv', FetchMessage
  PROVE  ConsumerInv'
  <1>1. PICK p \in Partitions :
              /\ position[p] < Len(topic[p])
              /\ position' = [position EXCEPT ![p] = @ + 1]
              /\ current' = {<<p, position[p] + 1>>}
    BY DEF FetchMessage
  <1>2. /\ pc = "fetch" /\ pc' = "put"
        /\ UNCHANGED <<topic, committed, stores, logged>>
    BY DEF FetchMessage
  <1>3. position[p] \in Nat
    BY ConstantsAssumption DEF ConsumerInv, TypeInv, TypeOK
  <1>4. \A q \in Partitions : \A i \in 1..position[q] : Handled(q, i)
    BY <1>2 DEF ConsumerInv, PassedIsHandled
  <1>5. \A q, i : Handled(q, i)' <=> Handled(q, i)
    BY <1>2 DEF Handled, Stored, stores
  <1>6. PassedIsHandled'
    <2>. SUFFICES ASSUME NEW q \in Partitions, NEW i \in 1..position'[q]
                 PROVE  Handled(q, i)' \/ <<q, i>> \in current'
      BY DEF PassedIsHandled
    <2>1. CASE i \in 1..position[q]
      BY <2>1, <1>4, <1>5
    <2>2. CASE i \notin 1..position[q]
      <3>1. q = p
        BY <2>2, <1>1 DEF ConsumerInv, TypeInv, TypeOK
      <3>2. position'[p] = position[p] + 1
        BY <1>1 DEF ConsumerInv, TypeInv, TypeOK
      <3>3. i = position[p] + 1
        BY <2>2, <3>1, <3>2, <1>3
      <3>. QED  BY <3>1, <3>3, <1>1
    <2>. QED  BY <2>1, <2>2
  <1>7. BeforeCurrentIsHandled'
    <2>. SUFFICES ASSUME NEW i \in 1..((position[p] + 1) - 1)
                 PROVE  Handled(p, i)'
      BY <1>1 DEF BeforeCurrentIsHandled
    <2>1. i \in 1..position[p]
      BY <1>3
    <2>. QED  BY <2>1, <1>4, <1>5
  <1>8. CommittedIsHandled'
    BY <1>2, <1>5 DEF ConsumerInv, CommittedIsHandled
  <1>9. \A o \in current' : WrittenSoFar(o)'
    BY <1>2 DEF WrittenSoFar
  <1>. QED  BY <1>1, <1>2, <1>6, <1>7, <1>8, <1>9 DEF ConsumerInv

LEMMA ProcessStep ==
  ASSUME ConsumerInv, TypeInv', RowsGrow, Process \/ ProcessFails
  PROVE  ConsumerInv'
  <1>0. TypeInv /\ TypeOK
    BY DEF ConsumerInv, TypeInv
  <1>1. UNCHANGED <<topic, committed, position, current>>
    BY DEF Process, ProcessFails, GoTo
  <1>2. PICK o \in current :
              \/ Process /\ Write(At(o)) /\ pc' = Following(At(o))
              \/ ProcessFails /\ pc' = "commit" /\ logged' = logged \cup current
    BY DEF Process, ProcessFails, GoTo
  <1>3. /\ o[1] \in Partitions /\ o[2] \in 1..Len(topic[o[1]])
        /\ At(o) \in Messages
    BY <1>0, CurrentIsMessage DEF TypeInv, ReaderInLog
  <1>4. o = <<o[1], o[2]>>
    BY <1>0, OffsetsArePairs DEF TypeOK
  <1>5. current = {o}
    BY DEF ConsumerInv
  <1>6. \A p \in Partitions : \A i \in 1..Len(topic[p]) :
           Handled(p, i) => Handled(p, i)'
    BY <1>0, <1>1, HandledForEver, SameLogGrows
  <1>7. \A p \in Partitions :
           /\ position[p] \in Nat /\ position[p] <= Len(topic[p])
           /\ committed[p] \in Nat /\ committed[p] <= Len(topic[p])
           /\ Len(topic[p]) \in Nat
    BY <1>0, LenProperties, ConstantsAssumption DEF TypeInv, TypeOK, ReaderInLog
  <1>8. CommittedIsHandled'
    <2>1. \A p \in Partitions : \A i \in 1..committed[p] :
             i \in DOMAIN topic[p] /\ Handled(p, i) /\ i \in 1..Len(topic[p])
      BY <1>7 DEF ConsumerInv, CommittedIsHandled
    <2>. QED  BY <2>1, <1>1, <1>6 DEF CommittedIsHandled
  <1>9. PassedIsHandled'
    <2>1. \A p \in Partitions : \A i \in 1..position[p] :
             /\ Handled(p, i) \/ <<p, i>> \in current
             /\ i \in 1..Len(topic[p])
      <3>1. \A p \in Partitions : \A i \in 1..position[p] : i \in 1..Len(topic[p])
        BY <1>7
      <3>. QED  BY <3>1 DEF ConsumerInv, PassedIsHandled
    <2>. QED  BY <2>1, <1>1, <1>6 DEF PassedIsHandled
  <1>10. BeforeCurrentIsHandled'
    <2>1. \A i \in 1..(o[2] - 1) : Handled(o[1], i) /\ i \in 1..Len(topic[o[1]])
      BY <1>3, <1>7 DEF ConsumerInv, BeforeCurrentIsHandled
    <2>. QED  BY <2>1, <1>1, <1>3, <1>5, <1>6 DEF BeforeCurrentIsHandled
  <1>11. WrittenSoFar(o)'
    <2>. DEFINE m == At(o)
    <2>1. m.trace \in Traces
      BY <1>3, MessageFields
    <2>2. WrittenSoFar(o)
      BY DEF ConsumerInv
    <2>3. CASE ProcessFails
      <3>1. <<o[1], o[2]>> \in logged' /\ pc' = "commit"
        BY <2>3, <1>2, <1>4 DEF ProcessFails, GoTo
      <3>. QED  BY <3>1 DEF WrittenSoFar, Handled
    <2>4. CASE Process /\ PutPayload(m) /\ pc' = Following(m)
      <3>1. pc' = "insertTrace" /\ payload'[m.trace] = {m}
        BY <2>1, <2>4, <1>0 DEF PutPayload, Following, TypeOK
      <3>. QED  BY <3>1, <1>1 DEF WrittenSoFar, At
    <2>5. CASE Process /\ InsertTrace(m) /\ pc' = Following(m)
      <3>1. /\ payload'[m.trace] # {} /\ traceRows'[m] > 0
            /\ pc' = "insertSpans" \/ (pc' = "commit" /\ m.spans = {})
        <4>1. traceRows[m] \in Nat
          BY <1>0, <1>3 DEF TypeOK
        <4>. QED  BY <4>1, <2>2, <2>5, <1>0, <1>3, SMTT(30)
                    DEF InsertTrace, Following, WrittenSoFar, TypeOK
      <3>. QED  BY <3>1, <1>1 DEF WrittenSoFar, At, Handled, Stored
    <2>6. CASE Process /\ InsertSpans(m) /\ pc' = Following(m)
      <3>1. /\ payload'[m.trace] # {} /\ traceRows'[m] > 0 /\ spanRows'[m] > 0
            /\ pc' = "commit"
        <4>1. spanRows[m] \in Nat
          BY <1>0, <1>3 DEF TypeOK
        <4>. QED  BY <4>1, <2>2, <2>6, <1>0, <1>3, SMTT(30)
                    DEF InsertSpans, Following, WrittenSoFar, TypeOK
      <3>. QED  BY <3>1, <1>1 DEF WrittenSoFar, At, Handled, Stored
    <2>. QED  BY <1>2, <2>3, <2>4, <2>5, <2>6 DEF Write
  <1>12. pc' # "fetch"
    BY DEF Process, ProcessFails, GoTo, Following
  <1>. QED
    BY <1>1, <1>5, <1>8, <1>9, <1>10, <1>11, <1>12 DEF ConsumerInv

LEMMA CommitStep ==
  ASSUME ConsumerInv, TypeInv', CommitMessages \/ CommitFails
  PROVE  ConsumerInv'
  <1>0. TypeInv /\ TypeOK
    BY DEF ConsumerInv, TypeInv
  <1>1. /\ pc = "commit" /\ pc' = "fetch" /\ current' = {}
        /\ UNCHANGED <<topic, position, stores, logged>>
    BY DEF CommitMessages, CommitFails
  <1>2. \A q, i : Handled(q, i)' <=> Handled(q, i)
    BY <1>1 DEF Handled, Stored, stores
  <1>3. ASSUME NEW o \in current
        PROVE  \A i \in 1..o[2] :
                  i \in DOMAIN topic[o[1]] /\ Handled(o[1], i)
    <2>1. o[1] \in Partitions /\ o[2] \in 1..Len(topic[o[1]])
      BY <1>0, CurrentIsMessage DEF TypeInv, ReaderInLog
    <2>2. DOMAIN topic[o[1]] = 1..Len(topic[o[1]]) /\ Len(topic[o[1]]) \in Nat
      BY <2>1, <1>0, LenProperties DEF TypeOK
    <2>3. Handled(o[1], o[2])
      BY <1>1 DEF ConsumerInv, WrittenSoFar
    <2>4. \A i \in 1..o[2] : i \in 1..(o[2] - 1) \/ i = o[2]
      BY <2>1, <2>2
    <2>5. \A i \in 1..o[2] : i \in 1..Len(topic[o[1]])
      BY <2>1, <2>2
    <2>. QED  BY <2>2, <2>3, <2>4, <2>5 DEF ConsumerInv, BeforeCurrentIsHandled
  <1>4. PassedIsHandled'
    <2>. SUFFICES ASSUME NEW p \in Partitions, NEW i \in 1..position[p]
                 PROVE  Handled(p, i)
      BY <1>1, <1>2 DEF PassedIsHandled
    <2>1. CASE <<p, i>> \in current
      <3>1. <<p, i>>[1] = p /\ <<p, i>>[2] = i /\ i \in 1..i
        OBVIOUS
      <3>. QED  BY <2>1, <3>1, <1>3
    <2>. QED  BY <2>1 DEF ConsumerInv, PassedIsHandled
  <1>5. CommittedIsHandled'
    <2>1. CASE UNCHANGED committed
      BY <2>1, <1>1, <1>2 DEF ConsumerInv, CommittedIsHandled
    <2>2. CASE CommitCurrent
      <3>1. PICK o \in current : committed' = [committed EXCEPT ![o[1]] = o[2]]
        BY <2>2 DEF CommitCurrent
      <3>2. \A p \in Partitions \ {o[1]} : committed'[p] = committed[p]
        BY <3>1, <1>0 DEF TypeOK
      <3>3. o[1] \in Partitions => committed'[o[1]] = o[2]
        BY <3>1, <1>0 DEF TypeOK
      <3>. SUFFICES ASSUME NEW p \in Partitions, NEW i \in 1..committed'[p]
                   PROVE  i \in DOMAIN topic[p] /\ Handled(p, i)
        BY <1>1, <1>2 DEF CommittedIsHandled
      <3>4. CASE p = o[1]
        BY <3>3, <3>4, <1>3
      <3>5. CASE p # o[1]
        BY <3>2, <3>5 DEF ConsumerInv, CommittedIsHandled
      <3>. QED  BY <3>4, <3>5
    <2>. QED  BY <2>1, <2>2 DEF CommitMessages, CommitFails
  <1>. QED
    BY <1>1, <1>4, <1>5 DEF ConsumerInv, BeforeCurrentIsHandled

LEMMA RestartStep ==
  ASSUME ConsumerInv, TypeInv', Restart
  PROVE  ConsumerInv'
  <1>1. /\ pc' = "fetch" /\ current' = {} /\ position' = committed
        /\ UNCHANGED <<topic, committed, stores, logged>>
    BY DEF Restart
  <1>2. \A q, i : Handled(q, i)' <=> Handled(q, i)
    BY <1>1 DEF Handled, Stored, stores
  <1>. QED
    BY <1>1, <1>2 DEF ConsumerInv, PassedIsHandled, BeforeCurrentIsHandled,
                      CommittedIsHandled

LEMMA ConsumerInvStep ==
  ASSUME ConsumerInv, [Next]_vars
  PROVE  ConsumerInv'
  <1>1. TypeInv' /\ LogGrows /\ RowsGrow
    BY StepTypes DEF ConsumerInv
  <1>2. CASE \/ \E c \in Clients : Send(c) \/ Produce(c) \/ ProduceFails(c)
             \/ Rejoin
             \/ UNCHANGED vars
    <2>1. /\ UNCHANGED <<committed, pc, current, stores, logged>>
          /\ position' = position \/ position' = committed
      BY <1>2 DEF Send, Produce, ProduceFails, Rejoin, vars, consumer
    <2>. QED  BY <1>1, <2>1, ConsumerIdles
  <1>3. CASE FetchMessage
    BY <1>1, <1>3, FetchStep
  <1>4. CASE Process \/ ProcessFails
    BY <1>1, <1>4, ProcessStep
  <1>5. CASE CommitMessages \/ CommitFails
    BY <1>1, <1>5, CommitStep
  <1>6. CASE Restart
    BY <1>1, <1>6, RestartStep
  <1>. QED  BY <1>2, <1>3, <1>4, <1>5, <1>6 DEF Next, Consume

LEMMA InitConsumerInv == Init => ConsumerInv
  <1>. SUFFICES ASSUME Init
               PROVE  ConsumerInv
    OBVIOUS
  <1>1. TypeInv
    BY InitTypes
  <1>2. \A i : i \notin 1..0
    OBVIOUS
  <1>. QED
    BY <1>1, <1>2 DEF Init, ConsumerInv, PassedIsHandled, BeforeCurrentIsHandled,
                      CommittedIsHandled

LEMMA ConsumerInvAlways == Spec => []ConsumerInv
  <1>1. ConsumerInv /\ [Next]_vars => ConsumerInv'
    BY ConsumerInvStep
  <1>. QED  BY <1>1, InitConsumerInv, PTL DEF Spec

(* No message is committed that was neither stored nor reported, although  *)
(* the consumer may be restarted, be put back in the middle of a message,  *)
(* or fail to commit.                                                      *)
THEOREM NothingIsSkipped == Spec => []CommittedIsHandled
  <1>1. ConsumerInv => CommittedIsHandled
    BY DEF ConsumerInv
  <1>. QED  BY <1>1, ConsumerInvAlways, PTL

-----------------------------------------------------------------------------
(* The rows. A trace row waits for its payload, span rows for their trace. *)

RowsInv ==
    /\ ConsumerInv
    /\ \A t \in Traces : \A n \in payload[t] : n.trace = t
    /\ \A m \in Messages : traceRows[m] > 0 => payload[m.trace] # {}
    /\ SpansHaveTrace
    /\ pc = "insertSpans" =>
          \A o \in current : spanRows[At(o)] < traceRows[At(o)]

LEMMA RowsInvStep ==
  ASSUME RowsInv, [Next]_vars
  PROVE  RowsInv'
  <1>1. ConsumerInv'
    BY ConsumerInvStep DEF RowsInv
  <1>2. TypeInv /\ TypeOK /\ LogGrows
    BY StepTypes DEF RowsInv, ConsumerInv, TypeInv
  <1>3. \A o \in current :
           /\ o[1] \in Partitions /\ o[2] \in 1..Len(topic[o[1]])
           /\ At(o) \in Messages
    BY <1>2, CurrentIsMessage DEF TypeInv, ReaderInLog
  <1>4. CASE /\ UNCHANGED stores
             /\ pc' = "insertSpans" =>
                   pc = "insertSpans" /\ UNCHANGED current
    <2>1. \A o \in current : At(o)' = At(o)
      BY <1>3, <1>2 DEF At, LogGrows
    <2>. QED  BY <1>1, <1>4, <2>1 DEF RowsInv, SpansHaveTrace, stores
  <1>5. ASSUME NEW o \in current, Process, Write(At(o)), pc' = Following(At(o))
        PROVE  RowsInv'
    <2>. DEFINE m == At(o)
    <2>1. /\ m \in Messages /\ m.trace \in Traces
          /\ \A n \in Messages : n.trace \in Traces
          /\ \A n \in Messages : traceRows[n] \in Nat /\ spanRows[n] \in Nat
      BY <1>2, <1>3, MessageFields DEF TypeOK
    <2>2. UNCHANGED <<topic, current>> /\ current = {o}
      BY <1>5 DEF Process, GoTo, RowsInv, ConsumerInv
    <2>3. WrittenSoFar(o)
      BY DEF RowsInv, ConsumerInv
    <2>4. At(o)' = m
      BY <2>2 DEF At
    <2>5. CASE PutPayload(m)
      <3>1. /\ pc = "put" /\ pc' = "insertTrace"
            /\ payload' = [payload EXCEPT ![m.trace] = {m}]
            /\ UNCHANGED <<traceRows, spanRows>>
        BY <2>5, <1>5 DEF PutPayload, Following
      <3>2. /\ payload'[m.trace] = {m}
            /\ \A t \in Traces \ {m.trace} : payload'[t] = payload[t]
        BY <3>1, <2>1, <1>2 DEF TypeOK
      <3>. QED  BY <1>1, <2>1, <3>1, <3>2 DEF RowsInv, SpansHaveTrace
    <2>6. CASE InsertTrace(m)
      <3>1. /\ pc = "insertTrace" /\ payload' = payload /\ spanRows' = spanRows
            /\ traceRows' = [traceRows EXCEPT ![m] = @ + 1]
        BY <2>6 DEF InsertTrace
      <3>2. /\ traceRows'[m] = traceRows[m] + 1
            /\ \A n \in Messages \ {m} : traceRows'[n] = traceRows[n]
        BY <3>1, <2>1, <1>2 DEF TypeOK
      <3>3. payload[m.trace] # {}
        BY <2>3, <3>1 DEF WrittenSoFar
      <3>4. SpansHaveTrace' /\ spanRows'[m] < traceRows'[m]
        BY <3>1, <3>2, <2>1 DEF RowsInv, SpansHaveTrace
      <3>. QED  BY <1>1, <2>1, <2>2, <2>4, <3>1, <3>2, <3>3, <3>4 DEF RowsInv
    <2>7. CASE InsertSpans(m)
      <3>1. /\ pc = "insertSpans" /\ payload' = payload /\ traceRows' = traceRows
            /\ spanRows' = [spanRows EXCEPT ![m] = @ + 1]
            /\ pc' = "commit"
        BY <2>7, <1>5 DEF InsertSpans, Following
      <3>2. /\ spanRows'[m] = spanRows[m] + 1
            /\ \A n \in Messages \ {m} : spanRows'[n] = spanRows[n]
        BY <3>1, <2>1, <1>2 DEF TypeOK
      <3>3. SpansHaveTrace'
        BY <3>1, <3>2, <2>1 DEF RowsInv, SpansHaveTrace
      <3>. QED  BY <1>1, <3>1, <3>3 DEF RowsInv
    <2>. QED  BY <1>5, <2>5, <2>6, <2>7 DEF Write
  <1>6. CASE ProcessFails
    <2>1. pc' = "commit" /\ UNCHANGED <<topic, current>>
      BY <1>6 DEF ProcessFails, GoTo
    <2>2. PICK o \in current : Write(At(o)) \/ UNCHANGED stores
      BY <1>6 DEF ProcessFails
    <2>. DEFINE m == At(o)
    <2>3. /\ m \in Messages /\ m.trace \in Traces
          /\ \A n \in Messages : n.trace \in Traces
          /\ \A n \in Messages : traceRows[n] \in Nat /\ spanRows[n] \in Nat
      BY <1>2, <1>3, MessageFields DEF TypeOK
    <2>4. WrittenSoFar(o)
      BY DEF RowsInv, ConsumerInv
    <2>5. CASE UNCHANGED stores
      BY <2>1, <2>5, <1>4
    <2>6. CASE PutPayload(m)
      <3>1. /\ payload' = [payload EXCEPT ![m.trace] = {m}]
            /\ UNCHANGED <<traceRows, spanRows>>
        BY <2>6 DEF PutPayload
      <3>2. /\ payload'[m.trace] = {m}
            /\ \A t \in Traces \ {m.trace} : payload'[t] = payload[t]
        BY <3>1, <2>3, <1>2 DEF TypeOK
      <3>. QED  BY <1>1, <2>1, <2>3, <3>1, <3>2 DEF RowsInv, SpansHaveTrace
    <2>7. CASE InsertTrace(m)
      <3>1. /\ pc = "insertTrace" /\ payload' = payload /\ spanRows' = spanRows
            /\ traceRows' = [traceRows EXCEPT ![m] = @ + 1]
        BY <2>7 DEF InsertTrace
      <3>2. /\ traceRows'[m] = traceRows[m] + 1
            /\ \A n \in Messages \ {m} : traceRows'[n] = traceRows[n]
        BY <3>1, <2>3, <1>2 DEF TypeOK
      <3>3. payload[m.trace] # {}
        BY <2>4, <3>1 DEF WrittenSoFar
      <3>4. SpansHaveTrace'
        BY <3>1, <3>2, <2>3 DEF RowsInv, SpansHaveTrace
      <3>. QED  BY <1>1, <2>1, <2>3, <3>1, <3>2, <3>3, <3>4 DEF RowsInv
    <2>8. CASE InsertSpans(m)
      <3>1. /\ pc = "insertSpans" /\ payload' = payload /\ traceRows' = traceRows
            /\ spanRows' = [spanRows EXCEPT ![m] = @ + 1]
        BY <2>8 DEF InsertSpans
      <3>2. /\ spanRows'[m] = spanRows[m] + 1
            /\ \A n \in Messages \ {m} : spanRows'[n] = spanRows[n]
        BY <3>1, <2>3, <1>2 DEF TypeOK
      <3>3. SpansHaveTrace'
        BY <3>1, <3>2, <2>3 DEF RowsInv, SpansHaveTrace
      <3>. QED  BY <1>1, <2>1, <3>1, <3>3 DEF RowsInv
    <2>. QED  BY <2>2, <2>5, <2>6, <2>7, <2>8 DEF Write
  <1>7. CASE Process
    <2>1. PICK o \in current : Write(At(o)) /\ pc' = Following(At(o))
      BY <1>7 DEF Process, GoTo
    <2>. QED  BY <1>5, <1>7, <2>1
  <1>8. \/ Process \/ ProcessFails
        \/ /\ UNCHANGED stores
           /\ pc' = "insertSpans" => pc = "insertSpans" /\ UNCHANGED current
    BY DEF Next, Consume, Send, Produce, ProduceFails, FetchMessage,
           CommitMessages, CommitFails, Rejoin, Restart, vars, consumer
  <1>. QED  BY <1>4, <1>6, <1>7, <1>8

LEMMA RowsInvAlways == Spec => []RowsInv
  <1>1. Init => RowsInv
    BY InitConsumerInv DEF Init, RowsInv, SpansHaveTrace
  <1>2. RowsInv /\ [Next]_vars => RowsInv'
    BY RowsInvStep
  <1>. QED  BY <1>1, <1>2, PTL DEF Spec

(* Spans never come to ClickHouse without their trace, whichever writes    *)
(* fail, take effect although they fail, or are repeated.                  *)
THEOREM NoOrphanSpans == Spec => []SpansHaveTrace
  <1>1. RowsInv => SpansHaveTrace
    BY DEF RowsInv
  <1>. QED  BY <1>1, RowsInvAlways, PTL

(* As long as clients send traces whole, the payload that a row points to  *)
(* is there and has every span of the row.                                 *)
THEOREM RowsHavePayload ==
  ASSUME WholeTraces
  PROVE  Spec => []PayloadCoversSpans
  <1>1. RowsInv => PayloadCoversSpans
    <2>. SUFFICES ASSUME RowsInv, NEW m \in Messages,
                        traceRows[m] + spanRows[m] > 0
                 PROVE  \E n \in payload[m.trace] : m.spans \subseteq n.spans
      BY DEF PayloadCoversSpans
    <2>1. m.trace \in Traces
      BY MessageFields
    <2>2. traceRows[m] \in Nat /\ spanRows[m] \in Nat
      BY DEF RowsInv, ConsumerInv, TypeInv, TypeOK
    <2>3. traceRows[m] > 0
      BY <2>2 DEF RowsInv, SpansHaveTrace
    <2>4. PICK n \in payload[m.trace] : TRUE
      BY <2>3 DEF RowsInv
    <2>5. n \in Messages /\ n.trace = m.trace
      BY <2>1 DEF RowsInv, ConsumerInv, TypeInv, TypeOK
    <2>6. n = m
      BY <2>5 DEF WholeTraces
    <2>. QED  BY <2>6
  <1>. QED  BY <1>1, RowsInvAlways, PTL

-----------------------------------------------------------------------------
(* Duplicates. Between two restarts the consumer's offset only grows, so a  *)
(* message in the log is written at most once: its rows are bounded by its  *)
(* copies in the log for every restart there was, and the copies that have  *)
(* been read since the last one.                                           *)

CopiesOf(m) == {o \in Offsets : o[2] \in DOMAIN topic[o[1]] /\ At(o) = m}

ReadCopies(m) == {o \in CopiesOf(m) : o[2] <= position[o[1]]}

\* The trace row of the message the consumer works on is still to come.
Pending(m) == pc \in {"put", "insertTrace"} /\ \E o \in current : At(o) = m

RowsPerPass ==
    \A m \in Messages :
        /\ IsFiniteSet(CopiesOf(m))
        /\ traceRows[m] + (IF Pending(m) THEN 1 ELSE 0)
              <= Cardinality(CopiesOf(m)) * restarts + Cardinality(ReadCopies(m))

DuplicatesInv == TypeInv /\ RowsPerPass

LEMMA CopiesAreNumbers ==
  ASSUME DuplicatesInv, NEW m \in Messages
  PROVE  /\ Cardinality(CopiesOf(m)) \in Nat /\ Cardinality(ReadCopies(m)) \in Nat
         /\ Cardinality(ReadCopies(m)) <= Cardinality(CopiesOf(m))
         /\ IsFiniteSet(CopiesOf(m)) /\ IsFiniteSet(ReadCopies(m))
         /\ traceRows[m] \in Nat /\ restarts \in Nat
  <1>1. IsFiniteSet(CopiesOf(m)) /\ ReadCopies(m) \in SUBSET CopiesOf(m)
    BY DEF DuplicatesInv, RowsPerPass, ReadCopies
  <1>2. IsFiniteSet(ReadCopies(m))
        /\ Cardinality(ReadCopies(m)) <= Cardinality(CopiesOf(m))
    BY <1>1, FS_Subset
  <1>3. traceRows[m] \in Nat /\ restarts \in Nat
    BY ConstantsAssumption DEF DuplicatesInv, TypeInv, TypeOK
  <1>. QED BY <1>1, <1>2, <1>3, FS_CardinalityType

(* More copies of a message allow as many rows of it as before.             *)
LEMMA MoreCopies ==
  ASSUME NEW copies \in Nat, NEW more \in Nat, NEW read \in Nat, NEW r \in Nat,
         NEW rows \in Nat, copies <= more, rows <= copies * r + read
  PROVE  rows <= more * r + read
  <1>1. copies * r <= more * r
    OBVIOUS
  <1>2. copies * r \in Nat /\ more * r \in Nat
    OBVIOUS
  <1>3. PICK a \in Nat, b \in Nat : a = copies * r /\ b = more * r
    BY <1>2
  <1>. QED BY <1>1, <1>3

(* A restart begins a pass over copies that had all been read at most once. *)
LEMMA OnePassMore ==
  ASSUME NEW copies \in Nat, NEW read \in Nat, NEW again \in Nat, NEW r \in Nat,
         NEW rows \in Nat, read <= copies, rows <= copies * r + read
  PROVE  rows <= copies * (r + 1) + again
  <1>1. copies * (r + 1) = copies * r + copies /\ copies * r \in Nat
    OBVIOUS
  <1>2. PICK a \in Nat : a = copies * r
    BY <1>1
  <1>. QED BY <1>1, <1>2

(* Producing adds at most one copy, behind what has been read.              *)
LEMMA ProduceKeepsDuplicates ==
  ASSUME DuplicatesInv, NEW c \in Clients,
         Send(c) \/ Produce(c) \/ ProduceFails(c)
  PROVE  RowsPerPass'
  <1>1. TypeInv /\ TypeInv' /\ LogGrows
    BY ServiceTypes DEF DuplicatesInv
  <1>2. UNCHANGED <<position, pc, current, traceRows, restarts>>
    BY DEF Send, Produce, ProduceFails, consumer, stores
  <1>3. ASSUME NEW p \in Partitions
        PROVE  /\ Len(topic[p]) \in Nat /\ DOMAIN topic[p] = 1..Len(topic[p])
               /\ Len(topic'[p]) \in Nat /\ DOMAIN topic'[p] = 1..Len(topic'[p])
               /\ position[p] \in Nat /\ position[p] <= Len(topic[p])
    BY <1>1, LenProperties, ConstantsAssumption DEF TypeInv, TypeOK, ReaderInLog
  <1>4. PICK grown : \A o \in Offsets :
               o[2] \in DOMAIN topic'[o[1]] /\ o[2] \notin DOMAIN topic[o[1]]
                  => o = grown
    <2>1. left[c] # <<>> => Head(left[c]) \in Messages
      BY <1>1, HeadTailProperties DEF TypeInv, TypeOK
    <2>2. CASE UNCHANGED topic
      BY <2>2
    <2>3. CASE left[c] # <<>> /\ AppendToLog(Head(left[c]))
      <3>1. PICK p \in Partitions :
                    topic' = [topic EXCEPT ![p] = Append(@, Head(left[c]))]
        BY <2>3 DEF AppendToLog
      <3>2. topic'[p] = Append(topic[p], Head(left[c]))
            /\ \A q \in Partitions \ {p} : topic'[q] = topic[q]
        BY <1>1, <3>1 DEF TypeInv, TypeOK
      <3>3. Len(topic'[p]) = Len(topic[p]) + 1
        BY <1>1, <2>1, <2>3, <3>2, AppendProperties DEF TypeInv, TypeOK
      <3>4. ASSUME NEW o \in Offsets,
                   o[2] \in DOMAIN topic'[o[1]], o[2] \notin DOMAIN topic[o[1]]
            PROVE  o = <<p, Len(topic[p]) + 1>>
        <4>1. o[1] = p
          BY <3>2, <3>4, OffsetsArePairs
        <4>2. o[2] = Len(topic[p]) + 1
          BY <1>3, <3>3, <3>4, <4>1
        <4>. QED BY <4>1, <4>2, OffsetsArePairs
      <3>. QED BY <3>4
    <2>. QED BY <2>2, <2>3 DEF Send, Produce, ProduceFails
  <1>5. ASSUME NEW o \in Offsets, o[2] \in DOMAIN topic[o[1]]
        PROVE  o[2] \in DOMAIN topic'[o[1]] /\ At(o)' = At(o)
    BY <1>1, <1>3, <1>5, OffsetsArePairs DEF LogGrows, At
  <1>6. ASSUME NEW m \in Messages
        PROVE  /\ IsFiniteSet(CopiesOf(m)')
               /\ traceRows'[m] + (IF Pending(m)' THEN 1 ELSE 0)
                     <= Cardinality(CopiesOf(m)') * restarts'
                          + Cardinality(ReadCopies(m)')
    <2>1. CopiesOf(m) \subseteq CopiesOf(m)'
          /\ CopiesOf(m)' \subseteq CopiesOf(m) \cup {grown}
      BY <1>4, <1>5 DEF CopiesOf
    <2>2. IsFiniteSet(CopiesOf(m)')
          /\ Cardinality(CopiesOf(m)) <= Cardinality(CopiesOf(m)')
      <3>1. IsFiniteSet(CopiesOf(m) \cup {grown})
        BY CopiesAreNumbers, FS_AddElement
      <3>2. IsFiniteSet(CopiesOf(m)')
        BY <2>1, <3>1, FS_Subset
      <3>. QED BY <2>1, <3>2, FS_Subset
    <2>3. ReadCopies(m)' = ReadCopies(m)
      <3>1. \A o \in Offsets : o[2] <= position[o[1]] => o[2] \in DOMAIN topic[o[1]]
        BY <1>3, OffsetsArePairs, ConstantsAssumption
      <3>. QED BY <1>2, <1>5, <2>1, <3>1 DEF ReadCopies, CopiesOf
    <2>4. Pending(m)' <=> Pending(m)
      <3>1. ASSUME NEW o \in current
            PROVE  o \in Offsets /\ o[2] \in DOMAIN topic[o[1]]
        <4>1. o \in Offsets /\ o[2] <= Len(topic[o[1]])
          BY <1>1 DEF TypeInv, TypeOK, ReaderInLog
        <4>2. o[1] \in Partitions /\ o[2] \in 1..Len(topic[o[1]])
          BY <1>1, <4>1, CurrentIsMessage DEF TypeInv
        <4>. QED BY <1>3, <4>1, <4>2
      <3>. QED BY <1>2, <1>5, <3>1 DEF Pending
    <2>5. traceRows[m] + (IF Pending(m) THEN 1 ELSE 0)
             <= Cardinality(CopiesOf(m)) * restarts + Cardinality(ReadCopies(m))
      BY DEF DuplicatesInv, RowsPerPass
    <2>6. Cardinality(CopiesOf(m)') \in Nat
      BY <2>2, FS_CardinalityType
    <2>7. PICK rows \in Nat : rows = traceRows[m] + (IF Pending(m) THEN 1 ELSE 0)
      BY CopiesAreNumbers
    <2>8. rows <= Cardinality(CopiesOf(m)') * restarts + Cardinality(ReadCopies(m))
      BY <2>2, <2>5, <2>6, <2>7, CopiesAreNumbers, MoreCopies
    <2>. QED BY <1>2, <2>2, <2>3, <2>4, <2>7, <2>8
  <1>. QED BY <1>6 DEF RowsPerPass

(* Fetching makes one more copy read and one row due.                       *)
LEMMA FetchKeepsDuplicates ==
  ASSUME DuplicatesInv, FetchMessage
  PROVE  RowsPerPass'
  <1>1. PICK p \in Partitions :
              /\ position[p] < Len(topic[p])
              /\ position' = [position EXCEPT ![p] = @ + 1]
              /\ current' = {<<p, position[p] + 1>>}
    BY DEF FetchMessage
  <1>2. pc = "fetch" /\ pc' = "put" /\ UNCHANGED <<topic, traceRows, restarts>>
    BY DEF FetchMessage, stores
  <1>3. PICK o : o = <<p, position[p] + 1>>
    OBVIOUS
  <1>4. /\ Len(topic[p]) \in Nat /\ Len(topic[p]) <= MaxLog
        /\ DOMAIN topic[p] = 1..Len(topic[p]) /\ position[p] \in Nat
        /\ MaxLog \in Nat
    BY LenProperties, ConstantsAssumption DEF DuplicatesInv, TypeInv, TypeOK
  <1>5. /\ o \in Offsets /\ o[1] = p /\ o[2] = position[p] + 1
        /\ o[2] \in DOMAIN topic[p]
    BY <1>1, <1>3, <1>4, OffsetIsItsPair
  <1>6. /\ position'[p] = position[p] + 1
        /\ \A q \in Partitions \ {p} : position'[q] = position[q]
    BY <1>1 DEF DuplicatesInv, TypeInv, TypeOK
  <1>7. ASSUME NEW m \in Messages
        PROVE  /\ IsFiniteSet(CopiesOf(m)')
               /\ traceRows'[m] + (IF Pending(m)' THEN 1 ELSE 0)
                     <= Cardinality(CopiesOf(m)') * restarts'
                          + Cardinality(ReadCopies(m)')
    <2>1. CopiesOf(m)' = CopiesOf(m)
      BY <1>2 DEF CopiesOf, At
    <2>2. \A e \in CopiesOf(m) :
             e[2] <= position'[e[1]] <=> e[2] <= position[e[1]] \/ e = o
      <3>. SUFFICES ASSUME NEW e \in CopiesOf(m)
                    PROVE  e[2] <= position'[e[1]]
                             <=> e[2] <= position[e[1]] \/ e = o
        OBVIOUS
      <3>1. e \in Offsets /\ e[1] \in Partitions /\ e[2] \in Nat /\ e = <<e[1], e[2]>>
        BY OffsetsArePairs, ConstantsAssumption DEF CopiesOf
      <3>2. CASE e[1] # p
        BY <1>5, <1>6, <3>1, <3>2
      <3>3. CASE e[1] = p
        <4>1. e = o <=> e[2] = position[p] + 1
          BY <1>3, <1>5, <3>1, <3>3
        <4>. QED BY <1>4, <1>6, <3>1, <3>3, <4>1
      <3>. QED BY <3>2, <3>3
    <2>3. ReadCopies(m)' = {e \in CopiesOf(m) : e[2] <= position[e[1]] \/ e = o}
      BY <2>1, <2>2 DEF ReadCopies
    <2>4. Pending(m)' <=> At(o) = m
      BY <1>1, <1>2, <1>3 DEF Pending, At
    <2>5. ~Pending(m)
      BY <1>2 DEF Pending
    <2>6. traceRows[m]
             <= Cardinality(CopiesOf(m)) * restarts + Cardinality(ReadCopies(m))
      BY <2>5, CopiesAreNumbers DEF DuplicatesInv, RowsPerPass
    <2>7. PICK a \in Nat : a = Cardinality(CopiesOf(m)) * restarts
      BY CopiesAreNumbers
    <2>8. CASE At(o) = m
      <3>1. o \in CopiesOf(m) /\ o \notin ReadCopies(m)
        BY <1>4, <1>5, <2>8 DEF CopiesOf, ReadCopies
      <3>2. ReadCopies(m)' = ReadCopies(m) \cup {o}
        BY <2>3, <3>1 DEF ReadCopies
      <3>3. Cardinality(ReadCopies(m)') = Cardinality(ReadCopies(m)) + 1
        BY <3>1, <3>2, CopiesAreNumbers, FS_AddElement
      <3>. QED BY <1>2, <2>1, <2>4, <2>6, <2>7, <2>8, <3>3, CopiesAreNumbers
    <2>9. CASE At(o) # m
      <3>1. ReadCopies(m)' = ReadCopies(m)
        BY <2>3, <2>9 DEF ReadCopies, CopiesOf
      <3>. QED BY <1>2, <2>1, <2>4, <2>6, <2>9, <3>1, CopiesAreNumbers
    <2>. QED BY <2>8, <2>9
  <1>. QED BY <1>7 DEF RowsPerPass

(* Steps that leave the log and the offsets write a row at most when one is *)
(* due, and none becomes due.                                              *)
LEMMA SameReadingKeepsDuplicates ==
  ASSUME DuplicatesInv, UNCHANGED <<topic, position, restarts>>,
         \A m \in Messages :
            \/ traceRows'[m] = traceRows[m] /\ (Pending(m)' => Pending(m))
            \/ traceRows'[m] = traceRows[m] + 1 /\ Pending(m) /\ ~Pending(m)'
  PROVE  RowsPerPass'
  <1>1. ASSUME NEW m \in Messages
        PROVE  /\ IsFiniteSet(CopiesOf(m)')
               /\ traceRows'[m] + (IF Pending(m)' THEN 1 ELSE 0)
                     <= Cardinality(CopiesOf(m)') * restarts'
                          + Cardinality(ReadCopies(m)')
    <2>1. CopiesOf(m)' = CopiesOf(m) /\ ReadCopies(m)' = ReadCopies(m)
      BY DEF CopiesOf, ReadCopies, At
    <2>2. PICK bound \in Nat :
             bound = Cardinality(CopiesOf(m)) * restarts
                        + Cardinality(ReadCopies(m))
      BY CopiesAreNumbers
    <2>3. traceRows[m] + (IF Pending(m) THEN 1 ELSE 0) <= bound
      BY <2>2 DEF DuplicatesInv, RowsPerPass
    <2>4. traceRows'[m] + (IF Pending(m)' THEN 1 ELSE 0)
             <= traceRows[m] + (IF Pending(m) THEN 1 ELSE 0)
      BY CopiesAreNumbers
    <2>5. traceRows'[m] + (IF Pending(m)' THEN 1 ELSE 0) \in Nat
      BY CopiesAreNumbers
    <2>6. traceRows'[m] + (IF Pending(m)' THEN 1 ELSE 0) <= bound
      BY <2>3, <2>4, <2>5, CopiesAreNumbers
    <2>. QED BY <2>1, <2>2, <2>6, CopiesAreNumbers
  <1>. QED BY <1>1 DEF RowsPerPass

LEMMA WriteKeepsDuplicates ==
  ASSUME DuplicatesInv, Process \/ ProcessFails
  PROVE  RowsPerPass'
  <1>1. /\ UNCHANGED <<topic, position, current, restarts>>
        /\ \E o \in current : Write(At(o)) \/ UNCHANGED stores
    BY DEF Process, ProcessFails, GoTo
  <1>2. PICK o \in current :
           /\ Write(At(o)) \/ UNCHANGED stores
           /\ pc' = Following(At(o)) \/ pc' = "commit"
    BY DEF Process, ProcessFails, GoTo
  <1>3. At(o) \in Messages
    BY CurrentIsMessage DEF DuplicatesInv, TypeInv, ReaderInLog
  <1>4. pc \in {"put", "insertTrace", "insertSpans"}
    BY DEF Process, ProcessFails, Write, PutPayload, InsertTrace, InsertSpans
  <1>5. pc' \in {"put", "insertTrace"} => pc = "put"
    BY <1>2, <1>4 DEF Following
  <1>6. \A m \in Messages : Pending(m)' => Pending(m)
    BY <1>1, <1>5 DEF Pending, At
  <1>7. CASE InsertTrace(At(o))
    <2>1. /\ pc = "insertTrace"
          /\ traceRows' = [traceRows EXCEPT ![At(o)] = @ + 1]
      BY <1>7 DEF InsertTrace
    <2>2. \A m \in Messages : ~Pending(m)'
      BY <1>5, <2>1 DEF Pending
    <2>3. Pending(At(o))
      BY <2>1 DEF Pending
    <2>4. /\ traceRows'[At(o)] = traceRows[At(o)] + 1
          /\ \A m \in Messages \ {At(o)} : traceRows'[m] = traceRows[m]
      BY <1>3, <2>1 DEF DuplicatesInv, TypeInv, TypeOK
    <2>5. \A m \in Messages :
             \/ traceRows'[m] = traceRows[m] /\ (Pending(m)' => Pending(m))
             \/ traceRows'[m] = traceRows[m] + 1 /\ Pending(m) /\ ~Pending(m)'
      BY <2>2, <2>3, <2>4
    <2>6. UNCHANGED <<topic, position, restarts>>
      BY <1>1
    <2>. QED BY <2>5, <2>6, SameReadingKeepsDuplicates
  <1>8. CASE UNCHANGED traceRows
    <2>1. \A m \in Messages :
             \/ traceRows'[m] = traceRows[m] /\ (Pending(m)' => Pending(m))
             \/ traceRows'[m] = traceRows[m] + 1 /\ Pending(m) /\ ~Pending(m)'
      BY <1>6, <1>8
    <2>2. UNCHANGED <<topic, position, restarts>>
      BY <1>1
    <2>. QED BY <2>1, <2>2, SameReadingKeepsDuplicates
  <1>. QED BY <1>2, <1>7, <1>8 DEF Write, PutPayload, InsertSpans, stores

(* Committing reads nothing, and nothing is pending behind it.              *)
LEMMA CommitKeepsDuplicates ==
  ASSUME DuplicatesInv, CommitMessages \/ CommitFails
  PROVE  RowsPerPass'
  <1>1. pc' = "fetch" /\ UNCHANGED traceRows
    BY DEF CommitMessages, CommitFails, stores
  <1>2. \A m \in Messages :
           \/ traceRows'[m] = traceRows[m] /\ (Pending(m)' => Pending(m))
           \/ traceRows'[m] = traceRows[m] + 1 /\ Pending(m) /\ ~Pending(m)'
    BY <1>1 DEF Pending
  <1>3. UNCHANGED <<topic, position, restarts>>
    BY DEF CommitMessages, CommitFails
  <1>. QED BY <1>2, <1>3, SameReadingKeepsDuplicates

(* Reading again from the committed offsets begins another pass.            *)
LEMMA RestartKeepsDuplicates ==
  ASSUME DuplicatesInv, Rejoin \/ Restart
  PROVE  RowsPerPass'
  <1>1. UNCHANGED <<topic, traceRows>> /\ restarts' = restarts + 1
    BY DEF Rejoin, Restart, MayRestart, stores
  <1>2. \A m \in Messages : Pending(m)' => Pending(m)
    BY DEF Rejoin, Restart, Pending, At
  <1>3. ASSUME NEW m \in Messages
        PROVE  /\ IsFiniteSet(CopiesOf(m)')
               /\ traceRows'[m] + (IF Pending(m)' THEN 1 ELSE 0)
                     <= Cardinality(CopiesOf(m)') * restarts'
                          + Cardinality(ReadCopies(m)')
    <2>1. CopiesOf(m)' = CopiesOf(m) /\ IsFiniteSet(CopiesOf(m))
      BY <1>1, CopiesAreNumbers DEF CopiesOf, At
    <2>2. Cardinality(ReadCopies(m)') \in Nat
      <3>1. ReadCopies(m)' \in SUBSET CopiesOf(m)
        BY <2>1 DEF ReadCopies
      <3>. QED BY <2>1, <3>1, FS_Subset, FS_CardinalityType
    <2>3. PICK rows \in Nat : rows = traceRows[m] + (IF Pending(m)' THEN 1 ELSE 0)
      BY CopiesAreNumbers
    <2>4. traceRows[m] + (IF Pending(m) THEN 1 ELSE 0)
             <= Cardinality(CopiesOf(m)) * restarts + Cardinality(ReadCopies(m))
      BY DEF DuplicatesInv, RowsPerPass
    <2>5. rows <= Cardinality(CopiesOf(m)) * restarts + Cardinality(ReadCopies(m))
      <3>1. PICK bound \in Nat :
               bound = Cardinality(CopiesOf(m)) * restarts
                          + Cardinality(ReadCopies(m))
        BY CopiesAreNumbers
      <3>. QED BY <1>2, <2>3, <2>4, <3>1, CopiesAreNumbers
    <2>6. rows <= Cardinality(CopiesOf(m)) * (restarts + 1)
                     + Cardinality(ReadCopies(m)')
      BY <2>2, <2>5, CopiesAreNumbers, OnePassMore
    <2>. QED BY <1>1, <2>1, <2>3, <2>6
  <1>. QED BY <1>3 DEF RowsPerPass

LEMMA DuplicatesInvAlways == Spec => []DuplicatesInv
  <1>1. Init => DuplicatesInv
    <2>. SUFFICES ASSUME Init
                  PROVE  DuplicatesInv
      OBVIOUS
    <2>1. TypeInv
      BY InitTypes
    <2>2. ASSUME NEW m \in Messages
          PROVE  /\ IsFiniteSet(CopiesOf(m))
                 /\ traceRows[m] + (IF Pending(m) THEN 1 ELSE 0)
                       <= Cardinality(CopiesOf(m)) * restarts
                            + Cardinality(ReadCopies(m))
      <3>1. \A p \in Partitions : DOMAIN topic[p] = {}
        BY DEF Init
      <3>2. CopiesOf(m) = {} /\ ReadCopies(m) = {}
        BY <3>1, OffsetsArePairs DEF CopiesOf, ReadCopies
      <3>3. traceRows[m] = 0 /\ restarts = 0 /\ ~Pending(m)
        BY DEF Init, Pending
      <3>. QED BY <3>2, <3>3, FS_EmptySet
    <2>. QED BY <2>1, <2>2 DEF DuplicatesInv, RowsPerPass
  <1>2. DuplicatesInv /\ [Next]_vars => DuplicatesInv'
    <2>. SUFFICES ASSUME DuplicatesInv, [Next]_vars
                  PROVE  RowsPerPass'
      BY StepTypes DEF DuplicatesInv
    <2>1. CASE \E c \in Clients : Send(c) \/ Produce(c) \/ ProduceFails(c)
      BY <2>1, ProduceKeepsDuplicates
    <2>2. CASE FetchMessage
      BY <2>2, FetchKeepsDuplicates
    <2>3. CASE Process \/ ProcessFails
      BY <2>3, WriteKeepsDuplicates
    <2>4. CASE CommitMessages \/ CommitFails
      BY <2>4, CommitKeepsDuplicates
    <2>5. CASE Rejoin \/ Restart
      BY <2>5, RestartKeepsDuplicates
    <2>6. CASE UNCHANGED vars
      <3>1. UNCHANGED <<topic, position, restarts>>
        BY <2>6 DEF vars, consumer
      <3>2. \A m \in Messages :
               \/ traceRows'[m] = traceRows[m] /\ (Pending(m)' => Pending(m))
               \/ traceRows'[m] = traceRows[m] + 1 /\ Pending(m) /\ ~Pending(m)'
        BY <2>6 DEF vars, consumer, stores, Pending, At
      <3>. QED BY <3>1, <3>2, SameReadingKeepsDuplicates
    <2>. QED BY <2>1, <2>2, <2>3, <2>4, <2>5, <2>6 DEF Next, Consume
  <1>. QED BY <1>1, <1>2, PTL DEF Spec

(* A message that is in the log so many times has at most as many trace    *)
(* rows for every time the consumer was started: faults, repeated commits  *)
(* and lost ones never write a row of their own.                           *)
THEOREM DuplicatesNeedRestarts == Spec => []TraceRowsAreBacked
  <1>1. DuplicatesInv => TraceRowsAreBacked
    <2>. SUFFICES ASSUME DuplicatesInv, NEW m \in Messages
                  PROVE  traceRows[m] <= Copies(m) * (1 + restarts)
      BY DEF TraceRowsAreBacked
    <2>1. Copies(m) = Cardinality(CopiesOf(m))
      BY DEF Copies, CopiesOf
    <2>2. traceRows[m] <= Cardinality(CopiesOf(m)) * restarts
                             + Cardinality(ReadCopies(m))
      <3>1. PICK bound \in Nat :
               bound = Cardinality(CopiesOf(m)) * restarts
                          + Cardinality(ReadCopies(m))
        BY CopiesAreNumbers
      <3>2. traceRows[m] + (IF Pending(m) THEN 1 ELSE 0) <= bound
        BY <3>1 DEF DuplicatesInv, RowsPerPass
      <3>. QED BY <3>1, <3>2, CopiesAreNumbers
    <2>3. traceRows[m] <= Cardinality(CopiesOf(m)) * (restarts + 1) + 0
      BY <2>2, CopiesAreNumbers, OnePassMore
    <2>4. PICK all \in Nat : all = Cardinality(CopiesOf(m)) * (restarts + 1)
      BY CopiesAreNumbers
    <2>. QED BY <2>1, <2>3, <2>4, CopiesAreNumbers
  <1>. QED BY <1>1, DuplicatesInvAlways, PTL
=============================================================================
