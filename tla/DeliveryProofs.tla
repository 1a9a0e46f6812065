--------------------------- MODULE DeliveryProofs ---------------------------
(* Theorems about Delivery, for all jobs, workers, containers, replay       *)
(* requests and retry limits.                                               *)
EXTENDS Delivery, TLAPS

USE NoJobAssumption, HostAssumption, MaxRetriesAssumption

-----------------------------------------------------------------------------
(* Sequences.                                                              *)

\* AddTo appends its entry as often as it is told, and changes nothing else
\* (XADD on the job stream and on the DLQ).
LEMMA AddToSeq ==
    ASSUME NEW S, NEW log \in Seq(S), NEW e \in S, NEW n \in 0 .. 2
    PROVE  AddTo(log, n, e) \in Seq(S)
  BY DEF AddTo

LEMMA AddToLen ==
    ASSUME NEW S, NEW log \in Seq(S), NEW e \in S, NEW n \in 0 .. 2
    PROVE  Len(AddTo(log, n, e)) = Len(log) + n
<1>1. CASE n = 0 BY <1>1 DEF AddTo
<1>2. CASE n = 1 BY <1>2 DEF AddTo
<1>3. CASE n = 2
  <2>1. Append(log, e) \in Seq(S) /\ Len(Append(log, e)) = Len(log) + 1
    OBVIOUS
  <2>2. AddTo(log, n, e) = Append(Append(log, e), e)
    BY <1>3 DEF AddTo
  <2> QED BY <1>3, <2>1, <2>2
<1> QED BY <1>1, <1>2, <1>3

LEMMA AddToOld ==
    ASSUME NEW S, NEW log \in Seq(S), NEW e \in S, NEW n \in 0 .. 2,
           NEW i \in 1 .. Len(log)
    PROVE  AddTo(log, n, e)[i] = log[i]
<1>1. CASE n = 0 BY <1>1 DEF AddTo
<1>2. CASE n = 1 BY <1>2 DEF AddTo
<1>3. CASE n = 2
  <2>1. Append(log, e) \in Seq(S) /\ Len(Append(log, e)) = Len(log) + 1
    OBVIOUS
  <2>2. Append(log, e)[i] = log[i]
    OBVIOUS
  <2>3. AddTo(log, n, e) = Append(Append(log, e), e)
    BY <1>3 DEF AddTo
  <2> QED BY <2>1, <2>2, <2>3
<1> QED BY <1>1, <1>2, <1>3

LEMMA AddToNew ==
    ASSUME NEW S, NEW log \in Seq(S), NEW e \in S, NEW n \in 0 .. 2,
           NEW i \in Len(log) + 1 .. Len(log) + n
    PROVE  AddTo(log, n, e)[i] = e
<1>1. CASE n = 0 BY <1>1
<1>2. CASE n = 1 BY <1>2 DEF AddTo
<1>3. CASE n = 2
  <2>1. Append(log, e) \in Seq(S) /\ Len(Append(log, e)) = Len(log) + 1
    OBVIOUS
  <2>2. Append(log, e)[Len(log) + 1] = e
    OBVIOUS
  <2>3. AddTo(log, n, e) = Append(Append(log, e), e)
    BY <1>3 DEF AddTo
  <2>4. CASE i = Len(log) + 1 BY <2>1, <2>2, <2>3, <2>4
  <2>5. CASE i = Len(log) + 2 BY <2>1, <2>3, <2>5
  <2> QED BY <1>3, <2>4, <2>5
<1> QED BY <1>1, <1>2, <1>3

\* What an XADD may leave behind.
LEMMA XAddCopies == \A r \in XAdd : r.copies \in 0 .. 2
  BY DEF XAdd, Added

LEMMA WorkerXAddCopies == \A w \in Workers : \A r \in WorkerXAdd(w) : r.copies \in 0 .. 2
  BY XAddCopies DEF WorkerXAdd, Added

-----------------------------------------------------------------------------
(* Types.                                                                  *)

\* The entries that workers and replay requests hold are proper entries.
LEMMA EntryTypes ==
    ASSUME TypeOK
    PROVE  /\ \A i \in Ids : stream[i] \in Entry
           /\ \A w \in Workers : wpc[w] \in AtWork => cur[w] \in Ids /\ Msg(w) \in Entry
           /\ \A d \in DlqIds : dlq[d] \in DlqEntry
<1>1. \A i \in Ids : stream[i] \in Entry
  BY DEF TypeOK, StreamType, Ids
<1>2. \A w \in Workers : wpc[w] \in AtWork => cur[w] \in Ids
  BY DEF TypeOK, StreamType, WorkerType, Ids
<1>3. \A w \in Workers : wpc[w] \in AtWork => Msg(w) \in Entry
  BY <1>1, <1>2 DEF Msg
<1>4. \A d \in DlqIds : dlq[d] \in DlqEntry
  BY DEF TypeOK, DlqType, DlqIds
<1> QED
  BY <1>1, <1>2, <1>3, <1>4

\* An XADD to the job stream leaves the entries that were there in place.
LEMMA StreamGrows ==
    ASSUME TypeOK, NEW e \in Entry, NEW n \in 0 .. 2,
           stream' = AddTo(stream, n, e), cursor' = cursor, pel' = pel
    PROVE  /\ StreamType'
           /\ Len(stream') = Len(stream) + n
           /\ \A i \in Ids : stream'[i] = stream[i]
           /\ \A i \in Ids' \ Ids : stream'[i] = e
           /\ \A w \in Workers : wpc[w] \in AtWork => stream'[cur[w]] = Msg(w)
<1>1. stream \in Seq(Entry) /\ Len(stream) \in Nat
  BY DEF TypeOK, StreamType
<1>2. stream' \in Seq(Entry)
  BY <1>1, AddToSeq
<1>3. Len(stream') = Len(stream) + n
  BY <1>1, AddToLen
<1>4. \A i \in 1 .. Len(stream) : stream'[i] = stream[i]
  BY <1>1, AddToOld
<1>5. \A i \in Len(stream) + 1 .. Len(stream) + n : stream'[i] = e
  BY <1>1, AddToNew
<1>6. StreamType'
  BY <1>1, <1>2, <1>3 DEF TypeOK, StreamType
<1>7. \A i \in Ids' \ Ids : stream'[i] = e
  BY <1>1, <1>3, <1>5 DEF Ids
<1>8. \A w \in Workers : wpc[w] \in AtWork => stream'[cur[w]] = Msg(w)
  BY <1>4, EntryTypes DEF Ids, Msg
<1> QED
  BY <1>3, <1>4, <1>6, <1>7, <1>8 DEF Ids

\* And so does an XADD to the DLQ.
LEMMA DlqGrows ==
    ASSUME TypeOK, NEW e \in DlqEntry, NEW n \in 0 .. 2,
           dlq' = AddTo(dlq, n, e), 
           parked' = parked \cup (Len(dlq) + 1 .. Len(dlq) + n)
    PROVE  /\ DlqType'
           /\ Len(dlq') = Len(dlq) + n
           /\ \A d \in DlqIds : dlq'[d] = dlq[d]
           /\ \A d \in Len(dlq) + 1 .. Len(dlq) + n : dlq'[d] = e
<1>1. dlq \in Seq(DlqEntry) /\ Len(dlq) \in Nat
  BY DEF TypeOK, DlqType
<1>2. dlq' \in Seq(DlqEntry)
  BY <1>1, AddToSeq
<1>3. Len(dlq') = Len(dlq) + n
  BY <1>1, AddToLen
<1>4. \A i \in 1 .. Len(dlq) : dlq'[i] = dlq[i]
  BY <1>1, AddToOld
<1>5. \A i \in Len(dlq) + 1 .. Len(dlq) + n : dlq'[i] = e
  BY <1>1, AddToNew
<1>6. DlqType'
  <2>1. parked \subseteq 1 .. Len(dlq)
    BY DEF TypeOK, DlqType, DlqIds
  <2>2. parked' \subseteq 1 .. Len(dlq) + n
    <3>1. \A d \in parked' : d \in parked \/ d \in Len(dlq) + 1 .. Len(dlq) + n
      OBVIOUS
    <3>2. n \in Nat
      OBVIOUS
    <3>3. ASSUME NEW d \in parked PROVE d \in 1 .. Len(dlq) + n
      BY <1>1, <2>1, <3>2, <3>3
    <3>4. ASSUME NEW d \in Len(dlq) + 1 .. Len(dlq) + n PROVE d \in 1 .. Len(dlq) + n
      BY <1>1, <3>2, <3>4
    <3> QED BY <3>1, <3>3, <3>4
  <2> QED BY <1>2, <1>3, <2>2 DEF DlqType, DlqIds
<1> QED
  BY <1>3, <1>4, <1>5, <1>6 DEF DlqIds

\* What a worker would add: the entry retried, or the entry itself.
LEMMA WorkerEntries ==
    ASSUME TypeOK, NEW w \in Workers, wpc[w] \in AtWork \ {"ack"}
    PROVE  /\ Msg(w).job \in Jobs
           /\ Msg(w) \in DlqEntry
           /\ EffMax(w, Msg(w)) \in Nat
           /\ [job |-> Msg(w).job, retry |-> Msg(w).retry + 1,
               max |-> EffMax(w, Msg(w))] \in Entry
<1>1. Msg(w) \in Entry
  BY EntryTypes
<1>2. Msg(w).job \in Jobs
  BY DEF TypeOK, WorkerType
<1>3. EffMax(w, Msg(w)) \in Nat
  BY <1>1 DEF EffMax, Entry
<1> QED
  BY <1>1, <1>2, <1>3 DEF Entry, DlqEntry

\* What a replay request holds.
LEMMA HeldTypes ==
    ASSUME TypeOK, NEW a \in Admins, apc[a] # "idle"
    PROVE  hold[a] \in DlqIds /\ Held(a) \in Entry /\ Held(a).job \in Jobs
<1>1. hold[a] \in DlqIds
  BY DEF TypeOK, ReplayType, DlqType, DlqIds
<1> QED
  BY <1>1, EntryTypes DEF Held, Entry, DlqEntry

LEMMA InitTypeOK == Init => TypeOK
  BY DEF Init, TypeOK, RowType, StreamType, DlqType, WorkerType, ReplayType, DlqIds,
         Status, ApiState, WorkerState, AdminState, Mode, AtWork

\* Every step keeps the types.
LEMMA NextTypeOK == TypeOK /\ [Next]_vars => TypeOK'
<1> SUFFICES ASSUME TypeOK, [Next]_vars PROVE TypeOK'
  OBVIOUS
<1> USE DEF TypeOK, Status, ApiState, WorkerState, AdminState, Mode, AtWork, DlqIds
<1>1. ASSUME NEW j \in Jobs, CreateRow(j) PROVE TypeOK'
  <2> USE <1>1 DEF CreateRow, Goto, Msg, Report, AckEntry, redisVars, workerVars, adminVars, history
  <2>1. RowType' BY DEF RowType
  <2>2. StreamType' BY DEF StreamType, WorkerType
  <2>3. DlqType' BY DEF DlqType
  <2>4. WorkerType' BY DEF WorkerType, StreamType
  <2>5. ReplayType' BY DEF ReplayType
  <2> QED BY <2>1, <2>2, <2>3, <2>4, <2>5
<1>2. ASSUME NEW j \in Jobs, AddJob(j) PROVE TypeOK'
  <2> USE <1>2 DEF AddJob, Goto, Msg, Report, AckEntry, redisVars, workerVars, adminVars, history
  <2>1. RowType' BY DEF RowType
  <2>2. StreamType'
    <3> DEFINE e == [job |-> j, retry |-> 0, max |-> MaxRetries[Host[j]]]
    <3>1. e \in Entry BY DEF Entry
    <3>2. PICK r \in XAdd : stream' = AddTo(stream, r.copies, e) OBVIOUS
    <3> HIDE DEF e
    <3> QED BY <3>1, <3>2, StreamGrows, XAddCopies
  <2>3. DlqType' BY DEF DlqType
  <2>4. WorkerType'
    <3> DEFINE e == [job |-> j, retry |-> 0, max |-> MaxRetries[Host[j]]]
    <3>1. e \in Entry BY DEF Entry
    <3>2. PICK r \in XAdd : stream' = AddTo(stream, r.copies, e) OBVIOUS
    <3> HIDE DEF e
    <3>3. \A v \in Workers : wpc[v] \in AtWork => stream'[cur[v]] = stream[cur[v]]
      BY <3>1, <3>2, StreamGrows, XAddCopies
    <3> QED BY <3>3 DEF WorkerType
  <2>5. ReplayType' BY DEF ReplayType
  <2> QED BY <2>1, <2>2, <2>3, <2>4, <2>5
<1>3. ASSUME NEW j \in Jobs, CutSubmit(j) PROVE TypeOK'
  <2> USE <1>3 DEF CutSubmit, Goto, Msg, Report, AckEntry, redisVars, workerVars, adminVars, history
  <2>1. RowType' BY DEF RowType
  <2>2. StreamType' BY DEF StreamType, WorkerType
  <2>3. DlqType' BY DEF DlqType
  <2>4. WorkerType' BY DEF WorkerType, StreamType
  <2>5. ReplayType' BY DEF ReplayType
  <2> QED BY <2>1, <2>2, <2>3, <2>4, <2>5
<1>4. ASSUME NEW w \in Workers, StopWorker(w) PROVE TypeOK'
  <2> USE <1>4 DEF StopWorker, Goto, Msg, Report, AckEntry, redisVars, workerVars, adminVars, history
  <2>1. RowType' BY DEF RowType
  <2>2. StreamType' BY DEF StreamType, WorkerType
  <2>3. DlqType' BY DEF DlqType
  <2>4. WorkerType' BY DEF WorkerType, StreamType
  <2>5. ReplayType' BY DEF ReplayType
  <2> QED BY <2>1, <2>2, <2>3, <2>4, <2>5
<1>5. ASSUME NEW w \in Workers, BeginRead(w) PROVE TypeOK'
  <2> USE <1>5 DEF BeginRead, Goto, Msg, Report, AckEntry, redisVars, workerVars, adminVars, history
  <2>1. RowType' BY DEF RowType
  <2>2. StreamType' BY DEF StreamType, WorkerType
  <2>3. DlqType' BY DEF DlqType
  <2>4. WorkerType' BY DEF WorkerType, StreamType
  <2>5. ReplayType' BY DEF ReplayType
  <2> QED BY <2>1, <2>2, <2>3, <2>4, <2>5
<1>6. ASSUME NEW w \in Workers, ReadEntry(w) PROVE TypeOK'
  <2> USE <1>6 DEF ReadEntry, Goto, Msg, Report, AckEntry, redisVars, workerVars, adminVars, history
  <2>1. RowType' BY DEF RowType
  <2>2. StreamType' BY DEF StreamType, WorkerType
  <2>3. DlqType' BY DEF DlqType
  <2>4. WorkerType'
    <3>1. cursor \in Nat /\ cursor + 1 \in Ids
      BY DEF StreamType, Ids
    <3>2. stream[cursor + 1].job # NoJob => stream[cursor + 1].job \in Jobs
      BY <3>1, EntryTypes DEF Entry
    <3>3. \A v \in Workers \ {w} : cur'[v] = cur[v] /\ wpc'[v] = wpc[v]
      BY DEF WorkerType
    <3>4. cur'[w] = cursor + 1 /\ wpc'[w] \in {"ack", "sending"}
      BY DEF WorkerType
    <3>5. wpc'[w] = "sending" => stream[cursor + 1].job \in Jobs
      BY <3>2 DEF WorkerType
    <3>6. mode[Host[w]] # "down"
      BY DEF WorkerType
    <3>7. cur' \in [Workers -> 0 .. cursor']
      BY <3>1 DEF WorkerType
    <3>8. wpc' \in [Workers -> WorkerState]
      BY DEF WorkerType
    <3> QED BY <3>1, <3>3, <3>4, <3>5, <3>6, <3>7, <3>8 DEF WorkerType
  <2>5. ReplayType' BY DEF ReplayType
  <2> QED BY <2>1, <2>2, <2>3, <2>4, <2>5
<1>7. ASSUME NEW w \in Workers, ReadNothing(w) PROVE TypeOK'
  <2> USE <1>7 DEF ReadNothing, Goto, Msg, Report, AckEntry, redisVars, workerVars, adminVars, history
  <2>1. RowType' BY DEF RowType
  <2>2. StreamType' BY DEF StreamType, WorkerType
  <2>3. DlqType' BY DEF DlqType
  <2>4. WorkerType' BY DEF WorkerType, StreamType
  <2>5. ReplayType' BY DEF ReplayType
  <2> QED BY <2>1, <2>2, <2>3, <2>4, <2>5
<1>8. ASSUME NEW w \in Workers, ReadFails(w) PROVE TypeOK'
  <2> USE <1>8 DEF ReadFails, Goto, Msg, Report, AckEntry, redisVars, workerVars, adminVars, history
  <2>1. RowType' BY DEF RowType
  <2>2. StreamType'
    <3>1. CASE UNCHANGED <<cursor, pel>> BY <3>1 DEF StreamType
    <3>2. CASE cursor < Len(stream) /\ cursor' = cursor + 1 /\ pel' = pel \cup {cursor + 1}
      BY <3>2 DEF StreamType
    <3> QED BY <3>1, <3>2
  <2>3. DlqType' BY DEF DlqType
  <2>4. WorkerType' BY DEF WorkerType, StreamType
  <2>5. ReplayType' BY DEF ReplayType
  <2> QED BY <2>1, <2>2, <2>3, <2>4, <2>5
<1>9. ASSUME NEW w \in Workers, SendOk(w) PROVE TypeOK'
  <2> USE <1>9 DEF SendOk, Goto, Msg, Report, AckEntry, redisVars, workerVars, adminVars, history
  <2>1. RowType'
    <3>1. Msg(w).job \in Jobs BY WorkerEntries
    <3> QED BY <3>1 DEF RowType
  <2>2. StreamType' BY DEF StreamType, WorkerType
  <2>3. DlqType' BY DEF DlqType
  <2>4. WorkerType' BY DEF WorkerType, StreamType
  <2>5. ReplayType' BY DEF ReplayType
  <2> QED BY <2>1, <2>2, <2>3, <2>4, <2>5
<1>10. ASSUME NEW w \in Workers, SendFails(w) PROVE TypeOK'
  <2> USE <1>10 DEF SendFails, Goto, Msg, Report, AckEntry, redisVars, workerVars, adminVars, history
  <2>1. RowType' BY DEF RowType
  <2>2. StreamType' BY DEF StreamType, WorkerType
  <2>3. DlqType' BY DEF DlqType
  <2>4. WorkerType' BY DEF WorkerType, StreamType
  <2>5. ReplayType' BY DEF ReplayType
  <2> QED BY <2>1, <2>2, <2>3, <2>4, <2>5
<1>11. ASSUME NEW w \in Workers, MarkDelivered(w) PROVE TypeOK'
  <2> USE <1>11 DEF MarkDelivered, Goto, Msg, Report, AckEntry, redisVars, workerVars, adminVars, history
  <2>1. RowType' BY DEF RowType
  <2>2. StreamType' BY DEF StreamType, WorkerType
  <2>3. DlqType' BY DEF DlqType
  <2>4. WorkerType' BY DEF WorkerType, StreamType
  <2>5. ReplayType' BY DEF ReplayType
  <2> QED BY <2>1, <2>2, <2>3, <2>4, <2>5
<1>12. ASSUME NEW w \in Workers, DeadLetter(w) PROVE TypeOK'
  <2> USE <1>12 DEF DeadLetter, Goto, Msg, Report, AckEntry, redisVars, workerVars, adminVars, history
  <2>1. RowType'
    <3>1. Msg(w).job \in Jobs BY WorkerEntries
    <3> QED BY <3>1 DEF RowType
  <2>2. StreamType' BY DEF StreamType, WorkerType
  <2>3. DlqType'
    <3>1. Msg(w) \in DlqEntry BY WorkerEntries
    <3>2. PICK r \in WorkerXAdd(w) :
             /\ dlq' = AddTo(dlq, r.copies, Msg(w))
             /\ parked' = parked \cup (Len(dlq) + 1 .. Len(dlq) + r.copies)
      OBVIOUS
    <3>3. r.copies \in 0 .. 2 BY WorkerXAddCopies
    <3> QED BY <3>1, <3>2, <3>3, DlqGrows
  <2>4. WorkerType' BY DEF WorkerType, StreamType
  <2>5. ReplayType'
    <3>1. Msg(w) \in DlqEntry BY WorkerEntries
    <3>2. PICK r \in WorkerXAdd(w) :
             /\ dlq' = AddTo(dlq, r.copies, Msg(w))
             /\ parked' = parked \cup (Len(dlq) + 1 .. Len(dlq) + r.copies)
      OBVIOUS
    <3>3. r.copies \in 0 .. 2 BY WorkerXAddCopies
    <3>4. Len(dlq') = Len(dlq) + r.copies BY <3>1, <3>2, <3>3, DlqGrows
    <3>5. Len(dlq) \in Nat BY DEF DlqType
    <3>6. hold' \in [Admins -> 0 .. Len(dlq')]
      BY <3>3, <3>4, <3>5 DEF ReplayType
    <3> QED BY <3>6 DEF ReplayType
  <2> QED BY <2>1, <2>2, <2>3, <2>4, <2>5
<1>13. ASSUME NEW w \in Workers, MarkFailed(w) PROVE TypeOK'
  <2> USE <1>13 DEF MarkFailed, Goto, Msg, Report, AckEntry, redisVars, workerVars, adminVars, history
  <2>1. RowType' BY DEF RowType
  <2>2. StreamType' BY DEF StreamType, WorkerType
  <2>3. DlqType' BY DEF DlqType
  <2>4. WorkerType' BY DEF WorkerType, StreamType
  <2>5. ReplayType' BY DEF ReplayType
  <2> QED BY <2>1, <2>2, <2>3, <2>4, <2>5
<1>14. ASSUME NEW w \in Workers, Ack(w) PROVE TypeOK'
  <2> USE <1>14 DEF Ack, Goto, Msg, Report, AckEntry, redisVars, workerVars, adminVars, history
  <2>1. RowType' BY DEF RowType
  <2>2. StreamType' BY DEF StreamType, WorkerType
  <2>3. DlqType' BY DEF DlqType
  <2>4. WorkerType' BY DEF WorkerType, StreamType
  <2>5. ReplayType' BY DEF ReplayType
  <2> QED BY <2>1, <2>2, <2>3, <2>4, <2>5
<1>15. ASSUME NEW w \in Workers, AckRetry(w) PROVE TypeOK'
  <2> USE <1>15 DEF AckRetry, Goto, Msg, Report, AckEntry, redisVars, workerVars, adminVars, history
  <2>1. RowType' BY DEF RowType
  <2>2. StreamType' BY DEF StreamType, WorkerType
  <2>3. DlqType' BY DEF DlqType
  <2>4. WorkerType' BY DEF WorkerType, StreamType
  <2>5. ReplayType' BY DEF ReplayType
  <2> QED BY <2>1, <2>2, <2>3, <2>4, <2>5
<1>16. ASSUME NEW w \in Workers, Requeue(w) PROVE TypeOK'
  <2> USE <1>16 DEF Requeue, Goto, Msg, Report, AckEntry, redisVars, workerVars, adminVars, history
  <2>1. RowType'
    <3>1. Msg(w).job \in Jobs BY WorkerEntries
    <3> QED BY <3>1 DEF RowType
  <2>2. StreamType'
    <3> DEFINE e == [job |-> Msg(w).job, retry |-> Msg(w).retry + 1,
                     max |-> EffMax(w, Msg(w))]
    <3>1. e \in Entry BY WorkerEntries
    <3>2. PICK r \in WorkerXAdd(w) : stream' = AddTo(stream, r.copies, e) OBVIOUS
    <3>3. r.copies \in 0 .. 2 BY WorkerXAddCopies
    <3> HIDE DEF e
    <3> QED BY <3>1, <3>2, <3>3, StreamGrows
  <2>3. DlqType' BY DEF DlqType
  <2>4. WorkerType'
    <3> DEFINE e == [job |-> Msg(w).job, retry |-> Msg(w).retry + 1,
                     max |-> EffMax(w, Msg(w))]
    <3>1. e \in Entry BY WorkerEntries
    <3>2. PICK r \in WorkerXAdd(w) : stream' = AddTo(stream, r.copies, e) OBVIOUS
    <3>3. r.copies \in 0 .. 2 BY WorkerXAddCopies
    <3> HIDE DEF e
    <3>4. \A v \in Workers : wpc[v] \in AtWork => stream'[cur[v]] = stream[cur[v]]
      BY <3>1, <3>2, <3>3, StreamGrows
    <3>5. \A v \in Workers \ {w} : cur'[v] = cur[v] /\ wpc'[v] = wpc[v]
      BY DEF WorkerType
    <3>6. cur'[w] = 0 /\ wpc'[w] = "top" /\ mode[Host[w]] # "down"
      BY DEF WorkerType
    <3>7. cur' \in [Workers -> 0 .. cursor] /\ wpc' \in [Workers -> WorkerState]
      BY DEF WorkerType, StreamType
    <3> QED BY <3>4, <3>5, <3>6, <3>7 DEF WorkerType
  <2>5. ReplayType' BY DEF ReplayType
  <2> QED BY <2>1, <2>2, <2>3, <2>4, <2>5
<1>17. ASSUME NEW a \in Admins, ReplayRead(a) PROVE TypeOK'
  <2> USE <1>17 DEF ReplayRead, Goto, Msg, Report, AckEntry, redisVars, workerVars, adminVars, history
  <2>1. RowType' BY DEF RowType
  <2>2. StreamType' BY DEF StreamType, WorkerType
  <2>3. DlqType' BY DEF DlqType
  <2>4. WorkerType' BY DEF WorkerType, StreamType
  <2>5. ReplayType'
    <3>1. PICK d \in parked : /\ replays' = [replays EXCEPT ![dlq[d].job] = @ + 1]
                              /\ hold' = [hold EXCEPT ![a] = d]
      OBVIOUS
    <3>2. d \in 1 .. Len(dlq) /\ Len(dlq) \in Nat BY DEF DlqType
    <3>3. dlq[d].job \in Jobs BY <3>2, EntryTypes DEF DlqEntry
    <3>4. replays' \in [Jobs -> Nat] BY <3>1, <3>3 DEF ReplayType
    <3> QED BY <3>1, <3>2, <3>4 DEF ReplayType
  <2> QED BY <2>1, <2>2, <2>3, <2>4, <2>5
<1>18. ASSUME NEW a \in Admins, ReplayAdd(a) PROVE TypeOK'
  <2> USE <1>18 DEF ReplayAdd, Goto, Msg, Report, AckEntry, redisVars, workerVars, adminVars, history
  <2>1. RowType' BY DEF RowType
  <2>2. StreamType'
    <3>1. Held(a) \in Entry
      <4>1. hold[a] \in DlqIds BY DEF ReplayType, DlqType
      <4> QED BY <4>1, EntryTypes DEF Held, Entry, DlqEntry
    <3>2. PICK r \in XAdd : stream' = AddTo(stream, r.copies, Held(a)) OBVIOUS
    <3>3. r.copies \in 0 .. 2 BY XAddCopies
    <3> QED BY <3>1, <3>2, <3>3, StreamGrows
  <2>3. DlqType' BY DEF DlqType
  <2>4. WorkerType'
    <3>1. Held(a) \in Entry
      <4>1. hold[a] \in DlqIds BY DEF ReplayType, DlqType
      <4> QED BY <4>1, EntryTypes DEF Held, Entry, DlqEntry
    <3>2. PICK r \in XAdd : stream' = AddTo(stream, r.copies, Held(a)) OBVIOUS
    <3>3. r.copies \in 0 .. 2 BY XAddCopies
    <3>4. \A v \in Workers : wpc[v] \in AtWork => stream'[cur[v]] = stream[cur[v]]
      BY <3>1, <3>2, <3>3, StreamGrows
    <3> QED BY <3>4 DEF WorkerType
  <2>5. ReplayType'
    <3>1. \/ apc' = [apc EXCEPT ![a] = "del"] /\ UNCHANGED hold
          \/ apc' = [apc EXCEPT ![a] = "idle"] /\ hold' = [hold EXCEPT ![a] = 0]
      OBVIOUS
    <3>2. hold[a] # 0 /\ Len(dlq) \in Nat BY DEF ReplayType, DlqType
    <3>3. CASE apc' = [apc EXCEPT ![a] = "del"] /\ UNCHANGED hold
      BY <3>2, <3>3 DEF ReplayType
    <3>4. CASE apc' = [apc EXCEPT ![a] = "idle"] /\ hold' = [hold EXCEPT ![a] = 0]
      BY <3>2, <3>4 DEF ReplayType
    <3> QED BY <3>1, <3>3, <3>4
  <2> QED BY <2>1, <2>2, <2>3, <2>4, <2>5
<1>19. ASSUME NEW a \in Admins, ReplayDelete(a) PROVE TypeOK'
  <2> USE <1>19 DEF ReplayDelete, Goto, Msg, Report, AckEntry, redisVars, workerVars, adminVars, history
  <2>1. RowType' BY DEF RowType
  <2>2. StreamType' BY DEF StreamType, WorkerType
  <2>3. DlqType' BY DEF DlqType
  <2>4. WorkerType' BY DEF WorkerType, StreamType
  <2>5. ReplayType' BY DEF ReplayType
  <2> QED BY <2>1, <2>2, <2>3, <2>4, <2>5
<1>20. ASSUME NEW a \in Admins, CutReplay(a) PROVE TypeOK'
  <2> USE <1>20 DEF CutReplay, Goto, Msg, Report, AckEntry, redisVars, workerVars, adminVars, history
  <2>1. RowType' BY DEF RowType
  <2>2. StreamType' BY DEF StreamType, WorkerType
  <2>3. DlqType' BY DEF DlqType
  <2>4. WorkerType' BY DEF WorkerType, StreamType
  <2>5. ReplayType' BY DEF ReplayType
  <2> QED BY <2>1, <2>2, <2>3, <2>4, <2>5
<1>21. ASSUME NEW c \in Containers, Sigterm(c) PROVE TypeOK'
  <2> USE <1>21 DEF Sigterm, Goto, Msg, Report, AckEntry, redisVars, workerVars, adminVars, history
  <2>1. RowType' BY DEF RowType
  <2>2. StreamType' BY DEF StreamType, WorkerType
  <2>3. DlqType' BY DEF DlqType
  <2>4. WorkerType' BY DEF WorkerType, StreamType
  <2>5. ReplayType' BY DEF ReplayType
  <2> QED BY <2>1, <2>2, <2>3, <2>4, <2>5
<1>22. ASSUME NEW c \in Containers, Exit(c) PROVE TypeOK'
  <2> USE <1>22 DEF Exit, KillHandlers, Here, Msg, Report, AckEntry, redisVars, workerVars, adminVars, history
  <2>1. RowType' BY DEF RowType
  <2>2. StreamType' BY DEF StreamType, WorkerType
  <2>3. DlqType' BY DEF DlqType
  <2>4. WorkerType' BY DEF WorkerType, StreamType
  <2>5. ReplayType' BY DEF ReplayType
  <2> QED BY <2>1, <2>2, <2>3, <2>4, <2>5
<1>23. ASSUME NEW c \in Containers, Crash(c) PROVE TypeOK'
  <2> USE <1>23 DEF Crash, KillHandlers, Here, Msg, Report, AckEntry, redisVars, workerVars, adminVars, history
  <2>1. RowType'
    <3>1. \A v \in Workers : wpc[v] = "requeue" => Msg(v).job \in Jobs
      BY DEF WorkerType
    <3> QED BY <3>1 DEF RowType
  <2>2. StreamType' BY DEF StreamType, WorkerType
  <2>3. DlqType' BY DEF DlqType
  <2>4. WorkerType' BY DEF WorkerType, StreamType
  <2>5. ReplayType' BY DEF ReplayType
  <2> QED BY <2>1, <2>2, <2>3, <2>4, <2>5
<1>24. ASSUME NEW c \in Containers, Restart(c) PROVE TypeOK'
  <2> USE <1>24 DEF Restart, Goto, Msg, Report, AckEntry, redisVars, workerVars, adminVars, history
  <2>1. RowType' BY DEF RowType
  <2>2. StreamType' BY DEF StreamType, WorkerType
  <2>3. DlqType' BY DEF DlqType
  <2>4. WorkerType'
    <3>1. \A v \in Workers : Host[v] = c => wpc[v] = "stopped" /\ cur[v] = 0
      BY DEF WorkerType
    <3>2. \A v \in Workers : wpc'[v] = IF Host[v] = c THEN "top" ELSE wpc[v]
      OBVIOUS
    <3>3. mode'[c] = "up" /\ \A v \in Workers : Host[v] # c => mode'[Host[v]] = mode[Host[v]]
      BY DEF RowType
    <3>4. wpc' \in [Workers -> WorkerState]
      BY DEF WorkerType
    <3> QED BY <3>1, <3>2, <3>3, <3>4 DEF WorkerType
  <2>5. ReplayType' BY DEF ReplayType
  <2> QED BY <2>1, <2>2, <2>3, <2>4, <2>5
<1>25. CASE ForeignAdd
  <2> USE <1>25 DEF ForeignAdd, Msg, redisVars, workerVars, adminVars, history
  <2> DEFINE e == [job |-> NoJob, retry |-> 0, max |-> 0]
  <2>1. e \in Entry BY DEF Entry
  <2>2. stream' = AddTo(stream, 1, e) BY DEF AddTo
  <2> HIDE DEF e
  <2> DEFINE n == 1
  <2>n. n \in 0 .. 2 OBVIOUS
  <2>m. stream' = AddTo(stream, n, e) BY <2>2
  <2> HIDE DEF n
  <2>3. StreamType' BY <2>1, <2>n, <2>m, StreamGrows
  <2>4. \A v \in Workers : wpc[v] \in AtWork => stream'[cur[v]] = stream[cur[v]]
    BY <2>1, <2>n, <2>m, StreamGrows
  <2>5. WorkerType' BY <2>4 DEF WorkerType
  <2>6. RowType' /\ DlqType' /\ ReplayType'
    BY DEF RowType, DlqType, ReplayType
  <2> QED BY <2>3, <2>5, <2>6
<1>26. CASE UNCHANGED vars
  BY <1>26 DEF vars, Msg, RowType, StreamType, DlqType, WorkerType, ReplayType
<1> QED
  BY <1>1, <1>2, <1>3, <1>4, <1>5, <1>6, <1>7, <1>8, <1>9, <1>10, <1>11, <1>12, <1>13, <1>14, <1>15, <1>16, <1>17, <1>18, <1>19, <1>20, <1>21, <1>22, <1>23, <1>24, <1>25, <1>26
     DEF Next, Submission, WorkerStep, RunLoop, Process, Replay, Lifecycle

\* Every variable keeps its type, whatever the faults (all handlers and workers).
THEOREM TypeCorrect == Spec => []TypeOK
<1>1. Init => TypeOK
  BY InitTypeOK
<1>2. TypeOK /\ [Next]_vars => TypeOK'
  BY NextTypeOK
<1> QED
  BY <1>1, <1>2, PTL DEF Spec

-----------------------------------------------------------------------------
(* Logs and histories only grow.                                           *)

Grown ==
    /\ Len(stream') >= Len(stream) /\ \A i \in Ids : stream'[i] = stream[i]
    /\ Len(dlq') >= Len(dlq) /\ \A d \in DlqIds : dlq'[d] = dlq[d]
    /\ cursor' >= cursor
    /\ \A j \in Jobs : mails'[j] >= mails[j] /\ replays'[j] >= replays[j]
    /\ dropped \subseteq dropped'

\* No step takes an entry out of a stream, rewrites one, or forgets a mail.
LEMMA StepGrows == TypeOK /\ [Next]_vars => Grown
<1> SUFFICES ASSUME TypeOK, [Next]_vars PROVE Grown
  OBVIOUS
<1>0. /\ Len(stream) \in Nat /\ Len(dlq) \in Nat /\ cursor \in Nat
      /\ mails \in [Jobs -> Nat] /\ replays \in [Jobs -> Nat]
  BY DEF TypeOK, StreamType, DlqType, RowType, ReplayType
<1> USE DEF redisVars, workerVars, adminVars, history, Ids, DlqIds
<1>1. ASSUME NEW j \in Jobs, CreateRow(j) PROVE Grown
  BY <1>0, <1>1 DEF CreateRow, KillHandlers, Grown
<1>2. ASSUME NEW j \in Jobs, AddJob(j) PROVE Grown
  <2> DEFINE e == [job |-> j, retry |-> 0, max |-> MaxRetries[Host[j]]]
  <2>1. e \in Entry BY DEF Entry
  <2>2. PICK r \in XAdd : stream' = AddTo(stream, r.copies, e) BY <1>2 DEF AddJob
  <2> HIDE DEF e
  <2>3. r.copies \in 0 .. 2 BY XAddCopies
  <2>4. cursor' = cursor /\ pel' = pel BY <1>2 DEF AddJob
  <2>5. Len(stream') = Len(stream) + r.copies /\ \A i \in Ids : stream'[i] = stream[i]
    BY <2>1, <2>2, <2>3, <2>4, StreamGrows
  <2> QED BY <1>0, <1>2, <2>3, <2>5 DEF AddJob, Grown
<1>3. ASSUME NEW j \in Jobs, CutSubmit(j) PROVE Grown
  BY <1>0, <1>3 DEF CutSubmit, KillHandlers, Grown
<1>4. ASSUME NEW w \in Workers, StopWorker(w) PROVE Grown
  BY <1>0, <1>4 DEF StopWorker, KillHandlers, Grown
<1>5. ASSUME NEW w \in Workers, BeginRead(w) PROVE Grown
  BY <1>0, <1>5 DEF BeginRead, KillHandlers, Grown
<1>6. ASSUME NEW w \in Workers, ReadEntry(w) PROVE Grown
  BY <1>0, <1>6 DEF ReadEntry, KillHandlers, Grown
<1>7. ASSUME NEW w \in Workers, ReadNothing(w) PROVE Grown
  BY <1>0, <1>7 DEF ReadNothing, KillHandlers, Grown
<1>8. ASSUME NEW w \in Workers, ReadFails(w) PROVE Grown
  BY <1>0, <1>8 DEF ReadFails, KillHandlers, Grown
<1>9. ASSUME NEW w \in Workers, SendOk(w) PROVE Grown
  <2>1. Msg(w).job \in Jobs BY <1>9, WorkerEntries DEF SendOk, AtWork
  <2> QED BY <1>0, <1>9, <2>1 DEF SendOk, Grown
<1>10. ASSUME NEW w \in Workers, SendFails(w) PROVE Grown
  <2>1. Msg(w).job \in Jobs BY <1>10, WorkerEntries DEF SendFails, AtWork
  <2> QED BY <1>0, <1>10, <2>1 DEF SendFails, Grown
<1>11. ASSUME NEW w \in Workers, MarkDelivered(w) PROVE Grown
  BY <1>0, <1>11 DEF MarkDelivered, KillHandlers, Grown
<1>12. ASSUME NEW w \in Workers, DeadLetter(w) PROVE Grown
  <2>1. Msg(w) \in DlqEntry BY <1>12, WorkerEntries DEF DeadLetter, AtWork
  <2>2. PICK r \in WorkerXAdd(w) :
           /\ dlq' = AddTo(dlq, r.copies, Msg(w))
           /\ parked' = parked \cup (Len(dlq) + 1 .. Len(dlq) + r.copies)
           /\ dropped' = IF r.copies = 0 THEN dropped \cup {Msg(w).job} ELSE dropped
    BY <1>12 DEF DeadLetter
  <2>3. r.copies \in 0 .. 2 BY WorkerXAddCopies
  <2>4. Len(dlq') = Len(dlq) + r.copies /\ \A d \in DlqIds : dlq'[d] = dlq[d]
    BY <2>1, <2>2, <2>3, DlqGrows
  <2> QED BY <1>0, <1>12, <2>2, <2>3, <2>4 DEF DeadLetter, Grown
<1>13. ASSUME NEW w \in Workers, MarkFailed(w) PROVE Grown
  BY <1>0, <1>13 DEF MarkFailed, KillHandlers, Grown
<1>14. ASSUME NEW w \in Workers, Ack(w) PROVE Grown
  BY <1>0, <1>14 DEF Ack, KillHandlers, Grown
<1>15. ASSUME NEW w \in Workers, AckRetry(w) PROVE Grown
  BY <1>0, <1>15 DEF AckRetry, KillHandlers, Grown
<1>16. ASSUME NEW w \in Workers, Requeue(w) PROVE Grown
  <2> DEFINE e == [job |-> Msg(w).job, retry |-> Msg(w).retry + 1,
                   max |-> EffMax(w, Msg(w))]
  <2>1. e \in Entry BY <1>16, WorkerEntries DEF Requeue, AtWork
  <2>2. PICK r \in WorkerXAdd(w) :
           /\ stream' = AddTo(stream, r.copies, e)
           /\ dropped' = IF r.copies = 0 THEN dropped \cup {Msg(w).job} ELSE dropped
    BY <1>16 DEF Requeue
  <2> HIDE DEF e
  <2>3. r.copies \in 0 .. 2 BY WorkerXAddCopies
  <2>4. cursor' = cursor /\ pel' = pel BY <1>16 DEF Requeue
  <2>5. Len(stream') = Len(stream) + r.copies /\ \A i \in Ids : stream'[i] = stream[i]
    BY <2>1, <2>2, <2>3, <2>4, StreamGrows
  <2> QED BY <1>0, <1>16, <2>2, <2>3, <2>5 DEF Requeue, Grown
<1>17. ASSUME NEW a \in Admins, ReplayRead(a) PROVE Grown
  BY <1>0, <1>17 DEF ReplayRead, KillHandlers, Grown
<1>18. ASSUME NEW a \in Admins, ReplayAdd(a) PROVE Grown
  <2>1. Held(a) \in Entry BY <1>18, HeldTypes DEF ReplayAdd
  <2>2. PICK r \in XAdd : stream' = AddTo(stream, r.copies, Held(a))
    BY <1>18 DEF ReplayAdd
  <2>3. r.copies \in 0 .. 2 BY XAddCopies
  <2>4. cursor' = cursor /\ pel' = pel BY <1>18 DEF ReplayAdd
  <2>5. Len(stream') = Len(stream) + r.copies /\ \A i \in Ids : stream'[i] = stream[i]
    BY <2>1, <2>2, <2>3, <2>4, StreamGrows
  <2> QED BY <1>0, <1>18, <2>3, <2>5 DEF ReplayAdd, Grown
<1>19. ASSUME NEW a \in Admins, ReplayDelete(a) PROVE Grown
  BY <1>0, <1>19 DEF ReplayDelete, KillHandlers, Grown
<1>20. ASSUME NEW a \in Admins, CutReplay(a) PROVE Grown
  BY <1>0, <1>20 DEF CutReplay, KillHandlers, Grown
<1>21. ASSUME NEW c \in Containers, Sigterm(c) PROVE Grown
  BY <1>0, <1>21 DEF Sigterm, KillHandlers, Grown
<1>22. ASSUME NEW c \in Containers, Exit(c) PROVE Grown
  BY <1>0, <1>22 DEF Exit, KillHandlers, Grown
<1>23. ASSUME NEW c \in Containers, Crash(c) PROVE Grown
  BY <1>0, <1>23 DEF Crash, KillHandlers, Grown
<1>24. ASSUME NEW c \in Containers, Restart(c) PROVE Grown
  BY <1>0, <1>24 DEF Restart, KillHandlers, Grown
<1>25. CASE ForeignAdd
  BY <1>0, <1>25 DEF ForeignAdd, Grown, TypeOK, StreamType
<1>26. CASE UNCHANGED vars
  BY <1>0, <1>26 DEF vars, Grown
<1> QED
  BY <1>1, <1>2, <1>3, <1>4, <1>5, <1>6, <1>7, <1>8, <1>9, <1>10, <1>11, <1>12, <1>13, <1>14, <1>15, <1>16, <1>17, <1>18, <1>19, <1>20, <1>21, <1>22, <1>23, <1>24, <1>25, <1>26
     DEF Next, Submission, WorkerStep, RunLoop, Process, Replay, Lifecycle

-----------------------------------------------------------------------------
(* Delivered means mailed.                                                 *)

\* A worker about to report a delivery has had the mail accepted.
TruthInv ==
    /\ DeliveredTruthful
    /\ \A w \in Workers : wpc[w] = "markDelivered" => mails[Msg(w).job] > 0

\* No step makes a row say delivered, or a worker about to say so, unless the
\* mail of that job has been accepted.
LEMMA NextTruth == TypeOK /\ TruthInv /\ [Next]_vars => TruthInv'
<1> SUFFICES ASSUME TypeOK, TruthInv, [Next]_vars PROVE TruthInv'
  OBVIOUS
<1>1. Grown /\ TypeOK'
  BY StepGrows, NextTypeOK
<1>2. ASSUME NEW j \in Jobs, status'[j] = "delivered" PROVE mails'[j] > 0
  <2>1. CASE status[j] = "delivered"
    <3>1. mails[j] > 0
      BY <2>1 DEF TruthInv, DeliveredTruthful
    <3> QED
      BY <1>1, <3>1 DEF Grown, TypeOK, RowType
  <2>2. CASE status[j] # "delivered"
    <3>1. PICK w \in Workers : MarkDelivered(w)
      BY <1>2, <2>2 DEF Next, Submission, WorkerStep, RunLoop, Process, Replay, Lifecycle,
           CreateRow, AddJob, CutSubmit, ForeignAdd, StopWorker, BeginRead, ReadEntry,
           ReadNothing, ReadFails, SendOk, SendFails, DeadLetter, MarkFailed, Ack,
           AckRetry, Requeue, ReplayRead, ReplayAdd, ReplayDelete, CutReplay, Sigterm,
           Exit, Crash, Restart, Report, vars, TypeOK, RowType
    <3>2. Msg(w).job = j
      BY <1>2, <2>2, <3>1 DEF MarkDelivered, Report, TypeOK, RowType
    <3> QED
      BY <3>1, <3>2, <1>1 DEF MarkDelivered, TruthInv, Grown, TypeOK, RowType
  <2> QED
    BY <2>1, <2>2
<1>3. ASSUME NEW w \in Workers, wpc'[w] = "markDelivered"
      PROVE  mails'[Msg(w)'.job] > 0
  <2>1. CASE wpc[w] = "markDelivered"
    <3>1. cur'[w] = cur[w]
      BY <1>3, <2>1 DEF Next, Submission, WorkerStep, RunLoop, Process, Replay, Lifecycle,
           CreateRow, AddJob, CutSubmit, ForeignAdd, StopWorker, BeginRead, ReadEntry,
           ReadNothing, ReadFails, SendOk, SendFails, DeadLetter, MarkFailed, Ack,
           AckRetry, Requeue, ReplayRead, ReplayAdd, ReplayDelete, CutReplay, Sigterm,
           Exit, Crash, Restart, MarkDelivered, Goto, workerVars, vars, TypeOK, WorkerType
    <3>2. Msg(w)' = Msg(w) /\ Msg(w).job \in Jobs
      <4>1. wpc[w] \in AtWork \ {"ack"}
        BY <2>1 DEF AtWork
      <4>2. cur[w] \in Ids /\ Msg(w).job \in Jobs
        BY <4>1, EntryTypes, WorkerEntries
      <4> QED
        BY <1>1, <3>1, <4>2 DEF Msg, Grown
    <3>3. mails[Msg(w).job] > 0
      BY <2>1 DEF TruthInv
    <3> QED
      BY <1>1, <3>2, <3>3 DEF Grown, TypeOK, RowType
  <2>2. CASE wpc[w] # "markDelivered"
    <3>1. SendOk(w)
      BY <1>3, <2>2 DEF Next, Submission, WorkerStep, RunLoop, Process, Replay, Lifecycle,
           CreateRow, AddJob, CutSubmit, ForeignAdd, StopWorker, BeginRead, ReadEntry,
           ReadNothing, ReadFails, SendOk, SendFails, DeadLetter, MarkFailed, Ack,
           AckRetry, Requeue, ReplayRead, ReplayAdd, ReplayDelete, CutReplay, Sigterm,
           Exit, Crash, Restart, MarkDelivered, Goto, workerVars, vars, TypeOK, WorkerType
    <3>2. Msg(w)' = Msg(w) /\ Msg(w).job \in Jobs
      BY <3>1, WorkerEntries DEF SendOk, Msg, redisVars, AtWork
    <3> QED
      BY <3>1, <3>2 DEF SendOk, TypeOK, RowType
  <2> QED
    BY <2>1, <2>2
<1> QED
  BY <1>2, <1>3 DEF TruthInv, DeliveredTruthful

\* A row never says delivered of a job whose mail was not accepted
\* (worker.go:108-116): for every fault, any number of workers and replays.
THEOREM DeliveredIsTrue == Spec => []DeliveredTruthful
<1>1. Init => TruthInv
  BY DEF Init, TruthInv, DeliveredTruthful
<1>2. TypeOK /\ TruthInv /\ [Next]_vars => TruthInv'
  BY NextTruth
<1>3. TruthInv => DeliveredTruthful
  BY DEF TruthInv
<1> QED
  BY <1>1, <1>2, <1>3, TypeCorrect, PTL DEF Spec

-----------------------------------------------------------------------------
(* No queued job gets lost unnoticed.                                      *)

\* A replay request that is about to delete a DLQ entry leaves the job
\* accounted for without that entry and without all older ones: of two requests
\* for one job none deletes what the other relies on.
KeptInv ==
    /\ NothingElseLost
    /\ \A a \in Admins : apc[a] = "del" => Accounted(Held(a).job, hold[a])

\* A copy parked on the DLQ stays there, or the request that deletes it leaves
\* the job accounted for by what came after it.
LEMMA ParkedPersists ==
    ASSUME TypeOK, KeptInv, [Next]_vars, NEW j \in Jobs, NEW d \in 0 .. Len(dlq),
           NEW p \in parked, p > d, dlq[p].job = j
    PROVE  Accounted(j, d)'
<1>1. Grown
  BY StepGrows
<1>2. p \in DlqIds /\ dlq'[p] = dlq[p]
  BY <1>1 DEF Grown, TypeOK, DlqType
<1>3. CASE p \in parked'
  BY <1>2, <1>3 DEF Accounted, SafeBeyond, InDlqBeyond
<1>4. CASE p \notin parked'
  <2>1. PICK a \in Admins : ReplayDelete(a) /\ hold[a] = p
    BY <1>4 DEF Next, Submission, WorkerStep, RunLoop, Process, Replay, Lifecycle, CreateRow,
           AddJob, CutSubmit, ForeignAdd, StopWorker, BeginRead, ReadEntry, ReadNothing,
           ReadFails, SendOk, SendFails, MarkDelivered, DeadLetter, MarkFailed, Ack,
           AckRetry, Requeue, ReplayRead, ReplayAdd, ReplayDelete, CutReplay, Sigterm,
           Exit, Crash, Restart, Goto, workerVars, redisVars, vars
  <2>2. apc[a] = "del" /\ Held(a).job = j
    BY <2>1 DEF ReplayDelete, Held
  <2>3. Accounted(j, p)
    BY <2>1, <2>2 DEF KeptInv
  <2>4. /\ parked' = parked \ {p}
        /\ UNCHANGED <<stream, cursor, pel, dlq, wpc, cur, mails, dropped>>
    BY <1>4, <2>1 DEF ReplayDelete, workerVars, history
  <2>5. CASE InDlqBeyond(j, p)
    <3>1. PICK q \in parked : q > p /\ dlq[q].job = j
      BY <2>5 DEF InDlqBeyond
    <3>2. q \in parked' /\ dlq'[q].job = j /\ q > d
      BY <2>4, <3>1 DEF TypeOK, DlqType, DlqIds
    <3> QED
      BY <3>2 DEF Accounted, SafeBeyond, InDlqBeyond
  <2>6. CASE InStream(j)
    BY <2>4, <2>6 DEF Accounted, SafeBeyond, InStream, Undecided, Ids
  <2>7. CASE InMemory(j)
    BY <2>4, <2>7 DEF Accounted, SafeBeyond, InMemory, Msg
  <2>8. CASE mails[j] > 0 \/ j \in dropped
    BY <2>4, <2>8 DEF Accounted
  <2> QED
    BY <2>3, <2>5, <2>6, <2>7, <2>8 DEF Accounted, SafeBeyond
<1> QED
  BY <1>3, <1>4

\* A job in a worker's memory stays there, is re-added, or counts as dropped.
LEMMA MemoryPersists ==
    ASSUME TypeOK, [Next]_vars, NEW j \in Jobs, NEW d \in 0 .. Len(dlq),
           NEW v \in Workers, wpc[v] = "requeue", Msg(v).job = j
    PROVE  Accounted(j, d)'
<1>1. Grown
  BY StepGrows
<1>2. cur[v] \in Ids /\ wpc[v] \in AtWork \ {"ack"}
  BY EntryTypes DEF AtWork
<1>3. CASE wpc'[v] = "requeue" /\ cur'[v] = cur[v]
  <2>1. Msg(v)' = Msg(v)
    BY <1>1, <1>2, <1>3 DEF Msg, Grown
  <2> QED
    BY <1>3, <2>1 DEF Accounted, SafeBeyond, InMemory
<1>4. CASE Requeue(v)
  <2> DEFINE e == [job |-> Msg(v).job, retry |-> Msg(v).retry + 1,
                   max |-> EffMax(v, Msg(v))]
  <2>1. e \in Entry /\ e.job = j
    BY <1>2, WorkerEntries
  <2>2. PICK r \in WorkerXAdd(v) :
           /\ stream' = AddTo(stream, r.copies, e)
           /\ dropped' = IF r.copies = 0 THEN dropped \cup {Msg(v).job} ELSE dropped
    BY <1>4 DEF Requeue
  <2> HIDE DEF e
  <2>3. r.copies \in 0 .. 2
    BY WorkerXAddCopies
  <2>4. cursor' = cursor /\ pel' = pel
    BY <1>4 DEF Requeue
  <2>5. CASE r.copies = 0
    BY <2>2, <2>5 DEF Accounted
  <2>6. CASE r.copies # 0
    <3> DEFINE i == Len(stream) + 1
    <3>1. Len(stream') = Len(stream) + r.copies /\ \A k \in Ids' \ Ids : stream'[k] = e
      BY <2>1, <2>2, <2>3, <2>4, StreamGrows
    <3>2. i \in Ids' \ Ids /\ i > cursor'
      BY <2>3, <2>4, <2>6, <3>1 DEF Ids, TypeOK, StreamType
    <3>3. stream'[i].job = j
      BY <2>1, <3>1, <3>2
    <3> QED
      BY <3>2, <3>3 DEF Accounted, SafeBeyond, InStream, Undecided
  <2> QED
    BY <2>5, <2>6
<1>5. CASE Crash(Host[v])
  BY <1>5 DEF Crash, Here, Accounted
<1>6. ASSUME NEW w \in Workers, WorkerStep(w), w = v PROVE Requeue(v)
  BY <1>6 DEF WorkerStep, RunLoop, Process, StopWorker, BeginRead, ReadEntry, ReadNothing,
         ReadFails, SendOk, SendFails, MarkDelivered, DeadLetter, MarkFailed, Ack,
         AckRetry, Requeue, Goto, TypeOK, WorkerType
<1>7. ASSUME NEW w \in Workers, WorkerStep(w), w # v
      PROVE  wpc'[v] = "requeue" /\ cur'[v] = cur[v]
  BY <1>7 DEF WorkerStep, RunLoop, Process, StopWorker, BeginRead, ReadEntry, ReadNothing,
         ReadFails, SendOk, SendFails, MarkDelivered, DeadLetter, MarkFailed, Ack,
         AckRetry, Requeue, Goto, TypeOK, WorkerType
<1>8. ASSUME NEW c \in Containers, Lifecycle(c), ~ Crash(Host[v])
      PROVE  wpc'[v] = "requeue" /\ cur'[v] = cur[v]
  BY <1>8 DEF Lifecycle, Sigterm, Exit, Crash, Restart, workerVars, TypeOK, WorkerType
<1>9. CASE \/ \E k \in Jobs : Submission(k)
           \/ \E a \in Admins : Replay(a)
           \/ ForeignAdd
           \/ UNCHANGED vars
  <2>1. UNCHANGED <<wpc, cur>>
    BY <1>9 DEF Submission, CreateRow, AddJob, CutSubmit, Replay, ReplayRead, ReplayAdd,
         ReplayDelete, CutReplay, ForeignAdd, workerVars, vars
  <2> QED
    BY <2>1, <1>3
<1> QED
  BY <1>3, <1>4, <1>5, <1>6, <1>7, <1>8, <1>9 DEF Next

\* An entry not yet decided stays so, or the step that decides it mails the job,
\* parks it, takes it into memory or drops it.
LEMMA EntryPersists ==
    ASSUME TypeOK, TruthInv, [Next]_vars, NEW j \in Jobs, NEW d \in 0 .. Len(dlq),
           NEW i \in Ids, stream[i].job = j, Undecided(i)
    PROVE  Accounted(j, d)'
<1>1. Grown
  BY StepGrows
<1>2. i \in Ids' /\ stream'[i].job = j /\ i \in Nat /\ cursor \in Nat
  BY <1>1 DEF Grown, Ids, TypeOK, StreamType
<1>3. CASE Undecided(i)'
  BY <1>2, <1>3 DEF Accounted, SafeBeyond, InStream
<1>4. \A v \in Workers : cur[v] = i => i <= cursor /\ i \in pel
                                      /\ wpc[v] \notin {"markFailed", "ack"}
  BY <1>2 DEF Undecided, TypeOK, WorkerType
<1>5. ASSUME NEW w \in Workers, MarkDelivered(w), cur[w] = i PROVE Accounted(j, d)'
  <2>1. mails[j] > 0
    BY <1>5 DEF MarkDelivered, TruthInv, Msg
  <2> QED
    BY <1>5, <2>1 DEF MarkDelivered, history, Accounted
<1>6. ASSUME NEW w \in Workers, AckRetry(w), cur[w] = i PROVE Accounted(j, d)'
  <2>1. wpc'[w] = "requeue" /\ Msg(w)'.job = j
    BY <1>2, <1>6 DEF AckRetry, Goto, Msg, TypeOK, WorkerType
  <2> QED
    BY <2>1 DEF Accounted, SafeBeyond, InMemory
<1>7. ASSUME NEW w \in Workers, DeadLetter(w), cur[w] = i PROVE Accounted(j, d)'
  <2>1. Msg(w) \in DlqEntry /\ Msg(w).job = j
    BY <1>7, WorkerEntries DEF DeadLetter, AtWork, Msg
  <2>2. PICK r \in WorkerXAdd(w) :
           /\ dlq' = AddTo(dlq, r.copies, Msg(w))
           /\ parked' = parked \cup (Len(dlq) + 1 .. Len(dlq) + r.copies)
           /\ dropped' = IF r.copies = 0 THEN dropped \cup {Msg(w).job} ELSE dropped
    BY <1>7 DEF DeadLetter
  <2>3. r.copies \in 0 .. 2
    BY WorkerXAddCopies
  <2>4. CASE r.copies = 0
    BY <2>1, <2>2, <2>4 DEF Accounted
  <2>5. CASE r.copies # 0
    <3> DEFINE p == Len(dlq) + 1
    <3>1. p \in Len(dlq) + 1 .. Len(dlq) + r.copies
      BY <2>3, <2>5 DEF TypeOK, DlqType
    <3>2. p \in parked' /\ dlq'[p] = Msg(w)
      BY <2>1, <2>2, <2>3, <3>1, DlqGrows
    <3>3. p > d
      BY DEF TypeOK, DlqType
    <3> QED
      BY <2>1, <3>2, <3>3 DEF Accounted, SafeBeyond, InDlqBeyond
  <2> QED
    BY <2>4, <2>5
<1>8. ASSUME NEW w \in Workers, StopWorker(w) PROVE Undecided(i)'
  BY <1>2, <1>4, <1>8 DEF StopWorker, Goto, Undecided, AckEntry, redisVars, TypeOK, WorkerType, StreamType, AtWork
<1>9. ASSUME NEW w \in Workers, BeginRead(w) PROVE Undecided(i)'
  BY <1>2, <1>4, <1>9 DEF BeginRead, Goto, Undecided, AckEntry, redisVars, TypeOK, WorkerType, StreamType, AtWork
<1>10. ASSUME NEW w \in Workers, ReadEntry(w) PROVE Undecided(i)'
  BY <1>2, <1>4, <1>10 DEF ReadEntry, Goto, Undecided, AckEntry, redisVars, TypeOK, WorkerType, StreamType, AtWork
<1>11. ASSUME NEW w \in Workers, ReadNothing(w) PROVE Undecided(i)'
  BY <1>2, <1>4, <1>11 DEF ReadNothing, Goto, Undecided, AckEntry, redisVars, TypeOK, WorkerType, StreamType, AtWork
<1>12. ASSUME NEW w \in Workers, ReadFails(w) PROVE Undecided(i)'
  BY <1>2, <1>4, <1>12 DEF ReadFails, Goto, Undecided, AckEntry, redisVars, TypeOK, WorkerType, StreamType, AtWork
<1>13. ASSUME NEW w \in Workers, SendOk(w) PROVE Undecided(i)'
  BY <1>2, <1>4, <1>13 DEF SendOk, Goto, Undecided, AckEntry, redisVars, TypeOK, WorkerType, StreamType, AtWork
<1>14. ASSUME NEW w \in Workers, SendFails(w) PROVE Undecided(i)'
  BY <1>2, <1>4, <1>14 DEF SendFails, Goto, Undecided, AckEntry, redisVars, TypeOK, WorkerType, StreamType, AtWork
<1>15. ASSUME NEW w \in Workers, MarkDelivered(w), cur[w] # i PROVE Undecided(i)'
  BY <1>2, <1>4, <1>15 DEF MarkDelivered, Goto, Undecided, AckEntry, redisVars, TypeOK, WorkerType, StreamType, AtWork
<1>16. ASSUME NEW w \in Workers, DeadLetter(w), cur[w] # i PROVE Undecided(i)'
  BY <1>2, <1>4, <1>16 DEF DeadLetter, Goto, Undecided, AckEntry, redisVars, TypeOK, WorkerType, StreamType, AtWork
<1>17. ASSUME NEW w \in Workers, MarkFailed(w) PROVE Undecided(i)'
  BY <1>2, <1>4, <1>17 DEF MarkFailed, Goto, Undecided, AckEntry, redisVars, TypeOK, WorkerType, StreamType, AtWork
<1>18. ASSUME NEW w \in Workers, Ack(w) PROVE Undecided(i)'
  BY <1>2, <1>4, <1>18 DEF Ack, Goto, Undecided, AckEntry, redisVars, TypeOK, WorkerType, StreamType, AtWork
<1>19. ASSUME NEW w \in Workers, AckRetry(w), cur[w] # i PROVE Undecided(i)'
  BY <1>2, <1>4, <1>19 DEF AckRetry, Goto, Undecided, AckEntry, redisVars, TypeOK, WorkerType, StreamType, AtWork
<1>20. ASSUME NEW w \in Workers, Requeue(w) PROVE Undecided(i)'
  BY <1>2, <1>4, <1>20 DEF Requeue, Goto, Undecided, AckEntry, redisVars, TypeOK, WorkerType, StreamType, AtWork
<1>21. ASSUME NEW c \in Containers, Lifecycle(c) PROVE Undecided(i)'
  BY <1>2, <1>4, <1>21 DEF Lifecycle, Sigterm, Exit, Crash, Restart, Undecided, redisVars,
     workerVars, TypeOK, WorkerType, StreamType
<1>22. CASE \/ \E k \in Jobs : Submission(k)
            \/ \E a \in Admins : Replay(a)
            \/ ForeignAdd
            \/ UNCHANGED vars
  <2>1. UNCHANGED <<wpc, cur, cursor, pel>>
    BY <1>22 DEF Submission, CreateRow, AddJob, CutSubmit, Replay, ReplayRead, ReplayAdd,
         ReplayDelete, CutReplay, ForeignAdd, workerVars, redisVars, vars
  <2>2. Undecided(i)'
    BY <2>1 DEF Undecided
  <2> QED
    BY <2>2, <1>3
<1>23. ASSUME NEW w \in Workers, WorkerStep(w) PROVE Accounted(j, d)'
  <2>1. CASE cur[w] = i /\ (MarkDelivered(w) \/ AckRetry(w) \/ DeadLetter(w))
    BY <2>1, <1>5, <1>6, <1>7
  <2>2. CASE ~ (cur[w] = i /\ (MarkDelivered(w) \/ AckRetry(w) \/ DeadLetter(w)))
    <3>1. Undecided(i)'
      BY <1>23, <2>2, <1>8, <1>9, <1>10, <1>11, <1>12, <1>13, <1>14, <1>15, <1>16,
         <1>17, <1>18, <1>19, <1>20 DEF WorkerStep, RunLoop, Process
    <3> QED
      BY <3>1, <1>3
  <2> QED
    BY <2>1, <2>2
<1>24. ASSUME NEW c \in Containers, Lifecycle(c) PROVE Accounted(j, d)'
  BY <1>3, <1>21, <1>24
<1> QED
  BY <1>22, <1>23, <1>24 DEF Next

LEMMA AccountedPersists ==
    ASSUME TypeOK, TruthInv, KeptInv, [Next]_vars, NEW j \in Jobs,
           NEW d \in 0 .. Len(dlq), Accounted(j, d)
    PROVE  Accounted(j, d)'
<1>1. CASE mails[j] > 0 \/ j \in dropped
  <2>1. Grown /\ mails \in [Jobs -> Nat] /\ mails' \in [Jobs -> Nat]
    BY StepGrows, NextTypeOK DEF TypeOK, RowType
  <2> QED
    BY <1>1, <2>1 DEF Grown, Accounted
<1>2. CASE InStream(j)
  BY <1>2, EntryPersists DEF InStream
<1>3. CASE InMemory(j)
  BY <1>3, MemoryPersists DEF InMemory
<1>4. CASE InDlqBeyond(j, d)
  BY <1>4, ParkedPersists DEF InDlqBeyond
<1> QED
  BY <1>1, <1>2, <1>3, <1>4 DEF Accounted, SafeBeyond

\* An XADD of the handler or of a replay request that reports success has left
\* the job on the stream.
LEMMA AddedIsAccounted ==
    ASSUME TypeOK, NEW j \in Jobs, NEW d \in Nat, NEW e \in Entry, e.job = j,
           NEW r \in XAdd, r.ok, stream' = AddTo(stream, r.copies, e),
           cursor' = cursor, pel' = pel
    PROVE  Accounted(j, d)'
<1> DEFINE i == Len(stream) + 1
<1>1. r.copies \in 0 .. 2 /\ r.copies # 0
  BY XAddCopies DEF XAdd, Added
<1>2. Len(stream') = Len(stream) + r.copies /\ \A k \in Ids' \ Ids : stream'[k] = e
  BY <1>1, StreamGrows
<1>3. i \in Ids' \ Ids /\ i > cursor'
  BY <1>1, <1>2 DEF Ids, TypeOK, StreamType
<1>4. stream'[i].job = j
  BY <1>2, <1>3
<1> QED
  BY <1>3, <1>4 DEF Accounted, SafeBeyond, InStream, Undecided

LEMMA NextKept == TypeOK /\ TruthInv /\ KeptInv /\ [Next]_vars => KeptInv'
<1> SUFFICES ASSUME TypeOK, TruthInv, KeptInv, [Next]_vars PROVE KeptInv'
  OBVIOUS
<1>1. Grown /\ TypeOK'
  BY StepGrows, NextTypeOK
<1>2. ASSUME NEW j \in Jobs, api'[j] = "queued" PROVE Accounted(j, 0)'
  <2>1. CASE api[j] = "queued"
    <3>1. Accounted(j, 0) /\ 0 \in 0 .. Len(dlq)
      BY <2>1 DEF KeptInv, NothingElseLost, TypeOK, DlqType
    <3> QED
      BY <3>1, AccountedPersists
  <2>2. CASE api[j] # "queued"
    <3>1. AddJob(j)
      BY <1>2, <2>2
         DEF Next, Submission, WorkerStep, RunLoop, Process, Replay, Lifecycle, CreateRow,
             AddJob, CutSubmit, ForeignAdd, StopWorker, BeginRead, ReadEntry, ReadNothing,
             ReadFails, SendOk, SendFails, MarkDelivered, DeadLetter, MarkFailed, Ack,
             AckRetry, Requeue, ReplayRead, ReplayAdd, ReplayDelete, CutReplay, Sigterm,
             Exit, Crash, Restart, KillHandlers, vars, TypeOK, RowType
    <3> DEFINE e == [job |-> j, retry |-> 0, max |-> MaxRetries[Host[j]]]
    <3>2. e \in Entry /\ e.job = j
      BY DEF Entry
    <3>3. PICK r \in XAdd : /\ stream' = AddTo(stream, r.copies, e)
                            /\ api' = [api EXCEPT ![j] = IF r.ok THEN "queued" ELSE "error"]
      BY <3>1 DEF AddJob
    <3>4. r.ok /\ cursor' = cursor /\ pel' = pel
      BY <1>2, <3>1, <3>3 DEF AddJob, TypeOK, RowType
    <3> HIDE DEF e
    <3> QED
      BY <3>2, <3>3, <3>4, AddedIsAccounted
  <2> QED
    BY <2>1, <2>2
<1>3. ASSUME NEW a \in Admins, apc'[a] = "del"
      PROVE  Accounted(Held(a).job, hold[a])' /\ Held(a)' = Held(a)
  <2>1. CASE apc[a] = "del" /\ hold'[a] = hold[a]
    <3> DEFINE j == Held(a).job
               d == hold[a]
    <3>1. j \in Jobs /\ d \in DlqIds /\ d \in 0 .. Len(dlq)
      BY <2>1, HeldTypes DEF TypeOK, ReplayType
    <3>2. Held(a)' = Held(a)
      BY <1>1, <2>1, <3>1 DEF Held, Grown
    <3>3. Accounted(j, d)
      BY <2>1 DEF KeptInv
    <3>4. ASSUME NEW k \in Jobs, NEW m \in 0 .. Len(dlq), Accounted(k, m)
          PROVE  Accounted(k, m)'
      BY <3>4, AccountedPersists
    <3> QED
      BY <2>1, <3>1, <3>2, <3>3, <3>4 DEF Accounted, SafeBeyond, InStream, InMemory,
         InDlqBeyond
  <2>2. CASE ReplayAdd(a)
    <3>1. Held(a) \in Entry /\ Held(a).job \in Jobs /\ hold[a] \in Nat
      BY <2>2, HeldTypes DEF ReplayAdd, DlqIds
    <3>2. PICK r \in XAdd :
             /\ stream' = AddTo(stream, r.copies, Held(a))
             /\ r.ok => UNCHANGED hold
             /\ ~ r.ok => apc' = [apc EXCEPT ![a] = "idle"]
      BY <2>2 DEF ReplayAdd
    <3>3. r.ok /\ cursor' = cursor /\ pel' = pel /\ UNCHANGED <<hold, dlq>>
      BY <1>3, <2>2, <3>2 DEF ReplayAdd, TypeOK, ReplayType
    <3>4. Held(a)' = Held(a)
      BY <3>3 DEF Held
    <3>5. ASSUME NEW k \in Jobs, NEW m \in Nat, Held(a).job = k
          PROVE  Accounted(k, m)'
      BY <3>1, <3>2, <3>3, <3>5, AddedIsAccounted
    <3> QED
      BY <3>1, <3>3, <3>4, <3>5 DEF Accounted, SafeBeyond, InStream, InMemory, InDlqBeyond
  <2>3. ASSUME NEW b \in Admins, Replay(b), ~ ReplayAdd(a)
        PROVE  apc[a] = "del" /\ hold'[a] = hold[a]
    BY <1>3, <2>3 DEF Replay, ReplayRead, ReplayAdd, ReplayDelete, CutReplay, TypeOK,
       ReplayType
  <2>4. ASSUME NEW c \in Containers, Lifecycle(c)
        PROVE  apc[a] = "del" /\ hold'[a] = hold[a]
    BY <1>3, <2>4 DEF Lifecycle, Sigterm, Exit, Crash, Restart, KillHandlers, adminVars,
       TypeOK, ReplayType
  <2>5. ASSUME NEW w \in Workers, WorkerStep(w)
        PROVE  apc[a] = "del" /\ hold'[a] = hold[a]
    BY <1>3, <2>5 DEF WorkerStep, RunLoop, Process, StopWorker, BeginRead, ReadEntry,
       ReadNothing, ReadFails, SendOk, SendFails, MarkDelivered, DeadLetter, MarkFailed,
       Ack, AckRetry, Requeue, adminVars
  <2>6. CASE (\E k \in Jobs : Submission(k)) \/ ForeignAdd \/ UNCHANGED vars
    <3>1. apc[a] = "del" /\ hold'[a] = hold[a]
      BY <1>3, <2>6 DEF Submission, CreateRow, AddJob, CutSubmit, ForeignAdd, adminVars,
         vars
    <3> QED
      BY <2>1, <3>1
  <2> QED
    BY <2>1, <2>2, <2>3, <2>4, <2>5, <2>6 DEF Next
<1> QED
  BY <1>2, <1>3 DEF KeptInv, NothingElseLost

\* Whatever fails, crashes or is resent, and however many workers, containers and
\* replay requests there are: a job answered "queued" is mailed, can be found in
\* the stream, the DLQ or a worker's memory, or was dropped at one of the three
\* places where the code knowingly drops it.
THEOREM NothingElseIsLost == Spec => []NothingElseLost
<1>1. Init => TruthInv /\ KeptInv
  BY DEF Init, TruthInv, KeptInv, DeliveredTruthful, NothingElseLost
<1>2. TypeOK /\ TruthInv /\ KeptInv /\ [Next]_vars => TruthInv' /\ KeptInv'
  BY NextTruth, NextKept
<1>3. KeptInv => NothingElseLost
  BY DEF KeptInv
<1> QED
  BY <1>1, <1>2, <1>3, TypeCorrect, PTL DEF Spec

-----------------------------------------------------------------------------
(* While no container stops and Redis answers.                             *)

CalmFaults == Faults \cap {"crash", "sigterm", "redis"} = {}

QuietInv == dropped = {} /\ \A c \in Containers : mode[c] = "up"

LEMMA NextQuiet ==
    ASSUME CalmFaults
    PROVE  TypeOK /\ QuietInv /\ [Next]_vars => QuietInv'
<1> SUFFICES ASSUME TypeOK, QuietInv, [Next]_vars PROVE QuietInv'
  OBVIOUS
<1> USE DEF CalmFaults
<1>1. ASSUME NEW w \in Workers, NEW r \in WorkerXAdd(w) PROVE r.copies # 0
  <2>1. Host[w] \in Containers
    OBVIOUS
  <2>2. ~ Cancelled(w)
    BY <2>1 DEF QuietInv, Cancelled
  <2> QED
    BY <1>1, <2>2 DEF WorkerXAdd, XAdd, Added
<1>2. ASSUME NEW w \in Workers, DeadLetter(w) PROVE QuietInv'
  BY <1>1, <1>2 DEF DeadLetter, QuietInv
<1>3. ASSUME NEW w \in Workers, Requeue(w) PROVE QuietInv'
  BY <1>1, <1>3 DEF Requeue, QuietInv
<1>4. ASSUME NEW w \in Workers, WorkerStep(w), ~ DeadLetter(w), ~ Requeue(w)
      PROVE  QuietInv'
  BY <1>4 DEF WorkerStep, RunLoop, Process, StopWorker, BeginRead, ReadEntry,
     ReadNothing, ReadFails, SendOk, SendFails, MarkDelivered, MarkFailed, Ack,
     AckRetry, history, QuietInv
<1>5. ASSUME NEW c \in Containers, Lifecycle(c) PROVE QuietInv'
  BY <1>5 DEF Lifecycle, Sigterm, Exit, Crash, Restart, QuietInv
<1>6. CASE \/ \E k \in Jobs : Submission(k)
           \/ \E a \in Admins : Replay(a)
           \/ ForeignAdd
           \/ UNCHANGED vars
  BY <1>6 DEF Submission, CreateRow, AddJob, CutSubmit, Replay, ReplayRead, ReplayAdd,
     ReplayDelete, CutReplay, ForeignAdd, history, vars, QuietInv
<1> QED
  BY <1>2, <1>3, <1>4, <1>5, <1>6 DEF Next

\* As long as no container is stopped or killed and Redis answers, the excuse is
\* never used: no queued job is lost, whatever Postgres, the mail server, the
\* clients and the Redis client's resends do.
THEOREM NothingIsLost ==
    ASSUME CalmFaults
    PROVE  Spec => []NothingLost
<1>1. Init => QuietInv
  BY DEF Init, QuietInv
<1>2. TypeOK /\ QuietInv /\ [Next]_vars => QuietInv'
  BY NextQuiet
<1>3. NothingElseLost /\ QuietInv => NothingLost
  BY DEF NothingElseLost, QuietInv, NothingLost, Accounted, Safe
<1> QED
  BY <1>1, <1>2, <1>3, TypeCorrect, NothingElseIsLost, PTL DEF Spec

=============================================================================
