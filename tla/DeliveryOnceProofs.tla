------------------------- MODULE DeliveryOnceProofs -------------------------
(* Theorems about Delivery: no attempt is made twice and no final status is  *)
(* overwritten, as long as a job is not replayed and the Redis client does   *)
(* not resend an XADD; a row is there before the job's first entry, a failed *)
(* job is on the DLQ, and a job is mailed no more often than its replays and *)
(* its undelivered acknowledgements account for.                             *)
EXTENDS DeliveryProofs, FiniteSetTheorems

USE NoJobAssumption, HostAssumption, MaxRetriesAssumption

-----------------------------------------------------------------------------
(* One live copy of a job that nobody replays.  The resend of an XADD whose *)
(* reply was lost would make a second one, so it is excluded here.          *)

\* No two workers hold one entry, and what a replay request holds counts as
\* replayed.
HoldersInv ==
    /\ \A v, w \in Workers : cur[v] = cur[w] /\ cur[v] # 0 => v = w
    /\ \A a \in Admins : apc[a] # "idle" => replays[Held(a).job] > 0
    /\ \A w \in Workers : wpc[w] \in {"ackRetry", "requeue"}
                              => Msg(w).retry < EffMax(w, Msg(w))

\* Of an unreplayed job only the newest entry is active, and its handler has
\* nothing on the stream before it adds the job.
NewestInv ==
    \A j \in Jobs : replays[j] = 0 =>
        /\ api[j] \in {"idle", "created"} => \A i \in Ids : stream[i].job # j
        /\ \A i, k \in Ids :
              stream[i].job = j /\ stream[k].job = j /\ Active(i) => k <= i

OneCopyInv == HoldersInv /\ NewestInv /\ UniqueGenerations

\* A worker holds an entry that was handed out, and a live one has a job.
LEMMA LiveTypes ==
    ASSUME TypeOK
    PROVE  /\ \A w \in Workers : wpc[w] \in Live =>
                   cur[w] \in Ids /\ cur[w] <= cursor /\ cur[w] # 0
                   /\ Msg(w) \in Entry /\ Msg(w).job \in Jobs
           /\ \A i \in Ids : i \in Nat /\ i # 0 /\ stream[i] \in Entry
           /\ cursor \in Nat /\ Len(stream) \in Nat
<1>1. cursor \in Nat /\ Len(stream) \in Nat
  BY DEF TypeOK, StreamType
<1>2. \A w \in Workers : wpc[w] \in Live => wpc[w] \in AtWork /\ wpc[w] \in AtWork \ {"ack"}
  BY DEF Live
<1>3. \A w \in Workers : cur[w] <= cursor
  BY <1>1 DEF TypeOK, WorkerType
<1>4. \A i \in Ids : i \in Nat /\ i # 0
  BY <1>1 DEF Ids
<1> QED
  BY <1>1, <1>2, <1>3, <1>4, EntryTypes, WorkerEntries

-----------------------------------------------------------------------------
(* Who holds what.                                                         *)

LEMMA NextHolders == TypeOK /\ HoldersInv /\ [Next]_vars => HoldersInv'
<1> SUFFICES ASSUME TypeOK, HoldersInv, [Next]_vars PROVE HoldersInv'
  OBVIOUS
<1>1. Grown /\ TypeOK' /\ cursor \in Nat
  BY StepGrows, NextTypeOK DEF TypeOK, StreamType
<1>2. ASSUME NEW v \in Workers, NEW w \in Workers, cur'[v] = cur'[w], cur'[v] # 0
      PROVE  v = w
  <2>1. ASSUME NEW u \in Workers, WorkerStep(u), ~ ReadEntry(u) PROVE v = w
    <3>1. \A x \in Workers : cur'[x] = cur[x] \/ cur'[x] = 0
      BY <2>1 DEF WorkerStep, RunLoop, Process, StopWorker, BeginRead, ReadNothing,
         ReadFails, SendOk, SendFails, MarkDelivered, DeadLetter, MarkFailed, Ack,
         AckRetry, Requeue, TypeOK, WorkerType
    <3> QED
      BY <1>2, <3>1 DEF HoldersInv
  <2>2. ASSUME NEW u \in Workers, ReadEntry(u) PROVE v = w
    <3>1. cur'[u] = cursor + 1 /\ \A x \in Workers \ {u} : cur'[x] = cur[x]
      BY <2>2 DEF ReadEntry, TypeOK, WorkerType
    <3>2. \A x \in Workers : cur[x] # cursor + 1
      BY <1>1 DEF TypeOK, WorkerType
    <3> QED
      BY <1>2, <3>1, <3>2 DEF HoldersInv
  <2>3. ASSUME NEW c \in Containers, Lifecycle(c) PROVE v = w
    <3>1. \A x \in Workers : cur'[x] = cur[x] \/ cur'[x] = 0
      BY <2>3 DEF Lifecycle, Sigterm, Exit, Crash, Restart, workerVars, TypeOK, WorkerType
    <3> QED
      BY <1>2, <3>1 DEF HoldersInv
  <2>4. CASE \/ \E k \in Jobs : Submission(k)
             \/ \E a \in Admins : Replay(a)
             \/ ForeignAdd
             \/ UNCHANGED vars
    <3>1. cur' = cur
      BY <2>4 DEF Submission, CreateRow, AddJob, CutSubmit, Replay, ReplayRead, ReplayAdd,
         ReplayDelete, CutReplay, ForeignAdd, workerVars, vars
    <3> QED
      BY <1>2, <3>1 DEF HoldersInv
  <2> QED
    BY <2>1, <2>2, <2>3, <2>4 DEF Next
<1>3. ASSUME NEW a \in Admins, apc'[a] # "idle" PROVE replays'[Held(a)'.job] > 0
  <2>1. CASE apc[a] # "idle" /\ hold'[a] = hold[a]
    <3>1. Held(a)' = Held(a) /\ Held(a).job \in Jobs /\ replays[Held(a).job] > 0
      BY <1>1, <2>1, HeldTypes DEF Held, Grown, HoldersInv
    <3> QED
      BY <1>1, <3>1 DEF Grown, TypeOK, ReplayType
  <2>2. CASE ReplayRead(a)
    <3>1. PICK d \in parked : /\ replays' = [replays EXCEPT ![dlq[d].job] = @ + 1]
                              /\ hold' = [hold EXCEPT ![a] = d]
      BY <2>2 DEF ReplayRead
    <3>2. d \in DlqIds /\ dlq[d].job \in Jobs
      BY EntryTypes DEF TypeOK, DlqType, DlqEntry
    <3>3. Held(a)' = dlq[d]
      BY <2>2, <3>1 DEF ReplayRead, redisVars, Held, TypeOK, ReplayType
    <3> QED
      BY <3>1, <3>2, <3>3 DEF TypeOK, ReplayType
  <2>3. ASSUME NEW b \in Admins, Replay(b), ~ ReplayRead(a)
        PROVE  apc[a] # "idle" /\ hold'[a] = hold[a]
    BY <1>3, <2>3 DEF Replay, ReplayRead, ReplayAdd, ReplayDelete, CutReplay, TypeOK,
       ReplayType
  <2>4. ASSUME NEW c \in Containers, Lifecycle(c)
        PROVE  apc[a] # "idle" /\ hold'[a] = hold[a]
    BY <1>3, <2>4 DEF Lifecycle, Sigterm, Exit, Crash, Restart, KillHandlers, adminVars,
       TypeOK, ReplayType
  <2>5. ASSUME NEW w \in Workers, WorkerStep(w)
        PROVE  apc[a] # "idle" /\ hold'[a] = hold[a]
    BY <1>3, <2>5 DEF WorkerStep, RunLoop, Process, StopWorker, BeginRead, ReadEntry,
       ReadNothing, ReadFails, SendOk, SendFails, MarkDelivered, DeadLetter, MarkFailed,
       Ack, AckRetry, Requeue, adminVars
  <2>6. CASE (\E k \in Jobs : Submission(k)) \/ ForeignAdd \/ UNCHANGED vars
    <3>1. apc[a] # "idle" /\ hold'[a] = hold[a]
      BY <1>3, <2>6 DEF Submission, CreateRow, AddJob, CutSubmit, ForeignAdd, adminVars,
         vars
    <3> QED
      BY <2>1, <3>1
  <2> QED
    BY <2>1, <2>2, <2>3, <2>4, <2>5, <2>6 DEF Next
<1>4. ASSUME NEW w \in Workers, wpc'[w] \in {"ackRetry", "requeue"}
      PROVE  Msg(w)'.retry < EffMax(w, Msg(w)')
  <2>1. CASE wpc[w] \in {"ackRetry", "requeue"} /\ cur'[w] = cur[w]
    <3>1. cur[w] \in Ids
      BY <2>1, LiveTypes DEF Live, AtWork
    <3>2. Msg(w)' = Msg(w)
      BY <1>1, <2>1, <3>1 DEF Msg, Grown
    <3> QED
      BY <2>1, <3>2 DEF HoldersInv
  <2>2. CASE SendFails(w)
    <3>1. Msg(w)' = Msg(w) /\ Msg(w) \in Entry
      BY <2>2, LiveTypes DEF SendFails, redisVars, Msg, Live, AtWork
    <3>2. ~ (Msg(w).retry >= EffMax(w, Msg(w)))
      BY <1>4, <2>2 DEF SendFails, Goto, TypeOK, WorkerType
    <3>3. EffMax(w, Msg(w)) \in Nat /\ Msg(w).retry \in Nat
      BY <3>1 DEF EffMax, Entry
    <3> QED
      BY <3>1, <3>2, <3>3
  <2>3. ASSUME NEW u \in Workers, WorkerStep(u), ~ SendFails(w)
        PROVE  wpc[w] \in {"ackRetry", "requeue"} /\ cur'[w] = cur[w]
    BY <1>4, <2>3 DEF WorkerStep, RunLoop, Process, StopWorker, BeginRead, ReadEntry,
       ReadNothing, ReadFails, SendOk, SendFails, MarkDelivered, DeadLetter, MarkFailed,
       Ack, AckRetry, Requeue, Goto, TypeOK, WorkerType
  <2>4. ASSUME NEW c \in Containers, Lifecycle(c)
        PROVE  wpc[w] \in {"ackRetry", "requeue"} /\ cur'[w] = cur[w]
    BY <1>4, <2>4 DEF Lifecycle, Sigterm, Exit, Crash, Restart, workerVars, TypeOK,
       WorkerType
  <2>5. CASE \/ \E k \in Jobs : Submission(k)
             \/ \E a \in Admins : Replay(a)
             \/ ForeignAdd
             \/ UNCHANGED vars
    <3>1. wpc[w] \in {"ackRetry", "requeue"} /\ cur'[w] = cur[w]
      BY <1>4, <2>5 DEF Submission, CreateRow, AddJob, CutSubmit, Replay, ReplayRead,
         ReplayAdd, ReplayDelete, CutReplay, ForeignAdd, workerVars, vars
    <3> QED
      BY <2>1, <3>1
  <2> QED
    BY <2>1, <2>2, <2>3, <2>4, <2>5 DEF Next
<1>5. \A w \in Workers : EffMax(w, Msg(w))' = EffMax(w, Msg(w)')
  BY DEF EffMax
<1> QED
  BY <1>2, <1>3, <1>4, <1>5 DEF HoldersInv

-----------------------------------------------------------------------------
(* What a step does to activity and to the stream.                         *)

\* Whoever holds an old entry after a step held it before.
LEMMA HolderHeld ==
    ASSUME TypeOK, [Next]_vars, NEW i \in Ids, i <= cursor,
           NEW v \in Workers, cur'[v] = i, wpc'[v] \in Live
    PROVE  cur[v] = i /\ wpc[v] \in Live
<1> DEFINE Goal == cur[v] = i /\ wpc[v] \in Live
<1>1. cursor \in Nat /\ i \in Nat /\ i # 0
  BY LiveTypes
<1>2. ASSUME NEW w \in Workers, WorkerStep(w) PROVE Goal
  <2>1. CASE ReadEntry(w)
    BY <1>1, <2>1 DEF ReadEntry, TypeOK, WorkerType
  <2>2. CASE w # v /\ ~ ReadEntry(w)
    BY <1>2, <2>2 DEF WorkerStep, RunLoop, Process, StopWorker, BeginRead,
       ReadNothing, ReadFails, SendOk, SendFails, MarkDelivered, DeadLetter, MarkFailed,
       Ack, AckRetry, Requeue, Goto, TypeOK, WorkerType
  <2>3. CASE w = v /\ ~ ReadEntry(w)
    BY <1>1, <1>2, <2>3 DEF WorkerStep, RunLoop, Process, StopWorker, BeginRead,
       ReadNothing, ReadFails, SendOk, SendFails, MarkDelivered, DeadLetter, MarkFailed,
       Ack, AckRetry, Requeue, Goto, Live, AtWork, TypeOK, WorkerType
  <2> QED
    BY <2>1, <2>2, <2>3
<1>3. ASSUME NEW c \in Containers, Lifecycle(c) PROVE Goal
  BY <1>1, <1>3 DEF Lifecycle, Sigterm, Exit, Crash, Restart, workerVars, Live, AtWork,
     TypeOK, WorkerType
<1>4. ASSUME \/ \E k \in Jobs : Submission(k)
             \/ \E a \in Admins : Replay(a)
             \/ ForeignAdd
             \/ UNCHANGED vars
      PROVE  Goal
  BY <1>4 DEF Submission, CreateRow, AddJob, CutSubmit, Replay, ReplayRead, ReplayAdd,
     ReplayDelete, CutReplay, ForeignAdd, workerVars, vars
<1> QED
  BY <1>2, <1>3, <1>4 DEF Next

\* No step makes an old entry active again.
LEMMA ActivityEnds ==
    ASSUME TypeOK, [Next]_vars, NEW i \in Ids, Active(i)'
    PROVE  Active(i)
<1>1. cursor \in Nat /\ i \in Nat /\ cursor' >= cursor /\ cursor' \in Nat
  BY LiveTypes, StepGrows, NextTypeOK DEF Grown, TypeOK, StreamType
<1>2. CASE i > cursor
  BY <1>2 DEF Active
<1>3. CASE ~ (i > cursor)
  <2>1. PICK v \in Workers : cur'[v] = i /\ wpc'[v] \in Live
    BY <1>1, <1>3 DEF Active
  <2>2. cur[v] = i /\ wpc[v] \in Live
    BY <1>1, <1>3, <2>1, HolderHeld
  <2> QED
    BY <2>2 DEF Active
<1> QED
  BY <1>2, <1>3

\* Without resends a step adds one entry at most, and there are four of them
\* that add one.
AddsOne(e) ==
    /\ \A i \in Ids' \ Ids : i = Len(stream) + 1 /\ stream'[i] = e
    /\ cursor' = cursor

NewEntry(j) == [job |-> j, retry |-> 0, max |-> MaxRetries[Host[j]]]
Retried(w) == [job |-> Msg(w).job, retry |-> Msg(w).retry + 1, max |-> EffMax(w, Msg(w))]
Malformed == [job |-> NoJob, retry |-> 0, max |-> 0]

LEMMA OneCopy == "resend" \notin Faults => \A r \in XAdd : r.copies \in 0 .. 1
  BY DEF XAdd, Added

LEMMA AddsOneCopy ==
    ASSUME TypeOK, NEW e \in Entry, NEW n \in 0 .. 1,
           stream' = AddTo(stream, n, e), cursor' = cursor, pel' = pel
    PROVE  AddsOne(e)
<1>1. n \in 0 .. 2
  OBVIOUS
<1>2. Len(stream') = Len(stream) + n /\ \A i \in Ids' \ Ids : stream'[i] = e
  BY <1>1, StreamGrows
<1>3. Len(stream) \in Nat
  BY DEF TypeOK, StreamType
<1> QED
  BY <1>2, <1>3 DEF AddsOne, Ids

LEMMA WhoAdds ==
    ASSUME TypeOK, [Next]_vars, "resend" \notin Faults
    PROVE  \/ Ids' = Ids
           \/ \E j \in Jobs : AddJob(j) /\ AddsOne(NewEntry(j))
           \/ \E w \in Workers : Requeue(w) /\ AddsOne(Retried(w))
           \/ \E a \in Admins : ReplayAdd(a) /\ AddsOne(Held(a))
           \/ AddsOne(Malformed)
<1>1. ASSUME NEW j \in Jobs, AddJob(j) PROVE AddsOne(NewEntry(j))
  <2>1. NewEntry(j) \in Entry
    BY DEF NewEntry, Entry
  <2>2. PICK r \in XAdd : stream' = AddTo(stream, r.copies, NewEntry(j))
    BY <1>1 DEF AddJob, NewEntry
  <2>3. r.copies \in 0 .. 1 /\ cursor' = cursor /\ pel' = pel
    BY <1>1, OneCopy DEF AddJob
  <2> QED
    BY <2>1, <2>2, <2>3, AddsOneCopy
<1>2. ASSUME NEW w \in Workers, Requeue(w) PROVE AddsOne(Retried(w))
  <2>1. Retried(w) \in Entry
    BY <1>2, WorkerEntries DEF Requeue, Retried, AtWork
  <2>2. PICK r \in WorkerXAdd(w) : stream' = AddTo(stream, r.copies, Retried(w))
    BY <1>2 DEF Requeue, Retried
  <2>3. r.copies \in 0 .. 1 /\ cursor' = cursor /\ pel' = pel
    BY <1>2, OneCopy DEF Requeue, WorkerXAdd, Added
  <2> QED
    BY <2>1, <2>2, <2>3, AddsOneCopy
<1>3. ASSUME NEW a \in Admins, ReplayAdd(a) PROVE AddsOne(Held(a))
  <2>1. Held(a) \in Entry
    BY <1>3, HeldTypes DEF ReplayAdd
  <2>2. PICK r \in XAdd : stream' = AddTo(stream, r.copies, Held(a))
    BY <1>3 DEF ReplayAdd
  <2>3. r.copies \in 0 .. 1 /\ cursor' = cursor /\ pel' = pel
    BY <1>3, OneCopy DEF ReplayAdd
  <2> QED
    BY <2>1, <2>2, <2>3, AddsOneCopy
<1>4. CASE ForeignAdd
  <2> DEFINE n == 1
  <2>1. Malformed \in Entry
    BY DEF Malformed, Entry
  <2>2. stream' = AddTo(stream, n, Malformed)
    BY <1>4 DEF ForeignAdd, Malformed, AddTo
  <2>3. n \in 0 .. 1 /\ cursor' = cursor /\ pel' = pel
    BY <1>4 DEF ForeignAdd
  <2> HIDE DEF n
  <2> QED
    BY <2>1, <2>2, <2>3, AddsOneCopy
<1>5. ASSUME NEW w \in Workers, WorkerStep(w), ~ Requeue(w) PROVE Ids' = Ids
  BY <1>5 DEF WorkerStep, RunLoop, Process, StopWorker, BeginRead, ReadEntry, ReadNothing,
     ReadFails, SendOk, SendFails, MarkDelivered, DeadLetter, MarkFailed, Ack, AckRetry,
     redisVars, Ids
<1>6. ASSUME NEW c \in Containers, Lifecycle(c) PROVE Ids' = Ids
  BY <1>6 DEF Lifecycle, Sigterm, Exit, Crash, Restart, redisVars, Ids
<1>7. ASSUME NEW a \in Admins, Replay(a), ~ ReplayAdd(a) PROVE Ids' = Ids
  BY <1>7 DEF Replay, ReplayRead, ReplayDelete, CutReplay, redisVars, Ids
<1>8. ASSUME NEW j \in Jobs, Submission(j), ~ AddJob(j) PROVE Ids' = Ids
  BY <1>8 DEF Submission, CreateRow, CutSubmit, redisVars, Ids
<1>9. CASE UNCHANGED vars
  BY <1>9 DEF vars, Ids
<1>10. ASSUME NEW j \in Jobs, Submission(j)
       PROVE  Ids' = Ids \/ (AddJob(j) /\ AddsOne(NewEntry(j)))
  BY <1>1, <1>8, <1>10
<1>11. ASSUME NEW a \in Admins, Replay(a)
       PROVE  Ids' = Ids \/ (ReplayAdd(a) /\ AddsOne(Held(a)))
  BY <1>3, <1>7, <1>11
<1>12. ASSUME NEW w \in Workers, WorkerStep(w)
       PROVE  Ids' = Ids \/ (Requeue(w) /\ AddsOne(Retried(w)))
  BY <1>2, <1>5, <1>12
<1> QED
  BY <1>4, <1>6, <1>9, <1>10, <1>11, <1>12 DEF Next

\* A step leaves the DLQ as it is, or adds the entry of a worker to it.
LEMMA WhoParks ==
    ASSUME TypeOK, [Next]_vars
    PROVE  \/ dlq' = dlq
           \/ \E w \in Workers :
                 /\ DeadLetter(w) /\ cur[w] \in Ids /\ Msg(w).job \in Jobs
                 /\ \A d \in DlqIds' : d \in DlqIds \/ dlq'[d] = Msg(w)
<1>1. ASSUME NEW w \in Workers, DeadLetter(w)
      PROVE  /\ cur[w] \in Ids /\ Msg(w).job \in Jobs
             /\ \A d \in DlqIds' : d \in DlqIds \/ dlq'[d] = Msg(w)
  <2>1. Msg(w) \in DlqEntry /\ cur[w] \in Ids /\ Msg(w).job \in Jobs
    BY <1>1, WorkerEntries, LiveTypes DEF DeadLetter, Live, AtWork
  <2>2. PICK r \in WorkerXAdd(w) :
           /\ dlq' = AddTo(dlq, r.copies, Msg(w))
           /\ parked' = parked \cup (Len(dlq) + 1 .. Len(dlq) + r.copies)
    BY <1>1 DEF DeadLetter
  <2>3. r.copies \in 0 .. 2
    BY WorkerXAddCopies
  <2>4. /\ Len(dlq') = Len(dlq) + r.copies
        /\ \A d \in Len(dlq) + 1 .. Len(dlq) + r.copies : dlq'[d] = Msg(w)
    BY <2>1, <2>2, <2>3, DlqGrows
  <2>5. ASSUME NEW d \in DlqIds' PROVE d \in DlqIds \/ d \in Len(dlq) + 1 .. Len(dlq) + r.copies
    BY <2>3, <2>4 DEF DlqIds, TypeOK, DlqType
  <2> QED
    BY <2>1, <2>4, <2>5
<1>2. ASSUME NEW w \in Workers, WorkerStep(w), ~ DeadLetter(w) PROVE dlq' = dlq
  BY <1>2 DEF WorkerStep, RunLoop, Process, StopWorker, BeginRead, ReadEntry, ReadNothing,
     ReadFails, SendOk, SendFails, MarkDelivered, MarkFailed, Ack, AckRetry, Requeue,
     redisVars
<1>3. ASSUME NEW c \in Containers, Lifecycle(c) PROVE dlq' = dlq
  BY <1>3 DEF Lifecycle, Sigterm, Exit, Crash, Restart, redisVars
<1>4. ASSUME \/ \E k \in Jobs : Submission(k)
             \/ \E a \in Admins : Replay(a)
             \/ ForeignAdd
             \/ UNCHANGED vars
      PROVE  dlq' = dlq
  BY <1>4 DEF Submission, CreateRow, AddJob, CutSubmit, Replay, ReplayRead, ReplayAdd,
     ReplayDelete, CutReplay, ForeignAdd, redisVars, vars
<1> QED
  BY <1>1, <1>2, <1>3, <1>4 DEF Next

\* A handler never goes back, and a replay counter never does.
LEMMA Backwards ==
    ASSUME TypeOK, [Next]_vars, NEW j \in Jobs
    PROVE  /\ replays'[j] = 0 => replays[j] = 0
           /\ api'[j] = "idle" => api[j] = "idle"
           /\ api'[j] = "created" => api[j] \in {"idle", "created"}
<1>1. replays'[j] = 0 => replays[j] = 0
  BY StepGrows DEF Grown, TypeOK, ReplayType
<1>2. ASSUME NEW k \in Jobs, Submission(k)
      PROVE  /\ api'[j] = "idle" => api[j] = "idle"
             /\ api'[j] = "created" => api[j] \in {"idle", "created"}
  <2>1. CASE CreateRow(k)
    BY <2>1 DEF CreateRow, TypeOK, RowType
  <2>2. CASE AddJob(k)
    BY <2>2 DEF AddJob, TypeOK, RowType
  <2>3. CASE CutSubmit(k)
    BY <2>3 DEF CutSubmit, TypeOK, RowType
  <2> QED
    BY <1>2, <2>1, <2>2, <2>3 DEF Submission
<1>3. ASSUME NEW c \in Containers, Lifecycle(c)
      PROVE  api'[j] \in {"idle", "created"} => api'[j] = api[j]
  BY <1>3 DEF Lifecycle, Sigterm, Exit, Crash, Restart, KillHandlers, TypeOK, RowType
<1>4. ASSUME NEW w \in Workers, WorkerStep(w) PROVE api' = api
  BY <1>4 DEF WorkerStep, RunLoop, Process, StopWorker, BeginRead, ReadEntry, ReadNothing,
     ReadFails, SendOk, SendFails, MarkDelivered, DeadLetter, MarkFailed, Ack, AckRetry,
     Requeue
<1>5. ASSUME \/ \E a \in Admins : Replay(a)
             \/ ForeignAdd
             \/ UNCHANGED vars
      PROVE  api' = api
  BY <1>5 DEF Replay, ReplayRead, ReplayAdd, ReplayDelete, CutReplay, ForeignAdd, vars
<1> QED
  BY <1>1, <1>2, <1>3, <1>4, <1>5 DEF Next

-----------------------------------------------------------------------------
(* Only the newest entry is active, and retries only go up.                *)

\* What is on the DLQ came off the stream.
LimitInv == \A d \in DlqIds : dlq[d].retry <= dlq[d].max

LEMMA NextLimit ==
    ASSUME TypeOK, UniqueGenerations, LimitInv, [Next]_vars
    PROVE  LimitInv'
<1> SUFFICES ASSUME NEW d \in DlqIds' PROVE dlq'[d].retry <= dlq'[d].max
  BY DEF LimitInv
<1>1. CASE d \in DlqIds
  <2>1. dlq'[d] = dlq[d]
    BY <1>1, StepGrows DEF Grown
  <2> QED
    BY <1>1, <2>1 DEF LimitInv
<1>2. CASE d \notin DlqIds
  <2>1. PICK w \in Workers : cur[w] \in Ids /\ dlq'[d] = Msg(w)
    BY <1>2, WhoParks DEF DlqIds
  <2> QED
    BY <2>1 DEF UniqueGenerations, Msg
<1> QED
  BY <1>1, <1>2

\* The entry that a step adds belongs to no unreplayed job, or continues the
\* newest one of its job, which the step makes inactive.
LEMMA AddedEntry ==
    ASSUME TypeOK, OneCopyInv, LimitInv, [Next]_vars, "resend" \notin Faults,
           NEW n \in Ids' \ Ids
    PROVE  /\ n = Len(stream) + 1
           /\ stream'[n].retry <= stream'[n].max
           /\ \A j \in Jobs : stream'[n].job = j /\ replays[j] = 0 =>
                 /\ api'[j] \notin {"idle", "created"}
                 /\ \A k \in Ids : stream[k].job = j =>
                       ~ Active(k)' /\ stream[k].retry < stream'[n].retry
<1> DEFINE Goal(e) ==
      /\ e.retry <= e.max
      /\ \A j \in Jobs : e.job = j /\ replays[j] = 0 =>
            /\ api'[j] \notin {"idle", "created"}
            /\ \A k \in Ids : stream[k].job = j => ~ Active(k)' /\ stream[k].retry < e.retry
<1>1. ASSUME NEW e, AddsOne(e), Goal(e)
      PROVE  /\ n = Len(stream) + 1 /\ stream'[n] = e
             /\ Goal(stream'[n])
  BY <1>1 DEF AddsOne
<1>2. ASSUME NEW j \in Jobs, AddJob(j) PROVE Goal(NewEntry(j))
  <2>1. api[j] = "created" /\ api'[j] \in {"queued", "error"}
    BY <1>2 DEF AddJob, TypeOK, RowType
  <2>2. replays[j] = 0 => \A k \in Ids : stream[k].job # j
    BY <2>1 DEF OneCopyInv, NewestInv
  <2>3. NewEntry(j).job = j /\ NewEntry(j).retry <= NewEntry(j).max
    BY DEF NewEntry
  <2> QED
    BY <2>1, <2>2, <2>3
<1>3. ASSUME NEW w \in Workers, Requeue(w) PROVE Goal(Retried(w))
  <2> DEFINE i == cur[w]
  <2>1. wpc[w] = "requeue" /\ wpc[w] \in Live /\ api' = api
    BY <1>3 DEF Requeue, Live, AtWork
  <2>2. i \in Ids /\ i <= cursor /\ i # 0 /\ Msg(w) \in Entry /\ Msg(w).job \in Jobs
    BY <2>1, LiveTypes
  <2>3. Active(i) /\ stream[i] = Msg(w)
    BY <2>1 DEF Active, Msg
  <2>4. Msg(w).retry < EffMax(w, Msg(w)) /\ EffMax(w, Msg(w)) \in Nat /\ Msg(w).retry \in Nat
    BY <2>1, <2>2 DEF OneCopyInv, HoldersInv, EffMax, Entry
  <2>5. Retried(w).retry <= Retried(w).max
    BY <2>4 DEF Retried
  <2>6. ASSUME replays[Msg(w).job] = 0, NEW k \in Ids, stream[k].job = Msg(w).job
        PROVE  ~ Active(k)' /\ stream[k].retry < Retried(w).retry
    <3>1. k <= i
      BY <2>2, <2>3, <2>6 DEF OneCopyInv, NewestInv
    <3>2. k \in Nat /\ i \in Nat /\ cursor \in Nat /\ stream[k] \in Entry
      BY <2>2, LiveTypes
    <3>3. stream[k].retry <= Msg(w).retry
      <4>1. CASE k = i
        BY <2>3, <3>2, <4>1 DEF Entry
      <4>2. CASE k < i
        BY <2>2, <2>3, <2>4, <2>6, <3>2, <4>2 DEF OneCopyInv, UniqueGenerations, Entry
      <4> QED
        BY <3>1, <3>2, <4>1, <4>2
    <3>4. ASSUME Active(k)' PROVE FALSE
      <4>1. Active(k)
        BY <3>4, ActivityEnds
      <4>2. i <= k
        BY <2>2, <2>3, <2>6, <4>1 DEF OneCopyInv, NewestInv
      <4>3. k = i
        BY <3>1, <3>2, <4>2
      <4>4. cursor' = cursor
        BY <1>3 DEF Requeue
      <4>5. PICK v \in Workers : cur'[v] = i /\ wpc'[v] \in Live
        BY <2>2, <3>2, <3>4, <4>3, <4>4 DEF Active
      <4>6. v # w
        BY <1>3, <2>2, <4>5 DEF Requeue, TypeOK, WorkerType
      <4>7. cur[v] = i
        BY <1>3, <4>5, <4>6 DEF Requeue, TypeOK, WorkerType
      <4> QED
        BY <2>2, <4>6, <4>7 DEF OneCopyInv, HoldersInv
    <3> QED
      BY <2>4, <3>2, <3>3, <3>4 DEF Retried, Entry
  <2>7. replays[Msg(w).job] = 0 => api'[Msg(w).job] \notin {"idle", "created"}
    BY <2>1, <2>2, <2>3 DEF OneCopyInv, NewestInv
  <2>8. Retried(w).job = Msg(w).job
    BY DEF Retried
  <2> QED
    BY <2>5, <2>6, <2>7, <2>8
<1>4. ASSUME NEW a \in Admins, ReplayAdd(a) PROVE Goal(Held(a))
  <2>1. apc[a] # "idle" /\ replays[Held(a).job] > 0
    BY <1>4 DEF ReplayAdd, OneCopyInv, HoldersInv
  <2>2. hold[a] \in DlqIds
    BY <2>1, HeldTypes
  <2>3. Held(a).retry <= Held(a).max
    BY <2>2 DEF LimitInv, Held
  <2> QED
    BY <2>1, <2>3
<1>5. Goal(Malformed)
  BY DEF Malformed
<1> HIDE DEF Goal
<1>6. n = Len(stream) + 1 /\ Goal(stream'[n])
  BY <1>1, <1>2, <1>3, <1>4, <1>5, WhoAdds
<1> QED
  BY <1>6 DEF Goal

\* The stream keeps its entries and gains those of AddedEntry.
LEMMA OldEntries ==
    ASSUME TypeOK, [Next]_vars
    PROVE  /\ Ids \subseteq Ids' /\ \A i \in Ids : stream'[i] = stream[i]
           /\ \A i \in Ids' : i \in Nat /\ stream'[i] \in Entry
           /\ \A i \in Ids : i \in Nat /\ i < Len(stream) + 1
<1>1. Len(stream) \in Nat /\ Len(stream') \in Nat /\ Len(stream') >= Len(stream)
  BY StepGrows, NextTypeOK DEF Grown, TypeOK, StreamType
<1>2. \A i \in Ids : stream'[i] = stream[i]
  BY StepGrows DEF Grown
<1>3. \A i \in Ids' : stream'[i] \in Entry
  BY NextTypeOK DEF TypeOK, StreamType, Ids
<1> QED
  BY <1>1, <1>2, <1>3 DEF Ids

LEMMA NextNewest ==
    ASSUME TypeOK, OneCopyInv, LimitInv, [Next]_vars, "resend" \notin Faults
    PROVE  NewestInv'
<1> SUFFICES ASSUME NEW j \in Jobs, replays'[j] = 0
             PROVE  /\ api'[j] \in {"idle", "created"} => \A i \in Ids' : stream'[i].job # j
                    /\ \A i, k \in Ids' :
                          stream'[i].job = j /\ stream'[k].job = j /\ Active(i)' => k <= i
  BY DEF NewestInv
<1>1. replays[j] = 0
  BY Backwards
<1>2. ASSUME api'[j] \in {"idle", "created"}, NEW i \in Ids' PROVE stream'[i].job # j
  <2>1. CASE i \in Ids
    <3>1. api[j] \in {"idle", "created"}
      BY <1>2, Backwards
    <3> QED
      BY <1>1, <2>1, <3>1, OldEntries DEF OneCopyInv, NewestInv
  <2>2. CASE i \notin Ids
    BY <1>1, <1>2, <2>2, AddedEntry
  <2> QED
    BY <2>1, <2>2
<1>3. ASSUME NEW i \in Ids', NEW k \in Ids', stream'[i].job = j, stream'[k].job = j, Active(i)'
      PROVE  k <= i
  <2>1. CASE i \in Ids /\ k \in Ids
    <3>1. Active(i)
      BY <1>3, <2>1, ActivityEnds
    <3>2. stream[i].job = j /\ stream[k].job = j
      BY <1>3, <2>1, OldEntries
    <3> QED
      BY <1>1, <2>1, <3>1, <3>2 DEF OneCopyInv, NewestInv
  <2>2. CASE i \notin Ids
    <3>1. i = Len(stream) + 1
      BY <2>2, AddedEntry
    <3>2. k \in Ids \/ k = i
      BY <3>1, AddedEntry
    <3> QED
      BY <3>1, <3>2, OldEntries
  <2>3. CASE i \in Ids /\ k \notin Ids
    <3>1. stream[i].job = j
      BY <1>3, <2>3, OldEntries
    <3> QED
      BY <1>1, <1>3, <2>3, <3>1, AddedEntry
  <2> QED
    BY <2>1, <2>2, <2>3
<1> QED
  BY <1>2, <1>3

LEMMA NextGenerations ==
    ASSUME TypeOK, OneCopyInv, LimitInv, [Next]_vars, "resend" \notin Faults
    PROVE  UniqueGenerations'
<1>1. ASSUME NEW i \in Ids' PROVE stream'[i].retry <= stream'[i].max
  <2>1. CASE i \in Ids
    BY <2>1, OldEntries DEF OneCopyInv, UniqueGenerations
  <2>2. CASE i \notin Ids
    BY <2>2, AddedEntry
  <2> QED
    BY <2>1, <2>2
<1>2. ASSUME NEW i1 \in Ids', NEW i2 \in Ids', i1 < i2, stream'[i1].job = stream'[i2].job,
             stream'[i1].job \in Jobs, replays'[stream'[i1].job] = 0
      PROVE  stream'[i1].retry < stream'[i2].retry
  <2>1. replays[stream'[i1].job] = 0
    BY <1>2, Backwards
  <2>2. CASE i1 \in Ids /\ i2 \in Ids
    <3>1. stream'[i1] = stream[i1] /\ stream'[i2] = stream[i2]
      BY <2>2, OldEntries
    <3> QED
      BY <1>2, <2>1, <2>2, <3>1 DEF OneCopyInv, UniqueGenerations
  <2>3. CASE i1 \in Ids /\ i2 \notin Ids
    <3>1. stream'[i1] = stream[i1]
      BY <2>3, OldEntries
    <3> QED
      BY <1>2, <2>1, <2>3, <3>1, AddedEntry
  <2>4. CASE i1 \notin Ids
    <3>1. i1 = Len(stream) + 1
      BY <2>4, AddedEntry
    <3>2. i2 \in Ids \/ i2 = i1
      BY <3>1, AddedEntry
    <3> QED
      BY <1>2, <3>1, <3>2, OldEntries
  <2> QED
    BY <2>2, <2>3, <2>4
<1> QED
  BY <1>1, <1>2 DEF UniqueGenerations

LEMMA InitOneCopy == Init => OneCopyInv /\ LimitInv
<1> SUFFICES ASSUME Init PROVE OneCopyInv /\ LimitInv
  OBVIOUS
<1>1. Ids = {} /\ DlqIds = {}
  BY DEF Init, Ids, DlqIds
<1>2. HoldersInv
  BY DEF Init, HoldersInv
<1> QED
  BY <1>1, <1>2 DEF OneCopyInv, NewestInv, UniqueGenerations, LimitInv

LEMMA NextOneCopy ==
    ASSUME "resend" \notin Faults
    PROVE  TypeOK /\ OneCopyInv /\ LimitInv /\ [Next]_vars => OneCopyInv' /\ LimitInv'
  BY NextHolders, NextNewest, NextGenerations, NextLimit DEF OneCopyInv

\* No attempt of an unreplayed job is on the stream twice, and none past its
\* limit, whatever else fails (processMessage).
THEOREM NoAttemptTwice ==
    ASSUME "resend" \notin Faults
    PROVE  Spec => []UniqueGenerations
<1>1. Init => TypeOK /\ OneCopyInv /\ LimitInv
  BY InitTypeOK, InitOneCopy
<1>2. TypeOK /\ OneCopyInv /\ LimitInv /\ [Next]_vars => (TypeOK /\ OneCopyInv /\ LimitInv)'
  BY NextTypeOK, NextOneCopy
<1>3. OneCopyInv => UniqueGenerations
  BY DEF OneCopyInv
<1> QED
  BY <1>1, <1>2, <1>3, PTL DEF Spec

-----------------------------------------------------------------------------
(* The one active entry.                                                   *)

\* The entry of an unreplayed job is added by its handler or by the worker that
\* retries it.
LEMMA AddedBy ==
    ASSUME TypeOK, OneCopyInv, [Next]_vars, "resend" \notin Faults,
           NEW j \in Jobs, replays[j] = 0, NEW n \in Ids' \ Ids, stream'[n].job = j
    PROVE  \/ AddJob(j)
           \/ \E w \in Workers : Requeue(w) /\ Msg(w).job = j
<1>1. ASSUME NEW e, AddsOne(e) PROVE e.job = j
  BY <1>1 DEF AddsOne
<1>2. ASSUME NEW k \in Jobs, AddJob(k) /\ AddsOne(NewEntry(k)) PROVE AddJob(j)
  BY <1>1, <1>2 DEF NewEntry
<1>3. ASSUME NEW w \in Workers, Requeue(w) /\ AddsOne(Retried(w)) PROVE Msg(w).job = j
  BY <1>1, <1>3 DEF Retried
<1>4. ASSUME NEW a \in Admins, ReplayAdd(a) /\ AddsOne(Held(a)) PROVE FALSE
  BY <1>1, <1>4 DEF ReplayAdd, OneCopyInv, HoldersInv
<1>5. ASSUME AddsOne(Malformed) PROVE FALSE
  BY <1>1, <1>5 DEF Malformed
<1> QED
  BY <1>2, <1>3, <1>4, <1>5, WhoAdds

\* A live worker on an unreplayed job holds the only active entry of it.
LEMMA OnlyActive ==
    ASSUME TypeOK, OneCopyInv, NEW w \in Workers, wpc[w] \in Live,
           replays[Msg(w).job] = 0, NEW i \in Ids, stream[i].job = Msg(w).job, Active(i)
    PROVE  i = cur[w]
<1>1. cur[w] \in Ids /\ stream[cur[w]] = Msg(w) /\ Msg(w).job \in Jobs /\ Active(cur[w])
  BY LiveTypes DEF Msg, Active
<1>2. i <= cur[w] /\ cur[w] <= i /\ i \in Nat /\ cur[w] \in Nat
  BY <1>1, LiveTypes DEF OneCopyInv, NewestInv
<1> QED
  BY <1>2

-----------------------------------------------------------------------------
(* The row and the entries.                                                *)

\* Who writes a row: the handler that inserts it, and the two reports of the
\* worker that holds the job.
LEMMA WhoWrites ==
    ASSUME TypeOK, [Next]_vars, NEW j \in Jobs
    PROVE  \/ status'[j] = status[j]
           \/ CreateRow(j) /\ status'[j] = "pending"
           \/ \E w \in Workers :
                 /\ Msg(w).job = j
                 /\ \/ MarkDelivered(w) /\ status'[j] = "delivered"
                    \/ MarkFailed(w) /\ status'[j] = "failed"
<1>1. ASSUME NEW k \in Jobs, CreateRow(k)
      PROVE  status'[j] = status[j] \/ (k = j /\ status'[j] = "pending")
  BY <1>1 DEF CreateRow, TypeOK, RowType
<1>2. ASSUME NEW w \in Workers, MarkDelivered(w)
      PROVE  status'[j] = status[j] \/ (Msg(w).job = j /\ status'[j] = "delivered")
  BY <1>2 DEF MarkDelivered, Report, TypeOK, RowType
<1>3. ASSUME NEW w \in Workers, MarkFailed(w)
      PROVE  status'[j] = status[j] \/ (Msg(w).job = j /\ status'[j] = "failed")
  BY <1>3 DEF MarkFailed, Report, TypeOK, RowType
<1>4. ASSUME NEW w \in Workers, WorkerStep(w), ~ MarkDelivered(w), ~ MarkFailed(w)
      PROVE  status' = status
  BY <1>4 DEF WorkerStep, RunLoop, Process, StopWorker, BeginRead, ReadEntry, ReadNothing,
     ReadFails, SendOk, SendFails, DeadLetter, Ack, AckRetry, Requeue
<1>5. ASSUME NEW c \in Containers, Lifecycle(c) PROVE status' = status
  BY <1>5 DEF Lifecycle, Sigterm, Exit, Crash, Restart
<1>6. ASSUME \/ \E k \in Jobs : AddJob(k) \/ CutSubmit(k)
             \/ \E a \in Admins : Replay(a)
             \/ ForeignAdd
             \/ UNCHANGED vars
      PROVE  status' = status
  BY <1>6 DEF AddJob, CutSubmit, Replay, ReplayRead, ReplayAdd, ReplayDelete, CutReplay,
     ForeignAdd, vars
<1> QED
  BY <1>1, <1>2, <1>3, <1>4, <1>5, <1>6 DEF Next, Submission

\* Only the insert takes a handler to the point where it adds the job.
LEMMA WhoCreates ==
    ASSUME TypeOK, [Next]_vars, NEW j \in Jobs, api'[j] = "created", api[j] # "created"
    PROVE  CreateRow(j)
<1>1. ASSUME NEW k \in Jobs, Submission(k) PROVE CreateRow(j)
  BY <1>1 DEF Submission, CreateRow, AddJob, CutSubmit, TypeOK, RowType
<1>2. ASSUME NEW c \in Containers, Lifecycle(c) PROVE FALSE
  BY <1>2 DEF Lifecycle, Sigterm, Exit, Crash, Restart, KillHandlers, TypeOK, RowType
<1>3. ASSUME NEW w \in Workers, WorkerStep(w) PROVE FALSE
  BY <1>3 DEF WorkerStep, RunLoop, Process, StopWorker, BeginRead, ReadEntry, ReadNothing,
     ReadFails, SendOk, SendFails, MarkDelivered, DeadLetter, MarkFailed, Ack, AckRetry,
     Requeue
<1>4. ASSUME (\E a \in Admins : Replay(a)) \/ ForeignAdd \/ UNCHANGED vars PROVE FALSE
  BY <1>4 DEF Replay, ReplayRead, ReplayAdd, ReplayDelete, CutReplay, ForeignAdd, vars
<1> QED
  BY <1>1, <1>2, <1>3, <1>4 DEF Next

\* Who adds an entry of a job, with resends or without: the handler that created
\* the row, or somebody who holds an earlier entry of the job.
LEMMA WhoStreams ==
    ASSUME TypeOK, [Next]_vars, NEW n \in Ids' \ Ids, stream'[n].job \in Jobs
    PROVE  \/ AddJob(stream'[n].job)
           \/ \E i \in Ids : stream[i].job = stream'[n].job
           \/ \E d \in DlqIds : dlq[d].job = stream'[n].job
<1>1. ASSUME NEW j \in Jobs, AddJob(j) PROVE stream'[n].job = j
  <2>1. NewEntry(j) \in Entry /\ NewEntry(j).job = j
    BY DEF NewEntry, Entry
  <2>2. PICK r \in XAdd : stream' = AddTo(stream, r.copies, NewEntry(j))
    BY <1>1 DEF AddJob, NewEntry
  <2>3. r.copies \in 0 .. 2 /\ cursor' = cursor /\ pel' = pel
    BY <1>1, XAddCopies DEF AddJob
  <2>4. stream'[n] = NewEntry(j)
    BY <2>1, <2>2, <2>3, StreamGrows
  <2> QED
    BY <2>1, <2>4
<1>2. ASSUME NEW w \in Workers, Requeue(w) PROVE \E i \in Ids : stream[i].job = stream'[n].job
  <2>1. wpc[w] \in AtWork \ {"ack"} /\ wpc[w] \in AtWork
    BY <1>2 DEF Requeue, AtWork
  <2>2. Retried(w) \in Entry /\ Retried(w).job = Msg(w).job /\ cur[w] \in Ids
    BY <2>1, WorkerEntries, EntryTypes DEF Retried
  <2>3. PICK r \in WorkerXAdd(w) : stream' = AddTo(stream, r.copies, Retried(w))
    BY <1>2 DEF Requeue, Retried
  <2>4. r.copies \in 0 .. 2 /\ cursor' = cursor /\ pel' = pel
    BY <1>2, WorkerXAddCopies DEF Requeue
  <2>5. stream'[n] = Retried(w)
    BY <2>2, <2>3, <2>4, StreamGrows
  <2> QED
    BY <2>2, <2>5 DEF Msg
<1>3. ASSUME NEW a \in Admins, ReplayAdd(a) PROVE \E d \in DlqIds : dlq[d].job = stream'[n].job
  <2>1. Held(a) \in Entry /\ hold[a] \in DlqIds
    BY <1>3, HeldTypes DEF ReplayAdd
  <2>2. PICK r \in XAdd : stream' = AddTo(stream, r.copies, Held(a))
    BY <1>3 DEF ReplayAdd
  <2>3. r.copies \in 0 .. 2 /\ cursor' = cursor /\ pel' = pel
    BY <1>3, XAddCopies DEF ReplayAdd
  <2>4. stream'[n] = Held(a)
    BY <2>1, <2>2, <2>3, StreamGrows
  <2> QED
    BY <2>1, <2>4 DEF Held
<1>4. CASE ForeignAdd
  <2> DEFINE one == 1
  <2>1. Malformed \in Entry /\ Malformed.job \notin Jobs
    BY DEF Malformed, Entry
  <2>2. stream' = AddTo(stream, one, Malformed)
    BY <1>4 DEF ForeignAdd, Malformed, AddTo
  <2>3. one \in 0 .. 2 /\ cursor' = cursor /\ pel' = pel
    BY <1>4 DEF ForeignAdd
  <2> HIDE DEF one
  <2>4. stream'[n] = Malformed
    BY <2>1, <2>2, <2>3, StreamGrows
  <2> QED
    BY <2>1, <2>4
<1>5. ASSUME NEW w \in Workers, WorkerStep(w), ~ Requeue(w) PROVE Ids' = Ids
  BY <1>5 DEF WorkerStep, RunLoop, Process, StopWorker, BeginRead, ReadEntry, ReadNothing,
     ReadFails, SendOk, SendFails, MarkDelivered, DeadLetter, MarkFailed, Ack, AckRetry,
     redisVars, Ids
<1>6. ASSUME NEW c \in Containers, Lifecycle(c) PROVE Ids' = Ids
  BY <1>6 DEF Lifecycle, Sigterm, Exit, Crash, Restart, redisVars, Ids
<1>7. ASSUME NEW a \in Admins, Replay(a), ~ ReplayAdd(a) PROVE Ids' = Ids
  BY <1>7 DEF Replay, ReplayRead, ReplayDelete, CutReplay, redisVars, Ids
<1>8. ASSUME NEW j \in Jobs, Submission(j), ~ AddJob(j) PROVE Ids' = Ids
  BY <1>8 DEF Submission, CreateRow, CutSubmit, redisVars, Ids
<1>9. CASE UNCHANGED vars
  BY <1>9 DEF vars, Ids
<1> QED
  BY <1>1, <1>2, <1>3, <1>4, <1>5, <1>6, <1>7, <1>8, <1>9 DEF Next

\* Nothing is added for a job whose row does not exist.
RowInv ==
    /\ RowBeforeEntry
    /\ \A j \in Jobs : api[j] = "created" => status[j] # "none"

LEMMA NextRow == TypeOK /\ RowInv /\ [Next]_vars => RowInv'
<1> SUFFICES ASSUME TypeOK, RowInv, [Next]_vars PROVE RowInv'
  OBVIOUS
<1>1. \A j \in Jobs : status[j] # "none" => status'[j] # "none"
  BY WhoWrites
<1>2. ASSUME NEW i \in Ids', stream'[i].job \in Jobs PROVE status'[stream'[i].job] # "none"
  <2>1. CASE i \in Ids
    <3>1. stream'[i] = stream[i]
      BY <2>1, OldEntries
    <3> QED
      BY <1>1, <1>2, <2>1, <3>1 DEF RowInv, RowBeforeEntry
  <2>2. CASE i \notin Ids
    BY <1>1, <1>2, <2>2, WhoStreams DEF RowInv, RowBeforeEntry, AddJob
  <2> QED
    BY <2>1, <2>2
<1>3. ASSUME NEW d \in DlqIds' PROVE status'[dlq'[d].job] # "none"
  <2>1. CASE d \in DlqIds
    <3>1. dlq'[d] = dlq[d] /\ dlq[d].job \in Jobs
      BY <2>1, StepGrows, EntryTypes DEF Grown, DlqEntry
    <3> QED
      BY <1>1, <2>1, <3>1 DEF RowInv, RowBeforeEntry
  <2>2. CASE d \notin DlqIds
    <3>1. PICK w \in Workers : cur[w] \in Ids /\ Msg(w).job \in Jobs /\ dlq'[d] = Msg(w)
      BY <2>2, WhoParks DEF DlqIds
    <3> QED
      BY <1>1, <3>1 DEF RowInv, RowBeforeEntry, Msg
  <2> QED
    BY <2>1, <2>2
<1>4. ASSUME NEW j \in Jobs, api'[j] = "created" PROVE status'[j] # "none"
  <2>1. CASE api[j] = "created"
    BY <1>1, <2>1 DEF RowInv
  <2>2. CASE api[j] # "created"
    <3>1. CreateRow(j)
      BY <1>4, <2>2, WhoCreates
    <3> QED
      BY <1>4, <2>2, <3>1 DEF CreateRow, TypeOK, RowType
  <2> QED
    BY <2>1, <2>2
<1> QED
  BY <1>2, <1>3, <1>4 DEF RowInv, RowBeforeEntry

\* Whatever is on the stream or on the DLQ has a row, whatever fails: Enqueue
\* inserts the row first, and all other entries are copies.
THEOREM RowIsThere == Spec => []RowBeforeEntry
<1>1. Init => TypeOK /\ RowInv
  <2>1. Init => Ids = {} /\ DlqIds = {} /\ \A j \in Jobs : api[j] = "idle"
    BY DEF Init, Ids, DlqIds
  <2> QED
    BY <2>1, InitTypeOK DEF RowInv, RowBeforeEntry
<1>2. TypeOK /\ RowInv /\ [Next]_vars => (TypeOK /\ RowInv)'
  BY NextTypeOK, NextRow
<1>3. RowInv => RowBeforeEntry
  BY DEF RowInv
<1> QED
  BY <1>1, <1>2, <1>3, PTL DEF Spec

-----------------------------------------------------------------------------
(* Failed means parked.                                                    *)

Parked(j) == InDlqBeyond(j, 0) \/ j \in dropped

\* A worker about to report a failure has put the job on the DLQ.
ParkedInv ==
    /\ FailedIsParked
    /\ \A w \in Workers : wpc[w] = "markFailed" /\ replays[Msg(w).job] = 0
                              => Parked(Msg(w).job)

\* Only a replay takes an entry off the DLQ, and it counts as one.
LEMMA ParkedStays ==
    ASSUME TypeOK, HoldersInv, [Next]_vars, NEW j \in Jobs, replays[j] = 0, Parked(j)
    PROVE  Parked(j)'
<1>1. CASE j \in dropped
  BY <1>1, StepGrows DEF Grown, Parked
<1>2. ASSUME NEW p \in parked, p > 0, dlq[p].job = j PROVE Parked(j)'
  <2>1. dlq'[p].job = j
    BY <1>2, StepGrows DEF Grown, TypeOK, DlqType
  <2>2. ASSUME p \notin parked' PROVE FALSE
    <3>1. ASSUME NEW a \in Admins, ReplayDelete(a), p = hold[a] PROVE FALSE
      BY <1>2, <3>1 DEF ReplayDelete, HoldersInv, Held
    <3>2. ASSUME NEW a \in Admins, Replay(a) PROVE ReplayDelete(a) /\ p = hold[a]
      BY <2>2, <3>2 DEF Replay, ReplayRead, ReplayAdd, ReplayDelete, CutReplay, redisVars
    <3>3. ASSUME NEW w \in Workers, WorkerStep(w) PROVE p \in parked'
      BY <3>3 DEF WorkerStep, RunLoop, Process, StopWorker, BeginRead, ReadEntry,
         ReadNothing, ReadFails, SendOk, SendFails, MarkDelivered, DeadLetter, MarkFailed,
         Ack, AckRetry, Requeue, redisVars
    <3>4. ASSUME NEW c \in Containers, Lifecycle(c) PROVE p \in parked'
      BY <3>4 DEF Lifecycle, Sigterm, Exit, Crash, Restart, redisVars
    <3>5. ASSUME (\E k \in Jobs : Submission(k)) \/ ForeignAdd \/ UNCHANGED vars
          PROVE  p \in parked'
      BY <3>5 DEF Submission, CreateRow, AddJob, CutSubmit, ForeignAdd, redisVars, vars
    <3> QED
      BY <2>2, <3>1, <3>2, <3>3, <3>4, <3>5 DEF Next
  <2> QED
    BY <1>2, <2>1, <2>2 DEF Parked, InDlqBeyond
<1> QED
  BY <1>1, <1>2 DEF Parked, InDlqBeyond

LEMMA NextParked ==
    ASSUME TypeOK, HoldersInv, ParkedInv, [Next]_vars
    PROVE  ParkedInv'
<1>1. ASSUME NEW j \in Jobs, status'[j] = "failed", replays'[j] = 0 PROVE Parked(j)'
  <2>1. replays[j] = 0
    BY <1>1, Backwards
  <2>2. Parked(j)
    <3>1. CASE status[j] = "failed"
      BY <2>1, <3>1 DEF ParkedInv, FailedIsParked, Parked
    <3>2. CASE status[j] # "failed"
      <4>1. PICK w \in Workers : Msg(w).job = j /\ MarkFailed(w)
        BY <1>1, <3>2, WhoWrites
      <4> QED
        BY <2>1, <4>1 DEF MarkFailed, ParkedInv
    <3> QED
      BY <3>1, <3>2
  <2> QED
    BY <2>1, <2>2, ParkedStays
<1>2. ASSUME NEW w \in Workers, wpc'[w] = "markFailed", replays'[Msg(w)'.job] = 0
      PROVE  \E j \in Jobs : j = Msg(w)'.job /\ Parked(j)'
  <2>1. CASE wpc[w] = "markFailed" /\ cur'[w] = cur[w]
    <3>1. cur[w] \in Ids /\ Msg(w).job \in Jobs
      BY <2>1, LiveTypes DEF Live, AtWork
    <3>2. Msg(w)' = Msg(w)
      BY <2>1, <3>1, StepGrows DEF Msg, Grown
    <3>3. PICK j \in Jobs : j = Msg(w).job
      BY <3>1
    <3>4. replays[j] = 0
      BY <1>2, <3>2, <3>3, Backwards
    <3>5. Parked(j)
      BY <2>1, <3>3, <3>4 DEF ParkedInv
    <3>6. Parked(j)'
      BY <3>4, <3>5, ParkedStays
    <3> QED
      BY <3>2, <3>3, <3>6
  <2>2. CASE DeadLetter(w)
    <3>1. /\ wpc[w] \in AtWork \ {"ack"} /\ stream' = stream /\ cur' = cur
          /\ Msg(w)' = Msg(w)
      BY <2>2 DEF DeadLetter, AtWork, Msg
    <3>2. Msg(w) \in DlqEntry /\ Msg(w).job \in Jobs
      BY <3>1, WorkerEntries
    <3>3. PICK r \in WorkerXAdd(w) :
             /\ dlq' = AddTo(dlq, r.copies, Msg(w))
             /\ parked' = parked \cup (Len(dlq) + 1 .. Len(dlq) + r.copies)
             /\ dropped' = IF r.copies = 0 THEN dropped \cup {Msg(w).job} ELSE dropped
      BY <2>2 DEF DeadLetter
    <3>4. r.copies \in 0 .. 2 /\ Len(dlq) \in Nat
      BY WorkerXAddCopies DEF TypeOK, DlqType
    <3>5. CASE r.copies = 0
      BY <3>1, <3>2, <3>3, <3>5 DEF Parked
    <3>6. CASE r.copies # 0
      <4> DEFINE p == Len(dlq) + 1
      <4>1. p \in Len(dlq) + 1 .. Len(dlq) + r.copies /\ p > 0
        BY <3>4, <3>6
      <4>2. dlq'[p] = Msg(w)
        BY <3>2, <3>3, <3>4, <4>1, DlqGrows
      <4> QED
        BY <3>1, <3>2, <3>3, <4>1, <4>2 DEF Parked, InDlqBeyond
    <3> QED
      BY <3>5, <3>6
  <2>3. ASSUME NEW u \in Workers, WorkerStep(u), ~ DeadLetter(w)
        PROVE  wpc[w] = "markFailed" /\ cur'[w] = cur[w]
    BY <1>2, <2>3 DEF WorkerStep, RunLoop, Process, StopWorker, BeginRead, ReadEntry,
       ReadNothing, ReadFails, SendOk, SendFails, MarkDelivered, DeadLetter, MarkFailed,
       Ack, AckRetry, Requeue, Goto, TypeOK, WorkerType
  <2>4. ASSUME NEW c \in Containers, Lifecycle(c)
        PROVE  wpc[w] = "markFailed" /\ cur'[w] = cur[w]
    BY <1>2, <2>4 DEF Lifecycle, Sigterm, Exit, Crash, Restart, workerVars, TypeOK,
       WorkerType
  <2>5. ASSUME \/ \E k \in Jobs : Submission(k)
               \/ \E a \in Admins : Replay(a)
               \/ ForeignAdd
               \/ UNCHANGED vars
        PROVE  wpc[w] = "markFailed" /\ cur'[w] = cur[w]
    BY <1>2, <2>5 DEF Submission, CreateRow, AddJob, CutSubmit, Replay, ReplayRead,
       ReplayAdd, ReplayDelete, CutReplay, ForeignAdd, workerVars, vars
  <2> QED
    BY <2>1, <2>2, <2>3, <2>4, <2>5 DEF Next
<1> QED
  BY <1>1, <1>2 DEF ParkedInv, FailedIsParked, Parked

\* A job reported failed that nobody replayed is on the DLQ, or the write of its
\* DLQ entry failed (sendToDLQ before MarkFailed in processMessage).
THEOREM FailuresAreParked == Spec => []FailedIsParked
<1>1. Init => TypeOK /\ HoldersInv /\ ParkedInv
  <2>1. Init => ParkedInv
    BY DEF Init, ParkedInv, FailedIsParked
  <2> QED
    BY <2>1, InitTypeOK, InitOneCopy DEF OneCopyInv
<1>2. TypeOK /\ HoldersInv /\ ParkedInv /\ [Next]_vars => (TypeOK /\ HoldersInv /\ ParkedInv)'
  BY NextTypeOK, NextHolders, NextParked
<1>3. ParkedInv => FailedIsParked
  BY DEF ParkedInv
<1> QED
  BY <1>1, <1>2, <1>3, PTL DEF Spec

-----------------------------------------------------------------------------
(* Final means final.                                                      *)

\* A settled job has no active entry, and no unreplayed row is settled before its
\* entry is added.
SettledInv ==
    \A j \in Jobs : replays[j] = 0 =>
        /\ api[j] = "idle" => status[j] = "none"
        /\ api[j] = "created" => status[j] = "pending"
        /\ status[j] \in {"delivered", "failed"}
              => \A i \in Ids : stream[i].job = j => ~ Active(i)

\* A worker that can still report on an unreplayed job finds its row unsettled.
LEMMA LiveUnsettled ==
    ASSUME TypeOK, SettledInv, NEW w \in Workers, wpc[w] \in Live,
           replays[Msg(w).job] = 0
    PROVE  status[Msg(w).job] \notin {"delivered", "failed"}
<1>1. cur[w] \in Ids /\ stream[cur[w]] = Msg(w) /\ Active(cur[w]) /\ Msg(w).job \in Jobs
  BY LiveTypes DEF Active, Msg
<1> QED
  BY <1>1 DEF SettledInv

\* The reports leave no active entry behind.
LEMMA ReportEnds ==
    ASSUME TypeOK, OneCopyInv, [Next]_vars, NEW w \in Workers,
           MarkDelivered(w) \/ MarkFailed(w),
           replays[Msg(w).job] = 0, NEW i \in Ids', stream'[i].job = Msg(w).job
    PROVE  ~ Active(i)'
<1> SUFFICES ASSUME Active(i)' PROVE FALSE
  OBVIOUS
<1>1. /\ wpc[w] \in Live /\ wpc'[w] = "ack" /\ cur' = cur /\ cursor' = cursor
      /\ Ids' = Ids /\ stream' = stream
  BY DEF MarkDelivered, MarkFailed, Goto, redisVars, Ids, Live, AtWork, TypeOK, WorkerType
<1>2. i \in Ids /\ Active(i)
  BY <1>1, ActivityEnds
<1>3. i = cur[w]
  BY <1>1, <1>2, OnlyActive
<1>4. cur[w] # 0 /\ cur[w] <= cursor /\ cursor \in Nat /\ i \in Nat
  BY <1>1, <1>2, LiveTypes
<1>5. PICK v \in Workers : cur'[v] = i /\ wpc'[v] \in Live
  BY <1>1, <1>3, <1>4 DEF Active
<1>6. v = w
  BY <1>1, <1>3, <1>4, <1>5 DEF OneCopyInv, HoldersInv
<1> QED
  BY <1>1, <1>5, <1>6 DEF Live

LEMMA NextSettled ==
    ASSUME TypeOK, OneCopyInv, SettledInv, [Next]_vars, "resend" \notin Faults
    PROVE  SettledInv'
<1> DEFINE Goal(j) ==
      /\ api'[j] = "idle" => status'[j] = "none"
      /\ api'[j] = "created" => status'[j] = "pending"
      /\ status'[j] \in {"delivered", "failed"}
            => \A i \in Ids' : stream'[i].job = j => ~ Active(i)'
<1> SUFFICES ASSUME NEW j \in Jobs, replays'[j] = 0 PROVE Goal(j)
  BY DEF SettledInv
<1>1. replays[j] = 0
  BY Backwards
<1>2. ASSUME status'[j] = status[j] PROVE Goal(j)
  <2>1. api'[j] = "idle" => status'[j] = "none"
    BY <1>1, <1>2, Backwards DEF SettledInv
  <2>2. api'[j] = "created" => status'[j] = "pending"
    <3>1. CASE api[j] = "created"
      BY <1>1, <1>2, <3>1 DEF SettledInv
    <3>2. CASE api[j] # "created"
      BY <1>2, <3>2, WhoCreates DEF CreateRow, TypeOK, RowType
    <3> QED
      BY <3>1, <3>2
  <2>3. ASSUME status'[j] \in {"delivered", "failed"}, NEW i \in Ids', stream'[i].job = j
        PROVE  ~ Active(i)'
    <3>1. CASE i \in Ids
      <4>1. stream[i].job = j
        BY <2>3, <3>1, OldEntries
      <4>2. ~ Active(i)
        BY <1>1, <1>2, <2>3, <3>1, <4>1 DEF SettledInv
      <4> QED
        BY <3>1, <4>2, ActivityEnds
    <3>2. CASE i \notin Ids
      <4>1. ASSUME AddJob(j) PROVE FALSE
        BY <1>1, <1>2, <2>3, <4>1 DEF AddJob, SettledInv
      <4>2. ASSUME NEW w \in Workers, Requeue(w), Msg(w).job = j PROVE FALSE
        <5>1. wpc[w] \in Live
          BY <4>2 DEF Requeue, Live, AtWork
        <5> QED
          BY <1>1, <1>2, <2>3, <4>2, <5>1, LiveUnsettled
      <4> QED
        BY <1>1, <2>3, <3>2, <4>1, <4>2, AddedBy
    <3> QED
      BY <3>1, <3>2
  <2> QED
    BY <2>1, <2>2, <2>3
<1>3. ASSUME CreateRow(j), status'[j] = "pending" PROVE Goal(j)
  BY <1>3 DEF CreateRow, TypeOK, RowType
<1>4. ASSUME NEW w \in Workers, MarkDelivered(w) \/ MarkFailed(w), Msg(w).job = j
      PROVE  Goal(j)
  <2>1. wpc[w] \in Live /\ api' = api
    BY <1>4 DEF MarkDelivered, MarkFailed, Live, AtWork
  <2>2. cur[w] \in Ids /\ stream[cur[w]].job = j
    BY <1>4, <2>1, LiveTypes DEF Msg
  <2>3. api'[j] \notin {"idle", "created"}
    BY <1>1, <2>1, <2>2 DEF OneCopyInv, NewestInv
  <2>4. \A i \in Ids' : stream'[i].job = j => ~ Active(i)'
    BY <1>1, <1>4, ReportEnds
  <2> QED
    BY <2>3, <2>4
<1> QED
  BY <1>2, <1>3, <1>4, WhoWrites

\* No step changes a settled row of an unreplayed job.
LEMMA SettledStays ==
    ASSUME TypeOK, SettledInv, [Next]_vars,
           NEW j \in Jobs, replays[j] = 0, status[j] \in {"delivered", "failed"}
    PROVE  status'[j] = status[j]
<1>1. ASSUME CreateRow(j) PROVE FALSE
  BY <1>1 DEF CreateRow, SettledInv
<1>2. ASSUME NEW w \in Workers, MarkDelivered(w) \/ MarkFailed(w), Msg(w).job = j PROVE FALSE
  <2>1. wpc[w] \in Live
    BY <1>2 DEF MarkDelivered, MarkFailed, Live, AtWork
  <2> QED
    BY <1>2, <2>1, LiveUnsettled
<1> QED
  BY <1>1, <1>2, WhoWrites

\* Once a job is reported delivered or failed, the report stays until somebody
\* replays the job: no late copy, in whatever worker, overwrites it.
THEOREM FinalIsFinal ==
    ASSUME "resend" \notin Faults
    PROVE  Spec => FinalStatusStays
<1>1. Init => TypeOK /\ OneCopyInv /\ LimitInv /\ SettledInv
  <2>1. Init => SettledInv
    BY DEF Init, SettledInv
  <2> QED
    BY <2>1, InitTypeOK, InitOneCopy
<1>2. TypeOK /\ OneCopyInv /\ LimitInv /\ SettledInv /\ [Next]_vars
        => (TypeOK /\ OneCopyInv /\ LimitInv /\ SettledInv)'
  BY NextTypeOK, NextOneCopy, NextSettled
<1>3. TypeOK /\ SettledInv /\ [Next]_vars
        => [\A j \in Jobs : replays[j] = 0 /\ status[j] \in {"delivered", "failed"}
              => status'[j] = status[j]]_vars
  BY SettledStays
<1> QED
  BY <1>1, <1>2, <1>3, PTL DEF Spec, FinalStatusStays

-----------------------------------------------------------------------------
(* Every mail is covered: by the job itself, or by a replay.               *)

LEMMA Fewer ==
    ASSUME NEW S, IsFiniteSet(S), NEW T, T \subseteq S
    PROVE  /\ IsFiniteSet(T) /\ Cardinality(T) \in Nat /\ Cardinality(S) \in Nat
           /\ Cardinality(T) <= Cardinality(S)
  BY FS_Subset, FS_CardinalityType

LEMMA OneLess ==
    ASSUME NEW S, IsFiniteSet(S), NEW x \in S, NEW T, T \subseteq S \ {x}
    PROVE  IsFiniteSet(T) /\ Cardinality(T) + 1 <= Cardinality(S)
<1>1. IsFiniteSet(S \ {x}) /\ Cardinality(S \ {x}) = Cardinality(S) - 1
  BY FS_RemoveElement
<1>2. /\ IsFiniteSet(T) /\ Cardinality(T) \in Nat /\ Cardinality(S) \in Nat
      /\ Cardinality(T) <= Cardinality(S \ {x})
  BY <1>1, Fewer, FS_CardinalityType
<1> QED
  BY <1>1, <1>2

LEMMA OneMore ==
    ASSUME NEW S, IsFiniteSet(S), NEW x, NEW T, T \subseteq S \cup {x}
    PROVE  IsFiniteSet(T) /\ Cardinality(T) <= Cardinality(S) + 1
<1>1. /\ IsFiniteSet(S \cup {x})
      /\ \/ Cardinality(S \cup {x}) = Cardinality(S)
         \/ Cardinality(S \cup {x}) = Cardinality(S) + 1
  BY FS_AddElement
<1>2. /\ IsFiniteSet(T) /\ Cardinality(T) \in Nat
      /\ Cardinality(T) <= Cardinality(S \cup {x})
  BY <1>1, Fewer
<1>3. Cardinality(S) \in Nat
  BY FS_CardinalityType
<1> QED
  BY <1>1, <1>2, <1>3

\* A worker that has not mailed its entry yet, or is about to re-add it.
Trying == {"sending", "ackRetry", "requeue"}

\* The entries of a job that may still get it mailed.
Chances(j) ==
    {i \in Ids : /\ stream[i].job = j
                 /\ i > cursor \/ \E w \in Workers : cur[w] = i /\ wpc[w] \in Trying}

\* The replay requests that are about to add an entry of the job.
Adding(j) == {a \in Admins : apc[a] = "add" /\ Held(a).job = j}

OnDlq(j) == \E d \in DlqIds : dlq[d].job = j

\* The job's own attempts are used up: whatever is mailed from now on was asked
\* for by a replay.
Doomed(j) == OnDlq(j) \/ \E w \in Workers : wpc[w] = "deadLetter" /\ Msg(w).job = j

Allowed(j) == replays[j] + IF Doomed(j) THEN 0 ELSE 1

\* The mails, the entries and the replay requests that may still become mails
\* are together no more than what may be mailed.
CoverInv ==
    \A j \in Jobs :
        /\ IsFiniteSet(Adding(j))
        /\ mails[j] + Cardinality(Chances(j)) + Cardinality(Adding(j)) <= Allowed(j)
        /\ replays[j] > 0 => OnDlq(j)
        /\ api[j] \in {"idle", "created"} =>
              /\ ~ OnDlq(j) /\ mails[j] = 0
              /\ \A i \in Ids : stream[i].job # j

\* Who asks for an entry to be added: a replay request, and it is counted.
LEMMA WhoAsks ==
    ASSUME TypeOK, [Next]_vars, NEW j \in Jobs
    PROVE  \/ Adding(j)' \subseteq Adding(j) /\ replays'[j] = replays[j]
           \/ \E a \in Admins : /\ ReplayRead(a) /\ a \notin Adding(j)
                                /\ Adding(j)' \subseteq Adding(j) \cup {a}
                                /\ replays'[j] = replays[j] + 1
<1> DEFINE Same == Adding(j)' \subseteq Adding(j) /\ replays'[j] = replays[j]
           Kept == \A a \in Admins : apc'[a] = "add" => apc[a] = "add" /\ hold'[a] = hold[a]
<1>1. ASSUME Kept, replays' = replays PROVE Same
  <2> SUFFICES ASSUME NEW a \in Admins, apc'[a] = "add", Held(a)'.job = j PROVE a \in Adding(j)
    BY <1>1 DEF Adding
  <2>1. apc[a] = "add" /\ hold'[a] = hold[a]
    BY <1>1
  <2>2. hold[a] \in DlqIds
    BY <2>1, HeldTypes
  <2>3. Held(a)' = Held(a)
    BY <2>1, <2>2, StepGrows DEF Grown, Held
  <2> QED
    BY <2>1, <2>3 DEF Adding
<1>2. ASSUME NEW a \in Admins, ReplayRead(a)
      PROVE  \/ Same
             \/ /\ a \notin Adding(j) /\ Adding(j)' \subseteq Adding(j) \cup {a}
                /\ replays'[j] = replays[j] + 1
  <2>1. PICK d \in parked : /\ replays' = [replays EXCEPT ![dlq[d].job] = @ + 1]
                            /\ hold' = [hold EXCEPT ![a] = d]
    BY <1>2 DEF ReplayRead
  <2>2. d \in DlqIds /\ dlq[d].job \in Jobs /\ dlq' = dlq
    BY <1>2, EntryTypes DEF ReplayRead, redisVars, TypeOK, DlqType, DlqEntry
  <2>3. apc[a] = "idle" /\ apc' = [apc EXCEPT ![a] = "add"]
    BY <1>2 DEF ReplayRead
  <2>4. a \notin Adding(j)
    BY <2>3 DEF Adding
  <2>5. \A b \in Admins \ {a} : apc'[b] = apc[b] /\ Held(b)' = Held(b)
    BY <2>1, <2>2, <2>3 DEF Held, TypeOK, ReplayType
  <2>6. Held(a)' = dlq[d]
    BY <2>1, <2>2 DEF Held, TypeOK, ReplayType
  <2>7. Adding(j)' \subseteq Adding(j) \cup {a}
    BY <2>5 DEF Adding
  <2>8. CASE dlq[d].job = j
    BY <2>1, <2>2, <2>4, <2>7, <2>8 DEF TypeOK, ReplayType
  <2>9. CASE dlq[d].job # j
    <3>1. a \notin Adding(j)'
      BY <2>6, <2>9 DEF Adding
    <3> QED
      BY <2>1, <2>2, <2>7, <2>9, <3>1 DEF TypeOK, ReplayType
  <2> QED
    BY <2>8, <2>9
<1>3. ASSUME NEW a \in Admins, Replay(a), ~ ReplayRead(a) PROVE Kept /\ replays' = replays
  BY <1>3 DEF Replay, ReplayRead, ReplayAdd, ReplayDelete, CutReplay, history, TypeOK,
     ReplayType, AdminState
<1>4. ASSUME NEW c \in Containers, Lifecycle(c) PROVE Kept /\ replays' = replays
  BY <1>4 DEF Lifecycle, Sigterm, Exit, Crash, Restart, KillHandlers, adminVars, history,
     TypeOK, ReplayType
<1>5. ASSUME NEW w \in Workers, WorkerStep(w) PROVE Kept /\ replays' = replays
  BY <1>5 DEF WorkerStep, RunLoop, Process, StopWorker, BeginRead, ReadEntry, ReadNothing,
     ReadFails, SendOk, SendFails, MarkDelivered, DeadLetter, MarkFailed, Ack, AckRetry,
     Requeue, adminVars, history
<1>6. ASSUME (\E k \in Jobs : Submission(k)) \/ ForeignAdd \/ UNCHANGED vars
      PROVE  Kept /\ replays' = replays
  BY <1>6 DEF Submission, CreateRow, AddJob, CutSubmit, ForeignAdd, adminVars, history, vars
<1> HIDE DEF Same, Kept
<1>7. Same \/ \E a \in Admins : /\ ReplayRead(a) /\ a \notin Adding(j)
                                /\ Adding(j)' \subseteq Adding(j) \cup {a}
                                /\ replays'[j] = replays[j] + 1
  BY <1>1, <1>2, <1>3, <1>4, <1>5, <1>6 DEF Next
<1> QED
  BY <1>7 DEF Same

\* Without a failing QUIT only SendOk lets the server accept a mail.
LEMMA WhoMails ==
    ASSUME TypeOK, [Next]_vars, "quit" \notin Faults, NEW j \in Jobs
    PROVE  \/ mails'[j] = mails[j]
           \/ \E w \in Workers :
                 /\ SendOk(w) /\ Msg(w).job = j /\ wpc[w] \in Live
                 /\ mails'[j] = mails[j] + 1
<1>1. ASSUME NEW w \in Workers, SendOk(w)
      PROVE  mails'[j] = mails[j] \/ (Msg(w).job = j /\ mails'[j] = mails[j] + 1)
  BY <1>1 DEF SendOk, TypeOK, RowType
<1>2. ASSUME NEW w \in Workers, WorkerStep(w), ~ SendOk(w) PROVE mails' = mails
  BY <1>2 DEF WorkerStep, RunLoop, Process, StopWorker, BeginRead, ReadEntry, ReadNothing,
     ReadFails, SendFails, MarkDelivered, DeadLetter, MarkFailed, Ack, AckRetry, Requeue,
     history
<1>3. ASSUME NEW c \in Containers, Lifecycle(c) PROVE mails' = mails
  BY <1>3 DEF Lifecycle, Sigterm, Exit, Crash, Restart, history
<1>4. ASSUME \/ \E k \in Jobs : Submission(k)
             \/ \E a \in Admins : Replay(a)
             \/ ForeignAdd
             \/ UNCHANGED vars
      PROVE  mails' = mails
  BY <1>4 DEF Submission, CreateRow, AddJob, CutSubmit, Replay, ReplayRead, ReplayAdd,
     ReplayDelete, CutReplay, ForeignAdd, history, vars
<1>5. \A w \in Workers : SendOk(w) => wpc[w] \in Live
  BY DEF SendOk, Live, AtWork
<1> QED
  BY <1>1, <1>2, <1>3, <1>4, <1>5 DEF Next

LEMMA FiniteChances ==
    ASSUME TypeOK, NEW j
    PROVE  IsFiniteSet(Chances(j)) /\ Cardinality(Chances(j)) \in Nat
<1>1. IsFiniteSet(Ids)
  <2>1. Len(stream) \in Nat
    BY LiveTypes
  <2> QED
    BY <2>1, FS_Interval DEF Ids
<1>2. Chances(j) \subseteq Ids
  BY DEF Chances
<1> QED
  BY <1>1, <1>2, Fewer

LEMMA TryingGoesOn ==
    ASSUME TypeOK, [Next]_vars, NEW i \in Ids, i <= cursor,
           NEW v \in Workers, cur'[v] = i, wpc'[v] \in Trying
    PROVE  cur[v] = i /\ wpc[v] \in Trying
<1>1. cursor \in Nat /\ i \in Nat /\ i # 0
  BY LiveTypes
<1>2. cur[v] = i
  BY HolderHeld DEF Trying, Live, AtWork
<1>3. ASSUME NEW w \in Workers, WorkerStep(w) PROVE wpc[v] \in Trying
  BY <1>1, <1>3 DEF WorkerStep, RunLoop, Process, StopWorker, BeginRead, ReadEntry,
     ReadNothing, ReadFails, SendOk, SendFails, MarkDelivered, DeadLetter, MarkFailed, Ack,
     AckRetry, Requeue, Goto, TypeOK, WorkerType, Trying
<1>4. ASSUME NEW c \in Containers, Lifecycle(c) PROVE wpc[v] \in Trying
  BY <1>4 DEF Lifecycle, Sigterm, Exit, Crash, Restart, workerVars, TypeOK, WorkerType, Trying
<1>5. ASSUME \/ \E k \in Jobs : Submission(k)
             \/ \E a \in Admins : Replay(a)
             \/ ForeignAdd
             \/ UNCHANGED vars
      PROVE  wpc[v] \in Trying
  BY <1>5 DEF Submission, CreateRow, AddJob, CutSubmit, Replay, ReplayRead, ReplayAdd,
     ReplayDelete, CutReplay, ForeignAdd, workerVars, vars
<1> QED
  BY <1>2, <1>3, <1>4, <1>5 DEF Next

\* A step gives no old entry a chance back, and an entry that its worker is done
\* with has none left.
LEMMA ChancesEnd ==
    ASSUME TypeOK, HoldersInv, [Next]_vars, NEW j
    PROVE  /\ \A i \in Chances(j)' : i \in Ids => i \in Chances(j)
           /\ \A w \in Workers : wpc[w] \in Trying /\ Msg(w).job = j =>
                 /\ cur[w] \in Chances(j)
                 /\ wpc'[w] \notin Trying \/ cur'[w] # cur[w] => cur[w] \notin Chances(j)'
<1>1. cursor \in Nat /\ cursor' \in Nat /\ cursor' >= cursor
  BY StepGrows, NextTypeOK DEF Grown, TypeOK, StreamType
<1>2. ASSUME NEW i \in Chances(j)', i \in Ids PROVE i \in Chances(j)
  <2>1. stream[i].job = j /\ i \in Nat
    BY <1>2, OldEntries DEF Chances
  <2>2. CASE i > cursor
    BY <1>2, <2>1, <2>2 DEF Chances
  <2>3. CASE ~ (i > cursor)
    <3>1. i <= cursor /\ ~ (i > cursor')
      BY <1>1, <2>1, <2>3
    <3>2. PICK v \in Workers : cur'[v] = i /\ wpc'[v] \in Trying
      BY <1>2, <3>1 DEF Chances
    <3>3. cur[v] = i /\ wpc[v] \in Trying
      BY <1>2, <3>1, <3>2, TryingGoesOn
    <3> QED
      BY <1>2, <2>1, <3>3 DEF Chances
  <2> QED
    BY <2>2, <2>3
<1>3. ASSUME NEW w \in Workers, wpc[w] \in Trying, Msg(w).job = j
      PROVE  /\ cur[w] \in Chances(j)
             /\ wpc'[w] \notin Trying \/ cur'[w] # cur[w] => cur[w] \notin Chances(j)'
  <2>1. cur[w] \in Ids /\ cur[w] <= cursor /\ cur[w] # 0 /\ cur[w] \in Nat
    BY <1>3, LiveTypes DEF Trying, Live, AtWork
  <2>2. cur[w] \in Chances(j)
    BY <1>3, <2>1 DEF Chances, Msg
  <2>3. ASSUME cur[w] \in Chances(j)' PROVE wpc'[w] \in Trying /\ cur'[w] = cur[w]
    <3>1. ~ (cur[w] > cursor')
      BY <1>1, <2>1
    <3>2. PICK v \in Workers : cur'[v] = cur[w] /\ wpc'[v] \in Trying
      BY <2>3, <3>1 DEF Chances
    <3>3. cur[v] = cur[w]
      BY <2>1, <3>2, TryingGoesOn
    <3>4. v = w
      BY <2>1, <3>3 DEF HoldersInv
    <3> QED
      BY <3>2, <3>4
  <2> QED
    BY <2>2, <2>3
<1> QED
  BY <1>2, <1>3

\* The DLQ keeps what was ever added to it, and only a failed send dooms a job.
LEMMA Dooming ==
    ASSUME TypeOK, [Next]_vars, NEW j
    PROVE  /\ OnDlq(j) => OnDlq(j)'
           /\ OnDlq(j)' => Doomed(j)
           /\ Doomed(j)' => \/ Doomed(j)
                            \/ \E w \in Workers : /\ SendFails(w) /\ Msg(w).job = j
                                                  /\ wpc[w] \in Trying /\ wpc'[w] \notin Trying
<1>1. DlqIds \subseteq DlqIds' /\ \A d \in DlqIds : dlq'[d] = dlq[d]
  BY StepGrows, NextTypeOK DEF Grown, DlqIds, TypeOK, DlqType
<1>2. OnDlq(j) => OnDlq(j)'
  BY <1>1 DEF OnDlq
<1>3. ASSUME OnDlq(j)' PROVE Doomed(j)
  <2>1. PICK d \in DlqIds' : dlq'[d].job = j
    BY <1>3 DEF OnDlq
  <2>2. CASE d \in DlqIds
    BY <1>1, <2>1, <2>2 DEF Doomed, OnDlq
  <2>3. CASE d \notin DlqIds
    <3>1. PICK w \in Workers : DeadLetter(w) /\ dlq'[d] = Msg(w)
      BY <2>3, WhoParks DEF DlqIds
    <3> QED
      BY <2>1, <3>1 DEF DeadLetter, Doomed
  <2> QED
    BY <2>2, <2>3
<1>4. ASSUME NEW w \in Workers, wpc'[w] = "deadLetter", Msg(w)'.job = j
      PROVE  \/ Doomed(j)
             \/ /\ SendFails(w) /\ Msg(w).job = j
                /\ wpc[w] \in Trying /\ wpc'[w] \notin Trying
  <2>1. CASE wpc[w] = "deadLetter" /\ cur'[w] = cur[w]
    <3>1. cur[w] \in Ids
      BY <2>1, LiveTypes DEF Live, AtWork
    <3>2. Msg(w)' = Msg(w)
      BY <2>1, <3>1, OldEntries DEF Msg
    <3> QED
      BY <1>4, <2>1, <3>2 DEF Doomed
  <2>2. CASE SendFails(w)
    BY <1>4, <2>2 DEF SendFails, redisVars, Msg, Trying
  <2>3. ASSUME NEW u \in Workers, WorkerStep(u), ~ SendFails(w)
        PROVE  wpc[w] = "deadLetter" /\ cur'[w] = cur[w]
    BY <1>4, <2>3 DEF WorkerStep, RunLoop, Process, StopWorker, BeginRead, ReadEntry,
       ReadNothing, ReadFails, SendOk, SendFails, MarkDelivered, DeadLetter, MarkFailed,
       Ack, AckRetry, Requeue, Goto, TypeOK, WorkerType
  <2>4. ASSUME NEW c \in Containers, Lifecycle(c)
        PROVE  wpc[w] = "deadLetter" /\ cur'[w] = cur[w]
    BY <1>4, <2>4 DEF Lifecycle, Sigterm, Exit, Crash, Restart, workerVars, TypeOK,
       WorkerType
  <2>5. ASSUME \/ \E k \in Jobs : Submission(k)
               \/ \E a \in Admins : Replay(a)
               \/ ForeignAdd
               \/ UNCHANGED vars
        PROVE  wpc[w] = "deadLetter" /\ cur'[w] = cur[w]
    BY <1>4, <2>5 DEF Submission, CreateRow, AddJob, CutSubmit, Replay, ReplayRead,
       ReplayAdd, ReplayDelete, CutReplay, ForeignAdd, workerVars, vars
  <2> QED
    BY <2>1, <2>2, <2>3, <2>4, <2>5 DEF Next
<1> QED
  BY <1>2, <1>3, <1>4 DEF Doomed

\* What may be mailed grows by the replays and shrinks when a job is doomed.
LEMMA AllowedSteps ==
    ASSUME TypeOK, [Next]_vars, NEW j \in Jobs
    PROVE  /\ replays[j] \in Nat /\ replays'[j] \in Nat
           /\ Allowed(j) \in Nat /\ Allowed(j)' \in Nat
           /\ Allowed(j) + replays'[j] <= Allowed(j)' + replays[j] + 1
           /\ (Doomed(j)' => Doomed(j))
                 => Allowed(j) + replays'[j] <= Allowed(j)' + replays[j]
<1>1. replays[j] \in Nat /\ replays'[j] \in Nat
  BY NextTypeOK DEF TypeOK, ReplayType
<1>2. /\ Allowed(j) = replays[j] + IF Doomed(j) THEN 0 ELSE 1
      /\ Allowed(j)' = replays'[j] + IF Doomed(j)' THEN 0 ELSE 1
  BY DEF Allowed
<1>3. CASE Doomed(j)
  BY <1>1, <1>2, <1>3
<1>4. CASE ~ Doomed(j) /\ Doomed(j)'
  BY <1>1, <1>2, <1>4
<1>5. CASE ~ Doomed(j) /\ ~ Doomed(j)'
  BY <1>1, <1>2, <1>5
<1> QED
  BY <1>3, <1>4, <1>5

\* A step that adds an entry of the job gives it one chance more.
LEMMA ChancesAdded ==
    ASSUME TypeOK, HoldersInv, [Next]_vars, NEW e, AddsOne(e), NEW j
    PROVE  /\ Chances(j)' \subseteq Chances(j) \cup {Len(stream) + 1}
           /\ e.job # j => Chances(j)' \subseteq Chances(j)
<1>1. ASSUME NEW i \in Chances(j)', i \notin Ids PROVE i = Len(stream) + 1 /\ e.job = j
  BY <1>1 DEF AddsOne, Chances
<1> QED
  BY <1>1, ChancesEnd

\* A handler that has not added its entry yet has nobody else work on its job.
LEMMA Untouched ==
    ASSUME TypeOK, CoverInv, NEW j \in Jobs, api[j] \in {"idle", "created"}
    PROVE  /\ mails[j] = 0 /\ Chances(j) = {} /\ Adding(j) = {}
           /\ ~ OnDlq(j) /\ ~ Doomed(j)
           /\ \A i \in Ids : stream[i].job # j
           /\ \A w \in Workers : wpc[w] \in Live => Msg(w).job # j
<1>1. ~ OnDlq(j) /\ mails[j] = 0 /\ \A i \in Ids : stream[i].job # j
  BY DEF CoverInv
<1>2. \A w \in Workers : wpc[w] \in Live => Msg(w).job # j
  BY <1>1, LiveTypes DEF Msg
<1>3. Chances(j) = {}
  BY <1>1 DEF Chances
<1>4. ASSUME NEW a \in Adding(j) PROVE FALSE
  <2>1. hold[a] \in DlqIds /\ Held(a).job = j
    BY <1>4, HeldTypes DEF Adding
  <2> QED
    BY <1>1, <2>1 DEF OnDlq, Held
<1>5. ~ Doomed(j)
  BY <1>1, <1>2 DEF Doomed, Live, AtWork
<1> QED
  BY <1>1, <1>2, <1>3, <1>4, <1>5

LEMMA NextCount ==
    ASSUME TypeOK, HoldersInv, CoverInv, [Next]_vars, "resend" \notin Faults,
           "quit" \notin Faults, NEW j \in Jobs
    PROVE  /\ IsFiniteSet(Adding(j)')
           /\ mails'[j] + Cardinality(Chances(j)') + Cardinality(Adding(j)') <= Allowed(j)'
<1> DEFINE Goal == /\ IsFiniteSet(Adding(j)')
                   /\ mails'[j] + Cardinality(Chances(j)') + Cardinality(Adding(j)')
                         <= Allowed(j)'
<1>1. /\ IsFiniteSet(Adding(j)) /\ Cardinality(Adding(j)) \in Nat
      /\ IsFiniteSet(Chances(j)) /\ Cardinality(Chances(j)) \in Nat
      /\ Cardinality(Chances(j)') \in Nat
      /\ mails[j] \in Nat /\ mails'[j] \in Nat
      /\ mails[j] + Cardinality(Chances(j)) + Cardinality(Adding(j)) <= Allowed(j)
  <2>1. IsFiniteSet(Ids')
    BY NextTypeOK, FS_Interval DEF Ids, TypeOK, StreamType
  <2>2. Cardinality(Chances(j)') \in Nat
    BY <2>1, Fewer DEF Chances
  <2> QED
    BY <2>2, FiniteChances, FS_CardinalityType, NextTypeOK DEF CoverInv, TypeOK, RowType
<1>2. /\ Allowed(j) \in Nat /\ Allowed(j)' \in Nat
      /\ replays[j] \in Nat /\ replays'[j] \in Nat
      /\ Allowed(j) + replays'[j] <= Allowed(j)' + replays[j] + 1
      /\ (Doomed(j)' => Doomed(j)) => Allowed(j) + replays'[j] <= Allowed(j)' + replays[j]
  BY AllowedSteps
<1>3. Ids' = Ids => Chances(j)' \subseteq Chances(j)
  <2>1. Chances(j)' \subseteq Ids'
    BY DEF Chances
  <2> QED
    BY <2>1, ChancesEnd
<1>4. ASSUME replays'[j] = replays[j]
      PROVE  /\ Adding(j)' \subseteq Adding(j) /\ IsFiniteSet(Adding(j)')
             /\ Cardinality(Adding(j)') \in Nat
             /\ Cardinality(Adding(j)') <= Cardinality(Adding(j))
  <2>1. Adding(j)' \subseteq Adding(j)
    BY <1>2, <1>4, WhoAsks
  <2> QED
    BY <1>1, <2>1, Fewer
<1>5. ASSUME NEW w \in Workers, SendOk(w), Msg(w).job = j, mails'[j] = mails[j] + 1
      PROVE  Goal
  <2>1. /\ wpc[w] \in Trying /\ wpc'[w] = "markDelivered" /\ Ids' = Ids
        /\ replays'[j] = replays[j] /\ wpc' = [wpc EXCEPT ![w] = "markDelivered"]
    BY <1>5 DEF SendOk, Goto, Trying, redisVars, Ids, TypeOK, WorkerType
  <2>2. cur[w] \in Chances(j) /\ Chances(j)' \subseteq Chances(j) \ {cur[w]}
    BY <1>3, <1>5, <2>1, ChancesEnd DEF Trying
  <2>3. Cardinality(Chances(j)') + 1 <= Cardinality(Chances(j))
    BY <1>1, <2>2, OneLess
  <2>4. ASSUME NEW v \in Workers, SendFails(v) PROVE FALSE
    BY <1>5, <2>1, <2>4 DEF SendFails, Goto, TypeOK, WorkerType, RowType
  <2>5. Doomed(j)' => Doomed(j)
    BY <2>4, Dooming
  <2> QED
    BY <1>1, <1>2, <1>4, <1>5, <2>1, <2>3, <2>5
<1>6. ASSUME mails'[j] = mails[j], NEW w \in Workers, SendFails(w), Msg(w).job = j,
             wpc[w] \in Trying, wpc'[w] \notin Trying
      PROVE  Goal
  <2>1. Ids' = Ids /\ replays'[j] = replays[j]
    BY <1>6 DEF SendFails, redisVars, Ids
  <2>2. cur[w] \in Chances(j) /\ Chances(j)' \subseteq Chances(j) \ {cur[w]}
    BY <1>3, <1>6, <2>1, ChancesEnd
  <2>3. Cardinality(Chances(j)') + 1 <= Cardinality(Chances(j))
    BY <1>1, <2>2, OneLess
  <2> QED
    BY <1>1, <1>2, <1>4, <1>6, <2>1, <2>3
<1>7. ASSUME mails'[j] = mails[j], Doomed(j)' => Doomed(j), NEW a \in Admins, ReplayRead(a),
             Adding(j)' \subseteq Adding(j) \cup {a}, replays'[j] = replays[j] + 1
      PROVE  Goal
  <2>1. Ids' = Ids
    BY <1>7 DEF ReplayRead, redisVars, Ids
  <2>2. Cardinality(Chances(j)') <= Cardinality(Chances(j))
    BY <1>1, <1>3, <2>1, Fewer
  <2>3. /\ IsFiniteSet(Adding(j)') /\ Cardinality(Adding(j)') <= Cardinality(Adding(j)) + 1
        /\ Cardinality(Adding(j)') \in Nat
    BY <1>1, <1>7, OneMore, FS_CardinalityType
  <2> QED
    BY <1>1, <1>2, <1>7, <2>2, <2>3
<1>8. ASSUME mails'[j] = mails[j], Doomed(j)' => Doomed(j), replays'[j] = replays[j]
      PROVE  Goal
  <2>1. Allowed(j) <= Allowed(j)'
    BY <1>2, <1>8
  <2>2. ASSUME Chances(j)' \subseteq Chances(j) PROVE Goal
    <3>1. Cardinality(Chances(j)') <= Cardinality(Chances(j))
      BY <1>1, <2>2, Fewer
    <3> QED
      BY <1>1, <1>2, <1>4, <1>8, <2>1, <3>1
  <2>3. ASSUME NEW k \in Jobs, AddJob(k), AddsOne(NewEntry(k)) PROVE Goal
    <3>1. CASE k # j
      <4>1. NewEntry(k).job = k
        BY DEF NewEntry
      <4> QED
        BY <2>2, <2>3, <3>1, <4>1, ChancesAdded
    <3>2. CASE k = j
      <4>1. api[j] \in {"idle", "created"}
        BY <2>3, <3>2 DEF AddJob
      <4>2. mails[j] = 0 /\ Chances(j) = {} /\ Adding(j) = {} /\ ~ Doomed(j)
        BY <4>1, Untouched
      <4>3. Cardinality(Chances(j)') <= Cardinality(Chances(j)) + 1
        BY <1>1, <2>3, ChancesAdded, OneMore
      <4>4. Cardinality(Chances(j)) = 0 /\ Cardinality(Adding(j)) = 0
        BY <4>2, FS_EmptySet
      <4>5. Allowed(j) >= 1
        BY <1>2, <4>2 DEF Allowed
      <4> QED
        BY <1>1, <1>2, <1>4, <1>8, <2>1, <4>2, <4>3, <4>4, <4>5
    <3> QED
      BY <3>1, <3>2
  <2>4. ASSUME NEW w \in Workers, Requeue(w), AddsOne(Retried(w)) PROVE Goal
    <3>1. Retried(w).job = Msg(w).job
      BY DEF Retried
    <3>2. CASE Msg(w).job # j
      BY <2>2, <2>4, <3>1, <3>2, ChancesAdded
    <3>3. CASE Msg(w).job = j
      <4> DEFINE Others == Chances(j) \ {cur[w]}
      <4>1. wpc[w] \in Trying /\ wpc'[w] \notin Trying
        BY <2>4 DEF Requeue, Goto, Trying, TypeOK, WorkerType
      <4>2. cur[w] \in Chances(j) /\ cur[w] \notin Chances(j)'
        BY <3>3, <4>1, ChancesEnd
      <4>3. IsFiniteSet(Others) /\ Cardinality(Others) + 1 <= Cardinality(Chances(j))
        BY <1>1, <4>2, OneLess
      <4>4. Chances(j)' \subseteq Others \cup {Len(stream) + 1}
        BY <2>4, <4>2, ChancesAdded
      <4> HIDE DEF Others
      <4>5. Cardinality(Chances(j)') <= Cardinality(Others) + 1 /\ Cardinality(Others) \in Nat
        BY <4>3, <4>4, OneMore, FS_CardinalityType
      <4> QED
        BY <1>1, <1>2, <1>4, <1>8, <2>1, <4>3, <4>5
    <3> QED
      BY <3>2, <3>3
  <2>5. ASSUME NEW a \in Admins, ReplayAdd(a), AddsOne(Held(a)) PROVE Goal
    <3>1. CASE Held(a).job # j
      BY <2>2, <2>5, <3>1, ChancesAdded
    <3>2. CASE Held(a).job = j
      <4>1. a \in Adding(j) /\ apc'[a] # "add"
        BY <2>5, <3>2 DEF ReplayAdd, Adding, TypeOK, ReplayType
      <4>2. Adding(j)' \subseteq Adding(j) \ {a}
        BY <1>4, <1>8, <4>1 DEF Adding
      <4>3. Cardinality(Adding(j)') + 1 <= Cardinality(Adding(j))
        BY <1>1, <4>1, <4>2, OneLess
      <4>4. Cardinality(Chances(j)') <= Cardinality(Chances(j)) + 1
        BY <1>1, <2>5, ChancesAdded, OneMore
      <4> QED
        BY <1>1, <1>2, <1>4, <1>8, <2>1, <4>3, <4>4
    <3> QED
      BY <3>1, <3>2
  <2>6. ASSUME AddsOne(Malformed) PROVE Goal
    <3>1. Malformed.job # j
      BY DEF Malformed
    <3> QED
      BY <2>2, <2>6, <3>1, ChancesAdded
  <2> HIDE DEF Goal
  <2> QED
    BY <1>3, <2>2, <2>3, <2>4, <2>5, <2>6, WhoAdds
<1> HIDE DEF Goal
<1>9. ASSUME mails'[j] # mails[j] PROVE Goal
  BY <1>5, <1>9, WhoMails
<1>10. ASSUME mails'[j] = mails[j], ~ (Doomed(j)' => Doomed(j)) PROVE Goal
  BY <1>6, <1>10, Dooming
<1>11. ASSUME mails'[j] = mails[j], Doomed(j)' => Doomed(j) PROVE Goal
  BY <1>7, <1>8, <1>11, WhoAsks
<1>12. Goal
  BY <1>9, <1>10, <1>11
<1> QED
  BY <1>12 DEF Goal

LEMMA NextCover ==
    ASSUME "resend" \notin Faults, "quit" \notin Faults
    PROVE  TypeOK /\ HoldersInv /\ CoverInv /\ [Next]_vars => CoverInv'
<1> SUFFICES ASSUME TypeOK, HoldersInv, CoverInv, [Next]_vars, NEW j \in Jobs
             PROVE  /\ replays'[j] > 0 => OnDlq(j)'
                    /\ api'[j] \in {"idle", "created"} =>
                          /\ ~ OnDlq(j)' /\ mails'[j] = 0
                          /\ \A i \in Ids' : stream'[i].job # j
  BY NextCount DEF CoverInv
<1>1. ASSUME replays'[j] > 0 PROVE OnDlq(j)'
  <2>1. CASE replays'[j] = replays[j]
    BY <1>1, <2>1, Dooming DEF CoverInv
  <2>2. ASSUME NEW a \in Admins, ReplayRead(a), replays'[j] # replays[j] PROVE OnDlq(j)
    <3>1. PICK d \in parked : replays' = [replays EXCEPT ![dlq[d].job] = @ + 1]
      BY <2>2 DEF ReplayRead
    <3>2. d \in DlqIds /\ dlq[d].job = j
      BY <2>2, <3>1 DEF TypeOK, DlqType, ReplayType
    <3> QED
      BY <3>2 DEF OnDlq
  <2> QED
    BY <2>1, <2>2, WhoAsks, Dooming
<1>2. ASSUME api'[j] \in {"idle", "created"}
      PROVE  ~ OnDlq(j)' /\ mails'[j] = 0 /\ \A i \in Ids' : stream'[i].job # j
  <2>1. api[j] \in {"idle", "created"}
    BY <1>2, Backwards
  <2>2. /\ mails[j] = 0 /\ ~ Doomed(j)
        /\ \A w \in Workers : wpc[w] \in Live => Msg(w).job # j
    BY <2>1, Untouched
  <2>3. ~ OnDlq(j)'
    BY <2>2, Dooming
  <2>4. mails'[j] = 0
    BY <2>2, WhoMails
  <2>5. ASSUME NEW i \in Ids', stream'[i].job = j PROVE FALSE
    <3>1. ~ OnDlq(j) /\ \A k \in Ids : stream[k].job # j
      BY <2>1, Untouched
    <3>2. i \notin Ids
      BY <2>5, <3>1, OldEntries
    <3>3. AddJob(j)
      BY <2>5, <3>1, <3>2, WhoStreams DEF OnDlq
    <3> QED
      BY <1>2, <3>3 DEF AddJob, TypeOK, RowType
  <2> QED
    BY <2>3, <2>4, <2>5
<1> QED
  BY <1>1, <1>2

LEMMA InitCover == Init => CoverInv
<1> SUFFICES ASSUME Init PROVE CoverInv
  OBVIOUS
<1>1. Ids = {} /\ DlqIds = {}
  BY DEF Init, Ids, DlqIds
<1> SUFFICES ASSUME NEW j \in Jobs
             PROVE  /\ IsFiniteSet(Adding(j)) /\ ~ OnDlq(j) /\ replays[j] = 0 /\ mails[j] = 0
                    /\ mails[j] + Cardinality(Chances(j)) + Cardinality(Adding(j))
                          <= Allowed(j)
  BY <1>1 DEF CoverInv
<1>2. Adding(j) = {} /\ Chances(j) = {} /\ ~ OnDlq(j) /\ replays[j] = 0 /\ mails[j] = 0
  BY <1>1 DEF Init, Adding, Chances, OnDlq
<1>3. Allowed(j) \in Nat
  BY <1>2 DEF Allowed
<1> QED
  BY <1>2, <1>3, FS_EmptySet

\* Without resent XADDs and without errors for mails that were accepted: under
\* crashes, drains, failing Redis and SQL calls, with any number of workers and
\* replays at once, a job is mailed once by its own attempts or once per replay,
\* never both (processMessage, replayDLQ).
THEOREM MailsAreCovered ==
    ASSUME "resend" \notin Faults, "quit" \notin Faults
    PROVE  Spec => []MailsCovered
<1>1. Init => TypeOK /\ HoldersInv /\ CoverInv
  BY InitTypeOK, InitOneCopy, InitCover DEF OneCopyInv
<1>2. TypeOK /\ HoldersInv /\ CoverInv /\ [Next]_vars => (TypeOK /\ HoldersInv /\ CoverInv)'
  BY NextTypeOK, NextHolders, NextCover
<1>3. TypeOK /\ CoverInv => MailsCovered
  <2> SUFFICES ASSUME TypeOK, CoverInv, NEW j \in Jobs
               PROVE  mails[j] <= IF OnDlq(j) THEN replays[j] ELSE 1
    BY DEF MailsCovered, OnDlq
  <2>1. /\ Cardinality(Chances(j)) \in Nat /\ Cardinality(Adding(j)) \in Nat
        /\ mails[j] \in Nat /\ replays[j] \in Nat
        /\ mails[j] + Cardinality(Chances(j)) + Cardinality(Adding(j)) <= Allowed(j)
        /\ replays[j] > 0 => OnDlq(j)
    BY FiniteChances, FS_CardinalityType DEF CoverInv, TypeOK, RowType, ReplayType
  <2>2. CASE OnDlq(j)
    BY <2>1, <2>2 DEF Allowed, Doomed
  <2>3. CASE ~ OnDlq(j)
    BY <2>1, <2>3 DEF Allowed
  <2> QED
    BY <2>2, <2>3
<1> QED
  BY <1>1, <1>2, <1>3, PTL DEF Spec

\* The bound on the replay requests.
LEMMA ReplaysBounded ==
    ASSUME TypeOK, \A j \in Jobs : replays[j] <= MaxReplays, [Next]_vars
    PROVE  \A j \in Jobs : replays'[j] <= MaxReplays
<1> SUFFICES ASSUME NEW j \in Jobs PROVE replays'[j] <= MaxReplays
  OBVIOUS
<1>1. ASSUME NEW a \in Admins, ReplayRead(a), replays'[j] # replays[j]
      PROVE  replays'[j] <= MaxReplays
  <2>1. PICK d \in parked : /\ replays[dlq[d].job] < MaxReplays
                            /\ replays' = [replays EXCEPT ![dlq[d].job] = @ + 1]
    BY <1>1 DEF ReplayRead
  <2>2. dlq[d].job = j /\ replays'[j] = replays[j] + 1 /\ replays[j] \in Nat
    BY <1>1, <2>1 DEF TypeOK, ReplayType
  <2> QED
    BY <2>1, <2>2, MaxReplaysAssumption
<1> QED
  BY <1>1, WhoAsks

\* So the "exactly once" of the readme is at most once for a job that is replayed
\* once at most; ExactlyOnce is violated with two replay requests of one job.
THEOREM MailedOnceIfReplayedOnce ==
    ASSUME "resend" \notin Faults, "quit" \notin Faults, MaxReplays <= 1
    PROVE  Spec => []ExactlyOnce
<1> DEFINE Bounded == \A j \in Jobs : replays[j] <= MaxReplays
<1>1. Init => TypeOK /\ Bounded
  BY InitTypeOK, MaxReplaysAssumption DEF Init
<1>2. TypeOK /\ Bounded /\ [Next]_vars => (TypeOK /\ Bounded)'
  BY NextTypeOK, ReplaysBounded
<1>3. TypeOK /\ Bounded /\ MailsCovered => ExactlyOnce
  <2> SUFFICES ASSUME TypeOK, Bounded, MailsCovered, NEW j \in Jobs PROVE mails[j] <= 1
    BY DEF ExactlyOnce
  <2>1. mails[j] \in Nat /\ replays[j] \in Nat /\ replays[j] <= MaxReplays
    BY DEF TypeOK, RowType, ReplayType
  <2>2. mails[j] <= replays[j] \/ mails[j] <= 1
    BY DEF MailsCovered
  <2> QED
    BY <2>1, <2>2, MaxReplaysAssumption
<1>4. Spec => []MailsCovered
  BY MailsAreCovered
<1> HIDE DEF Bounded
<1> QED
  BY <1>1, <1>2, <1>3, <1>4, PTL DEF Spec

=============================================================================
