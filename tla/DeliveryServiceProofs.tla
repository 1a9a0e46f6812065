----------------------- MODULE DeliveryServiceProofs -----------------------
(* Delivery implements JobService, if all containers have the same           *)
(* MAX_RETRIES and the Redis client does not resend an XADD: whatever the    *)
(* handlers, workers, replays and containers do to a job, alone or against   *)
(* each other, is one step of JobService or none. And what holds while no    *)
(* container stops and Redis answers: what is pending is held by a worker,   *)
(* what has not settled is still moving, and one job is one mail.            *)
EXTENDS DeliveryOnceProofs

USE NoJobAssumption, HostAssumption, MaxRetriesAssumption

-----------------------------------------------------------------------------
(* The attempts of a job.                                                  *)

\* All containers run with the same MAX_RETRIES, which is then the Limit.
EqualRetries == Containers # {} /\ \A c, d \in Containers : MaxRetries[c] = MaxRetries[d]

LEMMA LimitOfAll ==
    ASSUME EqualRetries
    PROVE  Limit \in Nat /\ \A c \in Containers : MaxRetries[c] = Limit
<1>1. PICK c \in Containers : TRUE
  BY DEF EqualRetries
<1>2. MaxRetries[c] \in {MaxRetries[d] : d \in Containers}
  OBVIOUS
<1>3. Limit \in {MaxRetries[d] : d \in Containers}
  BY <1>2 DEF Limit
<1> QED
  BY <1>3 DEF EqualRetries

\* The attempts of a job, replayed or not: they count up to the limit, nothing
\* comes after the limit but replays, and only the newest can still be retried.
GradesInv ==
    /\ \A i \in Ids : stream[i].job \in Jobs => stream[i].max = Limit /\ stream[i].retry <= Limit
    /\ \A i, k \in Ids :
          stream[i].job \in Jobs /\ stream[i].job = stream[k].job /\ i < k =>
              \/ stream[i].retry < stream[k].retry
              \/ stream[i].retry = Limit /\ stream[k].retry = Limit
    /\ \A i, k \in Ids :
          stream[i].job \in Jobs /\ stream[i].job = stream[k].job
             /\ Active(i) /\ stream[i].retry < Limit => k <= i
    /\ \A i \in Ids : stream[i].job \in Jobs =>
          \A r \in 0 .. stream[i].retry :
              \E k \in Ids : k <= i /\ stream[k].job = stream[i].job /\ stream[k].retry = r

\* Whatever is about to be put on the DLQ, or is there, used up the attempts.
ExhaustedInv ==
    /\ \A w \in Workers : wpc[w] \in {"deadLetter", "markFailed"} => Msg(w).retry = Limit
    /\ \A d \in DlqIds :
          /\ dlq[d].max = Limit /\ dlq[d].retry = Limit
          /\ \E i \in Ids : i <= cursor /\ stream[i].job = dlq[d].job /\ stream[i].retry = Limit

\* Nothing is on the stream before its handler adds it, and no row is there
\* before it is created.
FreshInv ==
    \A j \in Jobs :
        /\ api[j] \in {"idle", "created"} => \A i \in Ids : stream[i].job # j
        /\ api[j] = "idle" => status[j] = "none"

AttemptsInv == GradesInv /\ ExhaustedInv /\ FreshInv

LEMMA LimitOfWorker ==
    ASSUME TypeOK, EqualRetries, GradesInv, NEW w \in Workers, wpc[w] \in Live
    PROVE  EffMax(w, Msg(w)) = Limit
<1>1. cur[w] \in Ids /\ stream[cur[w]] = Msg(w) /\ Msg(w).job \in Jobs
  BY LiveTypes DEF Msg
<1>2. Msg(w).max = Limit
  BY <1>1 DEF GradesInv
<1>3. MaxRetries[Host[w]] = Limit
  BY LimitOfAll
<1> QED
  BY <1>2, <1>3 DEF EffMax

\* The entry that a step adds: it continues the newest attempt, or repeats the
\* last one.
LEMMA AddedAttempt ==
    ASSUME TypeOK, EqualRetries, HoldersInv, AttemptsInv, [Next]_vars, "resend" \notin Faults,
           NEW n \in Ids' \ Ids, stream'[n].job \in Jobs
    PROVE  LET e == stream'[n]
           IN  /\ n = Len(stream) + 1
               /\ e.max = Limit /\ e.retry <= Limit
               /\ api'[e.job] \notin {"idle", "created"}
               /\ \A k \in Ids : stream[k].job = e.job =>
                     /\ \/ stream[k].retry < e.retry
                        \/ stream[k].retry = Limit /\ e.retry = Limit
                     /\ stream[k].retry < Limit => ~ Active(k)'
               /\ \A r \in 0 .. e.retry :
                     r = e.retry \/ \E k \in Ids : stream[k].job = e.job /\ stream[k].retry = r
<1> DEFINE Goal(e) ==
      e.job \in Jobs =>
          /\ e.max = Limit /\ e.retry <= Limit
          /\ api'[e.job] \notin {"idle", "created"}
          /\ \A k \in Ids : stream[k].job = e.job =>
                /\ \/ stream[k].retry < e.retry
                   \/ stream[k].retry = Limit /\ e.retry = Limit
                /\ stream[k].retry < Limit => ~ Active(k)'
          /\ \A r \in 0 .. e.retry :
                r = e.retry \/ \E k \in Ids : stream[k].job = e.job /\ stream[k].retry = r
<1>0. Limit \in Nat
  BY LimitOfAll
<1>1. ASSUME NEW e, AddsOne(e), Goal(e)
      PROVE  n = Len(stream) + 1 /\ Goal(stream'[n])
  BY <1>1 DEF AddsOne
<1>2. ASSUME NEW j \in Jobs, AddJob(j) PROVE Goal(NewEntry(j))
  <2>1. api[j] = "created" /\ api'[j] \in {"queued", "error"}
    BY <1>2 DEF AddJob, TypeOK, RowType
  <2>2. \A k \in Ids : stream[k].job # j
    BY <2>1 DEF AttemptsInv, FreshInv
  <2>3. NewEntry(j).job = j /\ NewEntry(j).retry = 0 /\ NewEntry(j).max = Limit
    BY LimitOfAll DEF NewEntry
  <2> QED
    BY <1>0, <2>1, <2>2, <2>3
<1>3. ASSUME NEW w \in Workers, Requeue(w) PROVE Goal(Retried(w))
  <2> DEFINE i == cur[w]
  <2>1. wpc[w] = "requeue" /\ wpc[w] \in Live /\ api' = api
    BY <1>3 DEF Requeue, Live, AtWork
  <2>2. i \in Ids /\ i <= cursor /\ i # 0 /\ Msg(w) \in Entry /\ Msg(w).job \in Jobs
    BY <2>1, LiveTypes
  <2>3. Active(i) /\ stream[i] = Msg(w)
    BY <2>1 DEF Active, Msg
  <2>4. EffMax(w, Msg(w)) = Limit
    BY <2>1, LimitOfWorker DEF AttemptsInv
  <2>5. Msg(w).retry < Limit /\ Msg(w).retry \in Nat
    BY <2>1, <2>2, <2>4 DEF HoldersInv, Entry
  <2>6. /\ Retried(w).job = Msg(w).job /\ Retried(w).retry = Msg(w).retry + 1
        /\ Retried(w).max = Limit
    BY <2>4 DEF Retried
  <2>7. ASSUME NEW k \in Ids, stream[k].job = Msg(w).job
        PROVE  stream[k].retry < Msg(w).retry + 1 /\ (stream[k].retry < Limit => ~ Active(k)')
    <3>1. k <= i
      BY <2>2, <2>3, <2>5, <2>7 DEF AttemptsInv, GradesInv
    <3>2. k \in Nat /\ i \in Nat /\ cursor \in Nat /\ stream[k] \in Entry
      BY <2>2, LiveTypes
    <3>3. stream[k].retry <= Msg(w).retry
      <4>1. CASE k = i
        BY <2>3, <3>2, <4>1 DEF Entry
      <4>2. CASE k < i
        <5>1. stream[k].retry < Msg(w).retry \/ Msg(w).retry = Limit
          BY <2>2, <2>3, <2>7, <4>2 DEF AttemptsInv, GradesInv
        <5> QED
          BY <1>0, <2>5, <3>2, <5>1 DEF Entry
      <4> QED
        BY <3>1, <3>2, <4>1, <4>2
    <3>4. ASSUME Active(k)', stream[k].retry < Limit PROVE FALSE
      <4>1. Active(k)
        BY <3>4, ActivityEnds
      <4>2. i <= k
        BY <2>2, <2>3, <2>7, <3>4, <4>1 DEF AttemptsInv, GradesInv
      <4>3. k = i
        BY <3>1, <3>2, <4>2
      <4>4. cursor' = cursor
        BY <1>3 DEF Requeue
      <4>5. PICK v \in Workers : cur'[v] = i /\ wpc'[v] \in Live
        BY <2>2, <3>2, <3>4, <4>3, <4>4 DEF Active
      <4>6. v # w
        BY <1>3, <2>2, <4>5 DEF Requeue, TypeOK, WorkerType
      <4>7. cur[v] = i
        BY <1>3, <4>5, <4>6 DEF Requeue, TypeOK, WorkerType
      <4> QED
        BY <2>2, <4>6, <4>7 DEF HoldersInv
    <3>5. stream[k].retry \in Nat
      BY <3>2 DEF Entry
    <3> QED
      BY <2>5, <3>3, <3>4, <3>5
  <2>8. api'[Msg(w).job] \notin {"idle", "created"}
    BY <2>1, <2>2, <2>3 DEF AttemptsInv, FreshInv
  <2>9. ASSUME NEW r \in 0 .. Msg(w).retry
        PROVE  \E k \in Ids : stream[k].job = Msg(w).job /\ stream[k].retry = r
    BY <2>2, <2>3 DEF AttemptsInv, GradesInv
  <2>10. \A r \in 0 .. Msg(w).retry + 1 : r = Msg(w).retry + 1 \/ r \in 0 .. Msg(w).retry
    BY <2>5
  <2>11. Msg(w).retry + 1 <= Limit
    BY <1>0, <2>5
  <2> QED
    BY <2>6, <2>7, <2>8, <2>9, <2>10, <2>11
<1>4. ASSUME NEW a \in Admins, ReplayAdd(a) PROVE Goal(Held(a))
  <2>1. apc[a] # "idle" /\ api' = api
    BY <1>4 DEF ReplayAdd
  <2>2. hold[a] \in DlqIds
    BY <2>1, HeldTypes
  <2>3. Held(a).retry = Limit /\ Held(a).max = Limit
    BY <2>2 DEF AttemptsInv, ExhaustedInv, Held
  <2>4. PICK i \in Ids : stream[i].job = Held(a).job /\ stream[i].retry = Limit
    BY <2>2 DEF AttemptsInv, ExhaustedInv, Held
  <2>5. ASSUME Held(a).job \in Jobs PROVE api'[Held(a).job] \notin {"idle", "created"}
    BY <2>1, <2>4, <2>5 DEF AttemptsInv, FreshInv
  <2>6. ASSUME Held(a).job \in Jobs, NEW k \in Ids, stream[k].job = Held(a).job
        PROVE  /\ stream[k].retry < Limit \/ stream[k].retry = Limit
               /\ stream[k].retry < Limit => ~ Active(k)'
    <3>1. stream[k].retry \in Nat /\ k \in Nat /\ i \in Nat
      BY LiveTypes DEF Entry
    <3>2. stream[k].retry <= Limit
      BY <2>6 DEF AttemptsInv, GradesInv
    <3>3. ASSUME stream[k].retry < Limit, Active(k)' PROVE FALSE
      <4>1. Active(k)
        BY <3>3, ActivityEnds
      <4>2. i <= k /\ i # k
        BY <1>0, <2>4, <2>6, <3>1, <3>3, <4>1 DEF AttemptsInv, GradesInv
      <4>3. i < k
        BY <3>1, <4>2
      <4>4. Limit < stream[k].retry \/ stream[k].retry = Limit
        BY <2>4, <2>6, <4>3 DEF AttemptsInv, GradesInv
      <4> QED
        BY <1>0, <3>1, <3>3, <4>4
    <3> QED
      BY <1>0, <3>1, <3>2, <3>3
  <2>7. ASSUME Held(a).job \in Jobs, NEW r \in 0 .. Limit
        PROVE  \E k \in Ids : stream[k].job = Held(a).job /\ stream[k].retry = r
    BY <2>4, <2>7 DEF AttemptsInv, GradesInv
  <2> QED
    BY <1>0, <2>3, <2>5, <2>6, <2>7
<1>5. Goal(Malformed)
  BY DEF Malformed
<1> HIDE DEF Goal
<1>6. n = Len(stream) + 1 /\ Goal(stream'[n])
  BY <1>1, <1>2, <1>3, <1>4, <1>5, WhoAdds
<1> QED
  BY <1>6 DEF Goal

LEMMA NextGrades ==
    ASSUME TypeOK, EqualRetries, HoldersInv, AttemptsInv, [Next]_vars, "resend" \notin Faults
    PROVE  GradesInv'
<1>0. Limit' = Limit
  BY DEF Limit
<1>1. ASSUME NEW i \in Ids', stream'[i].job \in Jobs
      PROVE  /\ stream'[i].max = Limit /\ stream'[i].retry <= Limit
             /\ \A r \in 0 .. stream'[i].retry :
                   \E k \in Ids' : k <= i /\ stream'[k].job = stream'[i].job /\ stream'[k].retry = r
  <2>1. CASE i \in Ids
    <3>1. stream'[i] = stream[i]
      BY <2>1, OldEntries
    <3>2. stream[i].max = Limit /\ stream[i].retry <= Limit
      BY <1>1, <2>1, <3>1 DEF AttemptsInv, GradesInv
    <3>3. ASSUME NEW r \in 0 .. stream[i].retry
          PROVE  \E k \in Ids' : k <= i /\ stream'[k].job = stream[i].job /\ stream'[k].retry = r
      <4>1. PICK k \in Ids : k <= i /\ stream[k].job = stream[i].job /\ stream[k].retry = r
        BY <1>1, <2>1, <3>1 DEF AttemptsInv, GradesInv
      <4> QED
        BY <4>1, OldEntries
    <3> QED
      BY <3>1, <3>2, <3>3
  <2>2. CASE i \notin Ids
    <3>1. /\ i = Len(stream) + 1
          /\ stream'[i].max = Limit /\ stream'[i].retry <= Limit
          /\ \A r \in 0 .. stream'[i].retry :
                r = stream'[i].retry
                   \/ \E k \in Ids : stream[k].job = stream'[i].job /\ stream[k].retry = r
      BY <1>1, <2>2, AddedAttempt
    <3>2. \A k \in Ids : k <= i /\ k \in Ids' /\ stream'[k] = stream[k]
      BY <3>1, OldEntries
    <3>3. i <= i
      BY OldEntries
    <3>4. ASSUME NEW r \in 0 .. stream'[i].retry
          PROVE  \E k \in Ids' : k <= i /\ stream'[k].job = stream'[i].job /\ stream'[k].retry = r
      <4>1. CASE r = stream'[i].retry
        BY <3>3, <4>1
      <4>2. CASE \E k \in Ids : stream[k].job = stream'[i].job /\ stream[k].retry = r
        BY <3>2, <4>2
      <4> QED
        BY <3>1, <4>1, <4>2
    <3> QED
      BY <3>1, <3>4
  <2> QED
    BY <2>1, <2>2
<1>2. ASSUME NEW i \in Ids', NEW k \in Ids', stream'[i].job \in Jobs,
             stream'[i].job = stream'[k].job
      PROVE  /\ i < k => \/ stream'[i].retry < stream'[k].retry
                         \/ stream'[i].retry = Limit /\ stream'[k].retry = Limit
             /\ Active(i)' /\ stream'[i].retry < Limit => k <= i
  <2>1. CASE i \in Ids /\ k \in Ids
    <3>1. stream'[i] = stream[i] /\ stream'[k] = stream[k]
      BY <2>1, OldEntries
    <3>2. Active(i)' => Active(i)
      BY <2>1, ActivityEnds
    <3> QED
      BY <1>2, <2>1, <3>1, <3>2 DEF AttemptsInv, GradesInv
  <2>2. CASE i \notin Ids
    <3>1. i = Len(stream) + 1
      BY <1>2, <2>2, AddedAttempt
    <3>2. k \in Ids \/ k = i
      BY <1>2, <3>1, AddedAttempt
    <3>3. k <= i /\ ~ (i < k)
      BY <3>1, <3>2, OldEntries
    <3> QED
      BY <3>3
  <2>3. CASE i \in Ids /\ k \notin Ids
    <3>1. stream'[i] = stream[i]
      BY <2>3, OldEntries
    <3> QED
      BY <1>2, <2>3, <3>1, AddedAttempt
  <2> QED
    BY <2>1, <2>2, <2>3
<1> QED
  BY <1>0, <1>1, <1>2 DEF GradesInv

\* Only exhausted attempts reach the DLQ.
LEMMA NextExhausted ==
    ASSUME TypeOK, EqualRetries, AttemptsInv, [Next]_vars
    PROVE  ExhaustedInv'
<1>0. Limit' = Limit /\ Limit \in Nat
  BY LimitOfAll DEF Limit
<1>1. ASSUME NEW w \in Workers, wpc'[w] \in {"deadLetter", "markFailed"}
      PROVE  Msg(w)'.retry = Limit
  <2>1. CASE wpc[w] \in {"deadLetter", "markFailed"} /\ cur'[w] = cur[w]
    <3>1. cur[w] \in Ids
      BY <2>1, LiveTypes DEF Live, AtWork
    <3>2. Msg(w)' = Msg(w)
      BY <2>1, <3>1, StepGrows DEF Msg, Grown
    <3> QED
      BY <2>1, <3>2 DEF AttemptsInv, ExhaustedInv
  <2>2. CASE SendFails(w)
    <3>1. wpc[w] \in Live /\ Msg(w)' = Msg(w)
      BY <2>2 DEF SendFails, redisVars, Msg, Live, AtWork
    <3>2. Msg(w).retry >= EffMax(w, Msg(w))
      BY <1>1, <2>2 DEF SendFails, Goto, TypeOK, WorkerType
    <3>3. cur[w] \in Ids /\ stream[cur[w]] = Msg(w) /\ Msg(w) \in Entry /\ Msg(w).job \in Jobs
      BY <3>1, LiveTypes DEF Msg
    <3>4. Msg(w).retry <= Limit /\ Msg(w).retry \in Nat
      BY <3>3 DEF AttemptsInv, GradesInv, Entry
    <3>5. EffMax(w, Msg(w)) = Limit
      BY <3>1, LimitOfWorker DEF AttemptsInv
    <3> QED
      BY <1>0, <3>1, <3>2, <3>4, <3>5
  <2>3. ASSUME NEW u \in Workers, WorkerStep(u), ~ SendFails(w)
        PROVE  wpc[w] \in {"deadLetter", "markFailed"} /\ cur'[w] = cur[w]
    BY <1>1, <2>3 DEF WorkerStep, RunLoop, Process, StopWorker, BeginRead, ReadEntry,
       ReadNothing, ReadFails, SendOk, SendFails, MarkDelivered, DeadLetter, MarkFailed,
       Ack, AckRetry, Requeue, Goto, TypeOK, WorkerType
  <2>4. ASSUME NEW c \in Containers, Lifecycle(c)
        PROVE  wpc[w] \in {"deadLetter", "markFailed"} /\ cur'[w] = cur[w]
    BY <1>1, <2>4 DEF Lifecycle, Sigterm, Exit, Crash, Restart, workerVars, TypeOK,
       WorkerType
  <2>5. ASSUME \/ \E k \in Jobs : Submission(k)
               \/ \E a \in Admins : Replay(a)
               \/ ForeignAdd
               \/ UNCHANGED vars
        PROVE  wpc[w] \in {"deadLetter", "markFailed"} /\ cur'[w] = cur[w]
    BY <1>1, <2>5 DEF Submission, CreateRow, AddJob, CutSubmit, Replay, ReplayRead,
       ReplayAdd, ReplayDelete, CutReplay, ForeignAdd, workerVars, vars
  <2> QED
    BY <2>1, <2>2, <2>3, <2>4, <2>5 DEF Next
<1>2. cursor \in Nat /\ cursor' \in Nat /\ cursor <= cursor'
  BY StepGrows, NextTypeOK DEF Grown, TypeOK, StreamType
<1>3. ASSUME NEW d \in DlqIds'
      PROVE  /\ dlq'[d].max = Limit /\ dlq'[d].retry = Limit
             /\ \E i \in Ids : i <= cursor /\ stream[i].job = dlq'[d].job
                                  /\ stream[i].retry = Limit
  <2>1. CASE d \in DlqIds
    <3>1. dlq'[d] = dlq[d]
      BY <2>1, StepGrows DEF Grown
    <3> QED
      BY <2>1, <3>1 DEF AttemptsInv, ExhaustedInv
  <2>2. CASE d \notin DlqIds
    <3>1. PICK w \in Workers : DeadLetter(w) /\ dlq'[d] = Msg(w)
      BY <2>2, WhoParks DEF DlqIds
    <3>2. wpc[w] = "deadLetter" /\ wpc[w] \in Live
      BY <3>1 DEF DeadLetter, Live, AtWork
    <3>3. /\ cur[w] \in Ids /\ cur[w] <= cursor /\ stream[cur[w]] = Msg(w)
          /\ Msg(w).job \in Jobs
      BY <3>2, LiveTypes DEF Msg
    <3>4. Msg(w).retry = Limit /\ Msg(w).max = Limit
      BY <3>2, <3>3 DEF AttemptsInv, ExhaustedInv, GradesInv
    <3> QED
      BY <3>1, <3>3, <3>4
  <2> QED
    BY <2>1, <2>2
<1>4. ASSUME NEW i \in Ids, i <= cursor
      PROVE  i \in Ids' /\ stream'[i] = stream[i] /\ i <= cursor'
  BY <1>2, <1>4, OldEntries
<1> QED
  BY <1>0, <1>1, <1>3, <1>4 DEF ExhaustedInv

LEMMA NextFresh ==
    ASSUME TypeOK, EqualRetries, HoldersInv, AttemptsInv, [Next]_vars, "resend" \notin Faults
    PROVE  FreshInv'
<1>1. ASSUME NEW j \in Jobs, api'[j] \in {"idle", "created"}, NEW i \in Ids'
      PROVE  stream'[i].job # j
  <2>1. api[j] \in {"idle", "created"}
    BY <1>1, Backwards
  <2>2. CASE i \in Ids
    BY <2>1, <2>2, OldEntries DEF AttemptsInv, FreshInv
  <2>3. CASE i \notin Ids
    BY <1>1, <2>3, AddedAttempt
  <2> QED
    BY <2>2, <2>3
<1>2. ASSUME NEW j \in Jobs, api'[j] = "idle" PROVE status'[j] = "none"
  <2>1. api[j] = "idle" /\ status[j] = "none"
    BY <1>2, Backwards DEF AttemptsInv, FreshInv
  <2>2. ASSUME CreateRow(j) PROVE FALSE
    BY <1>2, <2>2 DEF CreateRow, TypeOK, RowType
  <2>3. ASSUME NEW w \in Workers, MarkDelivered(w) \/ MarkFailed(w), Msg(w).job = j
        PROVE  FALSE
    <3>1. wpc[w] \in Live
      BY <2>3 DEF MarkDelivered, MarkFailed, Live, AtWork
    <3>2. cur[w] \in Ids /\ stream[cur[w]].job = j
      BY <2>3, <3>1, LiveTypes DEF Msg
    <3> QED
      BY <2>1, <3>2 DEF AttemptsInv, FreshInv
  <2> QED
    BY <2>1, <2>2, <2>3, WhoWrites
<1> QED
  BY <1>1, <1>2 DEF FreshInv

LEMMA InitAttempts == Init => AttemptsInv
<1> SUFFICES ASSUME Init PROVE AttemptsInv
  OBVIOUS
<1>1. Ids = {} /\ DlqIds = {}
  BY DEF Init, Ids, DlqIds
<1>2. \A w \in Workers : wpc[w] = "top"
  BY DEF Init
<1>3. \A j \in Jobs : status[j] = "none"
  BY DEF Init
<1> QED
  BY <1>1, <1>2, <1>3 DEF AttemptsInv, GradesInv, ExhaustedInv, FreshInv

LEMMA NextAttempts ==
    ASSUME EqualRetries, "resend" \notin Faults
    PROVE  TypeOK /\ HoldersInv /\ AttemptsInv /\ [Next]_vars => AttemptsInv'
  BY NextGrades, NextExhausted, NextFresh DEF AttemptsInv

-----------------------------------------------------------------------------
(* Counting the attempts.                                                  *)

Entries(j) == {i \in Ids : stream[i].job = j}
Last(j) == {i \in Entries(j) : stream[i].retry = Limit}
Handed(j) == {i \in 1 .. cursor : stream[i].job = j}

\* There is one last attempt, and one more for each replay.
LastInv ==
    \A j \in Jobs : /\ IsFiniteSet(Adding(j))
                    /\ Cardinality(Last(j)) + Cardinality(Adding(j)) <= 1 + replays[j]

LEMMA FiniteEntries ==
    ASSUME TypeOK, NEW j
    PROVE  /\ IsFiniteSet(Entries(j)) /\ IsFiniteSet(Last(j)) /\ IsFiniteSet(Handed(j))
           /\ Cardinality(Entries(j)) \in Nat /\ Cardinality(Last(j)) \in Nat
           /\ Cardinality(Handed(j)) \in Nat
           /\ Handed(j) \subseteq Entries(j)
<1>1. Len(stream) \in Nat /\ cursor \in 0 .. Len(stream)
  BY DEF TypeOK, StreamType
<1>2. IsFiniteSet(Ids)
  BY <1>1, FS_Interval DEF Ids
<1>3. Entries(j) \subseteq Ids /\ Last(j) \subseteq Ids /\ Handed(j) \subseteq Entries(j)
  BY <1>1 DEF Entries, Last, Handed, Ids
<1>4. IsFiniteSet(Entries(j)) /\ IsFiniteSet(Last(j))
  BY <1>2, <1>3, FS_Subset
<1>5. IsFiniteSet(Handed(j))
  BY <1>3, <1>4, FS_Subset
<1> QED
  BY <1>3, <1>4, <1>5, FS_CardinalityType

\* An exhausted job has its last attempt on the stream.
LEMMA NobodyAddsEarly ==
    ASSUME TypeOK, ExhaustedInv, NEW j \in Jobs, Last(j) = {}
    PROVE  Adding(j) = {}
<1> SUFFICES ASSUME NEW a \in Adding(j) PROVE FALSE
  OBVIOUS
<1>1. hold[a] \in DlqIds /\ Held(a).job = j
  BY HeldTypes DEF Adding
<1>2. \E i \in Ids : stream[i].job = j /\ stream[i].retry = Limit
  BY <1>1 DEF ExhaustedInv, Held
<1> QED
  BY <1>2 DEF Last, Entries

\* A retry is added, and a job queued, before the last attempt is on the stream.
LEMMA FirstLast ==
    ASSUME TypeOK, EqualRetries, HoldersInv, AttemptsInv,
           NEW j \in Jobs, AddJob(j) \/ \E w \in Workers : Requeue(w) /\ Msg(w).job = j
    PROVE  Last(j) = {}
<1>0. Limit \in Nat
  BY LimitOfAll
<1>1. CASE AddJob(j)
  BY <1>1 DEF AddJob, AttemptsInv, FreshInv, Last, Entries
<1>2. ASSUME NEW w \in Workers, Requeue(w), Msg(w).job = j, NEW k \in Last(j) PROVE FALSE
  <2>1. wpc[w] = "requeue" /\ wpc[w] \in Live
    BY <1>2 DEF Requeue, Live, AtWork
  <2>2. /\ cur[w] \in Ids /\ stream[cur[w]] = Msg(w) /\ Active(cur[w]) /\ Msg(w) \in Entry
        /\ cur[w] \in Nat
    BY <2>1, LiveTypes DEF Msg, Active
  <2>3. EffMax(w, Msg(w)) = Limit
    BY <2>1, LimitOfWorker DEF AttemptsInv
  <2>4. Msg(w).retry < Limit /\ Msg(w).retry \in Nat
    BY <2>1, <2>2, <2>3 DEF HoldersInv, Entry
  <2>5. k \in Ids /\ k \in Nat /\ stream[k].job = j /\ stream[k].retry = Limit
    BY LiveTypes DEF Last, Entries
  <2>6. k <= cur[w]
    BY <1>2, <2>2, <2>4, <2>5 DEF AttemptsInv, GradesInv
  <2>7. k # cur[w]
    BY <1>0, <2>2, <2>4, <2>5
  <2>8. k < cur[w]
    BY <2>2, <2>5, <2>6, <2>7
  <2>9. Limit < Msg(w).retry \/ Msg(w).retry = Limit
    BY <1>2, <2>2, <2>5, <2>8 DEF AttemptsInv, GradesInv
  <2> QED
    BY <1>0, <2>4, <2>9
<1> QED
  BY <1>1, <1>2

LEMMA NextLast ==
    ASSUME TypeOK, EqualRetries, HoldersInv, AttemptsInv, LastInv, [Next]_vars,
           "resend" \notin Faults
    PROVE  LastInv'
<1> SUFFICES ASSUME NEW j \in Jobs
             PROVE  /\ IsFiniteSet(Adding(j)')
                    /\ Cardinality(Last(j)') + Cardinality(Adding(j)') <= 1 + replays'[j]
  BY DEF LastInv
<1>0. Limit' = Limit
  BY DEF Limit
<1>1. /\ IsFiniteSet(Adding(j)) /\ Cardinality(Adding(j)) \in Nat
      /\ IsFiniteSet(Last(j)) /\ Cardinality(Last(j)) \in Nat
      /\ Cardinality(Last(j)) + Cardinality(Adding(j)) <= 1 + replays[j]
      /\ replays[j] \in Nat /\ replays'[j] \in Nat
  BY FiniteEntries, FS_CardinalityType, NextTypeOK DEF LastInv, TypeOK, ReplayType
<1>2. ASSUME NEW n, Ids' \subseteq Ids \cup {n} PROVE Last(j)' \subseteq Last(j) \cup {n}
  BY <1>0, <1>2, OldEntries DEF Last, Entries
<1>3. CASE Ids' = Ids
  <2>1. Last(j)' = Last(j)
    BY <1>0, <1>3, OldEntries DEF Last, Entries
  <2>2. CASE Adding(j)' \subseteq Adding(j) /\ replays'[j] = replays[j]
    <3>1. /\ IsFiniteSet(Adding(j)') /\ Cardinality(Adding(j)') \in Nat
          /\ Cardinality(Adding(j)') <= Cardinality(Adding(j))
      BY <1>1, <2>2, FS_Subset, FS_CardinalityType
    <3> QED
      BY <1>1, <2>1, <2>2, <3>1
  <2>3. ASSUME NEW a, a \notin Adding(j), Adding(j)' \subseteq Adding(j) \cup {a},
               replays'[j] = replays[j] + 1
        PROVE  /\ IsFiniteSet(Adding(j)')
               /\ Cardinality(Last(j)') + Cardinality(Adding(j)') <= 1 + replays'[j]
    <3>1. /\ IsFiniteSet(Adding(j) \cup {a})
          /\ Cardinality(Adding(j) \cup {a}) = Cardinality(Adding(j)) + 1
      BY <1>1, <2>3, FS_AddElement
    <3>2. /\ IsFiniteSet(Adding(j)') /\ Cardinality(Adding(j)') \in Nat
          /\ Cardinality(Adding(j)') <= Cardinality(Adding(j) \cup {a})
      BY <2>3, <3>1, FS_Subset, FS_CardinalityType
    <3> QED
      BY <1>1, <2>1, <2>3, <3>1, <3>2
  <2> QED
    BY <2>2, <2>3, WhoAsks
<1>4. ASSUME NEW e, AddsOne(e), e.job # j, replays' = replays
      PROVE  /\ IsFiniteSet(Adding(j)')
             /\ Cardinality(Last(j)') + Cardinality(Adding(j)') <= 1 + replays'[j]
  <2>1. Last(j)' = Last(j)
    BY <1>0, <1>4, OldEntries DEF AddsOne, Last, Entries
  <2>2. Adding(j)' \subseteq Adding(j) /\ replays'[j] = replays[j]
    BY <1>1, <1>4, WhoAsks
  <2>3. /\ IsFiniteSet(Adding(j)') /\ Cardinality(Adding(j)') \in Nat
        /\ Cardinality(Adding(j)') <= Cardinality(Adding(j))
    BY <1>1, <2>2, FS_Subset, FS_CardinalityType
  <2> QED
    BY <1>1, <2>1, <2>2, <2>3
<1>5. ASSUME NEW e, AddsOne(e), Last(j) = {}, replays' = replays
      PROVE  /\ IsFiniteSet(Adding(j)')
             /\ Cardinality(Last(j)') + Cardinality(Adding(j)') <= 1 + replays'[j]
  <2> DEFINE n == Len(stream) + 1
  <2>1. Ids' \subseteq Ids \cup {n}
    BY <1>5 DEF AddsOne
  <2>2. Last(j)' \subseteq {n}
    BY <1>2, <1>5, <2>1
  <2>3. IsFiniteSet({n}) /\ Cardinality({n}) = 1
    BY FS_Singleton
  <2>4. Cardinality(Last(j)') <= 1 /\ Cardinality(Last(j)') \in Nat
    BY <2>2, <2>3, FS_Subset, FS_CardinalityType
  <2>5. Adding(j)' = {}
    <3>1. Adding(j)' \subseteq Adding(j)
      BY <1>1, <1>5, WhoAsks
    <3> QED
      BY <1>5, <3>1, NobodyAddsEarly DEF AttemptsInv
  <2>6. IsFiniteSet(Adding(j)') /\ Cardinality(Adding(j)') = 0
    BY <2>5, FS_EmptySet
  <2> QED
    BY <1>1, <2>4, <2>6
<1>6. ASSUME NEW a \in Admins, ReplayAdd(a), AddsOne(Held(a)), Held(a).job = j
      PROVE  /\ IsFiniteSet(Adding(j)')
             /\ Cardinality(Last(j)') + Cardinality(Adding(j)') <= 1 + replays'[j]
  <2> DEFINE n == Len(stream) + 1
  <2>1. Ids' \subseteq Ids \cup {n}
    BY <1>6 DEF AddsOne
  <2>2. Last(j)' \subseteq Last(j) \cup {n}
    BY <1>2, <2>1
  <2>3. /\ IsFiniteSet(Last(j) \cup {n})
        /\ Cardinality(Last(j) \cup {n}) <= Cardinality(Last(j)) + 1
        /\ Cardinality(Last(j) \cup {n}) \in Nat
    <3>1. /\ IsFiniteSet(Last(j) \cup {n})
          /\ \/ Cardinality(Last(j) \cup {n}) = Cardinality(Last(j))
             \/ Cardinality(Last(j) \cup {n}) = Cardinality(Last(j)) + 1
      BY <1>1, FS_AddElement
    <3> QED
      BY <1>1, <3>1
  <2>4. /\ Cardinality(Last(j)') <= Cardinality(Last(j) \cup {n})
        /\ Cardinality(Last(j)') \in Nat
    BY <2>2, <2>3, FS_Subset, FS_CardinalityType
  <2>5. a \in Adding(j) /\ apc'[a] # "add" /\ replays' = replays
    BY <1>6 DEF ReplayAdd, Adding, history, TypeOK, ReplayType
  <2>6. Adding(j)' \subseteq Adding(j) \ {a}
    BY <1>1, <2>5, WhoAsks DEF Adding
  <2>7. /\ IsFiniteSet(Adding(j) \ {a})
        /\ Cardinality(Adding(j) \ {a}) = Cardinality(Adding(j)) - 1
    BY <1>1, <2>5, FS_RemoveElement
  <2>8. /\ IsFiniteSet(Adding(j)') /\ Cardinality(Adding(j)') \in Nat
        /\ Cardinality(Adding(j)') <= Cardinality(Adding(j) \ {a})
    BY <2>6, <2>7, FS_Subset, FS_CardinalityType
  <2> QED
    BY <1>1, <2>3, <2>4, <2>5, <2>7, <2>8
<1>7. ASSUME NEW k \in Jobs, AddJob(k), AddsOne(NewEntry(k))
      PROVE  /\ IsFiniteSet(Adding(j)')
             /\ Cardinality(Last(j)') + Cardinality(Adding(j)') <= 1 + replays'[j]
  <2>1. replays' = replays /\ NewEntry(k).job = k
    BY <1>7 DEF AddJob, history, NewEntry
  <2>2. CASE k # j
    BY <1>4, <1>7, <2>1, <2>2
  <2>3. CASE k = j
    BY <1>5, <1>7, <2>1, <2>3, FirstLast
  <2> QED
    BY <2>2, <2>3
<1>8. ASSUME NEW w \in Workers, Requeue(w), AddsOne(Retried(w))
      PROVE  /\ IsFiniteSet(Adding(j)')
             /\ Cardinality(Last(j)') + Cardinality(Adding(j)') <= 1 + replays'[j]
  <2>1. replays' = replays /\ Retried(w).job = Msg(w).job
    BY <1>8 DEF Requeue, Retried
  <2>2. CASE Msg(w).job # j
    BY <1>4, <1>8, <2>1, <2>2
  <2>3. CASE Msg(w).job = j
    BY <1>5, <1>8, <2>1, <2>3, FirstLast
  <2> QED
    BY <2>2, <2>3
<1>9. ASSUME NEW a \in Admins, ReplayAdd(a), AddsOne(Held(a)), Held(a).job # j
      PROVE  /\ IsFiniteSet(Adding(j)')
             /\ Cardinality(Last(j)') + Cardinality(Adding(j)') <= 1 + replays'[j]
  <2>1. replays' = replays
    BY <1>9 DEF ReplayAdd, history
  <2> QED
    BY <1>4, <1>9, <2>1
<1>10. ASSUME AddsOne(Malformed), Ids' # Ids
       PROVE  /\ IsFiniteSet(Adding(j)')
              /\ Cardinality(Last(j)') + Cardinality(Adding(j)') <= 1 + replays'[j]
  <2>1. Malformed.job # j
    BY DEF Malformed
  <2>2. ASSUME NEW a \in Admins, ReplayRead(a) PROVE FALSE
    BY <1>10, <2>2 DEF ReplayRead, redisVars, Ids
  <2>3. Last(j)' = Last(j)
    BY <1>0, <1>10, <2>1, OldEntries DEF AddsOne, Last, Entries
  <2>4. Adding(j)' \subseteq Adding(j) /\ replays'[j] = replays[j]
    BY <2>2, WhoAsks
  <2>5. /\ IsFiniteSet(Adding(j)') /\ Cardinality(Adding(j)') \in Nat
        /\ Cardinality(Adding(j)') <= Cardinality(Adding(j))
    BY <1>1, <2>4, FS_Subset, FS_CardinalityType
  <2> QED
    BY <1>1, <2>3, <2>4, <2>5
<1> QED
  BY <1>3, <1>6, <1>7, <1>8, <1>9, <1>10, WhoAdds

\* The attempts of a job are numbered 0 to Limit.
LEMMA RetryRange ==
    ASSUME TypeOK, EqualRetries, GradesInv, NEW j \in Jobs, NEW i \in Entries(j)
    PROVE  i \in Ids /\ stream[i].job = j /\ stream[i].retry \in 0 .. Limit
<1>1. i \in Ids /\ stream[i].job = j /\ stream[i] \in Entry
  BY LiveTypes DEF Entries
<1>2. stream[i].retry <= Limit
  BY <1>1 DEF GradesInv
<1> QED
  BY <1>1, <1>2, LimitOfAll DEF Entry

\* A job has no more entries than the service may try it.
LEMMA EntriesBounded ==
    ASSUME TypeOK, EqualRetries, GradesInv, LastInv, NEW j \in Jobs
    PROVE  Cardinality(Entries(j)) <= Limit + 1 + replays[j]
<1> DEFINE Early == Entries(j) \ Last(j)
           f == [i \in Early |-> stream[i].retry]
           T == 0 .. Limit - 1
<1>0. Limit \in Nat /\ replays[j] \in Nat
  BY LimitOfAll DEF TypeOK, ReplayType
<1>1. ASSUME NEW i \in Early
      PROVE  i \in Ids /\ i \in Nat /\ stream[i].job = j /\ stream[i].retry \in T
  <2>1. i \in Ids /\ i \in Nat /\ stream[i].job = j /\ stream[i].retry \in 0 .. Limit
    BY RetryRange, LiveTypes
  <2>2. stream[i].retry # Limit
    BY DEF Last
  <2> QED
    BY <1>0, <2>1, <2>2
<1>2. f \in Injection(Early, T)
  <2>1. f \in [Early -> T]
    BY <1>1
  <2>2. ASSUME NEW i \in Early, NEW k \in Early, i < k PROVE f[i] # f[k]
    <3>1. /\ stream[i].retry \in T /\ stream[k].retry \in T
          /\ i \in Ids /\ k \in Ids /\ stream[i].job = j /\ stream[k].job = j
      BY <1>1
    <3>2. stream[i].retry < stream[k].retry \/ stream[i].retry = Limit
      BY <2>2, <3>1 DEF GradesInv
    <3>3. f[i] = stream[i].retry /\ f[k] = stream[k].retry
      OBVIOUS
    <3> HIDE DEF f, Early
    <3> QED
      BY <1>0, <3>1, <3>2, <3>3
  <2>3. ASSUME NEW i \in Early, NEW k \in Early, i # k PROVE i < k \/ k < i
    BY <1>1, <2>3
  <2> HIDE DEF f, Early
  <2>4. \A i, k \in Early : f[i] = f[k] => i = k
    BY <2>2, <2>3
  <2> QED
    BY <2>1, <2>4 DEF Injection, IsInjective
<1>3. IsFiniteSet(T) /\ Cardinality(T) = Limit
  <2>1. 0 \in Int /\ Limit - 1 \in Int
    BY <1>0
  <2>2. /\ IsFiniteSet(T)
        /\ Cardinality(T) = IF 0 > Limit - 1 THEN 0 ELSE Limit - 1 - 0 + 1
    BY <2>1, FS_Interval
  <2> QED
    BY <1>0, <2>2
<1> HIDE DEF f, T
<1>4. IsFiniteSet(Early) /\ Cardinality(Early) <= Limit /\ Cardinality(Early) \in Nat
  BY <1>2, <1>3, FS_Injection, FS_CardinalityType
<1>5. IsFiniteSet(Last(j)) /\ Cardinality(Last(j)) <= 1 + replays[j] /\ Cardinality(Last(j)) \in Nat
  <2>1. IsFiniteSet(Last(j)) /\ Cardinality(Last(j)) \in Nat
    BY FiniteEntries
  <2>2. IsFiniteSet(Adding(j)) /\ Cardinality(Adding(j)) \in Nat
    BY FS_CardinalityType DEF LastInv
  <2> QED
    BY <1>0, <2>1, <2>2 DEF LastInv
<1>6. Early \cap Last(j) = {} /\ Entries(j) = Early \cup Last(j)
  BY DEF Last
<1>7. Cardinality(Early \cap Last(j)) = 0
  BY <1>6, FS_EmptySet
<1>8. Cardinality(Entries(j)) = Cardinality(Early) + Cardinality(Last(j)) - Cardinality(Early \cap Last(j))
  BY <1>4, <1>5, <1>6, FS_Union
<1> HIDE DEF Early
<1> QED
  BY <1>0, <1>4, <1>5, <1>7, <1>8

\* So the next entry to be handed out is one that may still be tried.
LEMMA TryAllowed ==
    ASSUME TypeOK, EqualRetries, GradesInv, LastInv, NEW j \in Jobs,
           cursor + 1 \in Ids, stream[cursor + 1].job = j
    PROVE  Cardinality(Handed(j)) < Limit + 1 + replays[j]
<1> DEFINE n == cursor + 1
<1>0. Limit \in Nat /\ replays[j] \in Nat /\ cursor \in Nat
  BY LimitOfAll DEF TypeOK, ReplayType, StreamType
<1>1. n \notin Handed(j) /\ n \in Entries(j)
  BY <1>0 DEF Handed, Entries
<1>2. Handed(j) \subseteq Entries(j) \ {n}
  BY <1>1, FiniteEntries
<1>3. /\ IsFiniteSet(Entries(j) \ {n})
      /\ Cardinality(Entries(j) \ {n}) = Cardinality(Entries(j)) - 1
  BY <1>1, FS_RemoveElement, FiniteEntries
<1>4. Cardinality(Handed(j)) <= Cardinality(Entries(j) \ {n})
  BY <1>2, <1>3, FS_Subset
<1>5. Cardinality(Entries(j)) <= Limit + 1 + replays[j]
  BY EntriesBounded
<1>6. Cardinality(Entries(j)) \in Nat /\ Cardinality(Handed(j)) \in Nat
  BY FiniteEntries
<1> QED
  BY <1>0, <1>3, <1>4, <1>5, <1>6

\* Where an exhausted entry was handed out, all attempts were.
LEMMA AllTried ==
    ASSUME TypeOK, EqualRetries, GradesInv, NEW i \in Ids, i <= cursor,
           stream[i].job \in Jobs, stream[i].retry = Limit
    PROVE  Cardinality(Handed(stream[i].job)) > Limit
<1> DEFINE j == stream[i].job
           g == [r \in 0 .. Limit |->
                    CHOOSE k \in Ids : k <= i /\ stream[k].job = j /\ stream[k].retry = r]
<1>0. Limit \in Nat /\ cursor \in Nat /\ Len(stream) \in Nat
  BY LimitOfAll, LiveTypes
<1>1. ASSUME NEW r \in 0 .. Limit PROVE g[r] \in Handed(j) /\ stream[g[r]].retry = r
  <2>1. \E k \in Ids : k <= i /\ stream[k].job = j /\ stream[k].retry = r
    BY DEF GradesInv
  <2>2. g[r] \in Ids /\ g[r] <= i /\ stream[g[r]].job = j /\ stream[g[r]].retry = r
    BY <2>1
  <2> HIDE DEF g
  <2> QED
    BY <1>0, <2>2 DEF Handed, Ids
<1>2. g \in Injection(0 .. Limit, Handed(j))
  <2> HIDE DEF j
  <2>1. g \in [0 .. Limit -> Handed(j)]
    BY <1>1
  <2> HIDE DEF g
  <2> QED
    BY <1>1, <2>1 DEF Injection, IsInjective
<1>3. IsFiniteSet(Handed(j)) /\ Cardinality(Handed(j)) \in Nat
  BY FiniteEntries
<1>4. Cardinality(0 .. Limit) = Limit + 1
  BY <1>0, FS_Interval
<1>5. Cardinality(0 .. Limit) <= Cardinality(Handed(j))
  BY <1>2, <1>3, FS_Injection
<1> QED
  BY <1>0, <1>3, <1>4, <1>5

-----------------------------------------------------------------------------
(* Counting the mails.                                                     *)

\* The entries being sent: their mails are not counted yet.
Sending(j) == {i \in Handed(j) : \E w \in Workers : cur[w] = i /\ wpc[w] = "sending"}

\* A handed-out entry leads to one mail at most.
MailsInv ==
    \A j \in Jobs : mails[j] + Cardinality(Sending(j)) <= Cardinality(Handed(j))

LEMMA FiniteSending ==
    ASSUME TypeOK, NEW j
    PROVE  IsFiniteSet(Sending(j)) /\ Cardinality(Sending(j)) \in Nat
<1>1. Sending(j) \subseteq Handed(j)
  BY DEF Sending
<1> QED
  BY <1>1, FiniteEntries, FS_Subset, FS_CardinalityType

\* Who hands an entry out: a read that is answered, or one whose answer is lost.
LEMMA WhoHandsOut ==
    ASSUME TypeOK, [Next]_vars
    PROVE  \/ cursor' = cursor
           \/ \E w \in Workers :
                 /\ ReadEntry(w) \/ ReadFails(w)
                 /\ cursor' = cursor + 1 /\ cursor + 1 \in Ids /\ cursor + 1 \notin 1 .. cursor
<1>1. ASSUME NEW w \in Workers, ReadEntry(w) \/ ReadFails(w), cursor' # cursor
      PROVE  cursor' = cursor + 1 /\ cursor + 1 \in Ids /\ cursor + 1 \notin 1 .. cursor
  BY <1>1 DEF ReadEntry, ReadFails, Ids, TypeOK, StreamType
<1>2. ASSUME NEW w \in Workers, WorkerStep(w), ~ ReadEntry(w), ~ ReadFails(w)
      PROVE  cursor' = cursor
  BY <1>2 DEF WorkerStep, RunLoop, Process, StopWorker, BeginRead, ReadNothing, SendOk,
     SendFails, MarkDelivered, DeadLetter, MarkFailed, Ack, AckRetry, Requeue, redisVars
<1>3. ASSUME NEW c \in Containers, Lifecycle(c) PROVE cursor' = cursor
  BY <1>3 DEF Lifecycle, Sigterm, Exit, Crash, Restart, redisVars
<1>4. ASSUME \/ \E k \in Jobs : Submission(k)
             \/ \E a \in Admins : Replay(a)
             \/ ForeignAdd
             \/ UNCHANGED vars
      PROVE  cursor' = cursor
  BY <1>4 DEF Submission, CreateRow, AddJob, CutSubmit, Replay, ReplayRead, ReplayAdd,
     ReplayDelete, CutReplay, ForeignAdd, redisVars, vars
<1> QED
  BY <1>1, <1>2, <1>3, <1>4 DEF Next

\* Who may get a mail accepted: the worker that sends it, and then it is done.
LEMMA WhoSends ==
    ASSUME TypeOK, [Next]_vars, NEW j \in Jobs
    PROVE  \/ mails'[j] = mails[j]
           \/ \E w \in Workers :
                 /\ SendOk(w) \/ SendFails(w)
                 /\ wpc[w] = "sending" /\ Msg(w).job = j
                 /\ wpc'[w] # "sending" /\ cur' = cur /\ UNCHANGED redisVars
                 /\ mails' = [mails EXCEPT ![j] = @ + 1]
<1>1. ASSUME NEW w \in Workers, SendOk(w) \/ SendFails(w), mails'[j] # mails[j]
      PROVE  /\ wpc[w] = "sending" /\ Msg(w).job = j
             /\ wpc'[w] # "sending" /\ cur' = cur /\ UNCHANGED redisVars
             /\ mails' = [mails EXCEPT ![j] = @ + 1]
  <2>1. \/ mails' = mails
        \/ mails' = [mails EXCEPT ![Msg(w).job] = @ + 1]
    BY <1>1 DEF SendOk, SendFails
  <2>2. Msg(w).job = j /\ mails' = [mails EXCEPT ![j] = @ + 1]
    BY <1>1, <2>1 DEF TypeOK, RowType
  <2>3. wpc[w] = "sending" /\ wpc'[w] # "sending" /\ cur' = cur /\ UNCHANGED redisVars
    BY <1>1 DEF SendOk, SendFails, Goto, TypeOK, WorkerType
  <2> QED
    BY <2>2, <2>3
<1>2. ASSUME NEW w \in Workers, WorkerStep(w), ~ SendOk(w), ~ SendFails(w)
      PROVE  mails' = mails
  BY <1>2 DEF WorkerStep, RunLoop, Process, StopWorker, BeginRead, ReadEntry, ReadNothing,
     ReadFails, MarkDelivered, DeadLetter, MarkFailed, Ack, AckRetry, Requeue, history
<1>3. ASSUME NEW c \in Containers, Lifecycle(c) PROVE mails' = mails
  BY <1>3 DEF Lifecycle, Sigterm, Exit, Crash, Restart, history
<1>4. ASSUME \/ \E k \in Jobs : Submission(k)
             \/ \E a \in Admins : Replay(a)
             \/ ForeignAdd
             \/ UNCHANGED vars
      PROVE  mails' = mails
  BY <1>4 DEF Submission, CreateRow, AddJob, CutSubmit, Replay, ReplayRead, ReplayAdd,
     ReplayDelete, CutReplay, ForeignAdd, history, vars
<1> QED
  BY <1>1, <1>2, <1>3, <1>4 DEF Next

\* Only a read starts the sending of an entry.
LEMMA SenderSent ==
    ASSUME TypeOK, [Next]_vars, NEW i \in Ids, i <= cursor,
           NEW v \in Workers, cur'[v] = i, wpc'[v] = "sending"
    PROVE  cur[v] = i /\ wpc[v] = "sending"
<1>1. cursor \in Nat /\ i \in Nat /\ i # 0
  BY LiveTypes
<1>2. cur[v] = i
  BY HolderHeld DEF Live, AtWork
<1>3. ASSUME NEW w \in Workers, WorkerStep(w) PROVE wpc[v] = "sending"
  BY <1>1, <1>3 DEF WorkerStep, RunLoop, Process, StopWorker, BeginRead, ReadEntry,
     ReadNothing, ReadFails, SendOk, SendFails, MarkDelivered, DeadLetter, MarkFailed, Ack,
     AckRetry, Requeue, Goto, TypeOK, WorkerType
<1>4. ASSUME NEW c \in Containers, Lifecycle(c) PROVE wpc[v] = "sending"
  BY <1>4 DEF Lifecycle, Sigterm, Exit, Crash, Restart, workerVars, TypeOK, WorkerType
<1>5. ASSUME \/ \E k \in Jobs : Submission(k)
             \/ \E a \in Admins : Replay(a)
             \/ ForeignAdd
             \/ UNCHANGED vars
      PROVE  wpc[v] = "sending"
  BY <1>5 DEF Submission, CreateRow, AddJob, CutSubmit, Replay, ReplayRead, ReplayAdd,
     ReplayDelete, CutReplay, ForeignAdd, workerVars, vars
<1> QED
  BY <1>2, <1>3, <1>4, <1>5 DEF Next

\* How a step changes what was handed out of a job.
LEMMA HandedChange ==
    ASSUME TypeOK, [Next]_vars, NEW j
    PROVE  /\ cursor' = cursor => Handed(j)' = Handed(j)
           /\ \A n : /\ n = cursor + 1 /\ n \in Ids /\ n \notin 1 .. cursor /\ cursor' = n
                     => /\ stream[n].job # j => Handed(j)' = Handed(j)
                        /\ stream[n].job = j => /\ Handed(j)' = Handed(j) \cup {n}
                                                /\ n \notin Handed(j)
<1>1. cursor \in Nat /\ Len(stream) \in Nat /\ cursor <= Len(stream)
  BY DEF TypeOK, StreamType
<1>2. \A i \in 1 .. cursor : i \in Ids /\ stream'[i] = stream[i]
  BY <1>1, OldEntries DEF Ids
<1>3. ASSUME cursor' = cursor PROVE Handed(j)' = Handed(j)
  BY <1>2, <1>3 DEF Handed
<1>4. ASSUME NEW n, n = cursor + 1, n \in Ids, n \notin 1 .. cursor, cursor' = n
      PROVE  /\ stream[n].job # j => Handed(j)' = Handed(j)
             /\ stream[n].job = j => Handed(j)' = Handed(j) \cup {n} /\ n \notin Handed(j)
  <2>1. 1 .. cursor' = (1 .. cursor) \cup {n}
    BY <1>1, <1>4
  <2>2. stream'[n] = stream[n]
    BY <1>4, OldEntries
  <2> QED
    BY <1>2, <1>4, <2>1, <2>2 DEF Handed
<1> QED
  BY <1>3, <1>4

LEMMA NextMails ==
    ASSUME TypeOK, HoldersInv, MailsInv, [Next]_vars
    PROVE  MailsInv'
<1> SUFFICES ASSUME NEW j \in Jobs
             PROVE  mails'[j] + Cardinality(Sending(j)') <= Cardinality(Handed(j)')
  BY DEF MailsInv
<1>1. /\ IsFiniteSet(Sending(j)) /\ Cardinality(Sending(j)) \in Nat
      /\ IsFiniteSet(Handed(j)) /\ Cardinality(Handed(j)) \in Nat
      /\ mails[j] \in Nat /\ mails[j] + Cardinality(Sending(j)) <= Cardinality(Handed(j))
  BY FiniteSending, FiniteEntries DEF MailsInv, TypeOK, RowType
<1>2. ASSUME NEW i \in Sending(j)', i \in 1 .. cursor PROVE i \in Sending(j)
  <2>1. i \in Ids /\ i <= cursor /\ stream'[i].job = j
    BY <1>2 DEF Sending, Handed, Ids, TypeOK, StreamType
  <2>2. PICK v \in Workers : cur'[v] = i /\ wpc'[v] = "sending"
    BY <1>2 DEF Sending
  <2>3. cur[v] = i /\ wpc[v] = "sending"
    BY <2>1, <2>2, SenderSent
  <2>4. stream[i].job = j
    BY <2>1, OldEntries
  <2> QED
    BY <1>2, <2>3, <2>4 DEF Sending, Handed
<1>3. CASE cursor' = cursor /\ mails'[j] = mails[j]
  <2>1. Handed(j)' = Handed(j)
    BY <1>3, HandedChange
  <2>2. Sending(j)' \subseteq Sending(j)
    BY <1>2, <2>1 DEF Sending, Handed
  <2>3. Cardinality(Sending(j)') <= Cardinality(Sending(j)) /\ Cardinality(Sending(j)') \in Nat
    BY <1>1, <2>2, FS_Subset, FS_CardinalityType
  <2> QED
    BY <1>1, <1>3, <2>1, <2>3
<1>4. ASSUME NEW n, n = cursor + 1, n \in Ids, n \notin 1 .. cursor, cursor' = n,
             mails'[j] = mails[j]
      PROVE  mails'[j] + Cardinality(Sending(j)') <= Cardinality(Handed(j)')
  <2>1. CASE stream[n].job # j
    <3>1. Handed(j)' = Handed(j)
      BY <1>4, <2>1, HandedChange
    <3>2. Sending(j)' \subseteq Sending(j)
      BY <1>2, <3>1 DEF Sending, Handed
    <3>3. Cardinality(Sending(j)') <= Cardinality(Sending(j)) /\ Cardinality(Sending(j)') \in Nat
      BY <1>1, <3>2, FS_Subset, FS_CardinalityType
    <3> QED
      BY <1>1, <1>4, <3>1, <3>3
  <2>2. CASE stream[n].job = j
    <3>1. Handed(j)' = Handed(j) \cup {n} /\ n \notin Handed(j)
      BY <1>4, <2>2, HandedChange
    <3>2. Sending(j)' \subseteq Sending(j) \cup {n}
      BY <1>2, <3>1 DEF Sending, Handed
    <3>3. Cardinality(Handed(j)') = Cardinality(Handed(j)) + 1
      BY <1>1, <3>1, FS_AddElement
    <3>4. /\ IsFiniteSet(Sending(j) \cup {n})
          /\ \/ Cardinality(Sending(j) \cup {n}) = Cardinality(Sending(j))
             \/ Cardinality(Sending(j) \cup {n}) = Cardinality(Sending(j)) + 1
      BY <1>1, FS_AddElement
    <3>5. /\ Cardinality(Sending(j)') <= Cardinality(Sending(j) \cup {n})
          /\ Cardinality(Sending(j)') \in Nat
      BY <3>2, <3>4, FS_Subset, FS_CardinalityType
    <3> QED
      BY <1>1, <1>4, <3>3, <3>4, <3>5
  <2> QED
    BY <2>1, <2>2
<1>5. ASSUME NEW w \in Workers, wpc[w] = "sending", Msg(w).job = j, wpc'[w] # "sending",
             cur' = cur, UNCHANGED redisVars, mails' = [mails EXCEPT ![j] = @ + 1]
      PROVE  mails'[j] + Cardinality(Sending(j)') <= Cardinality(Handed(j)')
  <2> DEFINE i == cur[w]
  <2>1. i \in Ids /\ i <= cursor /\ i # 0 /\ i \in Nat /\ stream[i].job = j
    BY <1>5, LiveTypes DEF Msg, Live, AtWork
  <2>2. i \in Sending(j)
    BY <1>5, <2>1, LiveTypes DEF Sending, Handed
  <2>3. Handed(j)' = Handed(j) /\ cursor' = cursor
    BY <1>5, HandedChange DEF redisVars
  <2>4. Sending(j)' \subseteq Sending(j)
    BY <1>2, <2>3 DEF Sending, Handed
  <2>5. i \notin Sending(j)'
    BY <1>5, <2>1 DEF Sending, HoldersInv
  <2>6. Sending(j)' \subseteq Sending(j) \ {i}
    BY <2>4, <2>5
  <2>7. /\ IsFiniteSet(Sending(j) \ {i})
        /\ Cardinality(Sending(j) \ {i}) = Cardinality(Sending(j)) - 1
    BY <1>1, <2>2, FS_RemoveElement
  <2>8. /\ Cardinality(Sending(j)') <= Cardinality(Sending(j) \ {i})
        /\ Cardinality(Sending(j)') \in Nat
    BY <2>6, <2>7, FS_Subset, FS_CardinalityType
  <2>9. mails'[j] = mails[j] + 1
    BY <1>5 DEF TypeOK, RowType
  <2> QED
    BY <1>1, <2>3, <2>7, <2>8, <2>9
<1>6. ASSUME NEW w \in Workers, ReadEntry(w) \/ ReadFails(w) PROVE mails'[j] = mails[j]
  BY <1>6 DEF ReadEntry, ReadFails, history
<1>7. CASE mails'[j] = mails[j]
  BY <1>3, <1>4, <1>7, WhoHandsOut
<1>8. CASE mails'[j] # mails[j]
  BY <1>5, <1>8, WhoSends
<1> QED
  BY <1>7, <1>8

\* So a worker about to send finds a mail of its job left.
LEMMA MailAllowed ==
    ASSUME TypeOK, MailsInv, NEW w \in Workers, wpc[w] = "sending"
    PROVE  Msg(w).job \in Jobs /\ mails[Msg(w).job] < Cardinality(Handed(Msg(w).job))
<1> DEFINE j == Msg(w).job
           i == cur[w]
<1>1. /\ i \in Ids /\ i <= cursor /\ i # 0 /\ i \in Nat /\ cursor \in Nat
      /\ stream[i].job = j /\ j \in Jobs
  BY LiveTypes DEF Msg, Live, AtWork
<1>2. i \in Sending(j)
  BY <1>1 DEF Sending, Handed
<1>3. IsFiniteSet(Sending(j)) /\ Cardinality(Sending(j)) \in Nat /\ Cardinality(Sending(j)) # 0
  BY <1>2, FiniteSending, FS_EmptySet
<1>4. mails[j] + Cardinality(Sending(j)) <= Cardinality(Handed(j))
      /\ mails[j] \in Nat /\ Cardinality(Handed(j)) \in Nat
  BY <1>1, FiniteEntries DEF MailsInv, TypeOK, RowType
<1> QED
  BY <1>1, <1>3, <1>4

-----------------------------------------------------------------------------
(* While no container stops and Redis answers: nothing is left behind.     *)

\* Nothing is left in the Pending Entries List, and a worker about to re-add an
\* entry has acknowledged it.
HeldInv ==
    /\ PendingIsHeld
    /\ \A w \in Workers : wpc[w] = "requeue" => cur[w] \notin pel

LEMMA CalmWorkers ==
    ASSUME CalmFaults, QuietInv, NEW w \in Workers
    PROVE  /\ ~ Cancelled(w) /\ ~ MayFail(w, "redis")
           /\ \A r \in WorkerXAdd(w) : r.copies \in 1 .. 2
           /\ \A r \in XAdd : r.copies \in 1 .. 2
<1>1. ~ Cancelled(w)
  BY DEF Cancelled, QuietInv
<1>2. "redis" \notin Faults
  BY DEF CalmFaults
<1>3. \A r \in XAdd : r.copies \in 1 .. 2
  BY <1>2 DEF XAdd, Added
<1> QED
  BY <1>1, <1>2, <1>3 DEF WorkerXAdd, MayFail

LEMMA NextHeld ==
    ASSUME CalmFaults, TypeOK, QuietInv, HeldInv, HoldersInv, [Next]_vars
    PROVE  HeldInv'
<1> DEFINE Same == pel' = pel /\ cur' = cur /\ \A w \in Workers : wpc'[w] = "requeue" => wpc[w] = "requeue"
<1>1. ASSUME Same PROVE HeldInv'
  BY <1>1 DEF HeldInv, PendingIsHeld
<1>2. /\ cursor \in Nat /\ pel \subseteq 1 .. cursor /\ cur \in [Workers -> 0 .. cursor]
      /\ wpc \in [Workers -> WorkerState]
  BY DEF TypeOK, StreamType, WorkerType
<1>3. ASSUME NEW w \in Workers, ReadEntry(w) PROVE HeldInv'
  <2>1. /\ pel' = pel \cup {cursor + 1} /\ cur' = [cur EXCEPT ![w] = cursor + 1]
        /\ cur[w] = 0 /\ wpc' = [wpc EXCEPT ![w] = wpc'[w]] /\ wpc'[w] # "requeue"
    BY <1>2, <1>3 DEF ReadEntry, TypeOK, WorkerType, AtWork
  <2>2. ASSUME NEW i \in pel' PROVE \E v \in Workers : cur'[v] = i
    <3>1. CASE i = cursor + 1
      BY <1>2, <2>1, <3>1
    <3>2. CASE i \in pel
      <4>1. PICK v \in Workers : cur[v] = i
        BY <3>2 DEF HeldInv, PendingIsHeld
      <4>2. v # w
        BY <1>2, <2>1, <3>2, <4>1
      <4> QED
        BY <1>2, <2>1, <4>1, <4>2
    <3> QED
      BY <2>1, <3>1, <3>2
  <2>3. ASSUME NEW v \in Workers, wpc'[v] = "requeue" PROVE cur'[v] \notin pel'
    <3>1. v # w /\ wpc[v] = "requeue" /\ cur'[v] = cur[v]
      BY <1>2, <2>1, <2>3
    <3>2. cur[v] \notin pel /\ cur[v] # cursor + 1
      BY <1>2, <3>1 DEF HeldInv
    <3> QED
      BY <2>1, <3>1, <3>2
  <2> QED
    BY <2>2, <2>3 DEF HeldInv, PendingIsHeld
<1>4. ASSUME NEW w \in Workers, AckRetry(w) PROVE HeldInv'
  <2>1. /\ pel' = pel \ {cur[w]} /\ cur' = cur /\ wpc' = [wpc EXCEPT ![w] = "requeue"]
    BY <1>4, CalmWorkers DEF AckRetry, AckEntry, Goto
  <2> QED
    BY <1>2, <2>1 DEF HeldInv, PendingIsHeld
<1>5. ASSUME NEW w \in Workers, Ack(w) \/ Requeue(w) PROVE HeldInv'
  <2>1. pel' \subseteq pel \ {cur[w]}
    BY <1>5, CalmWorkers DEF Ack, AckEntry, Requeue, HeldInv
  <2>2. cur' = [cur EXCEPT ![w] = 0] /\ wpc' = [wpc EXCEPT ![w] = "top"]
    BY <1>5 DEF Ack, Requeue, Goto
  <2>3. ASSUME NEW i \in pel' PROVE \E v \in Workers : cur'[v] = i
    <3>1. PICK v \in Workers : cur[v] = i
      BY <2>1, <2>3 DEF HeldInv, PendingIsHeld
    <3>2. v # w
      BY <2>1, <2>3, <3>1
    <3> QED
      BY <1>2, <2>2, <3>1, <3>2
  <2>4. ASSUME NEW v \in Workers, wpc'[v] = "requeue" PROVE cur'[v] \notin pel'
    <3>1. v # w /\ wpc[v] = "requeue"
      BY <1>2, <2>2, <2>4
    <3> QED
      BY <1>2, <2>1, <2>2, <3>1 DEF HeldInv
  <2> QED
    BY <2>3, <2>4 DEF HeldInv, PendingIsHeld
<1>6. ASSUME NEW w \in Workers, WorkerStep(w), ~ ReadEntry(w), ~ AckRetry(w), ~ Ack(w),
             ~ Requeue(w)
      PROVE  Same
  <2>1. ASSUME ReadFails(w) PROVE FALSE
    BY <2>1, CalmWorkers DEF ReadFails, MayFail
  <2> QED
    BY <1>2, <1>6, <2>1 DEF WorkerStep, RunLoop, Process, StopWorker, BeginRead,
     ReadNothing, SendOk, SendFails, MarkDelivered, DeadLetter, MarkFailed, Goto, redisVars
<1>7. ASSUME NEW c \in Containers, Lifecycle(c) PROVE FALSE
  BY <1>7 DEF Lifecycle, Sigterm, Exit, Crash, Restart, CalmFaults, QuietInv
<1>8. ASSUME \/ \E k \in Jobs : Submission(k)
             \/ \E a \in Admins : Replay(a)
             \/ ForeignAdd
             \/ UNCHANGED vars
      PROVE  Same
  BY <1>8 DEF Submission, CreateRow, AddJob, CutSubmit, Replay, ReplayRead, ReplayAdd,
     ReplayDelete, CutReplay, ForeignAdd, redisVars, workerVars, vars
<1> HIDE DEF Same
<1> QED
  BY <1>1, <1>3, <1>4, <1>5, <1>6, <1>7, <1>8 DEF Next

\* As long as no container is stopped or killed and Redis answers, whatever the
\* group has handed out is in the hands of a worker until it is acknowledged: the
\* Pending Entries List needs nobody to reclaim it (Run, processMessage).  With
\* "sigterm" alone PendingIsHeld is violated.
THEOREM WhatIsPendingIsHeld ==
    ASSUME CalmFaults
    PROVE  Spec => []PendingIsHeld
<1>1. Init => TypeOK /\ QuietInv /\ HoldersInv /\ HeldInv
  BY InitTypeOK, InitOneCopy DEF Init, QuietInv, OneCopyInv, HeldInv, PendingIsHeld
<1>2. TypeOK /\ QuietInv /\ HoldersInv /\ HeldInv /\ [Next]_vars
        => (TypeOK /\ QuietInv /\ HoldersInv /\ HeldInv)'
  BY NextTypeOK, NextHolders, NextQuiet, NextHeld
<1>3. HeldInv => PendingIsHeld
  BY DEF HeldInv
<1> QED
  BY <1>1, <1>2, <1>3, PTL DEF Spec

\* An entry that is added is left to be read.
LEMMA AddedIsAhead ==
    ASSUME TypeOK, NEW e \in Entry, NEW n \in 1 .. 2,
           stream' = AddTo(stream, n, e), cursor' = cursor, pel' = pel
    PROVE  \E i \in Ids' : i > cursor' /\ stream'[i].job = e.job
<1>0. n \in 0 .. 2
  OBVIOUS
<1>1. Len(stream') = Len(stream) + n /\ \A i \in Ids' \ Ids : stream'[i] = e
  BY <1>0, StreamGrows
<1>2. cursor \in Nat /\ Len(stream) \in Nat /\ cursor <= Len(stream)
  BY DEF TypeOK, StreamType
<1>3. Len(stream) + 1 \in Ids' \ Ids
  BY <1>1, <1>2 DEF Ids
<1> QED
  BY <1>1, <1>2, <1>3

LEMMA AddedByHandler ==
    ASSUME TypeOK, CalmFaults, NEW j \in Jobs, AddJob(j)
    PROVE  \E n \in Ids' : n > cursor' /\ stream'[n].job = j
<1>1. PICK r \in XAdd : stream' = AddTo(stream, r.copies, NewEntry(j))
  BY DEF AddJob, NewEntry
<1>2. r.copies \in 1 .. 2 /\ cursor' = cursor /\ pel' = pel
  BY DEF AddJob, XAdd, Added, CalmFaults
<1>3. NewEntry(j) \in Entry /\ NewEntry(j).job = j
  BY DEF NewEntry, Entry
<1> QED
  BY <1>1, <1>2, <1>3, AddedIsAhead

LEMMA AddedByWorker ==
    ASSUME TypeOK, QuietInv, CalmFaults, NEW w \in Workers, Requeue(w)
    PROVE  \E n \in Ids' : n > cursor' /\ stream'[n].job = Msg(w).job
<1>1. PICK r \in WorkerXAdd(w) : stream' = AddTo(stream, r.copies, Retried(w))
  BY DEF Requeue, Retried
<1>2. r.copies \in 1 .. 2 /\ cursor' = cursor /\ pel' = pel
  BY CalmWorkers DEF Requeue
<1>3. Retried(w) \in Entry /\ Retried(w).job = Msg(w).job
  BY WorkerEntries DEF Retried, Requeue, AtWork
<1> QED
  BY <1>1, <1>2, <1>3, AddedIsAhead

\* An active entry stays so until its worker reports on the job or re-adds it.
LEMMA EntryMovesOn ==
    ASSUME TypeOK, QuietInv, [Next]_vars, CalmFaults, NEW i \in Ids,
           stream[i].job \in Jobs, Active(i)
    PROVE  \/ Active(i)'
           \/ \E w \in Workers : /\ MarkDelivered(w) \/ MarkFailed(w) \/ Requeue(w)
                                 /\ Msg(w).job = stream[i].job
<1>1. /\ cursor \in Nat /\ i \in Nat /\ i # 0 /\ cur \in [Workers -> 0 .. cursor]
      /\ wpc \in [Workers -> WorkerState]
  BY LiveTypes DEF TypeOK, WorkerType
<1>2. CASE i > cursor
  <2>1. CASE i > cursor'
    BY <2>1 DEF Active
  <2>2. CASE ~ (i > cursor')
    <3>1. PICK w \in Workers : (ReadEntry(w) \/ ReadFails(w)) /\ cursor' = cursor + 1
      BY <1>2, <2>2, WhoHandsOut
    <3>2. ~ ReadFails(w)
      BY CalmWorkers DEF ReadFails, MayFail
    <3>3. i = cursor + 1
      BY <1>1, <1>2, <2>2, <3>1
    <3>4. cur'[w] = i /\ wpc'[w] = "sending"
      BY <1>1, <3>1, <3>2, <3>3 DEF ReadEntry
    <3> QED
      BY <3>4 DEF Active, Live, AtWork
  <2> QED
    BY <2>1, <2>2
<1>3. ASSUME NEW w \in Workers, cur[w] = i, wpc[w] \in Live
      PROVE  \/ cur'[w] = i /\ wpc'[w] \in Live
             \/ MarkDelivered(w) \/ MarkFailed(w) \/ Requeue(w)
  <2>1. ASSUME NEW v \in Workers, WorkerStep(v), v # w PROVE cur'[w] = cur[w] /\ wpc'[w] = wpc[w]
    BY <1>1, <2>1 DEF WorkerStep, RunLoop, Process, StopWorker, BeginRead, ReadEntry,
       ReadNothing, ReadFails, SendOk, SendFails, MarkDelivered, DeadLetter, MarkFailed,
       Ack, AckRetry, Requeue, Goto
  <2>2. ASSUME WorkerStep(w), ~ MarkDelivered(w), ~ MarkFailed(w), ~ Requeue(w)
        PROVE  cur'[w] = cur[w] /\ wpc'[w] \in Live
    BY <1>1, <1>3, <2>2 DEF WorkerStep, RunLoop, Process, StopWorker, BeginRead, ReadEntry,
       ReadNothing, ReadFails, SendOk, SendFails, DeadLetter, Ack, AckRetry, Goto, Live, AtWork
  <2>3. ASSUME NEW c \in Containers, Lifecycle(c) PROVE FALSE
    BY <2>3 DEF Lifecycle, Sigterm, Exit, Crash, Restart, CalmFaults, QuietInv
  <2>4. ASSUME \/ \E k \in Jobs : Submission(k)
               \/ \E a \in Admins : Replay(a)
               \/ ForeignAdd
               \/ UNCHANGED vars
        PROVE  cur' = cur /\ wpc' = wpc
    BY <2>4 DEF Submission, CreateRow, AddJob, CutSubmit, Replay, ReplayRead, ReplayAdd,
       ReplayDelete, CutReplay, ForeignAdd, workerVars, vars
  <2> QED
    BY <1>3, <2>1, <2>2, <2>3, <2>4 DEF Next
<1> QED
  BY <1>2, <1>3 DEF Active, Msg

\* Only the answer of its handler makes a job queued.
LEMMA WhoQueues ==
    ASSUME TypeOK, [Next]_vars, NEW j \in Jobs, api'[j] = "queued"
    PROVE  api[j] = "queued" \/ AddJob(j)
<1>1. ASSUME NEW k \in Jobs, Submission(k), ~ AddJob(j) PROVE api[j] = "queued"
  BY <1>1 DEF Submission, CreateRow, AddJob, CutSubmit, TypeOK, RowType
<1>2. ASSUME NEW c \in Containers, Lifecycle(c) PROVE api[j] = "queued"
  BY <1>2 DEF Lifecycle, Sigterm, Exit, Crash, Restart, KillHandlers, TypeOK, RowType
<1>3. ASSUME NEW w \in Workers, WorkerStep(w) PROVE api' = api
  BY <1>3 DEF WorkerStep, RunLoop, Process, StopWorker, BeginRead, ReadEntry, ReadNothing,
     ReadFails, SendOk, SendFails, MarkDelivered, DeadLetter, MarkFailed, Ack, AckRetry,
     Requeue
<1>4. ASSUME \/ \E a \in Admins : Replay(a)
             \/ ForeignAdd
             \/ UNCHANGED vars
      PROVE  api' = api
  BY <1>4 DEF Replay, ReplayRead, ReplayAdd, ReplayDelete, CutReplay, ForeignAdd, vars
<1> QED
  BY <1>1, <1>2, <1>3, <1>4 DEF Next

LEMMA NextMoving ==
    ASSUME CalmFaults, "pg" \notin Faults, TypeOK, QuietInv, StillMoving, [Next]_vars
    PROVE  StillMoving'
<1> SUFFICES ASSUME NEW j \in Jobs, api'[j] = "queued", status'[j] = "pending"
             PROVE  \E i \in Ids' : stream'[i].job = j /\ Active(i)'
  BY DEF StillMoving
<1>1. ASSUME NEW n \in Ids', n > cursor', stream'[n].job = j
      PROVE  \E i \in Ids' : stream'[i].job = j /\ Active(i)'
  BY <1>1 DEF Active
<1>2. CASE AddJob(j)
  BY <1>1, <1>2, AddedByHandler
<1>3. CASE ~ AddJob(j)
  <2>1. api[j] = "queued"
    BY <1>3, WhoQueues
  <2>2. status[j] = "pending"
    <3>1. ~ CreateRow(j)
      BY <2>1 DEF CreateRow
    <3> QED
      BY <3>1, WhoWrites
  <2>3. PICK i \in Ids : stream[i].job = j /\ Active(i)
    BY <2>1, <2>2 DEF StillMoving
  <2>4. CASE Active(i)'
    BY <2>3, <2>4, OldEntries
  <2>5. ASSUME NEW w \in Workers, MarkDelivered(w) \/ MarkFailed(w), Msg(w).job = j PROVE FALSE
    <3>1. ~ MayFail(w, "pg")
      BY CalmWorkers DEF MayFail
    <3> QED
      BY <2>5, <3>1 DEF MarkDelivered, MarkFailed, Report, TypeOK, RowType
  <2>6. ASSUME NEW w \in Workers, Requeue(w), Msg(w).job = j
        PROVE  \E k \in Ids' : stream'[k].job = j /\ Active(k)'
    BY <1>1, <2>6, AddedByWorker
  <2> QED
    BY <2>3, <2>4, <2>5, <2>6, EntryMovesOn
<1> QED
  BY <1>2, <1>3

\* As long as no container is stopped or killed and Redis and Postgres answer, a
\* queued job that says "pending" has an entry that some worker will still read,
\* mail, report or re-add, whatever the mail server says and however many copies,
\* replays and retries of it there are (Enqueue, processMessage): what Settles
\* needs besides a scheduler.
THEOREM PendingIsMoving ==
    ASSUME CalmFaults, "pg" \notin Faults
    PROVE  Spec => []StillMoving
<1>1. Init => TypeOK /\ QuietInv /\ StillMoving
  BY InitTypeOK DEF Init, QuietInv, StillMoving
<1>2. TypeOK /\ QuietInv /\ StillMoving /\ [Next]_vars
        => (TypeOK /\ QuietInv /\ StillMoving)'
  BY NextTypeOK, NextQuiet, NextMoving
<1> QED
  BY <1>1, <1>2, PTL DEF Spec

-----------------------------------------------------------------------------
(* One replay at a time: exactly one mail.                                 *)

\* One replay request is served at a time, and nothing fails but statements of
\* Postgres and what is mailed.
OneByOne == (\A a, b \in Admins : a = b) /\ Faults \subseteq {"pg", "foreign"}

\* Where the job may yet be mailed from: its handler, an entry, a worker that is
\* about to put it on the DLQ, an entry there that no replay request has read,
\* or a replay request.
Asking(j) == {x \in {j} : api[x] \in {"idle", "created"}}
Giving(j) == {w \in Workers : wpc[w] = "deadLetter" /\ Msg(w).job = j}
Waiting(j) == {d \in parked : dlq[d].job = j /\ \A a \in Admins : hold[a] # d}

Copies(j) ==
    ({"handler"} \X Asking(j)) \cup ({"entry"} \X Chances(j))
        \cup ({"worker"} \X Giving(j)) \cup ({"parked"} \X Waiting(j))
        \cup ({"replay"} \X Adding(j))

\* There is one of them, until the mail is accepted.
CopyInv ==
    \A j \in Jobs :
        /\ mails[j] \in {0, 1}
        /\ mails[j] = 1 => Copies(j) = {}
        /\ \A x, y \in Copies(j) : x = y

\* A handler asks for one entry only.
LEMMA AskingEnds ==
    ASSUME TypeOK, [Next]_vars, NEW j \in Jobs
    PROVE  Asking(j)' \subseteq Asking(j)
  BY Backwards DEF Asking

\* A worker comes to hold an entry for the DLQ by a failed mail only.
LEMMA WhoGives ==
    ASSUME TypeOK, [Next]_vars, NEW j
    PROVE  \/ Giving(j)' \subseteq Giving(j)
           \/ \E w \in Workers : /\ SendFails(w) /\ Msg(w).job = j
                                 /\ Giving(j)' \subseteq Giving(j) \cup {w}
<1>0. /\ wpc \in [Workers -> WorkerState]
      /\ \A w \in Workers : wpc[w] = "deadLetter" \/ wpc[w] = "sending" => cur[w] \in Ids
      /\ \A i \in Ids : stream'[i] = stream[i]
  BY LiveTypes, StepGrows DEF TypeOK, WorkerType, Live, AtWork, Grown
<1>1. ASSUME NEW w \in Workers, SendFails(w)
      PROVE  /\ Giving(j)' \subseteq Giving(j) \cup {w}
             /\ Msg(w).job # j => Giving(j)' \subseteq Giving(j)
  BY <1>0, <1>1 DEF SendFails, Goto, redisVars, Giving, Msg
<1>2. ASSUME \A v \in Workers : wpc'[v] = "deadLetter" => wpc[v] = "deadLetter" /\ cur'[v] = cur[v]
      PROVE  Giving(j)' \subseteq Giving(j)
  BY <1>0, <1>2 DEF Giving, Msg
<1>3. ASSUME NEW w \in Workers, WorkerStep(w), ~ SendFails(w), NEW v \in Workers,
             wpc'[v] = "deadLetter"
      PROVE  wpc[v] = "deadLetter" /\ cur'[v] = cur[v]
  BY <1>0, <1>3 DEF WorkerStep, RunLoop, Process, StopWorker, BeginRead, ReadEntry,
     ReadNothing, ReadFails, SendOk, MarkDelivered, DeadLetter, MarkFailed, Ack, AckRetry,
     Requeue, Goto, TypeOK, WorkerType
<1>4. ASSUME NEW c \in Containers, Lifecycle(c), NEW v \in Workers, wpc'[v] = "deadLetter"
      PROVE  wpc[v] = "deadLetter" /\ cur'[v] = cur[v]
  BY <1>0, <1>4 DEF Lifecycle, Sigterm, Exit, Crash, Restart, workerVars, TypeOK, WorkerType
<1>5. ASSUME \/ \E k \in Jobs : Submission(k)
             \/ \E a \in Admins : Replay(a)
             \/ ForeignAdd
             \/ UNCHANGED vars
      PROVE  cur' = cur /\ wpc' = wpc
  BY <1>5 DEF Submission, CreateRow, AddJob, CutSubmit, Replay, ReplayRead, ReplayAdd,
     ReplayDelete, CutReplay, ForeignAdd, workerVars, vars
<1> QED
  BY <1>1, <1>2, <1>3, <1>4, <1>5 DEF Next

\* Only sendToDLQ adds to what waits on the DLQ, and one entry.
LEMMA WhoLeaves ==
    ASSUME OneByOne, TypeOK, QuietInv, [Next]_vars, NEW j
    PROVE  \/ Waiting(j)' \subseteq Waiting(j)
           \/ \E w \in Workers : /\ DeadLetter(w) /\ Msg(w).job = j
                                 /\ Waiting(j)' \subseteq Waiting(j) \cup {Len(dlq) + 1}
<1>0. /\ parked \subseteq DlqIds /\ \A d \in DlqIds : dlq'[d] = dlq[d]
      /\ hold \in [Admins -> 0 .. Len(dlq)] /\ Len(dlq) \in Nat
  BY StepGrows DEF TypeOK, DlqType, ReplayType, Grown
<1>1. ASSUME NEW w \in Workers, DeadLetter(w)
      PROVE  /\ Waiting(j)' \subseteq Waiting(j) \cup {Len(dlq) + 1}
             /\ Msg(w).job # j => Waiting(j)' \subseteq Waiting(j)
  <2>1. PICK r \in WorkerXAdd(w) :
             /\ dlq' = AddTo(dlq, r.copies, Msg(w))
             /\ parked' = parked \cup (Len(dlq) + 1 .. Len(dlq) + r.copies)
    BY <1>1 DEF DeadLetter
  <2>2. r.copies = 1 /\ r.copies \in 0 .. 2
    BY CalmWorkers DEF OneByOne, CalmFaults, WorkerXAdd, XAdd, Added
  <2>3. Msg(w) \in DlqEntry
    BY <1>1, WorkerEntries DEF DeadLetter, AtWork
  <2>4. \A d \in Len(dlq) + 1 .. Len(dlq) + r.copies : dlq'[d] = Msg(w)
    BY <2>1, <2>2, <2>3, DlqGrows
  <2>5. Len(dlq) + 1 .. Len(dlq) + r.copies = {Len(dlq) + 1}
    BY <1>0, <2>2
  <2>6. parked' = parked \cup {Len(dlq) + 1} /\ dlq'[Len(dlq) + 1] = Msg(w)
    BY <2>1, <2>4, <2>5
  <2>7. hold' = hold
    BY <1>1 DEF DeadLetter, adminVars
  <2> QED
    BY <1>0, <2>6, <2>7 DEF Waiting
<1>2. ASSUME parked' \subseteq parked, \A a \in Admins : hold[a] \in parked' => hold'[a] = hold[a]
      PROVE  Waiting(j)' \subseteq Waiting(j)
  BY <1>0, <1>2 DEF Waiting
<1>3. ASSUME NEW w \in Workers, WorkerStep(w), ~ DeadLetter(w) PROVE parked' = parked /\ hold' = hold
  BY <1>3 DEF WorkerStep, RunLoop, Process, StopWorker, BeginRead, ReadEntry, ReadNothing,
     ReadFails, SendOk, SendFails, MarkDelivered, MarkFailed, Ack, AckRetry, Requeue,
     redisVars, adminVars
<1>4. ASSUME NEW c \in Containers, Lifecycle(c) PROVE FALSE
  BY <1>4 DEF Lifecycle, Sigterm, Exit, Crash, Restart, OneByOne, QuietInv
<1>5. ASSUME NEW a \in Admins, Replay(a)
      PROVE  /\ parked' \subseteq parked
             /\ \A b \in Admins : hold[b] \in parked' => hold'[b] = hold[b]
  <2>1. ASSUME ReplayRead(a) PROVE hold[a] = 0 /\ parked' = parked
                                   /\ \A b \in Admins \ {a} : hold'[b] = hold[b]
    BY <2>1 DEF ReplayRead, redisVars, TypeOK, ReplayType
  <2>2. 0 \notin parked
    BY <1>0 DEF DlqIds
  <2>3. ASSUME ReplayAdd(a) PROVE hold' = hold /\ parked' = parked
    <3>1. \A r \in XAdd : r.ok
      BY DEF XAdd, Added, OneByOne
    <3> QED
      BY <2>3, <3>1 DEF ReplayAdd
  <2>4. ASSUME ReplayDelete(a) PROVE /\ parked' = parked \ {hold[a]}
                                     /\ \A b \in Admins \ {a} : hold'[b] = hold[b]
    BY <2>4 DEF ReplayDelete, OneByOne, TypeOK, ReplayType
  <2>5. ~ CutReplay(a)
    BY DEF CutReplay, OneByOne
  <2> QED
    BY <1>5, <2>1, <2>2, <2>3, <2>4, <2>5 DEF Replay
<1>6. ASSUME (\E k \in Jobs : Submission(k)) \/ ForeignAdd \/ UNCHANGED vars
      PROVE  parked' = parked /\ hold' = hold
  BY <1>6 DEF Submission, CreateRow, AddJob, CutSubmit, ForeignAdd, redisVars, adminVars, vars
<1> HIDE DEF Waiting
<1> QED
  BY <1>1, <1>2, <1>3, <1>4, <1>5, <1>6 DEF Next

\* A step takes one of them away for a mail, or puts another in its place.
Mailed(S, T) == \E x \in S : T \subseteq S \ {x}
Moved(S, T) == T \subseteq S \/ \E x \in S : \E y : T \subseteq (S \ {x}) \cup {y}

\* No step of the system makes two of one.
LEMMA NextCopies ==
    ASSUME OneByOne, TypeOK, HoldersInv, QuietInv, [Next]_vars, NEW j \in Jobs
    PROVE  \/ mails'[j] = mails[j] /\ Moved(Copies(j), Copies(j)')
           \/ mails'[j] = mails[j] + 1 /\ Mailed(Copies(j), Copies(j)')
<1> DEFINE Goal == \/ mails'[j] = mails[j] /\ Moved(Copies(j), Copies(j)')
                   \/ mails'[j] = mails[j] + 1 /\ Mailed(Copies(j), Copies(j)')
<1>0. wpc \in [Workers -> WorkerState] /\ mails \in [Jobs -> Nat] /\ api \in [Jobs -> ApiState]
  BY DEF TypeOK, WorkerType, RowType
<1>1. Asking(j)' \subseteq Asking(j)
  BY AskingEnds
<1>2. Ids' = Ids => Chances(j)' \subseteq Chances(j)
  <2>1. Chances(j)' \subseteq Ids'
    BY DEF Chances
  <2> QED
    BY <2>1, ChancesEnd
<1>3. ASSUME NEW w \in Workers, SendOk(w), Msg(w).job = j, mails'[j] = mails[j] + 1 PROVE Goal
  <2>1. /\ wpc[w] \in Trying /\ wpc' = [wpc EXCEPT ![w] = "markDelivered"]
        /\ wpc[w] = "sending" /\ Ids' = Ids /\ replays' = replays
    BY <1>3 DEF SendOk, Goto, Trying, redisVars, Ids
  <2>2. cur[w] \in Chances(j) /\ Chances(j)' \subseteq Chances(j) \ {cur[w]}
    <3>1. wpc'[w] \notin Trying
      BY <1>0, <2>1 DEF Trying
    <3> QED
      BY <1>2, <1>3, <2>1, <3>1, ChancesEnd
  <2>3. Giving(j)' \subseteq Giving(j)
    <3>1. ASSUME NEW v \in Workers, SendFails(v) PROVE FALSE
      BY <1>0, <2>1, <3>1 DEF SendFails, Goto
    <3> QED
      BY <3>1, WhoGives
  <2>4. Waiting(j)' \subseteq Waiting(j)
    <3>1. ASSUME NEW v \in Workers, DeadLetter(v) PROVE FALSE
      BY <1>0, <2>1, <3>1 DEF DeadLetter, Goto
    <3> QED
      BY <3>1, WhoLeaves
  <2>5. Adding(j)' \subseteq Adding(j)
    BY <2>1, WhoAsks DEF TypeOK, ReplayType
  <2> DEFINE x == <<"entry", cur[w]>>
  <2>6. x \in Copies(j)
    BY <2>2 DEF Copies
  <2>7. Copies(j)' \subseteq Copies(j) \ {x}
    BY <1>1, <2>2, <2>3, <2>4, <2>5 DEF Copies
  <2> QED
    BY <1>3, <2>6, <2>7 DEF Mailed
<1>4. ASSUME NEW w \in Workers, SendFails(w), Msg(w).job = j PROVE Goal
  <2>1. /\ wpc[w] \in Trying /\ wpc[w] = "sending" /\ Ids' = Ids /\ replays' = replays
        /\ mails' = mails
        /\ \/ wpc' = [wpc EXCEPT ![w] = "deadLetter"]
           \/ wpc' = [wpc EXCEPT ![w] = "ackRetry"]
    BY <1>4 DEF SendFails, Goto, Trying, redisVars, Ids, OneByOne
  <2>2. ASSUME NEW v \in Workers, SendFails(v) PROVE v = w
    BY <1>0, <2>1, <2>2 DEF SendFails, Goto
  <2>3. Giving(j)' \subseteq Giving(j) \cup {w}
    BY <2>2, WhoGives
  <2>4. Waiting(j)' \subseteq Waiting(j)
    <3>1. ASSUME NEW v \in Workers, DeadLetter(v) PROVE FALSE
      BY <1>0, <2>1, <3>1 DEF DeadLetter, Goto
    <3> QED
      BY <3>1, WhoLeaves
  <2>5. Adding(j)' \subseteq Adding(j)
    BY <2>1, WhoAsks DEF TypeOK, ReplayType
  <2>6. CASE wpc' = [wpc EXCEPT ![w] = "ackRetry"]
    <3>1. w \notin Giving(j)'
      BY <1>0, <2>6 DEF Giving
    <3>2. Chances(j)' \subseteq Chances(j)
      BY <1>2, <2>1
    <3>3. Copies(j)' \subseteq Copies(j)
      BY <1>1, <2>3, <2>4, <2>5, <3>1, <3>2 DEF Copies
    <3> QED
      BY <2>1, <3>3 DEF Moved
  <2>7. CASE wpc' = [wpc EXCEPT ![w] = "deadLetter"]
    <3>1. cur[w] \in Chances(j) /\ Chances(j)' \subseteq Chances(j) \ {cur[w]}
      <4>1. wpc'[w] \notin Trying
        BY <1>0, <2>7 DEF Trying
      <4> QED
        BY <1>2, <1>4, <2>1, <4>1, ChancesEnd
    <3> DEFINE x == <<"entry", cur[w]>>
               y == <<"worker", w>>
    <3>2. x \in Copies(j) /\ Copies(j)' \subseteq (Copies(j) \ {x}) \cup {y}
      BY <1>1, <2>3, <2>4, <2>5, <3>1 DEF Copies
    <3> QED
      BY <2>1, <3>2 DEF Moved
  <2> QED
    BY <2>1, <2>6, <2>7
<1>5. ASSUME NEW w \in Workers, DeadLetter(w), Msg(w).job = j PROVE Goal
  <2>1. /\ wpc[w] = "deadLetter" /\ wpc' = [wpc EXCEPT ![w] = "markFailed"]
        /\ Ids' = Ids /\ replays' = replays /\ mails' = mails
    BY <1>5 DEF DeadLetter, Goto, Ids
  <2>2. Giving(j)' \subseteq Giving(j) \ {w} /\ w \in Giving(j)
    <3>1. ASSUME NEW v \in Workers, SendFails(v) PROVE FALSE
      BY <1>0, <2>1, <3>1 DEF SendFails, Goto
    <3>2. w \notin Giving(j)' /\ w \in Giving(j)
      BY <1>0, <1>5, <2>1 DEF Giving
    <3> QED
      BY <3>1, <3>2, WhoGives
  <2>3. Waiting(j)' \subseteq Waiting(j) \cup {Len(dlq) + 1}
    BY WhoLeaves
  <2>4. Adding(j)' \subseteq Adding(j)
    BY <2>1, WhoAsks DEF TypeOK, ReplayType
  <2>5. Chances(j)' \subseteq Chances(j)
    BY <1>2, <2>1
  <2> DEFINE x == <<"worker", w>>
             y == <<"parked", Len(dlq) + 1>>
  <2>6. x \in Copies(j) /\ Copies(j)' \subseteq (Copies(j) \ {x}) \cup {y}
    BY <1>1, <2>2, <2>3, <2>4, <2>5 DEF Copies
  <2> QED
    BY <2>1, <2>6 DEF Moved
<1>6. ASSUME NEW a \in Admins, ReplayRead(a), Adding(j)' \subseteq Adding(j) \cup {a},
             replays'[j] = replays[j] + 1
      PROVE  Goal
  <2>1. PICK d \in parked : /\ replays' = [replays EXCEPT ![dlq[d].job] = @ + 1]
                            /\ hold' = [hold EXCEPT ![a] = d]
    BY <1>6 DEF ReplayRead
  <2>2. wpc' = wpc /\ Ids' = Ids /\ mails' = mails /\ hold[a] = 0
    BY <1>6 DEF ReplayRead, redisVars, workerVars, Ids, TypeOK, ReplayType
  <2>3. d \in DlqIds /\ d # 0 /\ dlq[d].job = j
    BY <1>6, <2>1 DEF TypeOK, DlqType, DlqIds, ReplayType
  <2>4. d \in Waiting(j)
    BY <2>2, <2>3 DEF Waiting, OneByOne
  <2>5. Waiting(j)' \subseteq Waiting(j) \ {d}
    <3>1. d \notin Waiting(j)'
      BY <2>1 DEF Waiting, TypeOK, ReplayType
    <3>2. ASSUME NEW v \in Workers, DeadLetter(v) PROVE FALSE
      BY <1>0, <2>2, <3>2 DEF DeadLetter, Goto
    <3> QED
      BY <3>1, <3>2, WhoLeaves
  <2>6. Giving(j)' \subseteq Giving(j)
    <3>1. ASSUME NEW v \in Workers, SendFails(v) PROVE FALSE
      BY <1>0, <2>2, <3>1 DEF SendFails, Goto
    <3> QED
      BY <3>1, WhoGives
  <2>7. Chances(j)' \subseteq Chances(j)
    BY <1>2, <2>2
  <2> DEFINE x == <<"parked", d>>
             y == <<"replay", a>>
  <2>8. x \in Copies(j) /\ Copies(j)' \subseteq (Copies(j) \ {x}) \cup {y}
    BY <1>1, <1>6, <2>4, <2>5, <2>6, <2>7 DEF Copies
  <2> QED
    BY <2>2, <2>8 DEF Moved
<1>7. ASSUME mails'[j] = mails[j], Giving(j)' \subseteq Giving(j),
             Waiting(j)' \subseteq Waiting(j), Adding(j)' \subseteq Adding(j),
             replays'[j] = replays[j]
      PROVE  Goal
  <2>1. ASSUME Chances(j)' \subseteq Chances(j) PROVE Goal
    <3>1. Copies(j)' \subseteq Copies(j)
      BY <1>1, <1>7, <2>1 DEF Copies
    <3> QED
      BY <1>7, <3>1 DEF Moved
  <2> DEFINE y == <<"entry", Len(stream) + 1>>
  <2>2. ASSUME NEW k \in Jobs, AddJob(k), AddsOne(NewEntry(k)) PROVE Goal
    <3>1. Chances(j)' \subseteq Chances(j) \cup {Len(stream) + 1}
          /\ (k # j => Chances(j)' \subseteq Chances(j))
      BY <2>2, ChancesAdded DEF NewEntry
    <3>2. CASE k = j
      <4>1. j \in Asking(j) /\ Asking(j)' = {}
        BY <1>0, <2>2, <3>2 DEF AddJob, Asking
      <4> DEFINE x == <<"handler", j>>
      <4>2. x \in Copies(j) /\ Copies(j)' \subseteq (Copies(j) \ {x}) \cup {y}
        BY <1>7, <3>1, <4>1 DEF Copies, Asking
      <4> QED
        BY <1>7, <4>2 DEF Moved
    <3> QED
      BY <2>1, <3>1, <3>2
  <2>3. ASSUME NEW w \in Workers, Requeue(w), AddsOne(Retried(w)) PROVE Goal
    <3>1. Chances(j)' \subseteq Chances(j) \cup {Len(stream) + 1}
          /\ (Msg(w).job # j => Chances(j)' \subseteq Chances(j))
      BY <2>3, ChancesAdded DEF Retried
    <3>2. CASE Msg(w).job = j
      <4>1. wpc[w] \in Trying /\ wpc'[w] \notin Trying
        BY <1>0, <2>3 DEF Requeue, Goto, Trying
      <4>2. cur[w] \in Chances(j) /\ cur[w] \notin Chances(j)'
        BY <3>2, <4>1, ChancesEnd
      <4> DEFINE x == <<"entry", cur[w]>>
      <4>3. x \in Copies(j) /\ Copies(j)' \subseteq (Copies(j) \ {x}) \cup {y}
        BY <1>1, <1>7, <3>1, <4>2 DEF Copies
      <4> QED
        BY <1>7, <4>3 DEF Moved
    <3> QED
      BY <2>1, <3>1, <3>2
  <2>4. ASSUME NEW a \in Admins, ReplayAdd(a), AddsOne(Held(a)) PROVE Goal
    <3>1. Chances(j)' \subseteq Chances(j) \cup {Len(stream) + 1}
          /\ (Held(a).job # j => Chances(j)' \subseteq Chances(j))
      BY <2>4, ChancesAdded
    <3>2. CASE Held(a).job = j
      <4>1. a \in Adding(j) /\ apc'[a] # "add"
        BY <2>4, <3>2 DEF ReplayAdd, Adding, TypeOK, ReplayType
      <4>2. a \notin Adding(j)'
        BY <4>1 DEF Adding
      <4> DEFINE x == <<"replay", a>>
      <4>3. x \in Copies(j) /\ Copies(j)' \subseteq (Copies(j) \ {x}) \cup {y}
        BY <1>1, <1>7, <3>1, <4>1, <4>2 DEF Copies
      <4> QED
        BY <1>7, <4>3 DEF Moved
    <3> QED
      BY <2>1, <3>1, <3>2
  <2>5. ASSUME AddsOne(Malformed) PROVE Goal
    <3>1. Malformed.job # j
      BY DEF Malformed
    <3> QED
      BY <2>1, <2>5, <3>1, ChancesAdded
  <2>6. "resend" \notin Faults
    BY DEF OneByOne
  <2> HIDE DEF Goal
  <2> QED
    BY <1>2, <2>1, <2>2, <2>3, <2>4, <2>5, <2>6, WhoAdds
<1> HIDE DEF Goal
<1>8. "quit" \notin Faults
  BY DEF OneByOne
<1>9. ASSUME mails'[j] # mails[j] PROVE Goal
  BY <1>3, <1>8, <1>9, WhoMails
<1>10. ASSUME mails'[j] = mails[j], ~ (Giving(j)' \subseteq Giving(j)) PROVE Goal
  BY <1>4, <1>10, WhoGives
<1>11. ASSUME mails'[j] = mails[j], ~ (Waiting(j)' \subseteq Waiting(j)) PROVE Goal
  BY <1>5, <1>11, WhoLeaves
<1>12. Goal
  BY <1>6, <1>7, <1>9, <1>10, <1>11, WhoAsks
<1> QED
  BY <1>12 DEF Goal

\* What remains of one is one at most, and nothing after the mail.
LEMMA MovedOne ==
    ASSUME NEW S, NEW T, Moved(S, T), \A x, y \in S : x = y
    PROVE  (\A x, y \in T : x = y) /\ (S = {} => T = {})
  BY DEF Moved

LEMMA MailedOne ==
    ASSUME NEW S, NEW T, Mailed(S, T), \A x, y \in S : x = y
    PROVE  S # {} /\ T = {}
  BY DEF Mailed

\* CopyInv is preserved by every step.
LEMMA NextCopy ==
    ASSUME OneByOne, TypeOK, HoldersInv, QuietInv, CopyInv, [Next]_vars
    PROVE  CopyInv'
<1> SUFFICES ASSUME NEW j \in Jobs
             PROVE  /\ mails'[j] \in {0, 1}
                    /\ mails'[j] = 1 => Copies(j)' = {}
                    /\ \A x, y \in Copies(j)' : x = y
  BY DEF CopyInv
<1>1. /\ mails[j] \in {0, 1}
      /\ mails[j] = 1 => Copies(j) = {}
      /\ \A x, y \in Copies(j) : x = y
  BY DEF CopyInv
<1>2. CASE mails'[j] = mails[j] /\ Moved(Copies(j), Copies(j)')
  BY <1>1, <1>2, MovedOne
<1>3. CASE mails'[j] = mails[j] + 1 /\ Mailed(Copies(j), Copies(j)')
  BY <1>1, <1>3, MailedOne
<1> QED
  BY <1>2, <1>3, NextCopies

\* The README's "exactly once": while no container stops, no answer of Redis or
\* of the relay is lost and no two replay requests are served at the same time,
\* no job is mailed twice, however often it fails, is dead-lettered and replayed
\* and whichever statements of Postgres fail (run delivery_exactly_once: with
\* those faults and two replay requests it does not hold).
THEOREM ExactlyOnceOneByOne ==
    ASSUME OneByOne
    PROVE  Spec => []ExactlyOnce
<1>1. CalmFaults
  BY DEF OneByOne, CalmFaults
<1>2. Init => TypeOK /\ HoldersInv /\ QuietInv /\ CopyInv
  <2> SUFFICES ASSUME Init, NEW j \in Jobs
               PROVE  mails[j] = 0 /\ \A x, y \in Copies(j) : x = y
    BY InitTypeOK, InitOneCopy DEF OneCopyInv, CopyInv, Init, QuietInv
  <2>1. /\ Ids = {} /\ parked = {} /\ mails[j] = 0
        /\ \A w \in Workers : wpc[w] = "top"
        /\ \A a \in Admins : apc[a] = "idle"
    BY DEF Init, Ids
  <2>2. Chances(j) = {} /\ Giving(j) = {} /\ Waiting(j) = {} /\ Adding(j) = {}
    BY <2>1 DEF Chances, Giving, Waiting, Adding
  <2>3. Copies(j) \subseteq {<<"handler", j>>}
    BY <2>2 DEF Copies, Asking
  <2> QED
    BY <2>1, <2>3
<1>3. TypeOK /\ HoldersInv /\ QuietInv /\ CopyInv /\ [Next]_vars
        => (TypeOK /\ HoldersInv /\ QuietInv /\ CopyInv)'
  BY <1>1, NextTypeOK, NextHolders, NextQuiet, NextCopy
<1>4. CopyInv => ExactlyOnce
  BY DEF CopyInv, ExactlyOnce
<1> QED
  BY <1>2, <1>3, <1>4, PTL DEF Spec

-----------------------------------------------------------------------------
(* The steps of the service.                                               *)

ServiceInv ==
    /\ TypeOK /\ OneCopyInv /\ LimitInv /\ TruthInv /\ RowInv /\ SettledInv
    /\ AttemptsInv /\ LastInv /\ MailsInv

LEMMA InitService == Init => ServiceInv /\ Service!Init
<1> SUFFICES ASSUME Init PROVE ServiceInv /\ Service!Init
  OBVIOUS
<1>1. cursor = 0 /\ Ids = {} /\ DlqIds = {} /\ 1 .. cursor = {}
  BY DEF Init, Ids, DlqIds
<1>2. \A j \in Jobs : Entries(j) = {} /\ Handed(j) = {} /\ Last(j) = {} /\ Sending(j) = {}
  BY <1>1 DEF Entries, Handed, Last, Sending
<1>3. \A j \in Jobs : Adding(j) = {}
  BY DEF Init, Adding
<1>4. \A j \in Jobs : mails[j] = 0 /\ replays[j] = 0 /\ api[j] = "idle" /\ status[j] = "none"
  BY DEF Init
<1>5. IsFiniteSet({}) /\ Cardinality({}) = 0
  BY FS_EmptySet
<1>6. LastInv /\ MailsInv
  <2> SUFFICES ASSUME NEW j \in Jobs
               PROVE  /\ IsFiniteSet(Adding(j))
                      /\ Cardinality(Last(j)) + Cardinality(Adding(j)) <= 1 + replays[j]
                      /\ mails[j] + Cardinality(Sending(j)) <= Cardinality(Handed(j))
    BY DEF LastInv, MailsInv
  <2>1. Last(j) = {} /\ Adding(j) = {} /\ Sending(j) = {} /\ Handed(j) = {}
    BY <1>2, <1>3
  <2>2. mails[j] = 0 /\ replays[j] = 0
    BY <1>4
  <2> QED
    BY <1>5, <2>1, <2>2
<1>7. TruthInv /\ RowInv /\ SettledInv
  BY <1>1, <1>4 DEF Init, TruthInv, DeliveredTruthful, RowInv, RowBeforeEntry, SettledInv
<1>8. Tries = [j \in Jobs |-> 0]
  BY <1>2, <1>5 DEF Tries, Handed
<1>9. Service!Init
  BY <1>8 DEF Init, Service!Init
<1> QED
  BY <1>6, <1>7, <1>9, InitTypeOK, InitOneCopy, InitAttempts DEF ServiceInv

LEMMA NextService ==
    ASSUME EqualRetries, "resend" \notin Faults
    PROVE  ServiceInv /\ [Next]_vars => ServiceInv'
<1> SUFFICES ASSUME ServiceInv, [Next]_vars PROVE ServiceInv'
  OBVIOUS
<1> USE DEF ServiceInv
<1>1. TypeOK' /\ OneCopyInv' /\ LimitInv'
  BY NextTypeOK, NextOneCopy
<1>2. TruthInv' /\ RowInv'
  BY NextTruth, NextRow
<1>3. SettledInv'
  BY NextSettled
<1>4. AttemptsInv' /\ LastInv' /\ MailsInv'
  BY NextAttempts, NextLast, NextMails DEF OneCopyInv
<1> QED
  BY <1>1, <1>2, <1>3, <1>4

\* Nothing but handing out an entry counts as an attempt.
LEMMA TriesChange ==
    ASSUME TypeOK, [Next]_vars
    PROVE  /\ cursor' = cursor => Tries' = Tries
           /\ \A n : /\ n = cursor + 1 /\ n \in Ids /\ n \notin 1 .. cursor /\ cursor' = n
                     => /\ stream[n].job \notin Jobs => Tries' = Tries
                        /\ stream[n].job \in Jobs
                              => Tries' = [Tries EXCEPT ![stream[n].job] = @ + 1]
<1>1. /\ Tries = [j \in Jobs |-> Cardinality(Handed(j))]
      /\ Tries' = [j \in Jobs |-> Cardinality(Handed(j)')]
  BY DEF Tries, Handed
<1>2. ASSUME cursor' = cursor PROVE Tries' = Tries
  BY <1>1, <1>2, HandedChange
<1>3. ASSUME NEW n, n = cursor + 1, n \in Ids, n \notin 1 .. cursor, cursor' = n
      PROVE  /\ stream[n].job \notin Jobs => Tries' = Tries
             /\ stream[n].job \in Jobs => Tries' = [Tries EXCEPT ![stream[n].job] = @ + 1]
  <2>1. ASSUME NEW j \in Jobs, stream[n].job # j PROVE Cardinality(Handed(j)') = Cardinality(Handed(j))
    BY <1>3, <2>1, HandedChange
  <2>2. ASSUME NEW j \in Jobs, stream[n].job = j
        PROVE  Cardinality(Handed(j)') = Cardinality(Handed(j)) + 1
    <3>1. Handed(j)' = Handed(j) \cup {n} /\ n \notin Handed(j) /\ IsFiniteSet(Handed(j))
      BY <1>3, <2>2, HandedChange, FiniteEntries
    <3> QED
      BY <3>1, FS_AddElement
  <2> QED
    BY <1>1, <2>1, <2>2
<1> QED
  BY <1>2, <1>3

\* Every step of Delivery is a step of JobService, or JobService stutters.
LEMMA StepService ==
    ASSUME EqualRetries, "resend" \notin Faults, ServiceInv, [Next]_vars
    PROVE  [Service!Next]_(Service!vars)
<1> DEFINE Goal == [Service!Next]_(Service!vars)
<1> USE DEF ServiceInv
<1>0. /\ Limit \in Nat
      /\ \A j \in Jobs : Tries[j] = Cardinality(Handed(j)) /\ Tries[j] \in Nat
  BY LimitOfAll, FiniteEntries DEF Tries, Handed
<1>1. ASSUME cursor' = cursor, status' = status, mails' = mails, replays' = replays PROVE Goal
  BY <1>1, TriesChange DEF Service!vars
<1>2. ASSUME NEW j \in Jobs, CreateRow(j) PROVE Goal
  <2>1. Tries' = Tries /\ UNCHANGED <<mails, replays>>
    BY <1>2, TriesChange DEF CreateRow, redisVars, history
  <2>2. status[j] = "none"
    BY <1>2 DEF CreateRow, AttemptsInv, FreshInv
  <2>3. CASE status' = status
    BY <2>1, <2>3 DEF Service!vars
  <2>4. CASE status' = [status EXCEPT ![j] = "pending"]
    BY <2>1, <2>2, <2>4 DEF Service!Next, Service!Accept
  <2> QED
    BY <1>2, <2>3, <2>4 DEF CreateRow
<1>3. ASSUME NEW w \in Workers, ReadEntry(w) \/ ReadFails(w), cursor' = cursor + 1,
             cursor + 1 \in Ids, cursor + 1 \notin 1 .. cursor
      PROVE  Goal
  <2> DEFINE j == stream[cursor + 1].job
  <2>1. UNCHANGED <<status, mails, replays>>
    BY <1>3 DEF ReadEntry, ReadFails, history
  <2>2. CASE j \notin Jobs
    <3>1. Tries' = Tries
      BY <1>3, <2>2, TriesChange
    <3> QED
      BY <2>1, <3>1 DEF Service!vars
  <2>3. CASE j \in Jobs
    <3>1. Tries' = [Tries EXCEPT ![j] = @ + 1]
      BY <1>3, <2>3, TriesChange
    <3>2. Tries[j] < Limit + 1 + replays[j]
      BY <1>0, <1>3, <2>3, TryAllowed DEF AttemptsInv
    <3>3. status[j] # "none"
      BY <1>3, <2>3 DEF RowInv, RowBeforeEntry
    <3> HIDE DEF j
    <3>4. Service!Try(j)
      BY <2>1, <3>1, <3>2, <3>3 DEF Service!Try
    <3> QED
      BY <2>3, <3>4 DEF Service!Next
  <2> QED
    BY <2>2, <2>3
<1>4. ASSUME NEW w \in Workers, SendOk(w) \/ SendFails(w) PROVE Goal
  <2>1. UNCHANGED <<cursor, status, replays>>
    BY <1>4 DEF SendOk, SendFails, redisVars
  <2>2. CASE mails' = mails
    BY <1>1, <2>1, <2>2
  <2>3. CASE mails' = [mails EXCEPT ![Msg(w).job] = @ + 1]
    <3> DEFINE j == Msg(w).job
    <3>1. j \in Jobs /\ mails[j] < Tries[j]
      BY <1>0, <1>4, MailAllowed DEF SendOk, SendFails
    <3>2. Tries' = Tries
      BY <2>1, TriesChange
    <3>3. mails' = [mails EXCEPT ![j] = @ + 1]
      BY <2>3
    <3> HIDE DEF j
    <3>4. Service!Mail(j)
      BY <2>1, <3>1, <3>2, <3>3 DEF Service!Mail
    <3> QED
      BY <3>1, <3>4 DEF Service!Next
  <2> QED
    BY <1>4, <2>2, <2>3 DEF SendOk, SendFails
<1>5. ASSUME NEW w \in Workers, MarkDelivered(w) \/ MarkFailed(w) PROVE Goal
  <2> DEFINE j == Msg(w).job
  <2>1. UNCHANGED <<cursor, mails, replays>> /\ wpc[w] \in Live
    BY <1>5 DEF MarkDelivered, MarkFailed, redisVars, history, Live, AtWork
  <2>2. cur[w] \in Ids /\ cur[w] <= cursor /\ stream[cur[w]] = Msg(w) /\ j \in Jobs
    BY <2>1, LiveTypes DEF Msg
  <2>3. ASSUME replays[j] = 0 PROVE status[j] = "pending"
    <3>1. status[j] \notin {"delivered", "failed"}
      BY <2>1, <2>3, LiveUnsettled
    <3>2. status[j] # "none"
      BY <2>2 DEF RowInv, RowBeforeEntry
    <3> QED
      BY <2>2, <3>1, <3>2 DEF TypeOK, RowType, Status
  <2>4. Tries' = Tries
    BY <2>1, TriesChange
  <2>5. CASE status' = status
    BY <1>1, <2>1, <2>5
  <2>6. CASE MarkDelivered(w) /\ status' = [status EXCEPT ![j] = "delivered"]
    <3>1. mails[j] > 0
      BY <2>6 DEF MarkDelivered, TruthInv
    <3> HIDE DEF j
    <3>2. Service!ReportDelivered(j)
      BY <2>1, <2>3, <2>4, <2>6, <3>1 DEF Service!ReportDelivered
    <3> QED
      BY <2>2, <3>2 DEF Service!Next
  <2>7. CASE MarkFailed(w) /\ status' = [status EXCEPT ![j] = "failed"]
    <3>1. Msg(w).retry = Limit
      BY <2>7 DEF MarkFailed, AttemptsInv, ExhaustedInv
    <3>2. Tries[j] > Limit
      BY <1>0, <2>2, <3>1, AllTried DEF AttemptsInv
    <3> HIDE DEF j
    <3>3. Service!ReportFailed(j)
      BY <2>1, <2>3, <2>4, <2>7, <3>2 DEF Service!ReportFailed
    <3> QED
      BY <2>2, <3>3 DEF Service!Next
  <2> QED
    BY <1>5, <2>5, <2>6, <2>7 DEF MarkDelivered, MarkFailed, Report
<1>6. ASSUME NEW a \in Admins, ReplayRead(a) PROVE Goal
  <2>1. PICK d \in parked : /\ replays[dlq[d].job] < MaxReplays
                            /\ replays' = [replays EXCEPT ![dlq[d].job] = @ + 1]
    BY <1>6 DEF ReplayRead
  <2> DEFINE j == dlq[d].job
  <2>2. d \in DlqIds /\ j \in Jobs
    BY EntryTypes DEF TypeOK, DlqType, DlqEntry
  <2>3. PICK i \in Ids : i <= cursor /\ stream[i].job = j /\ stream[i].retry = Limit
    BY <2>2 DEF AttemptsInv, ExhaustedInv
  <2>4. Tries[j] > Limit
    BY <1>0, <2>2, <2>3, AllTried DEF AttemptsInv
  <2>5. Tries' = Tries /\ UNCHANGED <<status, mails>>
    BY <1>6, TriesChange DEF ReplayRead, redisVars
  <2> HIDE DEF j
  <2>6. Service!Again(j)
    BY <2>1, <2>4, <2>5 DEF Service!Again, j
  <2> QED
    BY <2>2, <2>6 DEF Service!Next
<1>7. ASSUME NEW w \in Workers, WorkerStep(w), ~ ReadEntry(w), ~ ReadFails(w), ~ SendOk(w),
             ~ SendFails(w), ~ MarkDelivered(w), ~ MarkFailed(w)
      PROVE  UNCHANGED <<cursor, status, mails, replays>>
  BY <1>7 DEF WorkerStep, RunLoop, Process, StopWorker, BeginRead, ReadNothing, DeadLetter,
     Ack, AckRetry, Requeue, redisVars, history
<1>8. ASSUME NEW c \in Containers, Lifecycle(c)
      PROVE  UNCHANGED <<cursor, status, mails, replays>>
  BY <1>8 DEF Lifecycle, Sigterm, Exit, Crash, Restart, redisVars, history
<1>9. ASSUME NEW a \in Admins, Replay(a), ~ ReplayRead(a)
      PROVE  UNCHANGED <<cursor, status, mails, replays>>
  BY <1>9 DEF Replay, ReplayAdd, ReplayDelete, CutReplay, redisVars, history
<1>10. ASSUME \/ \E j \in Jobs : AddJob(j) \/ CutSubmit(j)
              \/ ForeignAdd
              \/ UNCHANGED vars
       PROVE  UNCHANGED <<cursor, status, mails, replays>>
  BY <1>10 DEF AddJob, CutSubmit, ForeignAdd, redisVars, history, vars
<1>11. ASSUME NEW w \in Workers, ReadEntry(w) \/ ReadFails(w) PROVE Goal
  <2>1. UNCHANGED <<status, mails, replays>>
    BY <1>11 DEF ReadEntry, ReadFails, history
  <2>2. CASE cursor' = cursor
    BY <1>1, <2>1, <2>2
  <2>3. CASE cursor' # cursor
    BY <1>3, <2>3, WhoHandsOut
  <2> QED
    BY <2>2, <2>3
<1> HIDE DEF Goal
<1>12. Goal
  BY <1>1, <1>2, <1>4, <1>5, <1>6, <1>7, <1>8, <1>9, <1>10, <1>11 DEF Next, Submission
<1> QED
  BY <1>12 DEF Goal

\* The service keeps the promises of JobService, whatever else fails: whoever
\* submits a job sees at most one mail per attempt, MAX_RETRIES + 1 attempts and
\* one more per replay, delivered only once a mail was accepted, and failed only
\* once all attempts were made (processMessage, replayDLQ, Enqueue).
THEOREM DeliveryImplementsJobService ==
    ASSUME EqualRetries, "resend" \notin Faults
    PROVE  Spec => ImplementsJobService
<1>1. Init => ServiceInv /\ Service!Init
  BY InitService
<1>2. ServiceInv /\ [Next]_vars => ServiceInv'
  BY NextService
<1>3. ServiceInv /\ [Next]_vars => [Service!Next]_(Service!vars)
  BY StepService
<1> QED
  BY <1>1, <1>2, <1>3, PTL DEF Spec, ImplementsJobService, Service!Spec

\* What is proved of JobService in JobServiceProofs then holds of Delivery.
Promise == INSTANCE JobServiceProofs WITH tries <- Tries, again <- replays

\* However many workers, containers, crashes and replays there are: a job is
\* mailed at most once per attempt, handed out at most MAX_RETRIES + 1 times and
\* once per replay, and says "failed" only after all attempts of the limit
\* (processMessage, replayDLQ).
THEOREM DeliveryWithinBudget ==
    ASSUME EqualRetries, "resend" \notin Faults
    PROVE  Spec => [](Service!Budget /\ Service!FailedAfterAll)
<1>1. Init => ServiceInv /\ Promise!Init
  BY InitService DEF Service!Init, Promise!Init
<1>2. ServiceInv /\ [Next]_vars => ServiceInv'
  BY NextService
<1>3. ServiceInv /\ [Next]_vars => [Promise!Next]_(Promise!vars)
  BY StepService
     DEF Service!Next, Service!vars, Service!Accept, Service!Try, Service!Mail,
         Service!ReportDelivered, Service!ReportFailed, Service!Again,
         Promise!Next, Promise!vars, Promise!Accept, Promise!Try, Promise!Mail,
         Promise!ReportDelivered, Promise!ReportFailed, Promise!Again
<1>4. Spec => Promise!Spec
  BY <1>1, <1>2, <1>3, PTL DEF Spec, Promise!Spec
<1>5. Limit \in Nat
  BY LimitOfAll
<1>6. Promise!Spec => []Promise!Budget
  BY <1>5, MaxReplaysAssumption, Promise!WithinBudget
<1>7. Promise!Spec => []Promise!FailedAfterAll
  BY <1>5, MaxReplaysAssumption, Promise!FailedIsExhausted
<1>8. Promise!Budget /\ Promise!FailedAfterAll => Service!Budget /\ Service!FailedAfterAll
  BY DEF Promise!Budget, Promise!FailedAfterAll, Service!Budget, Service!FailedAfterAll
<1> QED
  BY <1>4, <1>6, <1>7, <1>8, PTL

-----------------------------------------------------------------------------
(* Failed means refused.                                                   *)

\* A worker that gave a job up, and whoever reads the row it wrote, may be sure
\* that no attempt of the job's own was mailed.
RefusedInv ==
    /\ \A w \in Workers :
          wpc[w] \in {"deadLetter", "markFailed"} /\ replays[Msg(w).job] = 0
              => mails[Msg(w).job] = 0
    /\ \A j \in Jobs : status[j] = "failed" /\ replays[j] = 0 => mails[j] = 0

\* An attempt under way has not been mailed, nor any before it.
LEMMA TryingUnmailed ==
    ASSUME TypeOK, CoverInv, NEW w \in Workers, wpc[w] = "sending", replays[Msg(w).job] = 0
    PROVE  mails[Msg(w).job] = 0
<1> DEFINE j == Msg(w).job
<1>1. cur[w] \in Ids /\ stream[cur[w]].job = j /\ j \in Jobs
  BY LiveTypes DEF Msg, Live, AtWork
<1>2. cur[w] \in Chances(j)
  BY <1>1 DEF Chances, Trying
<1>3. Cardinality(Chances(j)) \in Nat /\ Cardinality(Chances(j)) # 0
  BY <1>2, FiniteChances, FS_EmptySet
<1>4. /\ Cardinality(Adding(j)) \in Nat /\ mails[j] \in Nat
      /\ mails[j] + Cardinality(Chances(j)) + Cardinality(Adding(j)) <= Allowed(j)
  BY <1>1, FS_CardinalityType DEF CoverInv, TypeOK, RowType
<1>5. Allowed(j) \in 0 .. 1
  BY DEF Allowed
<1> QED
  BY <1>3, <1>4, <1>5

\* Who gives a job up, in this step or before.
LEMMA GivingUp ==
    ASSUME TypeOK, [Next]_vars, NEW w \in Workers, wpc'[w] \in {"deadLetter", "markFailed"}
    PROVE  /\ wpc[w] \in {"sending", "deadLetter", "markFailed"}
           /\ Msg(w)' = Msg(w) /\ Msg(w).job \in Jobs
           /\ wpc[w] = "sending" => SendFails(w)
<1>1. /\ wpc[w] \in {"sending", "deadLetter", "markFailed"}
      /\ cur'[w] = cur[w]
      /\ wpc[w] = "sending" => SendFails(w)
  <2>1. ASSUME NEW v \in Workers, WorkerStep(v)
        PROVE  /\ wpc[w] \in {"sending", "deadLetter", "markFailed"}
               /\ cur'[w] = cur[w]
               /\ wpc[w] = "sending" => SendFails(w)
    BY <2>1 DEF WorkerStep, RunLoop, Process, StopWorker, BeginRead, ReadEntry, ReadNothing,
       ReadFails, SendOk, SendFails, MarkDelivered, DeadLetter, MarkFailed, Ack, AckRetry,
       Requeue, Goto, TypeOK, WorkerType
  <2>2. ASSUME NEW c \in Containers, Lifecycle(c)
        PROVE  wpc'[w] = wpc[w] /\ cur'[w] = cur[w]
    BY <2>2 DEF Lifecycle, Sigterm, Exit, Crash, Restart, workerVars, TypeOK, WorkerType
  <2>3. ASSUME \/ \E k \in Jobs : Submission(k)
               \/ \E a \in Admins : Replay(a)
               \/ ForeignAdd
               \/ UNCHANGED vars
        PROVE  wpc'[w] = wpc[w] /\ cur'[w] = cur[w]
    BY <2>3 DEF Submission, CreateRow, AddJob, CutSubmit, Replay, ReplayRead, ReplayAdd,
       ReplayDelete, CutReplay, ForeignAdd, workerVars, vars
  <2> QED
    BY <2>1, <2>2, <2>3 DEF Next
<1>2. cur[w] \in Ids /\ Msg(w).job \in Jobs
  BY <1>1, LiveTypes DEF Live, AtWork, Msg
<1>3. stream'[cur[w]] = stream[cur[w]]
  BY <1>2, OldEntries
<1> QED
  BY <1>1, <1>2, <1>3 DEF Msg

\* A mail of a job that nobody replayed ends with the worker that holds it.
LEMMA MailedByHolder ==
    ASSUME TypeOK, OneCopyInv, [Next]_vars, "quit" \notin Faults,
           NEW w \in Workers, wpc[w] \in Live, replays[Msg(w).job] = 0,
           mails'[Msg(w).job] # mails[Msg(w).job]
    PROVE  SendOk(w)
<1>1. cur[w] \in Ids /\ Msg(w).job \in Jobs
  BY LiveTypes
<1>2. PICK v \in Workers : SendOk(v) /\ Msg(v).job = Msg(w).job /\ wpc[v] \in Live
  BY <1>1, WhoMails
<1>3. cur[v] \in Ids /\ cur[v] # 0 /\ stream[cur[v]].job = Msg(w).job /\ Active(cur[v])
  BY <1>2, LiveTypes DEF Msg, Active
<1>4. cur[v] = cur[w]
  BY <1>3, OnlyActive
<1> QED
  BY <1>2, <1>3, <1>4 DEF OneCopyInv, HoldersInv

LEMMA NextRefused ==
    ASSUME TypeOK, OneCopyInv, SettledInv, CoverInv, RefusedInv, [Next]_vars,
           "quit" \notin Faults
    PROVE  RefusedInv'
<1>1. ASSUME NEW w \in Workers, wpc'[w] \in {"deadLetter", "markFailed"},
             replays'[Msg(w)'.job] = 0
      PROVE  mails'[Msg(w)'.job] = 0
  <2>1. /\ wpc[w] \in {"sending", "deadLetter", "markFailed"} /\ wpc[w] \in Live
        /\ Msg(w)' = Msg(w) /\ Msg(w).job \in Jobs
    BY <1>1, GivingUp DEF Live, AtWork
  <2>2. replays[Msg(w).job] = 0
    BY <1>1, <2>1, Backwards
  <2>3. mails[Msg(w).job] = 0
    BY <2>1, <2>2, TryingUnmailed DEF RefusedInv
  <2>4. ~ SendOk(w)
    BY <1>1 DEF SendOk, Goto, TypeOK, WorkerType
  <2> QED
    BY <2>1, <2>2, <2>3, <2>4, MailedByHolder
<1>2. ASSUME NEW j \in Jobs, status'[j] = "failed", replays'[j] = 0
      PROVE  mails'[j] = 0
  <2>1. replays[j] = 0
    BY <1>2, Backwards
  <2>2. CASE status[j] = "failed"
    <3>1. ASSUME NEW w \in Workers, wpc[w] \in Live, Msg(w).job = j PROVE FALSE
      BY <2>1, <2>2, <3>1, LiveUnsettled
    <3>2. mails'[j] = mails[j]
      BY <3>1, WhoMails
    <3> QED
      BY <2>1, <2>2, <3>2 DEF RefusedInv
  <2>3. CASE status[j] # "failed"
    <3>1. PICK w \in Workers : MarkFailed(w) /\ Msg(w).job = j
      BY <1>2, <2>3, WhoWrites
    <3>2. wpc[w] = "markFailed" /\ mails' = mails
      BY <3>1 DEF MarkFailed, history
    <3> QED
      BY <2>1, <3>1, <3>2 DEF RefusedInv
  <2> QED
    BY <2>2, <2>3
<1> QED
  BY <1>1, <1>2 DEF RefusedInv

\* Without resent XADDs and without errors for mails that were accepted: a job that
\* was not replayed and says "failed" was handed out MAX_RETRIES + 1 times, no more
\* and no less, and no attempt was mailed, whatever crashes, drains or fails between
\* the last refusal and the row (worker.go:107-137).
THEOREM FailuresWereRefused ==
    ASSUME EqualRetries, "resend" \notin Faults, "quit" \notin Faults
    PROVE  Spec => []FailedWasRefused
<1> DEFINE Inv == ServiceInv /\ CoverInv /\ RefusedInv
<1>1. Init => Inv
  <2>1. Init => CoverInv
    BY InitCover
  <2>2. Init => RefusedInv
    BY DEF Init, RefusedInv
  <2> QED
    BY <2>1, <2>2, InitService
<1>2. Inv /\ [Next]_vars => Inv'
  <2> SUFFICES ASSUME Inv, [Next]_vars PROVE Inv'
    OBVIOUS
  <2>1. ServiceInv'
    BY NextService
  <2>2. CoverInv'
    BY NextCover DEF ServiceInv, OneCopyInv
  <2>3. RefusedInv'
    BY NextRefused DEF ServiceInv
  <2> QED
    BY <2>1, <2>2, <2>3
<1>3. Inv /\ Service!Budget /\ Service!FailedAfterAll => FailedWasRefused
  <2> SUFFICES ASSUME Inv, Service!Budget, Service!FailedAfterAll,
                      NEW j \in Jobs, status[j] = "failed", replays[j] = 0
               PROVE  Tries[j] = Limit + 1 /\ mails[j] = 0
    BY DEF FailedWasRefused
  <2>1. mails[j] = 0
    BY DEF RefusedInv
  <2>2. Tries[j] <= Limit + 1 + replays[j] /\ Tries[j] >= Limit + 1
    BY DEF Service!Budget, Service!FailedAfterAll
  <2>3. Limit \in Nat /\ Tries[j] \in Nat
    BY LimitOfAll, FiniteEntries DEF ServiceInv, Tries, Handed
  <2> QED
    BY <2>1, <2>2, <2>3
<1>4. Spec => [](Service!Budget /\ Service!FailedAfterAll)
  BY DeliveryWithinBudget
<1> HIDE DEF Inv
<1> QED
  BY <1>1, <1>2, <1>3, <1>4, PTL DEF Spec

=============================================================================
