------------------------------ MODULE Delivery ------------------------------
(***************************************************************************)
(* The life of an email job: the API handler that stores it and puts it on *)
(* the Redis stream, the workers of every container that read the stream   *)
(* as one consumer group, the dead-letter stream (DLQ), the administrators *)
(* that replay its entries, and the Postgres row that reports the job.     *)
(*                                                                         *)
(* Every Redis command, every SQL statement and every SMTP exchange is a   *)
(* step of its own: handlers and workers of all containers interleave      *)
(* between them.  Whatever may go wrong is listed in Faults, so that a     *)
(* property can say under which faults it is promised:                     *)
(*   "crash"    a container is killed and its goroutines vanish            *)
(*   "sigterm"  main cancels the workers' context, waits for them, exits   *)
(*   "redis"    a Redis command fails, before or after it took effect      *)
(*   "pg"       a SQL statement fails, before or after it took effect      *)
(*   "quit"     the SMTP server took the mail but Send returns an error    *)
(*   "resend"   the Redis client repeats an XADD whose reply was lost      *)
(*   "cut"      the HTTP client goes away, cancelling the handler's context*)
(*   "foreign"  some other program adds an entry without valid recipients  *)
(***************************************************************************)
EXTENDS Naturals, Sequences, FiniteSets

CONSTANTS
    Jobs,        \* the jobs that clients may submit
    NoJob,       \* stands for the job of a malformed stream entry
    Containers,  \* processes running cmd/notifier
    Workers,     \* worker goroutines of all containers
    Admins,      \* replay requests that may be in flight at once
    Host,        \* the container running each worker, handling each job's
                 \* submission and each replay request
    MaxRetries,  \* MAX_RETRIES of each container
    MaxReplays,  \* bound: replay requests per job
    Faults       \* what may go wrong

FaultKinds ==
    {"crash", "sigterm", "redis", "pg", "quit", "resend", "cut", "foreign"}

ASSUME NoJobAssumption == NoJob \notin Jobs
ASSUME HostAssumption == Host \in [Workers \cup Jobs \cup Admins -> Containers]
ASSUME MaxRetriesAssumption == MaxRetries \in [Containers -> Nat]
ASSUME MaxReplaysAssumption == MaxReplays \in Nat
ASSUME FaultsAssumption == Faults \subseteq FaultKinds

VARIABLES
    status,   \* the job's row in Postgres: its status, or "none"
    api,      \* where the handler that submits the job stands
    stream,   \* the job stream: only ever appended to
    cursor,   \* last-delivered ID of the consumer group
    pel,      \* its Pending Entries List: delivered but not acknowledged
    dlq,      \* the DLQ: everything ever added to it ...
    parked,   \* ... and the entries that were not deleted from it since
    wpc,      \* where each worker stands in Run and processMessage
    cur,      \* the stream entry each worker works on
    mode,     \* state of each container
    apc,      \* where each replay request stands
    hold,     \* the DLQ entry it read
    mails,    \* history: how often the mail server accepted the job's mail
    replays,  \* history: replay requests made for the job
    dropped   \* history: jobs a copy of which was removed but not re-added

rowVars    == <<status>>
redisVars  == <<stream, cursor, pel, dlq, parked>>
workerVars == <<wpc, cur>>
adminVars  == <<apc, hold>>
history    == <<mails, replays, dropped>>
vars == <<status, api, stream, cursor, pel, dlq, parked, wpc, cur, mode,
          apc, hold, mails, replays, dropped>>

-----------------------------------------------------------------------------
(* Data.                                                                   *)

Status == {"none", "pending", "delivered", "failed"}
ApiState == {"idle", "created", "queued", "error", "cut"}
WorkerState == {"top", "reading", "sending", "markDelivered", "deadLetter",
                "markFailed", "ack", "ackRetry", "requeue", "stopped"}
AdminState == {"idle", "add", "del"}
Mode == {"up", "draining", "down"}

\* A stream entry: the fields of the job that steer its delivery.
Entry == [job : Jobs \cup {NoJob}, retry : Nat, max : Nat]
DlqEntry == [job : Jobs, retry : Nat, max : Nat]

Ids == 1 .. Len(stream)
DlqIds == 1 .. Len(dlq)
Unread == {i \in Ids : i > cursor}

\* processMessage trusts max_retries of the entry only if it is positive.
EffMax(w, e) == IF e.max > 0 THEN e.max ELSE MaxRetries[Host[w]]

\* What an XADD can do: how many copies it leaves, and whether it says so.
Added(n, ok) == [copies |-> n, ok |-> ok]
XAdd ==
    {Added(1, TRUE)}
        \cup (IF "redis" \in Faults THEN {Added(0, FALSE), Added(1, FALSE)} ELSE {})
        \cup (IF "resend" \in Faults THEN {Added(2, TRUE)} ELSE {})

\* A worker's commands all fail once its container is draining: they are
\* given the context that main cancelled.
Cancelled(w) == mode[Host[w]] = "draining"
WorkerXAdd(w) == IF Cancelled(w) THEN {Added(0, FALSE)} ELSE XAdd

AddTo(log, n, e) ==
    CASE n = 0 -> log
      [] n = 1 -> Append(log, e)
      [] n = 2 -> Append(Append(log, e), e)

\* The statements and commands of a worker that may be lost.
MayFail(w, fault) == Cancelled(w) \/ fault \in Faults
MayWork(w) == ~Cancelled(w)

-----------------------------------------------------------------------------
Init ==
    /\ status = [j \in Jobs |-> "none"]
    /\ api = [j \in Jobs |-> "idle"]
    /\ stream = <<>> /\ cursor = 0 /\ pel = {}
    /\ dlq = <<>> /\ parked = {}
    /\ wpc = [w \in Workers |-> "top"]
    /\ cur = [w \in Workers |-> 0]
    /\ mode = [c \in Containers |-> "up"]
    /\ apc = [a \in Admins |-> "idle"]
    /\ hold = [a \in Admins |-> 0]
    /\ mails = [j \in Jobs |-> 0]
    /\ replays = [j \in Jobs |-> 0]
    /\ dropped = {}

-----------------------------------------------------------------------------
(* POST /send.  The HTTP server is not stopped while workers drain.        *)

Serving(x) == mode[Host[x]] # "down"

\* Enqueue: insert the row.  The insert may fail, and may then have happened.
CreateRow(j) ==
    /\ Serving(j) /\ api[j] = "idle"
    /\ \/ /\ status' = [status EXCEPT ![j] = "pending"]
          /\ \/ api' = [api EXCEPT ![j] = "created"]
             \/ "pg" \in Faults /\ api' = [api EXCEPT ![j] = "error"]
       \/ /\ "pg" \in Faults
          /\ api' = [api EXCEPT ![j] = "error"]
          /\ UNCHANGED status
    /\ UNCHANGED <<redisVars, workerVars, mode, adminVars, history>>

\* Mutant: the entry is added before the row exists.
AddJobBeforeRow(j) ==
    /\ Serving(j) /\ api[j] = "idle"
    /\ stream' = AddTo(stream, 1, [job |-> j, retry |-> 0, max |-> MaxRetries[Host[j]]])
    /\ api' = [api EXCEPT ![j] = "queued"]
    /\ UNCHANGED <<status, cursor, pel, dlq, parked, workerVars, mode,
                   adminVars, history>>

\* Enqueue: add the job to the stream and answer "queued", or an error.
AddJob(j) ==
    /\ api[j] = "created"
    /\ \E r \in XAdd :
          /\ stream' = AddTo(stream, r.copies,
                [job |-> j, retry |-> 0, max |-> MaxRetries[Host[j]]])
          /\ api' = [api EXCEPT ![j] = IF r.ok THEN "queued" ELSE "error"]
    /\ UNCHANGED <<status, cursor, pel, dlq, parked, workerVars, mode,
                   adminVars, history>>

\* The client disconnects between the two: the row stays, nothing is queued.
CutSubmit(j) ==
    /\ "cut" \in Faults /\ api[j] = "created"
    /\ api' = [api EXCEPT ![j] = "cut"]
    /\ UNCHANGED <<status, redisVars, workerVars, mode, adminVars, history>>

\* An entry the service did not write (bound: one).
ForeignAdd ==
    /\ "foreign" \in Faults
    /\ \A i \in Ids : stream[i].job # NoJob
    /\ stream' = Append(stream, [job |-> NoJob, retry |-> 0, max |-> 0])
    /\ UNCHANGED <<status, api, cursor, pel, dlq, parked, workerVars, mode,
                   adminVars, history>>

-----------------------------------------------------------------------------
(* Worker.Run: the loop around XREADGROUP.                                 *)

\* ctx.Done() is looked at between two reads only.
StopWorker(w) ==
    /\ wpc[w] = "top" /\ Cancelled(w)
    /\ wpc' = [wpc EXCEPT ![w] = "stopped"]
    /\ UNCHANGED <<status, api, redisVars, cur, mode, adminVars, history>>

BeginRead(w) ==
    /\ wpc[w] = "top" /\ ~Cancelled(w)
    /\ wpc' = [wpc EXCEPT ![w] = "reading"]
    /\ UNCHANGED <<status, api, redisVars, cur, mode, adminVars, history>>

\* Mutant: XREADGROUP with NOACK, nothing becomes pending.
ReadEntryNoAck(w) ==
    /\ wpc[w] = "reading" /\ cursor < Len(stream)
    /\ cursor' = cursor + 1
    /\ cur' = [cur EXCEPT ![w] = cursor + 1]
    /\ wpc' = [wpc EXCEPT ![w] = "sending"]
    /\ UNCHANGED <<status, api, stream, pel, dlq, parked, mode, adminVars, history>>

\* Mutant: the worker reads without moving the group's cursor (XREAD).
ReadEntryNoAdvance(w) ==
    /\ wpc[w] = "reading" /\ cursor < Len(stream)
    /\ pel' = pel \cup {cursor + 1}
    /\ cur' = [cur EXCEPT ![w] = cursor + 1]
    /\ wpc' = [wpc EXCEPT ![w] = "sending"]
    /\ UNCHANGED <<status, api, stream, cursor, dlq, parked, mode, adminVars, history>>

\* Mutant: a malformed entry is skipped without an acknowledgement.
ReadEntrySkip(w) ==
    /\ wpc[w] = "reading" /\ cursor < Len(stream)
    /\ cursor' = cursor + 1
    /\ pel' = pel \cup {cursor + 1}
    /\ IF stream[cursor + 1].job = NoJob
       THEN wpc' = [wpc EXCEPT ![w] = "top"] /\ UNCHANGED cur
       ELSE /\ wpc' = [wpc EXCEPT ![w] = "sending"]
            /\ cur' = [cur EXCEPT ![w] = cursor + 1]
    /\ UNCHANGED <<status, api, stream, dlq, parked, mode, adminVars, history>>

\* The group hands the next entry to this consumer.  A read that was blocked
\* in Redis when the context was cancelled still gets its answer.
ReadEntry(w) ==
    /\ wpc[w] = "reading" /\ cursor < Len(stream)
    /\ cursor' = cursor + 1
    /\ pel' = pel \cup {cursor + 1}
    /\ cur' = [cur EXCEPT ![w] = cursor + 1]
    /\ wpc' = [wpc EXCEPT ![w] = IF stream[cursor + 1].job = NoJob
                                 THEN "ack" ELSE "sending"]
    /\ UNCHANGED <<status, api, stream, dlq, parked, mode, adminVars, history>>

\* The five seconds pass without an entry.
ReadNothing(w) ==
    /\ wpc[w] = "reading" /\ cursor = Len(stream)
    /\ wpc' = [wpc EXCEPT ![w] = "top"]
    /\ UNCHANGED <<status, api, redisVars, cur, mode, adminVars, history>>

\* The read fails; the group may have handed the entry out all the same.
ReadFails(w) ==
    /\ wpc[w] = "reading"
    /\ wpc' = [wpc EXCEPT ![w] = "top"]
    /\ \/ MayFail(w, "redis") /\ UNCHANGED <<cursor, pel>>
       \/ /\ "redis" \in Faults /\ cursor < Len(stream)
          /\ cursor' = cursor + 1
          /\ pel' = pel \cup {cursor + 1}
    /\ UNCHANGED <<status, api, stream, dlq, parked, cur, mode, adminVars,
                   history>>

-----------------------------------------------------------------------------
(* Worker.processMessage.                                                  *)

Msg(w) == stream[cur[w]]

Goto(w, pc) == wpc' = [wpc EXCEPT ![w] = pc]

\* The mail server accepts the message and Send returns nil.
SendOk(w) ==
    /\ wpc[w] = "sending"
    /\ mails' = [mails EXCEPT ![Msg(w).job] = @ + 1]
    /\ Goto(w, "markDelivered")
    /\ UNCHANGED <<status, api, redisVars, cur, mode, adminVars, replays,
                   dropped>>

\* Mutants: where processMessage would go after a failed Send if it compared
\* with > instead of >=, or compared the next retry, if sendToDLQ or MarkFailed
\* were forgotten, or if the error were shadowed.
FailTo(w, pc) ==
    /\ wpc[w] = "sending"
    /\ Goto(w, pc)
    /\ \/ UNCHANGED mails
       \/ "quit" \in Faults /\ mails' = [mails EXCEPT ![Msg(w).job] = @ + 1]
    /\ UNCHANGED <<status, api, redisVars, cur, mode, adminVars, replays,
                   dropped>>

SendFailsOneMore(w) ==
    FailTo(w, IF Msg(w).retry > EffMax(w, Msg(w)) THEN "deadLetter" ELSE "ackRetry")
SendFailsOneLess(w) ==
    FailTo(w, IF Msg(w).retry + 1 >= EffMax(w, Msg(w)) THEN "deadLetter" ELSE "ackRetry")
SendFailsNoDlq(w) ==
    FailTo(w, IF Msg(w).retry >= EffMax(w, Msg(w)) THEN "markFailed" ELSE "ackRetry")
SendFailsSilently(w) ==
    FailTo(w, IF Msg(w).retry >= EffMax(w, Msg(w)) THEN "ack" ELSE "ackRetry")
SendFailsShadowed(w) == FailTo(w, "markDelivered")

\* Send returns an error.  The entry has been retried often enough, or not.
SendFails(w) ==
    /\ wpc[w] = "sending"
    /\ Goto(w, IF Msg(w).retry >= EffMax(w, Msg(w)) THEN "deadLetter"
                                                    ELSE "ackRetry")
    /\ \/ UNCHANGED mails
       \/ "quit" \in Faults /\ mails' = [mails EXCEPT ![Msg(w).job] = @ + 1]
    /\ UNCHANGED <<status, api, redisVars, cur, mode, adminVars, replays,
                   dropped>>

\* An UPDATE of the job's row; its error is only logged.
Report(w, s) ==
    \/ MayWork(w) /\ status' = [status EXCEPT ![Msg(w).job] = s]
    \/ MayFail(w, "pg") /\ UNCHANGED status

\* Mutants: the return after the acknowledgement is forgotten, or a job whose
\* row could not be updated is retried.
MarkDeliveredNoReturn(w) ==
    /\ wpc[w] = "markDelivered"
    /\ Report(w, "delivered")
    /\ Goto(w, "ackRetry")
    /\ UNCHANGED <<api, redisVars, cur, mode, adminVars, history>>

MarkDeliveredOrRetry(w) ==
    /\ wpc[w] = "markDelivered"
    /\ \/ /\ MayWork(w)
          /\ status' = [status EXCEPT ![Msg(w).job] = "delivered"]
          /\ Goto(w, "ack")
       \/ /\ MayFail(w, "pg") /\ UNCHANGED status
          /\ Goto(w, "ackRetry")
    /\ UNCHANGED <<api, redisVars, cur, mode, adminVars, history>>

MarkDelivered(w) ==
    /\ wpc[w] = "markDelivered"
    /\ Report(w, "delivered")
    /\ Goto(w, "ack")
    /\ UNCHANGED <<api, redisVars, cur, mode, adminVars, history>>

\* sendToDLQ: its error is only logged, and the job goes on to be marked
\* failed and acknowledged.
DeadLetter(w) ==
    /\ wpc[w] = "deadLetter"
    /\ \E r \in WorkerXAdd(w) :
          /\ dlq' = AddTo(dlq, r.copies, Msg(w))
          /\ parked' = parked \cup (Len(dlq) + 1 .. Len(dlq) + r.copies)
          /\ dropped' = IF r.copies = 0 THEN dropped \cup {Msg(w).job} ELSE dropped
    /\ Goto(w, "markFailed")
    /\ UNCHANGED <<status, api, stream, cursor, pel, cur, mode, adminVars,
                   mails, replays>>

MarkFailed(w) ==
    /\ wpc[w] = "markFailed"
    /\ Report(w, "failed")
    /\ Goto(w, "ack")
    /\ UNCHANGED <<api, redisVars, cur, mode, adminVars, history>>

\* XACK; its error is only logged.
AckEntry(w) ==
    \/ MayWork(w) /\ pel' = pel \ {cur[w]}
    \/ MayFail(w, "redis") /\ UNCHANGED pel

Ack(w) ==
    /\ wpc[w] = "ack"
    /\ AckEntry(w)
    /\ Goto(w, "top")
    /\ cur' = [cur EXCEPT ![w] = 0]
    /\ UNCHANGED <<status, api, stream, cursor, dlq, parked, mode, adminVars,
                   history>>

\* An entry to be retried is acknowledged before its successor is added.
AckRetry(w) ==
    /\ wpc[w] = "ackRetry"
    /\ AckEntry(w)
    /\ Goto(w, "requeue")
    /\ UNCHANGED <<status, api, stream, cursor, dlq, parked, cur, mode,
                   adminVars, history>>

\* Mutant: the retry count is copied, not incremented.
RequeueSameRetry(w) ==
    /\ wpc[w] = "requeue"
    /\ stream' = AddTo(stream, 1, Msg(w))
    /\ Goto(w, "top")
    /\ cur' = [cur EXCEPT ![w] = 0]
    /\ UNCHANGED <<status, api, cursor, pel, dlq, parked, mode, adminVars, history>>

\* Re-enqueue with one retry more; the error is only logged.
Requeue(w) ==
    /\ wpc[w] = "requeue"
    /\ \E r \in WorkerXAdd(w) :
          /\ stream' = AddTo(stream, r.copies,
                [job |-> Msg(w).job, retry |-> Msg(w).retry + 1,
                 max |-> EffMax(w, Msg(w))])
          /\ dropped' = IF r.copies = 0 THEN dropped \cup {Msg(w).job} ELSE dropped
    /\ Goto(w, "top")
    /\ cur' = [cur EXCEPT ![w] = 0]
    /\ UNCHANGED <<status, api, cursor, pel, dlq, parked, mode, adminVars,
                   mails, replays>>

-----------------------------------------------------------------------------
(* POST /admin/dlq/{id}/replay.                                            *)

Held(a) == dlq[hold[a]]

\* Mutant: the entry is deleted before it is added again.
ReplayReadDeletes(a) ==
    /\ Serving(a) /\ apc[a] = "idle"
    /\ \E d \in parked :
          /\ replays[dlq[d].job] < MaxReplays
          /\ replays' = [replays EXCEPT ![dlq[d].job] = @ + 1]
          /\ hold' = [hold EXCEPT ![a] = d]
          /\ parked' = parked \ {d}
    /\ apc' = [apc EXCEPT ![a] = "add"]
    /\ UNCHANGED <<status, api, stream, cursor, pel, dlq, workerVars, mode,
                   mails, dropped>>

\* XRANGE finds the entry (bound: MaxReplays requests per job).
ReplayRead(a) ==
    /\ Serving(a) /\ apc[a] = "idle"
    /\ \E d \in parked :
          /\ replays[dlq[d].job] < MaxReplays
          /\ replays' = [replays EXCEPT ![dlq[d].job] = @ + 1]
          /\ hold' = [hold EXCEPT ![a] = d]
    /\ apc' = [apc EXCEPT ![a] = "add"]
    /\ UNCHANGED <<status, api, redisVars, workerVars, mode, mails, dropped>>

\* The entry goes back to the job stream as it is: it keeps its retry count.
ReplayAdd(a) ==
    /\ apc[a] = "add"
    /\ \E r \in XAdd :
          /\ stream' = AddTo(stream, r.copies, Held(a))
          /\ IF r.ok THEN apc' = [apc EXCEPT ![a] = "del"] /\ UNCHANGED hold
                     ELSE /\ apc' = [apc EXCEPT ![a] = "idle"]
                          /\ hold' = [hold EXCEPT ![a] = 0]
    /\ UNCHANGED <<status, api, cursor, pel, dlq, parked, workerVars, mode,
                   history>>

\* XDEL; its error is ignored.
ReplayDelete(a) ==
    /\ apc[a] = "del"
    /\ \/ parked' = parked \ {hold[a]}
       \/ "redis" \in Faults /\ UNCHANGED parked
    /\ apc' = [apc EXCEPT ![a] = "idle"]
    /\ hold' = [hold EXCEPT ![a] = 0]
    /\ UNCHANGED <<status, api, stream, cursor, pel, dlq, workerVars, mode,
                   history>>

\* The administrator's browser disconnects: the rest of the handler fails.
CutReplay(a) ==
    /\ "cut" \in Faults /\ apc[a] # "idle"
    /\ apc' = [apc EXCEPT ![a] = "idle"]
    /\ hold' = [hold EXCEPT ![a] = 0]
    /\ UNCHANGED <<status, api, redisVars, workerVars, mode, history>>

-----------------------------------------------------------------------------
(* Containers.                                                             *)

Here(S, c) == {x \in S : Host[x] = c}

\* The handlers of a container end with it.
KillHandlers(c) ==
    /\ api' = [j \in Jobs |-> IF Host[j] = c /\ api[j] = "created"
                              THEN "cut" ELSE api[j]]
    /\ apc' = [a \in Admins |-> IF Host[a] = c THEN "idle" ELSE apc[a]]
    /\ hold' = [a \in Admins |-> IF Host[a] = c THEN 0 ELSE hold[a]]

\* main: the signal arrives and the workers' context is cancelled.
Sigterm(c) ==
    /\ "sigterm" \in Faults /\ mode[c] = "up"
    /\ mode' = [mode EXCEPT ![c] = "draining"]
    /\ UNCHANGED <<status, api, redisVars, workerVars, adminVars, history>>

\* main: wg.Wait() returns when all workers stopped, and the process ends.
Exit(c) ==
    /\ mode[c] = "draining"
    /\ \A w \in Here(Workers, c) : wpc[w] = "stopped"
    /\ mode' = [mode EXCEPT ![c] = "down"]
    /\ KillHandlers(c)
    /\ UNCHANGED <<status, redisVars, workerVars, history>>

\* The container is killed.  A job whose entry is acknowledged and whose
\* successor is not yet added exists in the worker's memory alone.
Crash(c) ==
    /\ "crash" \in Faults /\ mode[c] # "down"
    /\ mode' = [mode EXCEPT ![c] = "down"]
    /\ KillHandlers(c)
    /\ dropped' = dropped \cup
          {Msg(w).job : w \in {x \in Here(Workers, c) : wpc[x] = "requeue"}}
    /\ wpc' = [w \in Workers |-> IF Host[w] = c THEN "stopped" ELSE wpc[w]]
    /\ cur' = [w \in Workers |-> IF Host[w] = c THEN 0 ELSE cur[w]]
    /\ UNCHANGED <<status, redisVars, mails, replays>>

\* The orchestrator starts the container again, under the same name.
Restart(c) ==
    /\ mode[c] = "down"
    /\ mode' = [mode EXCEPT ![c] = "up"]
    /\ wpc' = [w \in Workers |-> IF Host[w] = c THEN "top" ELSE wpc[w]]
    /\ UNCHANGED <<status, api, redisVars, cur, adminVars, history>>

-----------------------------------------------------------------------------
Submission(j) == CreateRow(j) \/ AddJob(j) \/ CutSubmit(j)

RunLoop(w) == StopWorker(w) \/ BeginRead(w) \/ ReadEntry(w) \/ ReadNothing(w)
                \/ ReadFails(w)

Process(w) == SendOk(w) \/ SendFails(w) \/ MarkDelivered(w) \/ DeadLetter(w)
                \/ MarkFailed(w) \/ Ack(w) \/ AckRetry(w) \/ Requeue(w)

WorkerStep(w) == RunLoop(w) \/ Process(w)

Replay(a) == ReplayRead(a) \/ ReplayAdd(a) \/ ReplayDelete(a) \/ CutReplay(a)

Lifecycle(c) == Sigterm(c) \/ Exit(c) \/ Crash(c) \/ Restart(c)

Next ==
    \/ \E j \in Jobs : Submission(j)
    \/ \E w \in Workers : WorkerStep(w)
    \/ \E a \in Admins : Replay(a)
    \/ \E c \in Containers : Lifecycle(c)
    \/ ForeignAdd

Spec == Init /\ [][Next]_vars

\* Goroutines are scheduled, commands and mail exchanges return, and a
\* container that stopped is restarted by its orchestrator.  Nobody has to
\* submit a job or replay one, and no fault has to happen.
Fairness ==
    /\ \A w \in Workers : WF_vars(WorkerStep(w))
    /\ \A j \in Jobs : WF_vars(AddJob(j))
    /\ \A c \in Containers : WF_vars(Exit(c)) /\ WF_vars(Restart(c))

FairSpec == Spec /\ Fairness

-----------------------------------------------------------------------------
(* Type invariant.                                                         *)

AtWork == {"sending", "markDelivered", "deadLetter", "markFailed", "ack",
           "ackRetry", "requeue"}

RowType ==
    /\ status \in [Jobs -> Status]
    /\ api \in [Jobs -> ApiState]
    /\ mode \in [Containers -> Mode]
    /\ mails \in [Jobs -> Nat]
    /\ dropped \subseteq Jobs

StreamType ==
    /\ stream \in Seq(Entry)
    /\ cursor \in 0 .. Len(stream)
    /\ pel \subseteq 1 .. cursor

DlqType ==
    /\ dlq \in Seq(DlqEntry)
    /\ parked \subseteq DlqIds

WorkerType ==
    /\ wpc \in [Workers -> WorkerState]
    /\ cur \in [Workers -> 0 .. cursor]
    /\ \A w \in Workers : cur[w] # 0 <=> wpc[w] \in AtWork
    /\ \A w \in Workers : wpc[w] \in AtWork \ {"ack"} => Msg(w).job \in Jobs
    /\ \A w \in Workers : mode[Host[w]] = "down" => wpc[w] = "stopped"

ReplayType ==
    /\ apc \in [Admins -> AdminState]
    /\ hold \in [Admins -> 0 .. Len(dlq)]
    /\ \A a \in Admins : hold[a] # 0 <=> apc[a] # "idle"
    /\ replays \in [Jobs -> Nat]

\* Every variable has its type; the group never gets ahead of the stream, only
\* what was handed out is pending, and a worker or a replay request holds an
\* entry exactly while it works on one (the msg of processMessage, the entries
\* of replayDLQ).  A malformed entry is only ever acknowledged.
TypeOK == RowType /\ StreamType /\ DlqType /\ WorkerType /\ ReplayType

-----------------------------------------------------------------------------
(* Where a job is.                                                         *)

\* An entry still to be processed, or pending and not yet dealt with: a worker
\* that has put it on the DLQ or mailed it is only left to acknowledge it.
Undecided(i) ==
    \/ i > cursor
    \/ i \in pel /\ \A w \in Workers :
                        cur[w] = i => wpc[w] \notin {"markFailed", "ack"}

InStream(j) == \E i \in Ids : stream[i].job = j /\ Undecided(i)
InMemory(j) == \E w \in Workers : wpc[w] = "requeue" /\ Msg(w).job = j
InDlqBeyond(j, d) == \E p \in parked : p > d /\ dlq[p].job = j

\* A copy of the job exists, not counting the DLQ entries up to d.
SafeBeyond(j, d) == InStream(j) \/ InMemory(j) \/ InDlqBeyond(j, d)
Safe(j) == SafeBeyond(j, 0)

Accounted(j, d) == mails[j] > 0 \/ j \in dropped \/ SafeBeyond(j, d)

-----------------------------------------------------------------------------
(* Safety.                                                                 *)

\* Only two steps of the code can lose a job that was answered "queued": an
\* acknowledged retry that was not re-added, and a DLQ entry that was not
\* written.  But for these it is mailed, or a copy of it is left in the stream, the
\* DLQ or a worker's memory (worker.go:128-162, module_admin.go:97-121).  An entry
\* that is pending counts as left even if its worker is gone and nobody will ever
\* read it: that is Settles.
NothingElseLost == \A j \in Jobs : api[j] = "queued" => Accounted(j, 0)

\* The same without the two steps: a queued job is mailed or a copy of it is left
\* ("Graceful shutdown without data loss", discussion-statelessness.md:189).
NothingLost ==
    \A j \in Jobs : api[j] = "queued" /\ mails[j] = 0 => Safe(j)

\* GET /jobs/{id} says "delivered" only of a job the mail server accepted.
DeliveredTruthful ==
    \A j \in Jobs : status[j] = "delivered" => mails[j] > 0

\* Whatever is on the stream or the DLQ has a row to report on: the row is
\* inserted before the entry is added (dispatch.go:42-71).
RowBeforeEntry ==
    /\ \A i \in Ids : stream[i].job \in Jobs => status[stream[i].job] # "none"
    /\ \A d \in DlqIds : status[dlq[d].job] # "none"

\* A job that was never replayed has its stream entries in the order of their
\* retries, no two of the same retry and none past the limit it carries: no two
\* workers, in whatever containers, ever run the same attempt (worker.go:128-157).
UniqueGenerations ==
    /\ \A i \in Ids : stream[i].retry <= stream[i].max
    /\ \A i1, i2 \in Ids :
          /\ i1 < i2
          /\ stream[i1].job = stream[i2].job
          /\ stream[i1].job \in Jobs /\ replays[stream[i1].job] = 0
          => stream[i1].retry < stream[i2].retry

\* A job marked failed for good is on the DLQ for an administrator to see,
\* unless the DLQ could not be written.
FailedIsParked ==
    \A j \in Jobs : status[j] = "failed" /\ replays[j] = 0
                        => InDlqBeyond(j, 0) \/ j \in dropped

\* The mail of a job is accepted once at most, and once it has been put on the
\* DLQ only for the replays asked for: the entry an administrator finds on the DLQ
\* was not mailed by an attempt of the job itself, whatever crashes or fails
\* between the mail, the row and the acknowledgement (worker.go:111-162,
\* module_admin.go:97-121).
MailsCovered ==
    \A j \in Jobs :
        mails[j] <= IF \E d \in DlqIds : dlq[d].job = j THEN replays[j] ELSE 1

\* The final status of a job that nobody replays stays: no worker overwrites it
\* later with the outcome of another copy.
FinalStatusStays ==
    [][\A j \in Jobs :
          replays[j] = 0 /\ status[j] \in {"delivered", "failed"}
              => status'[j] = status[j]]_vars

\* An entry that is still to be handed out, or whose worker is still to mail,
\* report or re-add it.
Live == AtWork \ {"ack"}
Active(i) == i > cursor \/ \E w \in Workers : cur[w] = i /\ wpc[w] \in Live

\* Nobody waits for a job that nobody works on: a job that was answered "queued"
\* and still says "pending" has an entry that will be read, or is in the hands of
\* a worker that will report on it or re-add it (dispatch.go:42-71,
\* worker.go:98-162).
StillMoving ==
    \A j \in Jobs : api[j] = "queued" /\ status[j] = "pending"
        => \E i \in Ids : stream[i].job = j /\ Active(i)

\* The mail server accepts a job's mail once at most (readme.md:11).
ExactlyOnce == \A j \in Jobs : mails[j] <= 1

\* Whatever the group has handed out and nobody acknowledged is in the hands of
\* a running worker: a container that drained leaves nothing (readme.md:22).
PendingIsHeld == \A i \in pel : \E w \in Workers : cur[w] = i

-----------------------------------------------------------------------------
(* Liveness.                                                               *)

\* A job that was answered "queued" is reported delivered or failed in the end,
\* if all containers are up from some point on.
Settles ==
    <>[](\A c \in Containers : mode[c] = "up")
        => \A j \in Jobs : api[j] = "queued" ~> status[j] \in {"delivered", "failed"}

-----------------------------------------------------------------------------
(* What the service promises about each job, see JobService.  An attempt is *)
(* an entry that was handed out to a worker.                               *)

Limit == CHOOSE m \in {MaxRetries[c] : c \in Containers} : TRUE

Tries == [j \in Jobs |-> Cardinality({i \in 1 .. cursor : stream[i].job = j})]

Service == INSTANCE JobService WITH tries <- Tries, again <- replays

\* A job that was not replayed and is called failed has been tried MAX_RETRIES + 1
\* times, no more and no less, and the mail server took none of them, although
\* between the last refusal and the row a container may die, drain or lose its
\* stores (worker.go:107-137).
FailedWasRefused ==
    \A j \in Jobs : status[j] = "failed" /\ replays[j] = 0
                        => Tries[j] = Limit + 1 /\ mails[j] = 0

\* Every step of the service is a step of JobService or leaves the job as it is,
\* when all containers run with the same MAX_RETRIES.
ImplementsJobService == Service!Spec

=============================================================================
