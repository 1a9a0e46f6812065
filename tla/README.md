# A TLA+ model of Notifier

Notifier (`src/server`, Go) takes e-mail jobs over HTTP, queues them on a Redis stream,
and delivers them through an SMTP relay. This directory holds TLA+ modules that model it,
the configurations that model-check them with TLC, and proofs checked by TLAPS.
`PROJECT.json` lists the components, the runs, the mutants that show each property can
fail, the source lines each definition stands for, the findings, the hazards and the
theorems.

Paths below are relative to `src/server/internal/` unless they start with another
directory.

## The system

Any number of identical containers run `cmd/notifier`. Each is one process with an HTTP
server, `WORKER_COUNT` worker goroutines and an abuse detector. They share Postgres and
Redis and nothing else.

| Component | State it keeps | Operations | Interacts with |
|---|---|---|---|
| Dispatch API (`service/dispatch.go`, `handler/module_dispatch.go`) | row in `jobs` (Postgres), entry on `email:jobs` (Redis stream) | `Enqueue`, `GetJob` | the workers, through the stream |
| Workers (`worker/worker.go`) | the group's cursor and Pending Entries List (Redis), the entry in hand (memory) | `Run`, `processMessage`, `sendToDLQ`, `ack` | stream, DLQ, `jobs` rows, SMTP |
| DLQ administration (`handler/module_admin.go`) | `email:dlq` (Redis stream) | list, `replayDLQ` | the job stream |
| Lifecycle (`server/cmd/notifier/main.go`) | the workers' context | start, SIGTERM, wait, exit | workers, abuse detector |
| Rate limiter (`service/ratelimit.go`, `server/middleware.go`) | one sorted set per consumer and per address (Redis) | `Allow`, `GetCurrentCount` | in front of the API |
| Abuse detector (`service/abuse.go`) | none | `checkConsumers` every minute | `jobs` and `consumers` rows |
| Consumers (`repository/consumer.go`, `service/consumer.go`) | `consumers` rows: key hash, `active`, `suspended` | create, authenticate, suspend, reactivate | authentication, abuse detector |
| Admin login (`handler/module_auth.go`) | login codes and sessions (Redis, with TTL), `admin_users` rows | request and verify a code, logout, list, add and delete admins, seed | role checks of the admin API |
| Middleware chain, audit log (`server/middleware.go`, `server/routes.go`) | `audit_logs` rows | body size, address limit, authentication, consumer limit, audit | every API call |
| HMAC and keys (`auth/`) | none | sign, verify, timestamp window, canonical JSON | authentication |
| Views (`handler/module_stats.go`, `module_health.go`, `server/metrics.go`) | none | statistics, health, Prometheus text | read everything |

What makes each of them correct:

| Component | Correct if |
|---|---|
| Delivery | a job answered "queued" is never lost, is mailed no more often than its attempts and replays allow, and is reported delivered or failed in the end; what the row says is true; what failed for good can be found on the DLQ |
| Rate limiter | a window holds at most so many allowed calls; nobody is denied for calls that have left the window; keys expire, and not too early |
| Abuse detector | it suspends only who had too many failures, and everyone whose failures stay too many; a suspension closes the API |
| Admin login | a code is good for one login; a deleted account cannot log in; no one administrator can lock everybody out; containers that start together all come up |
| Consumers | credentials that were handed out are good and stay so |
| Chain, audit | what is mailed came with somebody's credentials and through both limits; what the audit rows say is true |

### What is hard

* **Concurrency.** Workers of all containers read one consumer group; handlers of all
  containers write the same rows and streams. No transaction spans two statements, two
  Redis commands, or the two stores.
* **Failure.** Nearly every error of a worker is logged and passed over
  (`worker.go:116, 131, 157, 174, 181`), so the program goes on after half a change.
* **Shutdown and crash.** SIGTERM cancels the context of every Redis and SQL call the
  workers make, while the SMTP exchange ignores it. A crash leaves entries pending.
* **Order.** A retry is acknowledged before its successor is added; a DLQ entry is added
  before the row is marked; a replay is added before the DLQ entry is deleted.
* **Stale copies.** A request carries the consumer's row, a session carries the role and
  the address of the login; neither is read again.
* **Time.** Rate limits, session and code lifetimes, HMAC timestamps, retry backoff.

`PROJECT.json` lists the hazards one by one, each at its line.

## Modules

| Module | Models | Configurations | Theorems in |
|---|---|---|---|
| `Delivery` | enqueue, workers, retries, DLQ, replay, containers | `Faults`, `Settles`, `ExactlyOnce`, `GracefulDrain`, `CrashRedelivery` (`MCDelivery`) | `DeliveryProofs`, `DeliveryOnceProofs`, `DeliveryServiceProofs` |
| `JobService` | what a client may rely on; `Delivery` implements it, `Chain` is built on it | `Faults` (`MCDelivery`), `Chain` (`MCChain`) | `JobServiceProofs` |
| `Chain` | creation of consumers, and a call's way through the middlewares to handler, service and audit log | `Chain`, `FiveMinutes` (`MCChain`) | `ChainProofs` |
| `RateLimit` | `Allow` and `GetCurrentCount` on one key, with a clock | `RateLimit`, `RateLimitKept` (`MCRateLimit`) | `RateLimitProofs` |
| `Consumers` | authentication, submission, detectors, suspension | `Suspension` (`MCConsumers`) | `ConsumersProofs` |
| `AdminAuth` | login codes, sessions, admin accounts, seed | `AdminLogin`, `OneTimeUse` (`MCAdminAuth`) | `AdminAuthProofs` |

`Delivery`, `RateLimit`, `Consumers` and `AdminAuth` have no state in common: the code's
subsystems meet only where one request passes through several of them, and that is
`Chain`. It extends `JobService` and so stands on `Delivery` by way of the refinement,
which is proved: what it says of mails holds for every implementation of that service. Of
the limiters and the detector it keeps the verdict (`RateLimit` and `Consumers` model how they come to it).
`Consumers` counts jobs that fail and are delivered and leaves to `Delivery` how that
comes about.

In every module an action is one Redis command, one SQL statement, one mail, or one step
that only one process sees; whatever other processes do happens between actions. What
can go wrong is in a constant `Faults`, so that a property is stated, and proved, under
exactly the faults it survives.

### Delivery

| Variable | Code |
|---|---|
| `status` | `jobs.status` |
| `api` | the handler of `POST /send` between its INSERT and its XADD |
| `stream`, `cursor`, `pel` | `email:jobs`, last-delivered ID and pending list of the group |
| `dlq`, `parked` | `email:dlq`: all entries ever added, and those not deleted |
| `wpc`, `cur` | a worker's place in `Run`/`processMessage` and its `msg` |
| `mode` | a container: up, draining after SIGTERM, down |
| `apc`, `hold` | a replay request between its XRANGE, XADD and XDEL |
| `mails`, `replays`, `dropped` | history, for the properties only |

| Actions | Code |
|---|---|
| `CreateRow`, `AddJob`, `CutSubmit` | `Enqueue`: the INSERT, the XADD, and the client's going away between them |
| `StopWorker`, `BeginRead`, `ReadEntry`, `ReadNothing`, `ReadFails` | the loop of `Run` |
| `SendOk`, `SendFails` | `engine.Send`: the mail was accepted or not, an error came back or not |
| `MarkDelivered`, `DeadLetter`, `MarkFailed`, `Ack`, `AckRetry`, `Requeue` | the rest of `processMessage`, in its order |
| `ReplayRead`, `ReplayAdd`, `ReplayDelete`, `CutReplay` | `replayDLQ` |
| `Sigterm`, `Exit`, `Crash`, `Restart` | the life of a container (`main.go:120-165`) |
| `ForeignAdd` | an entry on the stream that no `Enqueue` made |

A stream entry is its job, its retry count and the limit it carries; addresses, subjects
and bodies steer nothing. An entry whose recipients do not parse is a job `NoJob`.

### JobService

Four numbers of each job: its row's status, mails accepted, attempts begun, replays
asked for. `Delivery` implements it under the mapping `tries` = entries of the job that
were handed out, `again` = replays requested, when every container has the same
`MAX_RETRIES` and the Redis client repeats no XADD; whatever else fails, it does.

### Chain

| Variable | Code |
|---|---|
| `holder`, `told` | rows of `consumers`: whose key hash a name's row has; what each request to create one was answered |
| `pc`, `who`, `age` | where a call of `/v1` stands, the consumer in its context, how old its signature was |
| `gone` | calls whose client went away, so that their context is cancelled |
| `answer`, `entered` | what the handler answered; jobs on the stream |
| `audit` | `audit_logs` |
| `counted`, `open`, `denied`, `lost` | history: limits that counted the call, let it pass unasked, or refused it; XADDs whose reply got lost |

| Actions | Code |
|---|---|
| `Create` | `ConsumerService.Create` |
| `LimitAddress`, `LimitConsumer` | the two limiters, which let a call pass if Redis fails |
| `AuthenticateKey`, `AuthenticateHMAC`, `Refuse` | `AuthMiddleware` and what it calls |
| `AnswerOnly`, `StoreJob`, `QueueJob` | the handlers of `GET /jobs/{id}` and `POST /send` |
| `Audit` | `AuditMiddleware`, after the handler |
| `Cut`, `Break` | the client goes; the handler panics or the process ends |
| `Work` | the actions of `JobService` that workers and replays make |

The order of the middlewares is the order of `dispatchAuth` (`routes.go:89-95`). A call is
named by the job it may create. Whether a key's hash or a signature matches is whether the
caller has what the row's creator was told; a timestamp is an `int64`, with its overflow.

### RateLimit

| Variable | Code |
|---|---|
| `clock` | the clock all containers and Redis agree on |
| `score`, `zset`, `expiry` | the calls' scores, the members of the sorted set, the key's TTL |
| `pc`, `call`, `now`, `count` | each handler's pipeline: next command, its member, its clock reading, the ZCARD reply |
| `allowed`, `denied`, `broken`, `resent` | history |

`Begin`, `Trim`, `Count`, `Add`, `Expire` are `Allow` (`ratelimit.go:22-60`);
`BeginStats` starts `GetCurrentCount`, the same without the ZADD. `FailOpen` is a
pipeline that breaks off after any command, upon which the middleware lets the request
pass (`middleware.go:296`). `Tick` moves time and lets the key expire. One key is enough:
keys share nothing. A denied call has added its member as well, as in the code.

### Consumers

| Variable | Code |
|---|---|
| `suspended` | `consumers.suspended` and, always opposite, `active` |
| `total`, `failed` | what the counting statements would find in `jobs` |
| `who` | the consumer in a request's context |
| `dpc`, `todo`, `seen` | each detector's round: next statement, consumers to come, the total just read |
| `acts`; `auto`, `peak`, `late` | bound; history |

`Authenticate`, `Submit`, `Reject` are a request; `JobFails`, `JobSaved` what workers
report; `List`, `CountTotal`, `CountFailed`, `Suspend` are `checkConsumers`, statement by
statement, in the list's order; `Replace` is a container replaced in the middle of a
round; `SuspendConsumer`, `ReactivateConsumer` the administrators.

### AdminAuth

| Variable | Code |
|---|---|
| `account`, `present` | every row of `admin_users` ever inserted, and those not deleted |
| `code`, `owner`, `inbox` | `admin:logincode:*` in Redis; whom each code was made for; the codes that were mailed |
| `session`, `live` | `admin:session:*` |
| `boot` | a container in `seedAdminByEmail`: before it, between COUNT and INSERT, up |
| `pc`, `addr`, `num`, `row` | a request: next command, its address, code and row |
| `by`, `late`, `kept`, `over`, `blind` | history |

| Actions | Code |
|---|---|
| `AskCode`, `StoreCode`, `MailCode` | `requestLogin` |
| `CheckCode`, `SpendCode`, `FindAccount`, `OpenSession` | `verifyLogin`: GET, DEL, SELECT, SET |
| `EndSession`, `ExpireCode` | `logout` and the TTLs |
| `AddUser` | `addAdminUser`, with the role checks in front of it |
| `AskDelete`, `CheckTarget`, `Remove` | `deleteAdminUser`: session and role, comparison with the own row, DELETE |
| `StartUp`, `SeedAccount`, `SeedFails`, `Stop` | the start of a container |
| `InsertByHand` | SQL by an operator: the way second accounts come to be (see the findings) |
| `Abandon` | the client goes away and the request's context is cancelled |

No statement changes a row of `admin_users`, so a session carries the row's number in
place of a copy. A code is a number of its own; that two random codes agree is left out,
as is guessing them: a verification types a code that was mailed, any other is refused
and changes nothing.

## Runs

Every passing run finishes its whole state space, and every property of it is shown able
to fail by a mutant: the definition of the code with a plausible bug in place of it
(`PROJECT.json`, "mutants"; the mutated definitions stand in the modules, each marked
`Mutant`).

| Run | Instance | Shows |
|---|---|---|
| `delivery_faults` | 1 job, 2 containers with a worker each, 2 replay requests at once, `MAX_RETRIES` 1, crashes, drains, Redis and SQL failures, cut requests | where a job can be at any moment, what its row may say, how often it is tried and mailed; `Delivery` implements `JobService` |
| `delivery_settles` | 1 job, 2 containers with `MAX_RETRIES` 0 and 1, repeated XADDs, a mail server that took the mail although `Send` returns an error, foreign entries; containers run, Redis and Postgres answer | no queued job is lost and no entry left behind in the pending list; a queued job that is not reported has an entry somebody has yet to read or is at work on, and every queued job is reported in the end |
| `api_calls` | 2 calls, 2 names, 2 administrators, 2 attempts, 1 replay, integers of 4 bits, 1 mishap | who gets to the handler, what is mailed and what the audit log says of it |
| `rate_limit` | 2 handlers, 5 calls, limit 2, window 2, TTL 3, pipelines of up to 1 | how far a window may be overrun, that denials are due, that TTLs are there and long enough |
| `suspension` | 2 consumers, 2 detectors, 1 request, at least 3 jobs, more than half of them failed | what a suspension rests on, what is accepted after it, that it comes |
| `admin_login` | 2 addresses, 2 requests, 2 containers, 3 rows, 2 codes, 3 sessions, 1 fault | how long a code works and what may cost a user his, what a deleted account can do, who can lock everybody out, that containers start |
| `exactly_once`, `graceful_drain`, `crash_redelivery`, `rate_limit_kept`, `one_time_use`, `five_minutes` | as small as the trace needs | the findings |

### Bounds, and why they are enough

* **Delivery.** The stream is bounded by retries, replays and foreign entries, each with
  a bound in a guard, never by a state constraint, so that liveness is not distorted.
  Jobs share nothing but the order of the stream, and workers read the stream from one
  cursor; one job with two workers has every interleaving of two attempts of a job.
  `MAX_RETRIES` 1 has a first, a middle and a last attempt with a replay. Two replay
  requests are what it takes to read one DLQ entry twice, and `delivery_faults` has them
  under all its faults. Repeated XADDs are in `delivery_settles` only: with them two copies
  of a job run side by side, and the properties that count attempts and mails do not hold.
* **Chain.** Calls share nothing but the consumers, and administrators nothing but the
  names: two of each meet in every way. One mishap (a failing command, a lost reply, a
  client that goes, a call that breaks off) at any point reaches every exception the
  properties name, and after the client went all later commands fail. The theorems hold
  for any number of them. Integers of four bits wrap around as those of 64 do; one
  reading of the clock is enough, as every timestamp is tried against it.
* **RateLimit.** Limit 2 and window 2 let calls lie in, on the edge of, and beyond a
  window. `BoundedOverrun` needs four calls to be tight; five are allowed.
  A pipeline that breaks off after its ZADD leaves the old TTL, at whose end calls in
  flight are forgotten too: with seven calls TLC finds a window beyond that bound, so the
  property speaks of runs in which none broke off for good. `Delay` and
  `Ttl` keep the relation of the code: the TTL exceeds the window by more than a
  pipeline takes.
* **Consumers.** Four jobs of the judged consumer are one more than the minimum: both
  sides of both thresholds are met. The statements about the consumer that comes first
  in the list may fail at any time.
* **AdminAuth.** Two requests overlap in every way two can; two codes let one be
  overwritten or deleted in place of the other; a third row is an address that was
  deleted and came back. Requests come once all containers are up, and a container
  stops only when no account is left, the only time its next start does anything.
  `HandRoles` is `super_admin`: only that role can delete. At most one fault, logout or
  expiry happens (`MaxEvents`).

### Fairness

* `Delivery`: weak fairness of every worker's loop, of the XADD of a submission under
  way, of a drained container's exit and of a stopped container's restart. Goroutines
  are scheduled, go-redis and database/sql return (they have timeouts); the SMTP
  exchange is assumed to return, which `engine/smtp.go`, having no deadline, leaves to
  the relay and TCP. `src/docker-compose.prod.yml` restarts containers. Nobody has to submit or replay,
  no fault has to happen. `Settles` asks only for jobs after whose submission all
  containers are up from some time on.
* `Consumers`: weak fairness of each detector, whose ticker fires as long as its
  container runs and whose `checkConsumers` goes on after an error. No fairness of
  clients, workers or administrators.
* `AdminAuth`: weak fairness of `StartUp`, as containers are restarted, and strong
  fairness of `SeedAccount`: the INSERT is tried again at every restart and the database
  does not fail for ever.

## Findings

Six runs end in a counterexample, each to a sentence of the repository's documents or
comments:

1. `exactly_once` (`handler/module_admin.go:100`; readme.md:11). Two replays of one DLQ
   entry read it before either deletes it, and the job is mailed twice with no fault.
2. `graceful_drain` (`worker/worker.go:140`; docs/discussion-statelessness.md:189,
   readme.md:22). A retry is acknowledged before its successor is added. If SIGTERM comes
   between the two, the XADD has a cancelled context: a job that was answered "queued" is
   in no stream any more and was never mailed. A crash or a failing Redis at that place
   does the same.
3. `crash_redelivery` (`worker/worker.go:53`; docs/discussion-redis-streams.md:12,
   docs/discussion-statelessness.md:167). Nothing reads the pending list, so what a crashed
   worker held is never delivered.
4. `rate_limit_kept` (`service/ratelimit.go:32`; docs/discussion-statelessness.md:17).
   Pipelines interleave, and a window may hold more calls than the limit.
5. `one_time_use` (`handler/module_auth.go:177`, the comment at 182). A login code is read
   and deleted in two commands, so that two verifications that overlap open two sessions
   with one code.
6. `five_minutes` (`auth/hmac.go:62`, the comment at 55, readme.md:390). The timestamp 2^63
   seconds before the clock is accepted: the distance is the smallest `int64`, which has no
   absolute value.

The passing runs say how far each of these goes. `NothingElseLost`: the history variable
`dropped` records the XADDs of a retry and of a DLQ entry that were not done, and a job
disappears at these two places only. `MailsCovered`: a second mail takes a second replay.
`BoundedOverrun`: a window is overrun by the calls in flight. `SpentCodesGone` and
`SessionsPerCode`: only verifications that overlap share a code. `FreshSignatures`: there is
no second timestamp like that one.

Other sentences of the documents that the code does not keep, without a run of their own:

* "Workers finish in-flight jobs before exit on SIGTERM" (readme.md:22): the SMTP exchange
  ignores the context, but `MarkDelivered` and the XACK after it fail, so the entry stays
  pending and the row may go on saying "pending". `PendingIsHeld` fails with `sigterm`.
* "Audit logging — Immutable, append-only table tracking every API call" (readme.md:17):
  calls that a limit or the authentication refused never reach `AuditMiddleware`, and rows
  are lost with clients that go, panics and failing INSERTs. `AuditTruthful` is about the
  rows there are, and no property here says that there is one for each call. No row has a
  `JobID`, as nothing sets it.
* Retries have a backoff of 2, 4 and 8 seconds (readme.md:411-417): it is computed and
  stored in `next_attempt`, which nothing reads. The models let an attempt come at any moment.
* `admin` can add users (`.llm-wiki`, the note of 2026-06-07, line 32): the INSERT of
  `addAdminUser` writes an e-mail address to a column of type UUID
  (`handler/module_auth.go:277`) and always fails. `AddUser` inserts nothing for that reason.

What no document speaks of, and the properties leave open:

* A job whose XADD failed was answered with an error; its row says "pending" for ever.
* `MarkFailed` may overwrite what a fast replay of the job has reported (`worker.go:131`).
* A consumer whose creation succeeded but whose answer was lost has credentials nobody
  knows, and its name stays taken; the API has no way to give it new ones.
* The bounce rate is a quotient of two counts of different moments. What a suspension
  rests on is bounded by `FailuresBehindSuspension`, not by the rate of any one moment.
  A reactivation in the middle of a detector's round may be undone by it.
* Asking for a second code makes the first one useless, even if the mail with the second
  fails; and the DEL of the first may remove the second. `CodesNotWasted` says that
  nothing else does, and nothing that happens to other addresses.
* The check that nobody deletes his own account is passed over when its SELECT fails.
  `LockoutTakesTwo` makes that its only exception.

## Proofs

TLAPS checks the following for every value of the constants that satisfies the
assumptions named in the modules: any number of jobs, workers, containers, replays,
handlers, consumers and administrators, and, unless the theorem says otherwise, every
set of faults.

**Delivery.** `TypeCorrect` is the base of everything. Then:

| Theorem | Property | Inductive invariant |
|---|---|---|
| `DeliveredIsTrue` | `DeliveredTruthful` | `TruthInv`: whoever is about to mark a job delivered saw its mail accepted |
| `NothingElseIsLost` | `NothingElseLost` | `KeptInv`: a replay request about to delete a DLQ entry leaves the job accounted for without that entry and all older ones, so that of two requests for one job neither deletes what the other relies on |
| `NothingIsLost` | `NothingLost` | `QuietInv` on top: nothing is ever dropped, under `CalmFaults` (no `crash`, `sigterm` or `redis`) |
| `NoAttemptTwice` | `UniqueGenerations` | `HoldersInv`, `NewestInv`, `OneCopyInv`, `LimitInv`: of a job that was not replayed only the newest entry is active, one worker holds it, and it is below its limit while it is put back |
| `MailsAreCovered` | `MailsCovered` | `CoverInv`: mails, entries that may yet be mailed and replays about to add one are together no more than the first mail and the replays allow, and no more than the replays once the job is on the DLQ |
| `RowIsThere` | `RowBeforeEntry` | `RowInv`: the row exists between INSERT and XADD |
| `FailuresAreParked` | `FailedIsParked` | `ParkedInv`: whoever is about to report a failure has put the job on the DLQ |
| `FinalIsFinal` | `FinalStatusStays` | `SettledInv`: a settled job has no active entry |
| `DeliveryImplementsJobService` | `ImplementsJobService` | `ServiceInv`: the above with `AttemptsInv`, `LastInv`, `MailsInv`, see below |

`NoAttemptTwice`, `MailsAreCovered` and `FinalIsFinal` assume that no XADD is repeated,
without which two copies of a job do run side by side; `MailsAreCovered` also that `Send`
reports no error for a mail that was accepted (`smtp.go` does so when QUIT fails), upon
which the worker would retry. `CoverInv` is a count: an attempt that fails gives its
share to the next entry or, with the last, to the DLQ; a replay takes it from there, and
brings one of its own only if another replay has the same DLQ entry in hand. So what was
never replayed is mailed once, and `MailedOnceIfReplayedOnce` follows: one replay does not
make a second mail, whatever else crashes or fails.

Three more theorems say under which faults properties hold that do not hold under all of
them, among them the one that `exactly_once` refutes:

| Theorem | Property | Assumes | Inductive invariant |
|---|---|---|---|
| `ExactlyOnceOneByOne` | `ExactlyOnce` | `OneByOne`: replay requests are served one at a time, and nothing fails but statements of Postgres; foreign entries may come | `CopyInv`: of the places a job may yet be mailed from (its handler, an active entry, a worker about to put it on the DLQ, a DLQ entry nobody replays, a replay request) there is one, and none once it is mailed |
| `WhatIsPendingIsHeld` | `PendingIsHeld` | `CalmFaults`: no container stops and Redis answers | `HeldInv`: who has read an entry keeps it until it is acknowledged |
| `PendingIsMoving` | `StillMoving` | `CalmFaults`, and Postgres does not fail | `StillMoving` with the types |

`OneByOne` is tight: with two replay requests, or with any one of the faults it leaves out
(`crash`, `sigterm`, `redis`, `resend`, `quit`, `cut`), TLC finds a job that is mailed twice.
`StillMoving` is the safety half of `Settles`: a job that is not reported is never
left without an entry on which something has yet to happen. Postgres has to be excluded,
as a failing `MarkDelivered` leaves the row pending for good.

`DeliveryImplementsJobService` is the refinement: initial states map to initial states and
every step of a handler, worker, replay request or container to one step of `JobService`
or none, under all faults but a repeated XADD, if all containers have the same
`MAX_RETRIES` (containers that differ have no common limit to promise). The mapping counts
the entries of a job that were handed out as its attempts, so the proof is one of
counting. `AttemptsInv`: replayed or not, the entries of a job count up from 0 to the
limit, only copies of the last attempt come after it, and the DLQ has nothing but last
attempts; so whatever is reported failed or replayed has been tried to the end.
`LastInv`: copies of the last attempt, with those that replay requests are about to add,
are at most one more than there were replays; with an injection of the earlier entries
into the retry counts this bounds the attempts. `MailsInv`: mails and entries being sent
are together no more than entries handed out, as no two workers hold the same one.
`DeliveryWithinBudget` carries the two invariants of `JobService`, `Budget` and
`FailedAfterAll`, back through the refinement: the machinery itself hands out no more
entries than the limit and the replays allow, mails no more than it handed out, and writes
failed only after as many attempts as the limit asks for. In `JobService` the two restate
the guards of its actions and are lemmas; that the code keeps them is what the refinement
shows. `FailuresWereRefused` adds what an abstract attempt does not tell, that these attempts
failed: a job that was not replayed and is called failed was tried exactly
`MAX_RETRIES + 1` times and never accepted (property `FailedWasRefused`). Its `RefusedInv`
says the same of a worker that is giving the job up, and rests on `CoverInv`: as long as an
entry of a job can still be tried, no mail of it was accepted.

**Chain.** Each theorem rests on one inductive invariant: what a call's place in the chain
says about the limits it has passed, the consumer it has, its job's row and its entry.
`Chain` does to a job what the actions of `JobService` allow because it is made of them; no
theorem says so. `SignaturesAreFresh` is arithmetic for integers of any width.

**RateLimit.** `NeverWithoutTtl` (`TtlInv`), `TtlIsLongEnough` (`TtlInv` with the
pipelines' delay against the TTL) and `DenialsAreDue` (`CallInv`, `DenyInv`: who has
counted `n` members has `n` other calls in the window, by cardinalities of sets of
calls; it assumes that a pipeline takes less than a window). `OverrunIsBounded` has
`OverrunInv`, which splits every window in two. As long as nothing of it was removed,
each call that passed is in the sorted set or about to be added by its handler, so that
who counts fewer than `Max` misses one call of each other handler at most. Once something
was removed, by a trim or by the TTL, the window is over and some handler at work has no
call in it; only the calls of the others can still come on top. That the TTL removes
nothing earlier is `TtlInv` again. `LimitKeptOneByOne` is the case of one handler: it
keeps the documented limit exactly, so interleaving is all that `rate_limit_kept` blames.

**Consumers.** `TypeCorrect` includes that a detector which judges a consumer has a number
of jobs to divide by, and not that of the consumer before. `SuspendedHadFailures` (`ReadInv`: what a detector has read was true, and
totals and peaks of failures have only grown since) and `SuspensionShuts`
(`LateInv`: jobs accepted since the suspension and requests in flight add up to at most
the number of requests).

**AdminAuth.** `TypeCorrect` includes that no session is opened for an account that was
not found. `CodesStaySpent` rests on `KnownInv` (a code not yet mailed is known to one
request alone, so no one can put a spent code back) and `GoneInv` (a code is out of Redis
from the DEL on, before a session is opened with it). `FewSessionsPerCode` counts on top
of it, in `ShareInv`, sessions opened with a code and requests that have found it: as
nobody finds it any more once a session is open, they are never more than the requests.
`MailedCodesLast` adds `WasteInv`:
what a request under way verifies was typed, and what it mails is either in Redis or has
been replaced. `LoginsEnd` counts, for each
deleted row, sessions opened since and requests that will still open one, which are
fewer than all requests, as the deleting request is none of them. `TwoLockOut`
follows from `LockInv`: each deleted row was deleted by another address, and that
address is that of some account; when none is left, its own deleter is a second one.

Checked by TLC only: the liveness properties `Settles`, `AbusersSuspended` and
`EveryStartSucceeds`, as the prover does not reason about fairness. Every safety property
that a passing run checks is stated by a theorem. Of the six properties that the findings
refute, `ExactlyOnce`, `NothingLost` and `LimitKept` have a theorem for the case that the
documents describe, and `OneTimeUse` and `WithinFiveMinutes` one that bounds what is left
of them; `Settles` is about liveness.

Assumptions beyond the code: the clocks of containers and of Redis agree; a pipeline of
the rate limiter ends within `Delay`; Redis and Postgres keep what they have; generated
identifiers are unique.

## What is not modelled

* HMAC signatures, key hashing, secret encryption: pure functions with unit tests; the
  models have whether they match.
* CORS, request ids, the address taken from headers and request logging change no state of
  the service. `MetricsMiddleware` and `/metrics` (readme.md:278) are never registered.
* Views, statistics, health, metrics: they only read. The statistics page's
  `GetCurrentCount` trims the rate limiter's key and is in `RateLimit`.
* The SMTP protocol: `Delivery` has what `Send`'s caller can tell.
* Configuration, the web client, deployment files.
* The backoff of retries, which has no effect (see the findings).

## Plan

Done: `Delivery`, `JobService`, `Chain`, `RateLimit`, `Consumers`, `AdminAuth`, each with
its configurations and theorems. To come, in this order:

1. Time in `Delivery`: the backoff that is stored and never read, against a relay that
   is down for a while.
2. A composition of `Consumers` and `Delivery`: that jobs accepted before a suspension
   are still delivered, and that what the workers report is what the detector counts.
