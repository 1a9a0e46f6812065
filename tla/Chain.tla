------------------------------- MODULE Chain -------------------------------
(***************************************************************************)
(* A call of the API on its way through the middlewares, from the          *)
(* credentials a consumer was given to the mail and the audit row: the     *)
(* limit of its address, authentication by key or signature, the limit of  *)
(* its consumer, the audit, the handler, and behind it the service that    *)
(* JobService specifies.  Jobs are the calls: the job a call creates has   *)
(* its name.  Calls share nothing in memory and may run anywhere.          *)
(*                                                                         *)
(* Each action is a database or Redis call.  How a limiter comes to its    *)
(* verdict is RateLimit's subject, who is suspended Consumers'.            *)
(***************************************************************************)
EXTENDS JobService, Integers

CONSTANTS
    Consumers,   \* names of consumers
    Admins,      \* requests that create a consumer
    Nobody,      \* stands for no consumer and for no request
    Skew,        \* seconds a timestamp may be off
    Half,        \* 2^63: int64 goes from -Half to Half - 1
    Clocks,      \* readings of the server's clock
    Stamps,      \* timestamps in the headers of calls
    MaxMishaps   \* bound: failures, clients gone, calls broken off

ASSUME NobodyAssumption == Nobody \notin Consumers /\ Nobody \notin Admins
ASSUME TimeAssumption ==
    /\ Skew \in Nat /\ Half \in Nat
    /\ Clocks \subseteq 0 .. (Half - Skew - 1)
    /\ Stamps \subseteq -Half .. (Half - 1)
ASSUME MishapsAssumption == MaxMishaps \in Nat

VARIABLES
    holder,   \* the request that created a name's row: it has its key's hash
    told,     \* the name whose credentials a request was answered with
    pc,       \* the next step of each call
    who,      \* the consumer in its context
    gone,     \* calls whose client is gone and whose context is cancelled
    answer,   \* what the handler answered
    entered,  \* calls whose job is on the stream
    audit,    \* rows of the audit log
    mishaps,  \* how often something went wrong
    age,      \* history: server's clock less the timestamp, for signed calls
    counted,  \* history: limits that counted the call ...
    open,     \* ... and that let it pass as Redis failed
    denied,   \* history: calls over a limit
    lost      \* history: calls whose XADD was done but reported as failed

names == <<holder, told>>
limits == <<counted, open, denied>>
call == <<who, age>>
outcome == <<answer, entered, lost>>
chainVars == <<vars, names, pc, call, gone, outcome, audit, mishaps, limits>>

Calls(x) == [j \in Jobs |-> x]

-----------------------------------------------------------------------------
ChainInit ==
    /\ Init
    /\ holder = [c \in Consumers |-> Nobody]
    /\ told = [a \in Admins |-> Nobody]
    /\ pc = Calls("address")
    /\ who = Calls(Nobody) /\ age = Calls(0)
    /\ gone = {}
    /\ answer = Calls("none") /\ entered = {} /\ lost = {}
    /\ audit = {}
    /\ mishaps = 0
    /\ counted = Calls({}) /\ open = Calls({}) /\ denied = {}

Mishap == mishaps < MaxMishaps /\ mishaps' = mishaps + 1

\* A command of the call fails: always if the context is cancelled.
Fails(j) == Mishap \/ (j \in gone /\ UNCHANGED mishaps)
Works(j) == j \notin gone /\ UNCHANGED mishaps

Step(j, to) == pc' = [pc EXCEPT ![j] = to]

-----------------------------------------------------------------------------
(* Consumers are created.                                                  *)

\* Mutant: creating a name again gives it new credentials.
CreateOrUpdate(a, c) ==
    /\ told[a] = Nobody
    /\ holder' = [holder EXCEPT ![c] = a]
    /\ told' = [told EXCEPT ![a] = c] /\ UNCHANGED mishaps
    /\ UNCHANGED <<vars, pc, call, gone, outcome, audit, limits>>

\* A key and a secret are made, and the INSERT stores what is needed to check
\* them.  Names are unique: a name that is taken is refused and nothing
\* changes.  Only the answer carries the credentials, and it may be lost after
\* the row was inserted.
Create(a, c) ==
    /\ \A b \in Consumers : holder[b] # a
    /\ holder[c] = Nobody /\ holder' = [holder EXCEPT ![c] = a]
    /\ \/ told' = [told EXCEPT ![a] = c] /\ UNCHANGED mishaps
       \/ Mishap /\ UNCHANGED told
    /\ UNCHANGED <<vars, pc, call, gone, outcome, audit, limits>>

-----------------------------------------------------------------------------
(* The middlewares in front of the handler.                                *)

\* The limiter counts the call and lets it pass, or counts it and refuses it;
\* if Redis fails the call passes unchecked.
CheckLimit(j, key, next) ==
    /\ \/ /\ Works(j)
          /\ counted' = [counted EXCEPT ![j] = @ \cup {key}]
          /\ \/ Step(j, next) /\ UNCHANGED denied
             \/ Step(j, "done") /\ denied' = denied \cup {j}
          /\ UNCHANGED open
       \/ /\ Fails(j) /\ Step(j, next)
          /\ open' = [open EXCEPT ![j] = @ \cup {key}]
          /\ UNCHANGED <<counted, denied>>
    /\ UNCHANGED <<vars, names, call, gone, outcome, audit>>

\* Mutant: the routes are registered without the authentication.
LimitAddressOnly(j) == pc[j] = "address" /\ CheckLimit(j, "address", "limit")

LimitAddress(j) == pc[j] = "address" /\ CheckLimit(j, "address", "auth")

\* Mutant: the verdict is not looked at.
LimitConsumerIgnored(j) ==
    /\ pc[j] = "limit"
    /\ counted' = [counted EXCEPT ![j] = @ \cup {"consumer"}]
    /\ Step(j, "handler")
    /\ \/ UNCHANGED denied
       \/ denied' = denied \cup {j}
    /\ UNCHANGED <<vars, names, call, gone, outcome, audit, open, mishaps>>

LimitConsumer(j) == pc[j] = "limit" /\ CheckLimit(j, "consumer", "handler")

\* int64 arithmetic on a sum or difference of two int64.
Wrap(x) ==
    IF x >= Half THEN x - 2 * Half ELSE IF x < -Half THEN x + 2 * Half ELSE x

\* Mutant: the difference is not made positive.
CheckTimestampOneSided(timestamp, clock) == Wrap(clock - timestamp) <= Skew

CheckTimestamp(timestamp, clock) ==
    LET diff == Wrap(clock - timestamp)
    IN  (IF diff < 0 THEN Wrap(-diff) ELSE diff) <= Skew

\* The call goes on as c, if it has c's credentials.
Admit(j, c, seconds) ==
    /\ pc[j] = "auth" /\ Works(j)
    /\ holder[c] # Nobody /\ told[holder[c]] = c
    /\ who' = [who EXCEPT ![j] = c]
    /\ age' = [age EXCEPT ![j] = seconds]
    /\ Step(j, "limit")
    /\ UNCHANGED <<vars, names, gone, outcome, audit, limits>>

AuthenticateKey(j, c) == Admit(j, c, 0)

\* The headers name the consumer and the time of signing.
AuthenticateHMAC(j, c) ==
    \E timestamp \in Stamps, clock \in Clocks :
        CheckTimestamp(timestamp, clock) /\ Admit(j, c, clock - timestamp)

\* Missing or wrong credentials, a suspended consumer, a body too large to be
\* verified, or the database fails: 401 or 403.
Refuse(j) ==
    /\ pc[j] = "auth" /\ Step(j, "done")
    /\ UNCHANGED <<vars, names, call, gone, outcome, audit, limits, mishaps>>

-----------------------------------------------------------------------------
(* The handler.                                                            *)

Answer(j, a) == answer' = [answer EXCEPT ![j] = a] /\ Step(j, "audit")

\* Nothing is stored: the call asks for a job, or its body is not valid.
AnswerOnly(j) ==
    /\ pc[j] = "handler"
    /\ \E a \in {"read", "error"} : Answer(j, a)
    /\ UNCHANGED <<vars, names, call, gone, entered, lost, audit, limits, mishaps>>

\* Mutant: the job is on the stream before its row is known to be stored.
StoreJobLate(j) ==
    /\ pc[j] = "handler" /\ Accept(j)
    /\ entered' = entered \cup {j}
    /\ \/ Works(j) /\ Step(j, "queue") /\ UNCHANGED answer
       \/ Fails(j) /\ Answer(j, "error")
    /\ UNCHANGED <<names, call, gone, lost, audit, limits>>

\* The INSERT may be done although it is reported as failed.
StoreJob(j) ==
    /\ pc[j] = "handler"
    /\ \/ Works(j) /\ Accept(j) /\ Step(j, "queue") /\ UNCHANGED answer
       \/ Fails(j) /\ Answer(j, "error") /\ (Accept(j) \/ UNCHANGED vars)
    /\ UNCHANGED <<names, call, gone, entered, lost, audit, limits>>

\* The XADD may be done although it is reported as failed.
QueueJob(j) ==
    /\ pc[j] = "queue"
    /\ \/ /\ Works(j) /\ Answer(j, "queued")
          /\ entered' = entered \cup {j} /\ UNCHANGED lost
       \/ /\ Fails(j) /\ Answer(j, "error")
          /\ UNCHANGED <<entered, lost>>
       \/ /\ Mishap /\ j \notin gone /\ Answer(j, "error")
          /\ entered' = entered \cup {j} /\ lost' = lost \cup {j}
    /\ UNCHANGED <<vars, names, call, gone, audit, limits>>

\* Once the handler has answered, the row is inserted with the context of the
\* call; an error is only logged.
Audit(j) ==
    /\ pc[j] = "audit" /\ Step(j, "done")
    /\ \/ /\ Works(j)
          /\ audit' = audit \cup {[call |-> j, consumer |-> who[j], status |-> answer[j]]}
       \/ Fails(j) /\ UNCHANGED audit
    /\ UNCHANGED <<vars, names, call, gone, outcome, limits>>

-----------------------------------------------------------------------------
(* What may happen to a call at any time.                                  *)

\* Its client goes away.
Cut(j) ==
    /\ pc[j] # "done" /\ Mishap
    /\ gone' = gone \cup {j}
    /\ UNCHANGED <<vars, names, pc, call, outcome, audit, limits>>

\* A panic is recovered outside of the audit, or the process ends.
Break(j) ==
    /\ pc[j] # "done" /\ Mishap
    /\ Step(j, "done")
    /\ UNCHANGED <<vars, names, call, gone, outcome, audit, limits>>

-----------------------------------------------------------------------------
\* The workers, and administrators who replay a job.
Work(j) ==
    /\ j \in entered
    /\ Try(j) \/ Mail(j) \/ ReportDelivered(j) \/ ReportFailed(j) \/ Again(j)
    /\ UNCHANGED <<names, pc, call, gone, outcome, audit, mishaps, limits>>

ChainNext ==
    \/ \E a \in Admins, c \in Consumers : Create(a, c)
    \/ \E j \in Jobs :
          \/ LimitAddress(j) \/ LimitConsumer(j)
          \/ \E c \in Consumers : AuthenticateKey(j, c) \/ AuthenticateHMAC(j, c)
          \/ Refuse(j)
          \/ AnswerOnly(j) \/ StoreJob(j) \/ QueueJob(j) \/ Audit(j)
          \/ Cut(j) \/ Break(j)
          \/ Work(j)

ChainSpec == ChainInit /\ [][ChainNext]_chainVars

-----------------------------------------------------------------------------
Limiters == {"address", "consumer"}
Answers == {"queued", "read", "error"}

ChainTypeOK ==
    /\ TypeOK
    /\ holder \in [Consumers -> Admins \cup {Nobody}]
    /\ told \in [Admins -> Consumers \cup {Nobody}]
    /\ pc \in [Jobs -> {"address", "auth", "limit", "handler", "queue", "audit", "done"}]
    /\ who \in [Jobs -> Consumers \cup {Nobody}] /\ age \in [Jobs -> Int]
    /\ answer \in [Jobs -> Answers \cup {"none"}]
    /\ entered \subseteq Jobs /\ lost \subseteq Jobs
    /\ gone \subseteq Jobs /\ denied \subseteq Jobs
    /\ audit \subseteq [call : Jobs, consumer : Consumers, status : Answers]
    /\ counted \in [Jobs -> SUBSET Limiters] /\ open \in [Jobs -> SUBSET Limiters]
    /\ mishaps \in Nat

\* Credentials that were handed out stay good, whoever else asks for the same
\* name at the same time: no request takes over what another one was told
\* (service/consumer.go:40, model/consumer.go:7).
CredentialsWork ==
    \A a \in Admins : told[a] # Nobody => holder[told[a]] = a

\* "The timestamp must be within 5 minutes of server time" (readme.md:390).
WithinFiveMinutes == \A j \in Jobs : age[j] \in -Skew .. Skew

\* What the code does let in: signed calls whose timestamp is within the skew on
\* either side of the server's clock, and one other timestamp, 2^63 seconds
\* back, whose distance has no absolute value in an int64 (hmac.go:56-63).
FreshSignatures == \A j \in Jobs : age[j] \in (-Skew .. Skew) \cup {Half}

\* Only calls with credentials that somebody was told are mailed, and only
\* through both limits: each of them allowed the call or could not be asked
\* (routes.go:88-97).
MailedWereAdmitted ==
    \A j \in Jobs : mails[j] > 0 =>
        /\ who[j] # Nobody /\ told[holder[who[j]]] = who[j]
        /\ counted[j] \cup open[j] = Limiters /\ j \notin denied

\* The rows of the audit log: one that says queued is of a job that is stored,
\* on the stream and the consumer's own.  One that says that the call failed can
\* be of a job that is mailed, but only if the reply of its XADD got lost
\* (middleware.go:218-232, dispatch.go:49-76).
AuditTruthful ==
    \A r \in audit :
        /\ r.consumer = who[r.call]
        /\ r.status = "queued" => status[r.call] # "none" /\ r.call \in entered
        /\ r.status # "queued" /\ mails[r.call] > 0 => r.call \in lost

=============================================================================
