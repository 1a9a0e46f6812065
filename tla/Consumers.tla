----------------------------- MODULE Consumers -----------------------------
(***************************************************************************)
(* Consumers and their suspension: requests that authenticate and submit   *)
(* jobs, workers that report jobs failed or delivered, the abuse detector  *)
(* of every container, and administrators.  All they share is the rows of  *)
(* Postgres, and each SQL statement is an action.                          *)
(*                                                                         *)
(* suspended and active are two columns, but every statement that writes   *)
(* one writes the other to its opposite: suspended stands for both.  Of a  *)
(* consumer's jobs only their number and that of the failed ones matter;   *)
(* how they fail and are delivered after all is module Delivery's subject. *)
(***************************************************************************)
EXTENDS Integers, FiniteSets

CONSTANTS
    Consumers,
    Order,      \* the place of each consumer in the list, the newest first
    Nobody,     \* stands for no consumer
    Requests,   \* API requests that may be in flight at once
    Detectors,  \* abuse detectors, one per container
    MinJobs,    \* jobs needed to judge a consumer
    Share,      \* one job in Share may fail: 5 for a threshold of 20 %
    Flaky,      \* consumers whose statements in the detector may fail
    Faults,     \* "crash": a container is replaced while its detector works
    MaxJobs,    \* bound: jobs of each consumer
    MaxActs     \* bound: what administrators do, and containers replaced

ASSUME NobodyAssumption == Nobody \notin Consumers
ASSUME OrderAssumption ==
    /\ Order \in [Consumers -> Nat]
    /\ \A b, c \in Consumers : Order[b] = Order[c] => b = c
ASSUME LimitsAssumption == MinJobs \in Nat \ {0} /\ Share \in Nat \ {0}
ASSUME FaultsAssumption == Flaky \subseteq Consumers /\ Faults \subseteq {"crash"}
ASSUME BoundsAssumption == MaxJobs \in [Consumers -> Nat] /\ MaxActs \in Nat
ASSUME RequestsAssumption == IsFiniteSet(Requests)

VARIABLES
    suspended,  \* of each consumer's row
    total,      \* how many jobs the consumer has ...
    failed,     \* ... and how many of them failed
    who,        \* the consumer a request is authenticated as
    dpc,        \* next statement of each detector
    todo,       \* consumers it still has to look at in this round
    seen,       \* total it read of the next of them
    acts,       \* how often administrators acted or a container was replaced
    auto,       \* history: the row was suspended by a detector
    peak,       \* history: largest number of failed jobs
    late        \* history: jobs submitted while suspended, since then

rows == <<suspended, auto>>
jobs == <<total, failed, peak>>
detectorVars == <<dpc, todo, seen>>
vars == <<suspended, total, failed, who, dpc, todo, seen, acts, auto, peak, late>>

Of(x) == [c \in Consumers |-> x]

\* The documented condition for a suspension.
TooMany(f, t) == t >= MinJobs /\ f * Share > t
Over(c) == TooMany(failed[c], total[c])

-----------------------------------------------------------------------------
Init ==
    /\ suspended = Of(FALSE)
    /\ total = Of(0) /\ failed = Of(0)
    /\ who = [r \in Requests |-> Nobody]
    /\ dpc = [d \in Detectors |-> "wait"]
    /\ todo = [d \in Detectors |-> {}]
    /\ seen = [d \in Detectors |-> 0]
    /\ acts = 0
    /\ auto = Of(FALSE) /\ peak = Of(0) /\ late = Of(0)

-----------------------------------------------------------------------------
(* Requests.                                                               *)

\* Mutant: the middleware forgets one of the two ways to authenticate.
AuthenticateAnyone(r, c) ==
    /\ who[r] = Nobody
    /\ who' = [who EXCEPT ![r] = c]
    /\ UNCHANGED <<rows, jobs, detectorVars, acts, late>>

\* Whether by key or by signature: only an active consumer is let in.
Admitted(c) == ~suspended[c]

\* The middleware reads the row; nobody looks at it again for this request.
Authenticate(r, c) ==
    /\ who[r] = Nobody /\ Admitted(c)
    /\ who' = [who EXCEPT ![r] = c]
    /\ UNCHANGED <<rows, jobs, detectorVars, acts, late>>

\* The number of jobs changes; history takes note.
Jobs(c, t, f) ==
    /\ total' = [total EXCEPT ![c] = t]
    /\ failed' = [failed EXCEPT ![c] = f]
    /\ peak' = [peak EXCEPT ![c] = IF f > @ THEN f ELSE @]

\* The handler stores the job.
Submit(r) ==
    LET c == who[r] IN
    /\ c # Nobody /\ total[c] < MaxJobs[c]
    /\ Jobs(c, total[c] + 1, failed[c])
    /\ late' = [late EXCEPT ![c] = IF suspended[c] THEN @ + 1 ELSE @]
    /\ who' = [who EXCEPT ![r] = Nobody]
    /\ UNCHANGED <<rows, detectorVars, acts>>

\* The request ends without a job: over the limit, invalid, or an error.
Reject(r) ==
    /\ who[r] # Nobody
    /\ who' = [who EXCEPT ![r] = Nobody]
    /\ UNCHANGED <<rows, jobs, detectorVars, acts, late>>

\* A worker marks a job failed, or a failed job that was replayed delivered.
JobFails(c) ==
    /\ failed[c] < total[c]
    /\ Jobs(c, total[c], failed[c] + 1)
    /\ UNCHANGED <<rows, who, detectorVars, acts, late>>
JobSaved(c) ==
    /\ failed[c] > 0
    /\ Jobs(c, total[c], failed[c] - 1)
    /\ UNCHANGED <<rows, who, detectorVars, acts, late>>

-----------------------------------------------------------------------------
(* The abuse detector.                                                     *)

Fails(c) == c \in Flaky

\* UPDATE of the row, whatever it says.
SetSuspended(c, b) == suspended' = [suspended EXCEPT ![c] = b]

\* The consumer a detector is looking at, and those that come after it.
Judged(d) == CHOOSE c \in todo[d] : \A b \in todo[d] : Order[c] <= Order[b]
Later(d) == todo[d] \ {Judged(d)}

\* It goes on with the consumers of rest.
GoOn(d, rest) ==
    /\ todo' = [todo EXCEPT ![d] = rest]
    /\ dpc' = [dpc EXCEPT ![d] = IF rest = {} THEN "wait" ELSE "total"]
    /\ seen' = [seen EXCEPT ![d] = 0]

\* The ticker fires and the consumers are listed, once for the whole round.
List(d) ==
    /\ dpc[d] = "wait"
    /\ GoOn(d, {c \in Consumers : ~suspended[c]})
    /\ UNCHANGED <<rows, jobs, who, acts, late>>

\* Mutant: an error ends the round.
CountTotalReturns(d) ==
    LET c == Judged(d) IN
    /\ dpc[d] = "total"
    /\ \/ Fails(c) /\ GoOn(d, {})
       \/ total[c] = 0 /\ GoOn(d, Later(d))
       \/ /\ total[c] > 0
          /\ seen' = [seen EXCEPT ![d] = total[c]]
          /\ dpc' = [dpc EXCEPT ![d] = "failed"]
          /\ UNCHANGED todo
    /\ UNCHANGED <<rows, jobs, who, acts, late>>

\* Mutant: a consumer without jobs is not left at once.
CountTotalZero(d) ==
    LET c == Judged(d) IN
    /\ dpc[d] = "total"
    /\ \/ Fails(c) /\ GoOn(d, Later(d))
       \/ /\ seen' = [seen EXCEPT ![d] = total[c]]
          /\ dpc' = [dpc EXCEPT ![d] = "failed"]
          /\ UNCHANGED todo
    /\ UNCHANGED <<rows, jobs, who, acts, late>>

\* GetBounceRate: the jobs are counted ...
CountTotal(d) ==
    LET c == Judged(d) IN
    /\ dpc[d] = "total"
    /\ \/ /\ total[c] = 0 \/ Fails(c)
          /\ GoOn(d, Later(d))
       \/ /\ total[c] > 0
          /\ seen' = [seen EXCEPT ![d] = total[c]]
          /\ dpc' = [dpc EXCEPT ![d] = "failed"]
          /\ UNCHANGED todo
    /\ UNCHANGED <<rows, jobs, who, acts, late>>

\* Mutant: the rate is judged whatever the number of jobs.
CountFailedFew(d) ==
    LET c == Judged(d) IN
    /\ dpc[d] = "failed"
    /\ \/ /\ Fails(c) \/ failed[c] * Share <= seen[d]
          /\ GoOn(d, Later(d))
       \/ /\ failed[c] * Share > seen[d]
          /\ dpc' = [dpc EXCEPT ![d] = "suspend"]
          /\ UNCHANGED <<todo, seen>>
    /\ UNCHANGED <<rows, jobs, who, acts, late>>

\* ... and then, in a second statement, the failed ones.
CountFailed(d) ==
    LET c == Judged(d) IN
    /\ dpc[d] = "failed"
    /\ \/ /\ Fails(c) \/ ~TooMany(failed[c], seen[d])
          /\ GoOn(d, Later(d))
       \/ /\ TooMany(failed[c], seen[d])
          /\ dpc' = [dpc EXCEPT ![d] = "suspend"]
          /\ UNCHANGED <<todo, seen>>
    /\ UNCHANGED <<rows, jobs, who, acts, late>>

\* The consumer is suspended, whatever its row says by now.
Suspend(d) ==
    LET c == Judged(d) IN
    /\ dpc[d] = "suspend"
    /\ \/ /\ SetSuspended(c, TRUE)
          /\ auto' = [auto EXCEPT ![c] = TRUE]
       \/ Fails(c) /\ UNCHANGED rows
    /\ GoOn(d, Later(d))
    /\ UNCHANGED <<jobs, who, acts, late>>

\* The container is replaced by a new one.
Replace(d) ==
    /\ "crash" \in Faults /\ dpc[d] # "wait"
    /\ acts < MaxActs /\ acts' = acts + 1
    /\ GoOn(d, {})
    /\ UNCHANGED <<rows, jobs, who, late>>

-----------------------------------------------------------------------------
(* Administrators.                                                         *)

SuspendConsumer(c) ==
    /\ acts < MaxActs /\ acts' = acts + 1
    /\ SetSuspended(c, TRUE)
    /\ UNCHANGED <<auto, jobs, who, detectorVars, late>>

ReactivateConsumer(c) ==
    /\ acts < MaxActs /\ acts' = acts + 1
    /\ SetSuspended(c, FALSE)
    /\ auto' = [auto EXCEPT ![c] = FALSE]
    /\ late' = [late EXCEPT ![c] = 0]
    /\ UNCHANGED <<jobs, who, detectorVars>>

-----------------------------------------------------------------------------
Detect(d) == List(d) \/ CountTotal(d) \/ CountFailed(d) \/ Suspend(d)

Next ==
    \/ \E r \in Requests :
          (\E c \in Consumers : Authenticate(r, c)) \/ Submit(r) \/ Reject(r)
    \/ \E c \in Consumers :
          \/ JobFails(c) \/ JobSaved(c)
          \/ SuspendConsumer(c) \/ ReactivateConsumer(c)
    \/ \E d \in Detectors : Detect(d) \/ Replace(d)

Spec == Init /\ [][Next]_vars

\* The ticker fires for ever, and statements return.
FairSpec == Spec /\ \A d \in Detectors : WF_vars(Detect(d))

-----------------------------------------------------------------------------
\* A detector has consumers left exactly while it is in a round, and a number of
\* jobs, never zero, exactly while it judges one of them.
AtWork ==
    \A d \in Detectors :
        /\ todo[d] # {} <=> dpc[d] # "wait"
        /\ seen[d] > 0 <=> dpc[d] \in {"failed", "suspend"}

\* Every variable has its type; what a detector divides the failures by is never
\* zero and is not left over from the consumer before, whatever arrives, fails or
\* stops meanwhile (abuse.go:65-93, job.go:96-116).
TypeOK ==
    /\ AtWork
    /\ suspended \in [Consumers -> BOOLEAN]
    /\ total \in [Consumers -> Nat] /\ failed \in [Consumers -> Nat]
    /\ who \in [Requests -> Consumers \cup {Nobody}]
    /\ dpc \in [Detectors -> {"wait", "total", "failed", "suspend"}]
    /\ todo \in [Detectors -> SUBSET Consumers]
    /\ seen \in [Detectors -> Nat]
    /\ acts \in Nat
    /\ auto \in [Consumers -> BOOLEAN]
    /\ peak \in [Consumers -> Nat] /\ late \in [Consumers -> Nat]

\* Whoever the detector suspends had enough jobs to be judged, and so many
\* failures that they were too many for that number of jobs, although the two
\* counts are of different moments and old by now (abuse.go:71-83,
\* job.go:96-116).
FailuresBehindSuspension ==
    \A c \in Consumers :
        auto[c] => total[c] >= MinJobs /\ peak[c] * Share > MinJobs

\* A suspension takes effect at once but for the requests that are in flight
\* (middleware.go:123-133): no more jobs than that are accepted after it.
LateJobsInFlight == \A c \in Consumers : late[c] <= Cardinality(Requests)

\* A consumer whose share of failed jobs stays too large is suspended in the
\* end, whatever statements about other consumers fail (abuse.go:71-76).
AbusersSuspended ==
    \A c \in Consumers \ Flaky : <>[]Over(c) => <>[]suspended[c]

=============================================================================
