-------------------------- MODULE ConsumersProofs --------------------------
(***************************************************************************)
(* Theorems about the suspension of consumers, for any number of           *)
(* consumers, requests and detectors, and any threshold.                   *)
(***************************************************************************)
EXTENDS Consumers, WellFoundedInduction, FiniteSetTheorems, TLAPS

USE NobodyAssumption, OrderAssumption, LimitsAssumption, FaultsAssumption,
    BoundsAssumption, RequestsAssumption

\* Among some consumers one is the newest.
LEMMA FirstExists ==
    ASSUME NEW S \in SUBSET Consumers, S # {}
    PROVE  (CHOOSE c \in S : \A b \in S : Order[c] <= Order[b]) \in S
<1> DEFINE Places == {Order[c] : c \in S}
<1>1. PICK m \in Places : \A k \in Places : m <= k
    <2>1. Places \in SUBSET Nat
        OBVIOUS
    <2>2. PICK n : n \in Places
        OBVIOUS
    <2> DEFINE Less == OpToRel(<, Nat)
    <2>3. \A k, m \in Nat : k < m => <<k, m>> \in Less
        BY DEF OpToRel
    <2>4. IsWellFoundedOn(Less, Nat)
        BY NatLessThanWellFounded
    <2> HIDE DEF Places, Less
    <2>5. PICK m \in Places : \A k \in Places : ~(<<k, m>> \in Less)
        BY <2>1, <2>2, <2>4, WFMin
    <2>6. ASSUME NEW k \in Places
          PROVE  m <= k
        <3>1. k \in Nat /\ m \in Nat
            BY <2>1
        <3>2. ~(k < m)
            BY <2>3, <2>5, <3>1
        <3> QED
            BY <3>1, <3>2
    <2> QED
        BY <2>6
<1>2. \E c \in S : \A b \in S : Order[c] <= Order[b]
    BY <1>1
<1> QED
    BY <1>2

LEMMA Looking ==
    ASSUME TypeOK, NEW d \in Detectors, dpc[d] # "wait"
    PROVE  Judged(d) \in Consumers
BY FirstExists DEF TypeOK, AtWork, Judged

LEMMA InitTypes == Init => TypeOK
BY DEF Init, Of, TypeOK, AtWork

\* What a change of the jobs does to the types.
LEMMA JobsTyped ==
    ASSUME TypeOK, NEW c \in Consumers, NEW t \in Nat, NEW f \in Nat, Jobs(c, t, f)
    PROVE  /\ total' \in [Consumers -> Nat] /\ failed' \in [Consumers -> Nat]
           /\ peak' \in [Consumers -> Nat]
BY DEF TypeOK, Jobs

\* What going on does to the detectors.
LEMMA GoOnTyped ==
    ASSUME TypeOK, NEW d \in Detectors, NEW rest \in SUBSET Consumers, GoOn(d, rest)
    PROVE  /\ todo' \in [Detectors -> SUBSET Consumers] /\ seen' \in [Detectors -> Nat]
           /\ dpc' \in [Detectors -> {"wait", "total", "failed", "suspend"}]
           /\ AtWork'
BY DEF TypeOK, AtWork, GoOn

\* Every step keeps the types.
LEMMA NextTypes == TypeOK /\ [Next]_vars => TypeOK'
<1> SUFFICES ASSUME TypeOK, [Next]_vars
             PROVE  TypeOK'
    OBVIOUS
<1>1. ASSUME NEW r \in Requests, NEW c \in Consumers, Authenticate(r, c)
      PROVE  TypeOK'
    BY <1>1 DEF Authenticate, Admitted, TypeOK, AtWork, rows, jobs, detectorVars
<1>2. ASSUME NEW r \in Requests, Submit(r)
      PROVE  TypeOK'
    <2>1. /\ who[r] \in Consumers /\ total[who[r]] + 1 \in Nat /\ failed[who[r]] \in Nat
          /\ Jobs(who[r], total[who[r]] + 1, failed[who[r]])
          /\ UNCHANGED <<suspended, auto, dpc, todo, seen, acts>>
          /\ who' = [who EXCEPT ![r] = Nobody]
        BY <1>2 DEF Submit, TypeOK, rows, detectorVars
    <2>2. late' \in [Consumers -> Nat]
        BY <1>2 DEF Submit, TypeOK
    <2>3. /\ total' \in [Consumers -> Nat] /\ failed' \in [Consumers -> Nat]
          /\ peak' \in [Consumers -> Nat]
        BY <2>1, JobsTyped
    <2> QED
        BY <2>1, <2>2, <2>3 DEF TypeOK, AtWork
<1>3. ASSUME NEW r \in Requests, Reject(r)
      PROVE  TypeOK'
    BY <1>3 DEF Reject, TypeOK, AtWork, rows, jobs, detectorVars
<1>4. ASSUME NEW c \in Consumers, JobFails(c) \/ JobSaved(c)
      PROVE  TypeOK'
    <2>1. PICK f \in Nat : Jobs(c, total[c], f)
        <3>1. CASE JobFails(c)
            BY <3>1 DEF JobFails, TypeOK
        <3>2. CASE JobSaved(c)
            BY <3>2 DEF JobSaved, TypeOK
        <3> QED
            BY <1>4, <3>1, <3>2
    <2>2. /\ total' \in [Consumers -> Nat] /\ failed' \in [Consumers -> Nat]
          /\ peak' \in [Consumers -> Nat]
        <3>1. total[c] \in Nat
            BY DEF TypeOK
        <3> QED
            BY <2>1, <3>1, JobsTyped
    <2>3. UNCHANGED <<suspended, auto, who, dpc, todo, seen, acts, late>>
        BY <1>4 DEF JobFails, JobSaved, rows, detectorVars
    <2> QED
        BY <2>2, <2>3 DEF TypeOK, AtWork
<1>5. ASSUME NEW c \in Consumers, SuspendConsumer(c) \/ ReactivateConsumer(c)
      PROVE  TypeOK'
    <2>1. CASE SuspendConsumer(c)
        BY <2>1 DEF SuspendConsumer, SetSuspended, TypeOK, AtWork, jobs, detectorVars
    <2>2. CASE ReactivateConsumer(c)
        BY <2>2 DEF ReactivateConsumer, SetSuspended, TypeOK, AtWork, jobs, detectorVars
    <2> QED
        BY <1>5, <2>1, <2>2
<1>6. ASSUME NEW d \in Detectors, Detect(d) \/ Replace(d)
      PROVE  TypeOK'
    <2>1. /\ UNCHANGED <<total, failed, peak, who, late>> /\ acts' \in Nat
          /\ suspended' \in [Consumers -> BOOLEAN] /\ auto' \in [Consumers -> BOOLEAN]
        <3>1. CASE List(d) \/ CountTotal(d) \/ CountFailed(d) \/ Replace(d)
            BY <3>1 DEF List, CountTotal, CountFailed, Replace, rows, jobs, TypeOK
        <3>2. CASE Suspend(d)
            BY <3>2 DEF Suspend, SetSuspended, rows, jobs, TypeOK
        <3> QED
            BY <1>6, <3>1, <3>2 DEF Detect
    <2>2. CASE \E rest \in SUBSET Consumers : GoOn(d, rest)
        BY <2>1, <2>2, GoOnTyped DEF TypeOK
    <2>3. CASE /\ dpc[d] = "total" /\ total[Judged(d)] > 0
               /\ seen' = [seen EXCEPT ![d] = total[Judged(d)]]
               /\ dpc' = [dpc EXCEPT ![d] = "failed"]
               /\ UNCHANGED todo
        <3>1. total[Judged(d)] \in Nat
            BY <2>3, Looking DEF TypeOK
        <3>2. seen'[d] > 0 /\ dpc'[d] = "failed" /\ todo'[d] # {}
            BY <2>3 DEF TypeOK, AtWork
        <3>3. \A b \in Detectors \ {d} : seen'[b] = seen[b] /\ dpc'[b] = dpc[b] /\ todo'[b] = todo[b]
            BY <2>3 DEF TypeOK
        <3>4. AtWork'
            BY <3>2, <3>3 DEF TypeOK, AtWork
        <3> QED
            BY <2>1, <2>3, <3>1, <3>4 DEF TypeOK
    <2>4. CASE /\ dpc[d] = "failed" /\ dpc' = [dpc EXCEPT ![d] = "suspend"]
               /\ UNCHANGED <<todo, seen>>
        BY <2>1, <2>4 DEF TypeOK, AtWork
    <2>5. Later(d) \in SUBSET Consumers /\ {} \in SUBSET Consumers
          /\ {c \in Consumers : ~suspended[c]} \in SUBSET Consumers
        BY DEF Later, TypeOK
    <2> QED
        BY <1>6, <2>2, <2>3, <2>4, <2>5
           DEF Detect, List, CountTotal, CountFailed, Suspend, SetSuspended, Replace
<1>7. CASE UNCHANGED vars
    BY <1>7 DEF vars, TypeOK, AtWork
<1> QED
    BY <1>1, <1>2, <1>3, <1>4, <1>5, <1>6, <1>7 DEF Next

\* The rows, requests and detectors keep their types, and a detector that judges a
\* consumer has a number of jobs to divide by (abuse.go:65-93, job.go:96-116).
THEOREM TypeCorrect == Spec => []TypeOK
BY InitTypes, NextTypes, PTL DEF Spec

-----------------------------------------------------------------------------
(* Why a consumer is suspended.                                            *)

\* With so many failed jobs some number of jobs large enough has too many.
Convicted(c) == total[c] >= MinJobs /\ peak[c] * Share > MinJobs

\* What a detector read about a consumer is old, but the number of jobs and
\* the largest number of failures have only grown since.
ReadInv ==
    /\ \A c \in Consumers : failed[c] <= peak[c]
    /\ \A d \in Detectors : dpc[d] = "failed" => seen[d] <= total[Judged(d)]
    /\ \A d \in Detectors : dpc[d] = "suspend" => Convicted(Judged(d))
    /\ FailuresBehindSuspension

LEMMA Product ==
    ASSUME NEW a \in Nat, NEW b \in Nat, NEW c \in Nat, a <= b
    PROVE  a * c <= b * c /\ a * c \in Nat /\ b * c \in Nat
<1>1. PICK k \in Nat : b = a + k
    <2>1. b - a \in Nat /\ b = a + (b - a)
        OBVIOUS
    <2> QED
        BY <2>1
<1>2. b * c = a * c + k * c
    BY <1>1
<1>3. a * c \in Nat /\ k * c \in Nat
    OBVIOUS
<1> QED
    BY <1>2, <1>3

\* More jobs and more failures do not acquit a consumer.
LEMMA JobsConvict ==
    ASSUME TypeOK, NEW c \in Consumers, NEW t \in Nat, NEW f \in Nat, Jobs(c, t, f),
           t >= total[c], ReadInv
    PROVE  /\ \A b \in Consumers : total'[b] >= total[b] /\ peak'[b] >= peak[b]
           /\ \A b \in Consumers : failed'[b] <= peak'[b]
           /\ \A b \in Consumers : Convicted(b) => Convicted(b)'
<1>1. /\ \A b \in Consumers : b # c => total'[b] = total[b] /\ peak'[b] = peak[b]
                                       /\ failed'[b] = failed[b]
      /\ total'[c] = t /\ failed'[c] = f /\ peak'[c] = IF f > peak[c] THEN f ELSE peak[c]
    BY DEF Jobs, TypeOK
<1>2. \A b \in Consumers : /\ total[b] \in Nat /\ peak[b] \in Nat /\ failed[b] \in Nat
                           /\ total'[b] \in Nat /\ peak'[b] \in Nat
    BY JobsTyped DEF TypeOK
<1>3. \A b \in Consumers : total'[b] >= total[b] /\ peak'[b] >= peak[b]
    BY <1>1, <1>2
<1>4. \A b \in Consumers : failed'[b] <= peak'[b]
    BY <1>1, <1>2 DEF ReadInv
<1>5. ASSUME NEW b \in Consumers, Convicted(b)
      PROVE  Convicted(b)'
    <2>1. peak[b] * Share <= peak'[b] * Share /\ peak[b] * Share \in Nat /\ peak'[b] * Share \in Nat
        BY <1>2, <1>3, Product
    <2> HIDE DEF TypeOK
    <2>2. total'[b] >= MinJobs
        BY <1>2, <1>3, <1>5 DEF Convicted
    <2>3. peak'[b] * Share > MinJobs
        BY <1>5, <2>1 DEF Convicted
    <2> QED
        BY <2>2, <2>3 DEF Convicted
<1> QED
    BY <1>3, <1>4, <1>5

LEMMA NextRead == TypeOK /\ ReadInv /\ [Next]_vars => ReadInv'
<1> SUFFICES ASSUME TypeOK, ReadInv, [Next]_vars
             PROVE  ReadInv'
    OBVIOUS
<1>1. ASSUME NEW c \in Consumers, NEW t \in Nat, NEW f \in Nat, Jobs(c, t, f), t >= total[c],
             UNCHANGED <<auto, dpc, todo, seen>>
      PROVE  ReadInv'
    <2>1. /\ \A b \in Consumers : total'[b] >= total[b] /\ peak'[b] >= peak[b]
          /\ \A b \in Consumers : failed'[b] <= peak'[b]
          /\ \A b \in Consumers : Convicted(b) => Convicted(b)'
        BY <1>1, JobsConvict
    <2>2. \A b \in Consumers : total[b] \in Nat /\ total'[b] \in Nat
        BY <1>1, JobsTyped DEF TypeOK
    <2>3. \A d \in Detectors : Judged(d)' = Judged(d) /\ seen[d] \in Nat
        BY <1>1 DEF Judged, TypeOK
    <2>4. ASSUME NEW d \in Detectors, dpc'[d] = "failed"
          PROVE  seen'[d] <= total'[Judged(d)']
        <3>1. dpc[d] = "failed" /\ seen[d] <= total[Judged(d)] /\ Judged(d) \in Consumers
            BY <1>1, <2>4, Looking DEF ReadInv
        <3> QED
            BY <1>1, <2>1, <2>2, <2>3, <3>1
    <2>5. ASSUME NEW d \in Detectors, dpc'[d] = "suspend"
          PROVE  Convicted(Judged(d))'
        <3>1. dpc[d] = "suspend" /\ Judged(d)' = Judged(d)
            BY <1>1, <2>3, <2>5
        <3>2. PICK b \in Consumers : b = Judged(d)
            BY <3>1, Looking
        <3>3. Convicted(b)'
            BY <2>1, <3>1, <3>2 DEF ReadInv
        <3> QED
            BY <3>1, <3>2, <3>3 DEF Convicted
    <2>6. FailuresBehindSuspension'
        BY <1>1, <2>1 DEF ReadInv, FailuresBehindSuspension, Convicted
    <2> QED
        BY <2>1, <2>4, <2>5, <2>6 DEF ReadInv
<1>2. ASSUME NEW r \in Requests, Submit(r)
      PROVE  ReadInv'
    <2>1. /\ who[r] \in Consumers /\ total[who[r]] \in Nat /\ failed[who[r]] \in Nat
          /\ Jobs(who[r], total[who[r]] + 1, failed[who[r]])
          /\ UNCHANGED <<auto, dpc, todo, seen>>
        BY <1>2 DEF Submit, TypeOK, rows, detectorVars
    <2>2. PICK c \in Consumers : c = who[r]
        BY <2>1
    <2>3. /\ total[c] + 1 \in Nat /\ total[c] + 1 >= total[c] /\ failed[c] \in Nat
          /\ Jobs(c, total[c] + 1, failed[c])
        BY <2>1, <2>2
    <2> QED
        BY <2>1, <2>3, <1>1
<1>3. ASSUME NEW c \in Consumers, JobFails(c) \/ JobSaved(c)
      PROVE  ReadInv'
    <2>1. total[c] \in Nat /\ failed[c] \in Nat
        BY DEF TypeOK
    <2>2. UNCHANGED <<auto, dpc, todo, seen>>
        BY <1>3 DEF JobFails, JobSaved, rows, detectorVars
    <2>3. CASE JobFails(c)
        BY <2>1, <2>2, <2>3, <1>1 DEF JobFails
    <2>4. CASE JobSaved(c)
        <3>1. failed[c] - 1 \in Nat /\ Jobs(c, total[c], failed[c] - 1)
            BY <2>1, <2>4 DEF JobSaved
        <3> QED
            BY <2>1, <2>2, <3>1, <1>1
    <2> QED
        BY <1>3, <2>3, <2>4
<1>4. ASSUME UNCHANGED <<total, failed, peak, dpc, todo, seen>>,
             \A c \in Consumers : auto'[c] => auto[c]
      PROVE  ReadInv'
    <2>1. \A d \in Detectors : Judged(d)' = Judged(d)
        BY <1>4 DEF Judged
    <2>2. FailuresBehindSuspension'
        BY <1>4 DEF ReadInv, FailuresBehindSuspension
    <2>3. \A d \in Detectors : dpc'[d] = "suspend" => Convicted(Judged(d))'
        BY <1>4, <2>1 DEF ReadInv, Convicted
    <2> QED
        BY <1>4, <2>1, <2>2, <2>3 DEF ReadInv
<1>5. CASE \/ \E r \in Requests : Reject(r) \/ \E c \in Consumers : Authenticate(r, c)
           \/ UNCHANGED vars
    BY <1>4, <1>5 DEF Reject, Authenticate, Admitted, rows, jobs, detectorVars, vars
<1>6. ASSUME NEW c \in Consumers, SuspendConsumer(c) \/ ReactivateConsumer(c)
      PROVE  ReadInv'
    BY <1>4, <1>6 DEF SuspendConsumer, ReactivateConsumer, SetSuspended, jobs, detectorVars, TypeOK
<1>7. ASSUME NEW d \in Detectors, Detect(d) \/ Replace(d)
      PROVE  ReadInv'
    <2>1. /\ UNCHANGED <<total, failed, peak>>
          /\ \A b \in Detectors : b # d => /\ dpc'[b] = dpc[b] /\ seen'[b] = seen[b]
                                           /\ todo'[b] = todo[b]
        BY <1>7 DEF Detect, List, CountTotal, CountFailed, Suspend, SetSuspended, Replace, GoOn, jobs, TypeOK
    <2>2. \A b \in Detectors : b # d => Judged(b)' = Judged(b)
        BY <2>1 DEF Judged
    <2>3. ASSUME UNCHANGED auto
          PROVE  FailuresBehindSuspension'
        BY <2>1, <2>3 DEF ReadInv, FailuresBehindSuspension
    <2>4. ASSUME FailuresBehindSuspension',
                 dpc'[d] = "failed" => seen'[d] <= total[Judged(d)'],
                 dpc'[d] = "suspend" => Convicted(Judged(d))'
          PROVE  ReadInv'
        BY <2>1, <2>2, <2>4 DEF ReadInv, Convicted
    <2>5. ASSUME NEW rest, GoOn(d, rest)
          PROVE  dpc'[d] \in {"wait", "total"}
        BY <2>5 DEF GoOn, TypeOK
    <2>6. CASE List(d) \/ Replace(d)
        BY <2>3, <2>4, <2>5, <2>6 DEF List, Replace, rows
    <2>7. CASE CountTotal(d)
        <3>1. UNCHANGED auto
            BY <2>7 DEF CountTotal, rows
        <3>2. CASE GoOn(d, Later(d))
            BY <2>3, <2>4, <2>5, <3>1, <3>2
        <3>3. CASE /\ seen' = [seen EXCEPT ![d] = total[Judged(d)]]
                   /\ dpc' = [dpc EXCEPT ![d] = "failed"]
                   /\ UNCHANGED todo
            <4>1. total[Judged(d)] \in Nat
                BY <2>7, Looking DEF CountTotal, TypeOK
            <4>2. dpc'[d] = "failed" /\ seen'[d] = total[Judged(d)] /\ Judged(d)' = Judged(d)
                BY <3>3 DEF TypeOK, Judged
            <4> QED
                BY <2>3, <2>4, <3>1, <4>1, <4>2
        <3> QED
            BY <2>7, <3>2, <3>3 DEF CountTotal
    <2>8. CASE CountFailed(d)
        <3>1. UNCHANGED auto
            BY <2>8 DEF CountFailed, rows
        <3>2. CASE GoOn(d, Later(d))
            BY <2>3, <2>4, <2>5, <3>1, <3>2
        <3>3. CASE /\ TooMany(failed[Judged(d)], seen[d])
                   /\ dpc' = [dpc EXCEPT ![d] = "suspend"]
                   /\ UNCHANGED <<todo, seen>>
            <4>1. PICK c \in Consumers : c = Judged(d)
                BY <2>8, Looking DEF CountFailed
            <4>2. /\ failed[c] \in Nat /\ peak[c] \in Nat /\ failed[c] <= peak[c]
                  /\ total[c] \in Nat /\ seen[d] \in Nat /\ seen[d] <= total[c]
                BY <2>8, <4>1 DEF CountFailed, ReadInv, TypeOK
            <4>3. failed[c] * Share > seen[d] /\ seen[d] >= MinJobs
                BY <3>3, <4>1 DEF TooMany
            <4>4. failed[c] * Share <= peak[c] * Share
                  /\ failed[c] * Share \in Nat /\ peak[c] * Share \in Nat
                BY <4>2, Product
            <4>5. total[c] >= MinJobs /\ peak[c] * Share > MinJobs
                BY <4>2, <4>3, <4>4
            <4>6. Judged(d)' = c /\ dpc'[d] = "suspend"
                BY <3>3, <4>1 DEF Judged, TypeOK
            <4>7. Convicted(Judged(d))'
                BY <2>1, <4>5, <4>6 DEF Convicted
            <4> QED
                BY <2>3, <2>4, <3>1, <4>6, <4>7
        <3> QED
            BY <2>8, <3>2, <3>3 DEF CountFailed
    <2>9. CASE Suspend(d)
        <3>1. GoOn(d, Later(d)) /\ dpc[d] = "suspend"
            BY <2>9 DEF Suspend, SetSuspended
        <3>2. \A c \in Consumers : auto'[c] => auto[c] \/ c = Judged(d)
            BY <2>9 DEF Suspend, SetSuspended, rows, TypeOK
        <3>3. Judged(d) \in Consumers => Convicted(Judged(d))
            BY <3>1 DEF ReadInv
        <3>4. FailuresBehindSuspension'
            BY <2>1, <3>2, <3>3 DEF ReadInv, FailuresBehindSuspension, Convicted
        <3> QED
            BY <2>4, <2>5, <3>1, <3>4
    <2> QED
        BY <1>7, <2>6, <2>7, <2>8, <2>9 DEF Detect
<1> QED
    BY <1>2, <1>3, <1>5, <1>6, <1>7 DEF Next

\* Whoever the abuse detector suspends had jobs enough to be judged, and at
\* some time so many failed jobs as are too many for that number, however the
\* detector's two counts and the workers' reports interleave
\* (checkConsumers, GetBounceRate).
THEOREM SuspendedHadFailures == Spec => []FailuresBehindSuspension
<1>1. Init => ReadInv
    BY DEF Init, Of, ReadInv, FailuresBehindSuspension
<1>2. TypeOK /\ ReadInv /\ [Next]_vars => (TypeOK /\ ReadInv)'
    BY NextTypes, NextRead
<1>3. ReadInv => FailuresBehindSuspension
    BY DEF ReadInv
<1> QED
    BY <1>1, <1>2, <1>3, InitTypes, PTL DEF Spec

-----------------------------------------------------------------------------
(* What a suspended consumer can still submit.                             *)

InFlight(c) == {r \in Requests : who[r] = c}

\* The jobs submitted since a suspension and the requests that may still
\* submit one are requests that were in flight at that moment.
LateInv == \A c \in Consumers :
    IF suspended[c] THEN late[c] + Cardinality(InFlight(c)) <= Cardinality(Requests)
                    ELSE late[c] = 0

LEMMA InFlightFinite ==
    ASSUME NEW S \in SUBSET Requests
    PROVE  /\ IsFiniteSet(S) /\ Cardinality(S) \in Nat
           /\ Cardinality(S) <= Cardinality(Requests) /\ Cardinality(Requests) \in Nat
BY FS_Subset, FS_CardinalityType

LEMMA NextLate == TypeOK /\ LateInv /\ [Next]_vars => LateInv'
<1> SUFFICES ASSUME TypeOK, LateInv, [Next]_vars, NEW c \in Consumers
             PROVE  IF suspended'[c]
                    THEN late'[c] + Cardinality(InFlight(c)') <= Cardinality(Requests)
                    ELSE late'[c] = 0
    BY DEF LateInv
<1>0. /\ late[c] \in Nat /\ suspended[c] \in BOOLEAN
      /\ Cardinality(InFlight(c)) \in Nat /\ IsFiniteSet(InFlight(c))
      /\ Cardinality(InFlight(c)) <= Cardinality(Requests)
      /\ Cardinality(InFlight(c)') \in Nat /\ Cardinality(InFlight(c)') <= Cardinality(Requests)
      /\ Cardinality(Requests) \in Nat
    <2>1. InFlight(c) \in SUBSET Requests /\ InFlight(c)' \in SUBSET Requests
        BY DEF InFlight
    <2> QED
        BY <2>1, InFlightFinite DEF TypeOK
<1>1. /\ suspended[c] => late[c] + Cardinality(InFlight(c)) <= Cardinality(Requests)
      /\ ~suspended[c] => late[c] = 0
    BY DEF LateInv
<1>2. ASSUME UNCHANGED <<who, late>>, suspended'[c] = suspended[c] \/ suspended'[c] = TRUE
      PROVE  IF suspended'[c]
             THEN late'[c] + Cardinality(InFlight(c)') <= Cardinality(Requests)
             ELSE late'[c] = 0
    <2>1. Cardinality(InFlight(c)') = Cardinality(InFlight(c)) /\ late'[c] = late[c]
        BY <1>2 DEF InFlight
    <2>2. CASE suspended[c]
        <3>1. suspended'[c] = TRUE
            BY <1>0, <1>2, <2>2
        <3>2. late'[c] + Cardinality(InFlight(c)') <= Cardinality(Requests)
            BY <1>0, <1>1, <2>1, <2>2
        <3> QED
            BY <3>1, <3>2
    <2>3. CASE ~suspended[c]
        BY <1>0, <1>1, <1>2, <2>1, <2>3
    <2> QED
        BY <1>0, <2>2, <2>3
<1>3. ASSUME NEW r \in Requests, NEW b \in Consumers, Authenticate(r, b)
      PROVE  IF suspended'[c]
             THEN late'[c] + Cardinality(InFlight(c)') <= Cardinality(Requests)
             ELSE late'[c] = 0
    <2>1. UNCHANGED <<suspended, late>> /\ ~suspended[b] /\ who' = [who EXCEPT ![r] = b]
        BY <1>3 DEF Authenticate, Admitted, rows
    <2>2. CASE suspended[c]
        <3>1. InFlight(c)' \subseteq InFlight(c)
            BY <2>1, <2>2 DEF InFlight, TypeOK
        <3>2. Cardinality(InFlight(c)') <= Cardinality(InFlight(c))
            BY <1>0, <3>1, FS_Subset
        <3> QED
            BY <1>0, <1>1, <2>1, <2>2, <3>2
    <2>3. CASE ~suspended[c]
        BY <1>1, <2>1, <2>3
    <2> QED
        BY <2>2, <2>3
<1>4. ASSUME NEW r \in Requests, Submit(r)
      PROVE  IF suspended'[c]
             THEN late'[c] + Cardinality(InFlight(c)') <= Cardinality(Requests)
             ELSE late'[c] = 0
    <2>1. /\ UNCHANGED suspended /\ who' = [who EXCEPT ![r] = Nobody] /\ who[r] # Nobody
          /\ late' = [late EXCEPT ![who[r]] = IF suspended[who[r]] THEN @ + 1 ELSE @]
        BY <1>4 DEF Submit, rows
    <2>2. InFlight(c)' = InFlight(c) \ {r}
        BY <2>1 DEF InFlight, TypeOK
    <2>3. Cardinality(InFlight(c)') = IF r \in InFlight(c) THEN Cardinality(InFlight(c)) - 1
                                                           ELSE Cardinality(InFlight(c))
        BY <1>0, <2>2, FS_RemoveElement
    <2>4. r \in InFlight(c) <=> who[r] = c
        BY DEF InFlight
    <2>5. late'[c] = IF who[r] = c /\ suspended[c] THEN late[c] + 1 ELSE late[c]
        BY <2>1 DEF TypeOK
    <2>6. CASE suspended[c]
        BY <1>0, <1>1, <2>1, <2>3, <2>4, <2>5, <2>6
    <2>7. CASE ~suspended[c]
        BY <1>1, <2>1, <2>5, <2>7
    <2> QED
        BY <2>6, <2>7
<1>5. ASSUME NEW r \in Requests, Reject(r)
      PROVE  IF suspended'[c]
             THEN late'[c] + Cardinality(InFlight(c)') <= Cardinality(Requests)
             ELSE late'[c] = 0
    <2>1. UNCHANGED <<suspended, late>> /\ who' = [who EXCEPT ![r] = Nobody]
        BY <1>5 DEF Reject, rows
    <2>2. InFlight(c)' \subseteq InFlight(c)
        BY <2>1 DEF InFlight, TypeOK
    <2>3. Cardinality(InFlight(c)') <= Cardinality(InFlight(c))
        BY <1>0, <2>2, FS_Subset
    <2>4. CASE suspended[c]
        BY <1>0, <1>1, <2>1, <2>3, <2>4
    <2>5. CASE ~suspended[c]
        BY <1>1, <2>1, <2>5
    <2> QED
        BY <2>4, <2>5
<1>6. ASSUME NEW b \in Consumers, JobFails(b) \/ JobSaved(b)
      PROVE  UNCHANGED <<who, late, suspended>>
    BY <1>6 DEF JobFails, JobSaved, rows
<1>7. ASSUME NEW b \in Consumers, SuspendConsumer(b)
      PROVE  UNCHANGED <<who, late>> /\ (suspended'[c] = suspended[c] \/ suspended'[c] = TRUE)
    BY <1>7 DEF SuspendConsumer, SetSuspended, TypeOK
<1>8. ASSUME NEW b \in Consumers, ReactivateConsumer(b)
      PROVE  IF suspended'[c]
             THEN late'[c] + Cardinality(InFlight(c)') <= Cardinality(Requests)
             ELSE late'[c] = 0
    <2>1. CASE b = c
        BY <1>8, <2>1 DEF ReactivateConsumer, SetSuspended, TypeOK
    <2>2. CASE b # c
        <3>1. suspended'[c] = suspended[c] /\ late'[c] = late[c] /\ UNCHANGED who
            BY <1>8, <2>2 DEF ReactivateConsumer, SetSuspended, TypeOK
        <3>2. Cardinality(InFlight(c)') = Cardinality(InFlight(c))
            BY <3>1 DEF InFlight
        <3> QED
            BY <1>1, <3>1, <3>2
    <2> QED
        BY <2>1, <2>2
<1>9. ASSUME NEW d \in Detectors, Detect(d) \/ Replace(d)
      PROVE  UNCHANGED <<who, late>> /\ (suspended'[c] = suspended[c] \/ suspended'[c] = TRUE)
    BY <1>9 DEF Detect, List, CountTotal, CountFailed, Suspend, SetSuspended, Replace, rows, TypeOK
<1>10. CASE UNCHANGED vars
    BY <1>2, <1>10 DEF vars
<1> QED
    BY <1>2, <1>3, <1>4, <1>5, <1>6, <1>7, <1>8, <1>9, <1>10 DEF Next

\* A suspension shuts the API for the consumer: of the jobs that are accepted
\* after it, each is of a request that was authenticated before (AuthMiddleware,
\* Suspend), so they are no more than requests can be in flight.
THEOREM SuspensionShuts == Spec => []LateJobsInFlight
<1>1. Init => LateInv
    BY DEF Init, Of, LateInv
<1>2. TypeOK /\ LateInv /\ [Next]_vars => (TypeOK /\ LateInv)'
    BY NextTypes, NextLate
<1>3. TypeOK /\ LateInv => LateJobsInFlight
    <2> SUFFICES ASSUME TypeOK, LateInv, NEW c \in Consumers
                 PROVE  late[c] <= Cardinality(Requests)
        BY DEF LateJobsInFlight
    <2>1. InFlight(c) \in SUBSET Requests
        BY DEF InFlight
    <2>2. Cardinality(InFlight(c)) \in Nat /\ Cardinality(Requests) \in Nat /\ late[c] \in Nat
        BY <2>1, InFlightFinite DEF TypeOK
    <2>3. CASE suspended[c]
        BY <2>2, <2>3 DEF LateInv
    <2>4. CASE ~suspended[c]
        BY <2>2, <2>4 DEF LateInv
    <2> QED
        BY <2>3, <2>4
<1> QED
    BY <1>1, <1>2, <1>3, InitTypes, PTL DEF Spec
=============================================================================
