-------------------------- MODULE JobServiceProofs --------------------------
(* Lemmas about JobService, for all jobs, retry limits and replays. They say *)
(* something of the code where Delivery, which implements JobService, is     *)
(* shown to inherit them: DeliveryWithinBudget.                              *)
EXTENDS JobService, TLAPS

USE LimitAssumption

LEMMA TypesKept == TypeOK /\ [Next]_vars => TypeOK'
  BY DEF TypeOK, Next, vars, Accept, Try, Mail, ReportDelivered, ReportFailed, Again

LEMMA InitTypes == Init => TypeOK
  BY DEF Init, TypeOK

\* A job is mailed at most once per attempt, and attempts are limited by
\* MAX_RETRIES and the replays (processMessage, replayDLQ).
LEMMA WithinBudget == Spec => []Budget
<1>1. Init => Budget
  <2> SUFFICES ASSUME Init, NEW j \in Jobs
               PROVE  mails[j] <= tries[j] /\ tries[j] <= Limit + 1 + again[j]
    BY DEF Budget
  <2>1. mails[j] = 0 /\ tries[j] = 0 /\ again[j] = 0
    BY DEF Init
  <2> QED
    BY <2>1
<1>2. TypeOK /\ Budget /\ [Next]_vars => Budget'
  <2> SUFFICES ASSUME TypeOK, Budget, [Next]_vars, NEW j \in Jobs
               PROVE  mails'[j] <= tries'[j] /\ tries'[j] <= Limit + 1 + again'[j]
    BY DEF Budget
  <2>1. /\ mails[j] \in Nat /\ tries[j] \in Nat /\ again[j] \in Nat
        /\ mails[j] <= tries[j] /\ tries[j] <= Limit + 1 + again[j]
    BY DEF TypeOK, Budget
  <2>2. ASSUME NEW k \in Jobs, Try(k) PROVE tries'[j] <= Limit + 1 + again'[j]
                                           /\ mails'[j] <= tries'[j]
    BY <2>1, <2>2 DEF Try, TypeOK
  <2>3. ASSUME NEW k \in Jobs, Mail(k) PROVE tries'[j] <= Limit + 1 + again'[j]
                                            /\ mails'[j] <= tries'[j]
    BY <2>1, <2>3 DEF Mail, TypeOK
  <2>4. ASSUME NEW k \in Jobs, Again(k) PROVE tries'[j] <= Limit + 1 + again'[j]
                                             /\ mails'[j] <= tries'[j]
    BY <2>1, <2>4 DEF Again, TypeOK
  <2> QED
    BY <2>1, <2>2, <2>3, <2>4 DEF Next, vars, Accept, ReportDelivered, ReportFailed
<1> QED
  BY <1>1, <1>2, InitTypes, TypesKept, PTL DEF Spec

\* Failed is only said of a job whose attempts are used up (processMessage).
LEMMA FailedIsExhausted == Spec => []FailedAfterAll
<1>1. Init => FailedAfterAll
  BY DEF Init, FailedAfterAll
<1>2. TypeOK /\ FailedAfterAll /\ [Next]_vars => FailedAfterAll'
  BY DEF TypeOK, FailedAfterAll, Next, vars, Accept, Try, Mail, ReportDelivered,
     ReportFailed, Again
<1> QED
  BY <1>1, <1>2, InitTypes, TypesKept, PTL DEF Spec

=============================================================================
