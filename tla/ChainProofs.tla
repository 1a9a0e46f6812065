---------------------------- MODULE ChainProofs ----------------------------
(***************************************************************************)
(* Theorems about Chain, for any number of calls, consumers and requests   *)
(* to create one, any number of mishaps, and an int64 of any width.        *)
(***************************************************************************)
EXTENDS Chain, JobServiceProofs

USE NobodyAssumption, TimeAssumption, MishapsAssumption

-----------------------------------------------------------------------------
(* The steps of Chain are built from the actions of JobService, whose types *)
(* they keep.                                                               *)

LEMMA StepsOfService == [ChainNext]_chainVars => [Next]_vars
<1> SUFFICES ASSUME [ChainNext]_chainVars
             PROVE  [Next]_vars
    OBVIOUS
<1>1. ASSUME NEW a \in Admins, NEW c \in Consumers, Create(a, c)
      PROVE  UNCHANGED vars
    BY <1>1 DEF Create
<1>2. ASSUME NEW j \in Jobs, LimitAddress(j) \/ LimitConsumer(j)
      PROVE  UNCHANGED vars
    BY <1>2 DEF LimitAddress, LimitConsumer, CheckLimit
<1>3. ASSUME NEW j \in Jobs, NEW c \in Consumers, AuthenticateKey(j, c) \/ AuthenticateHMAC(j, c)
      PROVE  UNCHANGED vars
    BY <1>3 DEF AuthenticateKey, AuthenticateHMAC, Admit
<1>4. ASSUME NEW j \in Jobs, Refuse(j) \/ AnswerOnly(j) \/ QueueJob(j) \/ Audit(j) \/ Cut(j) \/ Break(j)
      PROVE  UNCHANGED vars
    BY <1>4 DEF Refuse, AnswerOnly, QueueJob, Audit, Cut, Break
<1>5. ASSUME NEW j \in Jobs, StoreJob(j) \/ Work(j)
      PROVE  [Next]_vars
    BY <1>5 DEF StoreJob, Work, Next
<1>6. CASE UNCHANGED chainVars
    BY <1>6 DEF chainVars
<1> QED
    BY <1>1, <1>2, <1>3, <1>4, <1>5, <1>6 DEF ChainNext

-----------------------------------------------------------------------------
(* Types, and where a call is.                                             *)

\* What is known of a call from the place it has reached.
Places ==
    \A j \in Jobs :
        /\ pc[j] \in {"limit", "handler", "queue", "audit"} => who[j] # Nobody
        /\ pc[j] = "audit" => answer[j] # "none"
        /\ pc[j] \in {"address", "auth", "limit", "handler", "queue"} => answer[j] = "none"
        /\ pc[j] \in {"address", "auth", "limit", "handler"} => status[j] = "none"
        /\ j \in entered => status[j] # "none" /\ answer[j] # "none"
        /\ status[j] # "none" \/ answer[j] # "none" => pc[j] \in {"queue", "audit", "done"}
        /\ pc[j] = "queue" => status[j] # "none"

LEMMA ServiceTyped ==
    ASSUME ChainTypeOK, [ChainNext]_chainVars
    PROVE  TypeOK'
BY StepsOfService, TypesKept DEF ChainTypeOK

LEMMA InitPlaced == ChainInit => ChainTypeOK /\ Places
<1>1. ChainInit => TypeOK
    BY InitTypes DEF ChainInit
<1> QED
    BY <1>1 DEF ChainInit, Init, ChainTypeOK, Places, Calls, Limiters, Answers

\* Every step keeps types and places.
LEMMA NextPlaced ==
    ChainTypeOK /\ Places /\ [ChainNext]_chainVars => (ChainTypeOK /\ Places)'
<1> SUFFICES ASSUME ChainTypeOK, Places, [ChainNext]_chainVars
             PROVE  ChainTypeOK' /\ Places'
    OBVIOUS
<1>0. TypeOK'
    BY ServiceTyped
<1> USE DEF Limiters, Answers
<1>1. ASSUME NEW a \in Admins, NEW c \in Consumers, Create(a, c)
      PROVE  ChainTypeOK' /\ Places'
    BY <1>0, <1>1 DEF Create, Mishap, ChainTypeOK, Places, vars, call, outcome, limits
<1>2. ASSUME NEW j \in Jobs, LimitAddress(j) \/ LimitConsumer(j)
      PROVE  ChainTypeOK' /\ Places'
    <2>1. PICK key \in Limiters, next \in {"auth", "handler"} :
              /\ CheckLimit(j, key, next)
              /\ pc[j] = IF next = "auth" THEN "address" ELSE "limit"
        BY <1>2 DEF LimitAddress, LimitConsumer
    <2>2. ChainTypeOK'
        BY <1>0, <2>1 DEF CheckLimit, Works, Fails, Mishap, Step, ChainTypeOK, vars, names, call, outcome
    <2>3. Places'
        BY <2>1 DEF CheckLimit, Step, ChainTypeOK, Places, vars, call, outcome
    <2> QED
        BY <2>2, <2>3
<1>3. ASSUME NEW j \in Jobs, NEW c \in Consumers, AuthenticateKey(j, c) \/ AuthenticateHMAC(j, c)
      PROVE  ChainTypeOK' /\ Places'
    <2>1. PICK seconds \in Int : Admit(j, c, seconds)
        BY <1>3 DEF AuthenticateKey, AuthenticateHMAC
    <2> QED
        BY <1>0, <2>1 DEF Admit, Works, Step, ChainTypeOK, Places, vars, names, outcome, limits
<1>4. ASSUME NEW j \in Jobs, Refuse(j) \/ Cut(j) \/ Break(j)
      PROVE  ChainTypeOK' /\ Places'
    BY <1>0, <1>4 DEF Refuse, Cut, Break, Mishap, Step, ChainTypeOK, Places, vars, names, call, outcome, limits
<1>5. ASSUME NEW j \in Jobs, AnswerOnly(j)
      PROVE  ChainTypeOK' /\ Places'
    BY <1>0, <1>5 DEF AnswerOnly, Answer, Step, ChainTypeOK, Places, vars, names, call, limits
<1>6. ASSUME NEW j \in Jobs, StoreJob(j)
      PROVE  ChainTypeOK' /\ Places'
    <2>1. ChainTypeOK'
        BY <1>0, <1>6 DEF StoreJob, Works, Fails, Mishap, Answer, Step, ChainTypeOK, names, call, limits
    <2>2. Places'
        BY <1>6 DEF StoreJob, Accept, Answer, Step, ChainTypeOK, TypeOK, Places, vars, call
    <2> QED
        BY <2>1, <2>2
<1>7. ASSUME NEW j \in Jobs, QueueJob(j)
      PROVE  ChainTypeOK' /\ Places'
    <2>1. ChainTypeOK'
        BY <1>0, <1>7 DEF QueueJob, Works, Fails, Mishap, Answer, Step, ChainTypeOK, vars, names, call, limits
    <2>2. Places'
        BY <1>7 DEF QueueJob, Answer, Step, ChainTypeOK, Places, vars, call
    <2> QED
        BY <2>1, <2>2
<1>8. ASSUME NEW j \in Jobs, Audit(j)
      PROVE  ChainTypeOK' /\ Places'
    <2>1. who[j] \in Consumers /\ answer[j] \in {"queued", "read", "error"}
        BY <1>8 DEF Audit, ChainTypeOK, Places
    <2>2. ChainTypeOK'
        BY <1>0, <1>8, <2>1 DEF Audit, Works, Fails, Mishap, Step, ChainTypeOK, vars, names, call, outcome, limits
    <2>3. Places'
        BY <1>8 DEF Audit, Step, ChainTypeOK, Places, vars, call, outcome
    <2> QED
        BY <2>2, <2>3
<1>9. ASSUME NEW j \in Jobs, Work(j)
      PROVE  ChainTypeOK' /\ Places'
    <2>1. ChainTypeOK'
        BY <1>0, <1>9 DEF Work, ChainTypeOK, names, call, outcome, limits
    <2>2. Places'
        BY <1>9 DEF Work, Try, Mail, ReportDelivered, ReportFailed, Again, ChainTypeOK, TypeOK, Places, call, outcome
    <2> QED
        BY <2>1, <2>2
<1>10. CASE UNCHANGED chainVars
    BY <1>0, <1>10 DEF chainVars, ChainTypeOK, Places, vars, names, call, outcome, limits
<1> QED
    BY <1>1, <1>2, <1>3, <1>4, <1>5, <1>6, <1>7, <1>8, <1>9, <1>10 DEF ChainNext

LEMMA Placed == ChainSpec => [](ChainTypeOK /\ Places)
BY InitPlaced, NextPlaced, PTL DEF ChainSpec

\* Every variable keeps its type; above all, no audit row is written without
\* the consumer and the status of its call.
THEOREM ChainTypeCorrect == ChainSpec => []ChainTypeOK
BY Placed, PTL

-----------------------------------------------------------------------------
(* Credentials.                                                            *)

\* A call in whose context a consumer is has credentials that were told.
Owners ==
    \A j \in Jobs : who[j] # Nobody =>
        holder[who[j]] \in Admins /\ told[holder[who[j]]] = who[j]

LEMMA NextOwned ==
    ChainTypeOK /\ CredentialsWork /\ Owners /\ [ChainNext]_chainVars
        => (CredentialsWork /\ Owners)'
<1> SUFFICES ASSUME ChainTypeOK, CredentialsWork, Owners, [ChainNext]_chainVars
             PROVE  CredentialsWork' /\ Owners'
    OBVIOUS
<1>1. ASSUME NEW a \in Admins, NEW c \in Consumers, Create(a, c)
      PROVE  CredentialsWork' /\ Owners'
    <2>1. told[a] = Nobody
        BY <1>1 DEF Create, CredentialsWork, ChainTypeOK
    <2>2. CredentialsWork'
        BY <1>1, <2>1 DEF Create, CredentialsWork, ChainTypeOK
    <2>3. Owners'
        BY <1>1 DEF Create, Owners, ChainTypeOK, call
    <2> QED
        BY <2>2, <2>3
<1>2. ASSUME NEW j \in Jobs, NEW c \in Consumers, AuthenticateKey(j, c) \/ AuthenticateHMAC(j, c)
      PROVE  CredentialsWork' /\ Owners'
    <2>1. /\ UNCHANGED <<holder, told>>
          /\ who' = [who EXCEPT ![j] = c]
          /\ holder[c] # Nobody /\ told[holder[c]] = c
        BY <1>2 DEF AuthenticateKey, AuthenticateHMAC, Admit, names
    <2> QED
        BY <2>1 DEF CredentialsWork, Owners, ChainTypeOK
<1>3. CASE UNCHANGED <<holder, told, who>>
    BY <1>3 DEF CredentialsWork, Owners
<1>4. ASSUME NEW j \in Jobs, LimitAddress(j) \/ LimitConsumer(j) \/ Refuse(j) \/ AnswerOnly(j)
                \/ StoreJob(j) \/ QueueJob(j) \/ Audit(j) \/ Cut(j) \/ Break(j) \/ Work(j)
      PROVE  UNCHANGED <<holder, told, who>>
    BY <1>4 DEF LimitAddress, LimitConsumer, CheckLimit, Refuse, AnswerOnly, StoreJob, QueueJob,
       Audit, Cut, Break, Work, names, call
<1> QED
    BY <1>1, <1>2, <1>3, <1>4 DEF ChainNext, chainVars, names, call

LEMMA Owned == ChainSpec => [](CredentialsWork /\ Owners)
<1>1. ChainInit => CredentialsWork /\ Owners
    BY DEF ChainInit, CredentialsWork, Owners, Calls
<1> QED
    BY <1>1, NextOwned, Placed, PTL DEF ChainSpec

\* However many requests create consumers of the same name, whoever was told
\* credentials can use them.
THEOREM CredentialsStayGood == ChainSpec => []CredentialsWork
BY Owned, PTL

-----------------------------------------------------------------------------
(* Timestamps.                                                             *)

\* What the comparison in int64 lets in: the timestamps within the skew, and
\* the one whose distance is exactly 2^63.
LEMMA WindowExact ==
    ASSUME NEW timestamp \in Stamps, NEW clock \in Clocks, CheckTimestamp(timestamp, clock)
    PROVE  clock - timestamp \in (-Skew .. Skew) \cup {Half}
<1> DEFINE d == clock - timestamp
<1>1. /\ clock \in Int /\ 0 <= clock /\ clock <= Half - Skew - 1
      /\ timestamp \in Int /\ -Half <= timestamp /\ timestamp <= Half - 1
    BY TimeAssumption
<1>2. d \in Int /\ d > -Half /\ d < 2 * Half - Skew
    BY <1>1
<1>3. (IF Wrap(d) < 0 THEN Wrap(-Wrap(d)) ELSE Wrap(d)) <= Skew
    BY DEF CheckTimestamp
<1> HIDE DEF d
<1>4. CASE d >= Half
    <2>1. Wrap(d) = d - 2 * Half /\ Wrap(d) < 0
        BY <1>2, <1>4 DEF Wrap
    <2>2. CASE d = Half
        BY <2>2 DEF d
    <2>3. CASE d > Half
        <3>1. -Wrap(d) = 2 * Half - d /\ 2 * Half - d < Half /\ 2 * Half - d > Skew
            BY <1>2, <2>1, <2>3
        <3>2. Wrap(-Wrap(d)) = 2 * Half - d
            BY <1>2, <3>1 DEF Wrap
        <3> QED
            BY <1>2, <1>3, <2>1, <3>1, <3>2
    <2> QED
        BY <1>2, <1>4, <2>2, <2>3
<1>5. CASE d < Half
    <2>1. Wrap(d) = d
        BY <1>2, <1>5 DEF Wrap
    <2>2. d < 0 => Wrap(-d) = -d
        BY <1>2, <1>5 DEF Wrap
    <2>3. d \in -Skew .. Skew
        BY <1>2, <1>3, <2>1, <2>2
    <2> QED
        BY <2>3 DEF d
<1> QED
    BY <1>2, <1>4, <1>5

\* No call is let in with an older or newer signature, except for the one
\* timestamp at which int64 overflows.
THEOREM SignaturesAreFresh == ChainSpec => []FreshSignatures
<1>1. ChainInit => FreshSignatures
    <2>1. 0 \in -Skew .. Skew
        BY TimeAssumption
    <2> QED
        BY <2>1 DEF ChainInit, FreshSignatures, Calls
<1>2. ChainTypeOK /\ FreshSignatures /\ [ChainNext]_chainVars => FreshSignatures'
    <2> SUFFICES ASSUME ChainTypeOK, FreshSignatures, [ChainNext]_chainVars
                 PROVE  FreshSignatures'
        OBVIOUS
    <2>1. ASSUME NEW j \in Jobs, NEW c \in Consumers, AuthenticateKey(j, c)
          PROVE  FreshSignatures'
        BY <2>1 DEF AuthenticateKey, Admit, FreshSignatures, ChainTypeOK
    <2>2. ASSUME NEW j \in Jobs, NEW c \in Consumers, AuthenticateHMAC(j, c)
          PROVE  FreshSignatures'
        <3>1. PICK timestamp \in Stamps, clock \in Clocks :
                  CheckTimestamp(timestamp, clock) /\ Admit(j, c, clock - timestamp)
            BY <2>2 DEF AuthenticateHMAC
        <3>2. clock - timestamp \in (-Skew .. Skew) \cup {Half}
            BY <3>1, WindowExact
        <3>3. age' = [age EXCEPT ![j] = clock - timestamp]
            BY <3>1 DEF Admit
        <3> QED
            BY <3>2, <3>3 DEF FreshSignatures, ChainTypeOK
    <2>3. ASSUME NEW j \in Jobs, LimitAddress(j) \/ LimitConsumer(j) \/ Refuse(j) \/ AnswerOnly(j)
                    \/ StoreJob(j) \/ QueueJob(j) \/ Audit(j) \/ Cut(j) \/ Break(j) \/ Work(j)
          PROVE  UNCHANGED age
        BY <2>3 DEF LimitAddress, LimitConsumer, CheckLimit, Refuse, AnswerOnly, StoreJob, QueueJob,
           Audit, Cut, Break, Work, call
    <2>4. ASSUME NEW a \in Admins, NEW c \in Consumers, Create(a, c)
          PROVE  UNCHANGED age
        BY <2>4 DEF Create, call
    <2> QED
        BY <2>1, <2>2, <2>3, <2>4 DEF ChainNext, chainVars, call, FreshSignatures
<1> QED
    BY <1>1, <1>2, Placed, PTL DEF ChainSpec

-----------------------------------------------------------------------------
(* The limits.                                                             *)

Asked(j, key) == key \in counted[j] \cup open[j]

\* How far a call has come, the limiters on its way have been asked, and none
\* of them has refused it.
Admitted ==
    \A j \in Jobs :
        /\ pc[j] \in {"auth", "limit", "handler", "queue", "audit"} => Asked(j, "address")
        /\ pc[j] \in {"handler", "queue", "audit"} => Asked(j, "consumer")
        /\ pc[j] # "done" => j \notin denied
        /\ j \in entered => /\ Asked(j, "address") /\ Asked(j, "consumer")
                            /\ j \notin denied /\ who[j] # Nobody
        /\ mails[j] > 0 => j \in entered

LEMMA InitAdmitted == ChainInit => Admitted
<1>1. ChainInit => Init
    BY DEF ChainInit
<1>2. Init => \A j \in Jobs : mails[j] = 0
    BY DEF Init
<1>3. ~(0 > 0)
    OBVIOUS
<1> QED
    BY <1>1, <1>2, <1>3 DEF ChainInit, Admitted, Calls

LEMMA NextAdmitted ==
    ChainTypeOK /\ Places /\ Admitted /\ [ChainNext]_chainVars => Admitted'
<1> SUFFICES ASSUME ChainTypeOK, Places, Admitted, [ChainNext]_chainVars
             PROVE  Admitted'
    OBVIOUS
<1> USE DEF Asked
<1>1. ASSUME NEW a \in Admins, NEW c \in Consumers, Create(a, c)
      PROVE  Admitted'
    BY <1>1 DEF Create, Admitted, vars, call, outcome, limits
<1>2. ASSUME NEW j \in Jobs, LimitAddress(j)
      PROVE  Admitted'
    BY <1>2 DEF LimitAddress, CheckLimit, Step, Admitted, Places, ChainTypeOK, vars, call, outcome
<1>3. ASSUME NEW j \in Jobs, LimitConsumer(j)
      PROVE  Admitted'
    BY <1>3 DEF LimitConsumer, CheckLimit, Step, Admitted, Places, ChainTypeOK, vars, call, outcome
<1>4. ASSUME NEW j \in Jobs, NEW c \in Consumers, AuthenticateKey(j, c) \/ AuthenticateHMAC(j, c)
      PROVE  Admitted'
    <2>1. PICK seconds : Admit(j, c, seconds)
        BY <1>4 DEF AuthenticateKey, AuthenticateHMAC
    <2> QED
        BY <2>1 DEF Admit, Step, Admitted, ChainTypeOK, vars, outcome, limits
<1>5. ASSUME NEW j \in Jobs, Refuse(j) \/ AnswerOnly(j) \/ Audit(j) \/ Cut(j) \/ Break(j)
      PROVE  Admitted'
    BY <1>5 DEF Refuse, AnswerOnly, Audit, Cut, Break, Answer, Step, Admitted, ChainTypeOK,
       vars, call, outcome, limits
<1>6. ASSUME NEW j \in Jobs, StoreJob(j)
      PROVE  Admitted'
    BY <1>6 DEF StoreJob, Accept, Answer, Step, Admitted, ChainTypeOK, vars, call, limits
<1>7. ASSUME NEW j \in Jobs, QueueJob(j)
      PROVE  Admitted'
    BY <1>7 DEF QueueJob, Answer, Step, Admitted, Places, ChainTypeOK, vars, call, limits
<1>8. ASSUME NEW j \in Jobs, Work(j)
      PROVE  Admitted'
    BY <1>8 DEF Work, Try, Mail, ReportDelivered, ReportFailed, Again, Admitted, ChainTypeOK, TypeOK,
       call, outcome, limits
<1>9. CASE UNCHANGED chainVars
    BY <1>9 DEF chainVars, Admitted, vars, call, outcome, limits
<1> QED
    BY <1>1, <1>2, <1>3, <1>4, <1>5, <1>6, <1>7, <1>8, <1>9 DEF ChainNext

\* No mail goes out for a call that did not have somebody's credentials and
\* did not pass both limits, in whatever way calls and mishaps interleave.
THEOREM MailsWereAdmitted == ChainSpec => []MailedWereAdmitted
<1>2. ChainTypeOK /\ Owners /\ Admitted => MailedWereAdmitted
    BY DEF ChainTypeOK, Owners, Admitted, Asked, MailedWereAdmitted, Limiters
<1> QED
    BY <1>2, InitAdmitted, NextAdmitted, Placed, Owned, PTL DEF ChainSpec

-----------------------------------------------------------------------------
(* The audit log.                                                          *)

\* What a row and an answer say of the job.
Truths ==
    /\ \A r \in audit :
          /\ pc[r.call] = "done"
          /\ r.consumer = who[r.call] /\ r.status = answer[r.call]
    /\ \A j \in Jobs :
          /\ answer[j] = "queued" => j \in entered
          /\ answer[j] \in {"read", "error"} /\ j \in entered => j \in lost

LEMMA NextTruths ==
    ChainTypeOK /\ Places /\ Truths /\ [ChainNext]_chainVars => Truths'
<1> SUFFICES ASSUME ChainTypeOK, Places, Truths, [ChainNext]_chainVars
             PROVE  Truths'
    OBVIOUS
<1>0. \A r \in audit : r.call \in Jobs
    BY DEF ChainTypeOK
<1>1. ASSUME NEW a \in Admins, NEW c \in Consumers, Create(a, c)
      PROVE  Truths'
    BY <1>1 DEF Create, Truths, call, outcome
<1>2. ASSUME NEW j \in Jobs, LimitAddress(j) \/ LimitConsumer(j) \/ Refuse(j) \/ Cut(j) \/ Break(j)
      PROVE  Truths'
    BY <1>0, <1>2 DEF LimitAddress, LimitConsumer, CheckLimit, Refuse, Cut, Break, Step, Truths,
       ChainTypeOK, call, outcome
<1>3. ASSUME NEW j \in Jobs, NEW c \in Consumers, AuthenticateKey(j, c) \/ AuthenticateHMAC(j, c)
      PROVE  Truths'
    <2>1. PICK seconds : Admit(j, c, seconds)
        BY <1>3 DEF AuthenticateKey, AuthenticateHMAC
    <2> QED
        BY <1>0, <2>1 DEF Admit, Step, Truths, ChainTypeOK, outcome
<1>4. ASSUME NEW j \in Jobs, AnswerOnly(j) \/ StoreJob(j) \/ QueueJob(j)
      PROVE  Truths'
    <2>1. /\ UNCHANGED <<audit, who>>
          /\ pc[j] \in {"handler", "queue"}
          /\ \A k \in Jobs \ {j} : pc'[k] = pc[k] /\ answer'[k] = answer[k]
        BY <1>4 DEF AnswerOnly, StoreJob, QueueJob, Answer, Step, ChainTypeOK, call
    <2>2. \A r \in audit : r.call # j
        BY <2>1 DEF Truths
    <2>3. \A k \in Jobs \ {j} : (k \in entered' <=> k \in entered) /\ (k \in lost => k \in lost')
        BY <1>4 DEF AnswerOnly, StoreJob, QueueJob
    <2>4. /\ answer'[j] = "queued" => j \in entered'
          /\ answer'[j] \in {"read", "error"} /\ j \in entered' => j \in lost'
        BY <1>4 DEF AnswerOnly, StoreJob, QueueJob, Answer, Places, ChainTypeOK
    <2> QED
        BY <1>0, <2>1, <2>2, <2>3, <2>4 DEF Truths
<1>5. ASSUME NEW j \in Jobs, Audit(j)
      PROVE  Truths'
    <2>1. /\ pc[j] = "audit" /\ pc' = [pc EXCEPT ![j] = "done"]
          /\ UNCHANGED <<who, answer, entered, lost>>
        BY <1>5 DEF Audit, Step, call, outcome
    <2>2. \A r \in audit' \ audit : /\ r.call = j /\ r.consumer = who[j] /\ r.status = answer[j]
        BY <1>5 DEF Audit
    <2>3. pc'[j] = "done" /\ \A k \in Jobs \ {j} : pc'[k] = pc[k]
        BY <2>1 DEF ChainTypeOK
    <2> QED
        BY <1>0, <2>1, <2>2, <2>3 DEF Truths
<1>6. ASSUME NEW j \in Jobs, Work(j)
      PROVE  Truths'
    BY <1>6 DEF Work, Truths, call, outcome
<1>7. CASE UNCHANGED chainVars
    BY <1>7 DEF chainVars, Truths, call, outcome
<1> QED
    BY <1>1, <1>2, <1>3, <1>4, <1>5, <1>6, <1>7 DEF ChainNext

\* The audit log never says queued of a job that is not on the stream, and calls
\* a job failed that is mailed only where an XADD's reply was lost.
THEOREM AuditIsTrue == ChainSpec => []AuditTruthful
<1>1. ChainInit => Truths
    BY DEF ChainInit, Init, Truths, Calls
<1>2. ChainTypeOK /\ Places /\ Admitted /\ Truths => AuditTruthful
    BY DEF ChainTypeOK, Answers, Places, Admitted, Truths, AuditTruthful
<1> QED
    BY <1>1, <1>2, InitAdmitted, NextAdmitted, NextTruths, Placed, PTL DEF ChainSpec

=============================================================================
