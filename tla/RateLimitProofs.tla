-------------------------- MODULE RateLimitProofs --------------------------
(***************************************************************************)
(* Theorems about the rate limiter, for any number of handlers, any limit  *)
(* and window, and any length of the run.                                  *)
(***************************************************************************)
EXTENDS RateLimit, FiniteSetTheorems, TLAPS

USE LimitAssumption, TtlAssumption, BoundsAssumption

\* Numbers of calls are finitely many.
LEMMA CallSets ==
    ASSUME NEW n \in Nat, NEW S, S \subseteq 1 .. n
    PROVE  IsFiniteSet(S) /\ Cardinality(S) \in Nat
<1>1. IsFiniteSet(1 .. n)
    BY FS_Interval
<1>2. IsFiniteSet(S)
    BY <1>1, FS_Subset
<1> QED
    BY <1>2, FS_CardinalityType

\* What the handlers know of their calls.
CallInv ==
    /\ \A h \in Handlers : pc[h] = "add" => call[h] # 0
    /\ \A h \in Handlers : pc[h] = "idle" => call[h] = 0
    /\ \A h \in Handlers : call[h] # 0 => score[call[h]] = now[h]
    /\ \A h \in Handlers : pc[h] # "idle" => now[h] <= clock /\ clock <= now[h] + Delay
    /\ \A c \in Calls : score[c] <= clock
    /\ \A g, h \in Handlers : g # h /\ call[g] # 0 => call[g] # call[h]

LEMMA InitCalls == Init => TypeOK /\ CallInv
BY DEF Init, TypeOK, CallInv, Calls, Command

\* Only a new call makes the calls more.
LEMMA SameCalls == UNCHANGED score => Calls' = Calls
BY DEF Calls

LEMMA Scores == score \in Seq(Nat) => \A c \in Calls : score[c] \in Nat
BY DEF Calls

LEMMA NewCall ==
    ASSUME TypeOK, NEW h \in Handlers, Begin(h)
    PROVE  /\ score' \in Seq(Nat)
           /\ \A c \in Calls : score'[c] = score[c]
           /\ score'[Len(score) + 1] = clock
           /\ Calls' = Calls \cup {Len(score) + 1}
           /\ Len(score) + 1 \notin {0} \cup Calls
<1>1. score' = Append(score, clock) /\ Len(score) \in Nat
    BY DEF TypeOK, Begin
<1>2. Len(score') = Len(score) + 1 /\ score' \in Seq(Nat)
    BY <1>1 DEF TypeOK
<1>3. /\ \A c \in Calls : score'[c] = score[c]
      /\ score'[Len(score) + 1] = clock
    BY <1>1 DEF Calls, TypeOK
<1> QED
    BY <1>1, <1>2, <1>3 DEF Calls

\* Every step keeps the types.
LEMMA NextTypes == TypeOK /\ CallInv /\ [Next]_vars => TypeOK'
<1> SUFFICES ASSUME TypeOK, CallInv, [Next]_vars
             PROVE  TypeOK'
    OBVIOUS
<1> USE DEF TypeOK, Command
<1>1. CASE Tick
    <2>1. UNCHANGED <<score, pc, call, now, count, allowed, denied, broken, resent>> /\ clock' = clock + 1
        BY <1>1 DEF Tick, handlerVars, history, verdicts, mishaps
    <2>2. zset' \subseteq zset /\ expiry' \in Nat
        BY <1>1 DEF Tick, redisVars, verdicts, mishaps
    <2> QED
        BY <2>1, <2>2, SameCalls
<1>2. ASSUME NEW h \in Handlers, Begin(h)
      PROVE  TypeOK'
    BY <1>2, NewCall DEF Begin, Start, redisVars, verdicts, mishaps
<1>3. ASSUME NEW h \in Handlers, BeginStats(h)
      PROVE  TypeOK'
    BY <1>3, SameCalls DEF BeginStats, Start, redisVars, verdicts, mishaps
<1>4. ASSUME NEW h \in Handlers, Trim(h)
      PROVE  TypeOK'
    BY <1>4, SameCalls DEF Trim, history, verdicts, mishaps
<1>5. ASSUME NEW h \in Handlers, Count(h)
      PROVE  TypeOK'
    <2>1. Cardinality(zset) \in Nat
        <3>1. Len(score) \in Nat /\ zset \subseteq 1 .. Len(score)
            BY DEF Calls
        <3> QED
            BY <3>1, CallSets
    <2> QED
        BY <1>5, <2>1, SameCalls DEF Count, redisVars, history, verdicts, mishaps
<1>6. ASSUME NEW h \in Handlers, Add(h)
      PROVE  TypeOK'
    <2>1. call[h] \in Calls
        BY <1>6 DEF Add, CallInv
    <2> QED
        BY <1>6, <2>1, SameCalls DEF Add, history, verdicts, mishaps
<1>7. ASSUME NEW h \in Handlers, Expire(h)
      PROVE  TypeOK'
    <2>1. /\ UNCHANGED <<score, zset, clock, broken, resent>>
          /\ pc' = [pc EXCEPT ![h] = "idle"]
          /\ call' = [call EXCEPT ![h] = 0]
          /\ now' = [now EXCEPT ![h] = 0]
          /\ count' = [count EXCEPT ![h] = 0]
        BY <1>7 DEF Expire, Done, mishaps
    <2>2. allowed' \subseteq Calls /\ denied' \subseteq Calls
        BY <1>7 DEF Expire
    <2>3. expiry' \in Nat
        BY <1>7 DEF Expire
    <2> QED
        BY <2>1, <2>2, <2>3, SameCalls
<1>8. ASSUME NEW h \in Handlers, FailOpen(h) \/ Resend(h)
      PROVE  TypeOK'
    <2>1. CASE FailOpen(h)
        BY <2>1, SameCalls DEF FailOpen, Done, MoreMishaps, redisVars, verdicts, mishaps
    <2>2. CASE Resend(h)
        BY <2>2, SameCalls DEF Resend, redisVars, history, verdicts, mishaps
    <2> QED
        BY <1>8, <2>1, <2>2
<1>9. CASE UNCHANGED vars
    BY <1>9, SameCalls DEF vars, verdicts, mishaps
<1> QED
    BY <1>1, <1>2, <1>3, <1>4, <1>5, <1>6, <1>7, <1>8, <1>9 DEF Next

\* Every step keeps what the handlers know of their calls.
LEMMA NextCalls == TypeOK /\ CallInv /\ [Next]_vars => CallInv'
<1> SUFFICES ASSUME TypeOK, CallInv, [Next]_vars
             PROVE  CallInv'
    OBVIOUS
<1> USE DEF TypeOK, Command, CallInv
<1>1. CASE Tick
    <2>1. UNCHANGED <<score, pc, call, now>> /\ clock' = clock + 1
        BY <1>1 DEF Tick, handlerVars, history, verdicts, mishaps
    <2>2. \A h \in Handlers : pc[h] # "idle" => clock < now[h] + Delay
        BY <1>1 DEF Tick
    <2>3. \A h \in Handlers : pc[h] # "idle" => now[h] <= clock' /\ clock' <= now[h] + Delay
        BY <2>1, <2>2
    <2>4. \A c \in Calls : score[c] <= clock'
        BY <2>1, Scores
    <2> QED
        BY <2>1, <2>3, <2>4, SameCalls
<1>2. ASSUME NEW h \in Handlers, Begin(h)
      PROVE  CallInv'
    <2>1. /\ pc' = [pc EXCEPT ![h] = "trim"] /\ clock' = clock
          /\ call' = [call EXCEPT ![h] = Len(score) + 1]
          /\ now' = [now EXCEPT ![h] = clock]
        BY <1>2 DEF Begin, Start
    <2>2. \A g \in Handlers : g # h => /\ pc'[g] = pc[g] /\ now'[g] = now[g]
                                       /\ call'[g] = call[g]
                                       /\ call'[g] # 0 => score'[call[g]] = score[call[g]]
        BY <2>1, <1>2, NewCall
    <2>3. pc'[h] = "trim" /\ call'[h] = Len(score) + 1 /\ now'[h] = clock
        BY <2>1
    <2>4. \A g \in Handlers : g # h => call'[g] # call'[h]
        BY <2>2, <2>3, <1>2, NewCall
    <2>5. \A c \in Calls' : score'[c] <= clock
        <3>1. \A c \in Calls : score'[c] <= clock
            BY <1>2, NewCall
        <3>2. Calls' = Calls \cup {Len(score) + 1} /\ score'[Len(score) + 1] = clock
            BY <1>2, NewCall
        <3> QED
            BY <3>1, <3>2
    <2>6. score'[call'[h]] = clock
        BY <2>3, <1>2, NewCall
    <2>7. \A g \in Handlers : call'[g] # 0 => score'[call'[g]] = now'[g]
        <3>1. \A g \in Handlers : call[g] # 0 => score[call[g]] = now[g]
            OBVIOUS
        <3>2. ASSUME NEW g \in Handlers, g # h, call'[g] # 0
              PROVE  score'[call'[g]] = now'[g]
            BY <2>2, <3>1, <3>2
        <3> QED
            BY <2>3, <2>6, <3>2
    <2>8. \A f, g \in Handlers : f # g /\ call'[f] # 0 => call'[f] # call'[g]
        BY <2>2, <2>4
    <2>9. \A g \in Handlers : pc'[g] # "idle" => now'[g] <= clock' /\ clock' <= now'[g] + Delay
        BY <2>1, <2>2, <2>3
    <2>10. \A g \in Handlers : (pc'[g] = "add" => call'[g] # 0) /\ (pc'[g] = "idle" => call'[g] = 0)
        BY <2>2, <2>3
    <2> QED
        BY <2>1, <2>5, <2>7, <2>8, <2>9, <2>10
<1>3. ASSUME NEW h \in Handlers, BeginStats(h)
      PROVE  CallInv'
    BY <1>3, SameCalls DEF BeginStats, Start
<1>4. ASSUME NEW h \in Handlers, FailOpen(h) \/ Expire(h)
      PROVE  CallInv'
    <2>1. Done(h)
        BY <1>4 DEF FailOpen, Expire
    <2> QED
        BY <2>1, SameCalls DEF Done
<1>5. ASSUME NEW h \in Handlers, Trim(h) \/ Add(h) \/ Resend(h)
      PROVE  CallInv'
    BY <1>5, SameCalls DEF Trim, Add, Resend, history, verdicts, mishaps
<1>6. ASSUME NEW h \in Handlers, Count(h)
      PROVE  CallInv'
    BY <1>6, SameCalls DEF Count, history, verdicts, mishaps
<1>7. CASE UNCHANGED vars
    BY <1>7, SameCalls DEF vars, verdicts, mishaps
<1> QED
    BY <1>1, <1>2, <1>3, <1>4, <1>5, <1>6, <1>7 DEF Next

\* The rate limiter keeps the types of its variables (ratelimit.go:24-75).
THEOREM TypeCorrect == Spec => []TypeOK
<1>1. Init => TypeOK /\ CallInv
    BY InitCalls
<1>2. TypeOK /\ CallInv /\ [Next]_vars => (TypeOK /\ CallInv)'
    BY NextTypes, NextCalls
<1> QED
    BY <1>1, <1>2, PTL DEF Spec

LEMMA CallsKnown == Spec => [](TypeOK /\ CallInv)
<1>1. TypeOK /\ CallInv /\ [Next]_vars => (TypeOK /\ CallInv)'
    BY NextTypes, NextCalls
<1> QED
    BY <1>1, InitCalls, PTL DEF Spec

-----------------------------------------------------------------------------
(* The TTL of the key.                                                     *)

\* Some handler still works on call c.
UnderWay(c) == \E h \in Handlers : call[h] = c

\* A handler that cannot be at work any more when the TTL is over.
Outlived(h) == pc[h] # "idle" /\ expiry > now[h] + Delay

\* Each call that is over has given the key 70 s from its score at least.  A
\* call that is not over cannot see the TTL run out: at any time some handler
\* at work will be done before.
HasKey == (zset = {} => expiry = 0) /\ (expiry # 0 => clock < expiry)
OverCalls == \A c \in zset : UnderWay(c) \/ score[c] + Ttl <= expiry
TrimmedFirst == \A h \in Handlers, c \in zset :
                    pc[h] \in {"count", "add", "expire"} => UnderWay(c) \/ Outlived(h)
OpenCalls == \A c \in zset :
                    expiry # 0 /\ UnderWay(c) => \E h \in Handlers : Outlived(h)
TtlInv == HasKey /\ OverCalls /\ TrimmedFirst /\ OpenCalls

LEMMA NextTtl ==
    ASSUME broken' = 0, TypeOK, CallInv, TtlInv, [Next]_vars
    PROVE  TtlInv'
<1> USE DEF TypeOK
<1>0. \A c \in Calls : score[c] \in Nat
    BY Scores
<1>1. CASE Tick
    <2>1. UNCHANGED <<score, pc, call, now>> /\ clock' = clock + 1
        BY <1>1 DEF Tick, handlerVars, history, verdicts, mishaps
    <2>2. CASE zset' = {} /\ expiry' = 0
        BY <2>2 DEF TtlInv, HasKey, OverCalls, TrimmedFirst, OpenCalls
    <2>3. CASE UNCHANGED <<zset, expiry>> /\ expiry # clock'
        <3>1. HasKey'
            BY <2>1, <2>3 DEF TtlInv, HasKey
        <3> QED
            BY <3>1, <2>1, <2>3 DEF TtlInv, OverCalls, TrimmedFirst, OpenCalls,
                                    UnderWay, Outlived
    <2> QED
        BY <1>1, <2>2, <2>3 DEF Tick, redisVars, verdicts, mishaps
<1>2. ASSUME NEW h \in Handlers, Begin(h) \/ BeginStats(h)
      PROVE  TtlInv'
    <2>1. UNCHANGED <<clock, zset, expiry>>
        BY <1>2 DEF Begin, BeginStats, Start, redisVars, verdicts, mishaps
    <2>2. /\ \A g \in Handlers : g # h => pc'[g] = pc[g] /\ now'[g] = now[g] /\ call'[g] = call[g]
          /\ pc[h] = "idle" /\ pc'[h] = "trim"
        BY <1>2 DEF Begin, BeginStats, Start
    <2>3. \A c \in zset : score'[c] = score[c]
        BY <1>2, NewCall DEF BeginStats
    <2>4. \A c \in zset : UnderWay(c)' <=> UnderWay(c)
        <3>1. call[h] = 0 /\ 0 \notin Calls
            BY <2>2 DEF CallInv, Calls
        <3>2. call'[h] \notin Calls
            <4>1. CASE Begin(h)
                BY <4>1, NewCall DEF Begin, Start
            <4>2. CASE BeginStats(h)
                BY <4>2, <3>1 DEF BeginStats, Start
            <4> QED
                BY <1>2, <4>1, <4>2
        <3> QED
            BY <2>2, <3>1, <3>2 DEF UnderWay
    <2>5. \A g \in Handlers : Outlived(g) => g # h /\ Outlived(g)'
        BY <2>1, <2>2 DEF Outlived
    <2>6. HasKey' /\ OverCalls'
        BY <2>1, <2>3, <2>4 DEF TtlInv, HasKey, OverCalls
    <2>7. TrimmedFirst'
        BY <2>1, <2>2, <2>4, <2>5 DEF TtlInv, TrimmedFirst
    <2>8. OpenCalls'
        BY <2>1, <2>4, <2>5 DEF TtlInv, OpenCalls
    <2> QED
        BY <2>6, <2>7, <2>8 DEF TtlInv
<1>3. ASSUME NEW h \in Handlers, Trim(h)
      PROVE  TtlInv'
    <2>1. /\ UNCHANGED <<clock, call, now, score>>
          /\ pc[h] = "trim" /\ pc' = [pc EXCEPT ![h] = "count"]
          /\ zset' = {c \in zset : score[c] + Window > now[h]}
          /\ expiry' = 0 \/ (expiry' = expiry /\ zset' # {})
          /\ zset' = {} => expiry' = 0
        BY <1>3 DEF Trim, history, verdicts, mishaps
    <2>2. \A c : UnderWay(c)' <=> UnderWay(c)
        BY <2>1 DEF UnderWay
    <2>3. HasKey'
        BY <2>1 DEF TtlInv, HasKey
    <2>4. CASE zset' = {}
        BY <2>3, <2>4 DEF TtlInv, OverCalls, TrimmedFirst, OpenCalls
    <2>5. CASE zset' # {}
        <3>1. expiry' = expiry /\ zset' \subseteq zset
            BY <1>3, <2>5 DEF Trim
        <3>2. \A g \in Handlers : Outlived(g) => Outlived(g)'
            BY <2>1, <3>1 DEF Outlived
        <3>3. OverCalls' /\ OpenCalls'
            BY <2>1, <2>2, <3>1, <3>2 DEF TtlInv, OverCalls, OpenCalls
        <3>4. \A c \in zset' : UnderWay(c)' \/ Outlived(h)'
            <4> SUFFICES ASSUME NEW c \in zset', ~UnderWay(c)
                         PROVE  Outlived(h)'
                BY <2>2
            <4>1. score[c] + Ttl <= expiry /\ score[c] + Window > now[h] /\ score[c] \in Nat
                BY <2>1, <3>1, <1>0 DEF TtlInv, OverCalls
            <4>2. expiry > now[h] + Delay
                BY <4>1
            <4> QED
                BY <4>2, <2>1, <3>1 DEF Outlived
        <3>5. TrimmedFirst'
            <4> SUFFICES ASSUME NEW g \in Handlers, NEW c \in zset', g # h,
                                pc[g] \in {"count", "add", "expire"}
                         PROVE  UnderWay(c)' \/ Outlived(g)'
                BY <2>1, <3>4 DEF TrimmedFirst
            <4> QED
                BY <2>2, <3>1, <3>2 DEF TtlInv, TrimmedFirst
        <3> QED
            BY <2>3, <3>3, <3>5 DEF TtlInv
    <2> QED
        BY <2>4, <2>5
<1>4. ASSUME NEW h \in Handlers, Count(h) \/ Resend(h)
      PROVE  TtlInv'
    <2>1. /\ UNCHANGED <<clock, call, now, score, zset, expiry>>
          /\ \A g \in Handlers : g # h => pc'[g] = pc[g]
          /\ pc[h] # "idle" /\ pc'[h] # "idle"
          /\ pc'[h] \in {"add", "expire"} => pc[h] = "count"
          /\ pc'[h] # "count"
        BY <1>4 DEF Count, Resend, history, redisVars, verdicts, mishaps
    <2>2. \A c : UnderWay(c)' <=> UnderWay(c)
        BY <2>1 DEF UnderWay
    <2>3. \A g \in Handlers : Outlived(g)' <=> Outlived(g)
        BY <2>1 DEF Outlived
    <2>4. TrimmedFirst'
        BY <2>1, <2>2, <2>3 DEF TtlInv, TrimmedFirst
    <2> QED
        BY <2>1, <2>2, <2>3, <2>4 DEF TtlInv, HasKey, OverCalls, OpenCalls
<1>5. ASSUME NEW h \in Handlers, Add(h)
      PROVE  TtlInv'
    <2>1. /\ UNCHANGED <<clock, call, now, score, expiry>>
          /\ pc[h] = "add" /\ pc' = [pc EXCEPT ![h] = "expire"]
          /\ zset' = zset \cup {call[h]}
        BY <1>5 DEF Add, history, verdicts, mishaps
    <2>2. \A c : UnderWay(c)' <=> UnderWay(c)
        BY <2>1 DEF UnderWay
    <2>3. UnderWay(call[h])
        BY DEF UnderWay
    <2>4. \A g \in Handlers : Outlived(g)' <=> Outlived(g)
        BY <2>1 DEF Outlived
    <2>5. HasKey' /\ OverCalls'
        BY <2>1, <2>2, <2>3 DEF TtlInv, HasKey, OverCalls
    <2>6. TrimmedFirst'
        BY <2>1, <2>2, <2>3, <2>4 DEF TtlInv, TrimmedFirst
    <2>7. expiry # 0 => \E g \in Handlers : Outlived(g)
        <3> SUFFICES ASSUME expiry # 0
                     PROVE  \E g \in Handlers : Outlived(g)
            OBVIOUS
        <3>1. PICK c \in zset : TRUE
            BY DEF TtlInv, HasKey
        <3>2. CASE UnderWay(c)
            BY <3>2 DEF TtlInv, OpenCalls
        <3>3. CASE ~UnderWay(c)
            BY <2>1, <3>3 DEF TtlInv, TrimmedFirst
        <3> QED
            BY <3>2, <3>3
    <2>8. OpenCalls'
        BY <2>1, <2>4, <2>7 DEF OpenCalls
    <2> QED
        BY <2>5, <2>6, <2>8 DEF TtlInv
<1>6. ASSUME NEW h \in Handlers, Expire(h)
      PROVE  TtlInv'
    <2>1. /\ UNCHANGED <<clock, score, zset>>
          /\ \A g \in Handlers : g # h => pc'[g] = pc[g] /\ now'[g] = now[g] /\ call'[g] = call[g]
          /\ pc'[h] = "idle" /\ call'[h] = 0
        BY <1>6 DEF Expire, Done
    <2>2. CASE zset = {}
        <3>1. expiry' = 0
            BY <1>6, <2>2 DEF Expire
        <3> QED
            BY <2>1, <2>2, <3>1 DEF TtlInv, HasKey, OverCalls, TrimmedFirst, OpenCalls
    <2>3. CASE zset # {}
        <3>1. expiry' = clock + Ttl
            BY <1>6, <2>3 DEF Expire
        <3>2. HasKey'
            BY <2>1, <2>3, <3>1 DEF HasKey
        <3>3. \A c \in zset : score[c] \in Nat /\ score[c] <= clock
            BY <1>0 DEF CallInv
        <3>4. OverCalls'
            BY <2>1, <3>1, <3>3 DEF OverCalls
        <3>5. \A g \in Handlers : pc'[g] # "idle" => Outlived(g)'
            <4> SUFFICES ASSUME NEW g \in Handlers, pc'[g] # "idle"
                         PROVE  Outlived(g)'
                OBVIOUS
            <4>1. now'[g] = now[g] /\ now[g] \in Nat /\ now[g] <= clock
                BY <2>1 DEF CallInv
            <4> QED
                BY <3>1, <4>1 DEF Outlived
        <3>6. TrimmedFirst'
            BY <3>5 DEF TrimmedFirst
        <3>7. \A c \in zset : UnderWay(c)' => \E g \in Handlers : pc'[g] # "idle"
            <4> SUFFICES ASSUME NEW c \in zset, NEW g \in Handlers, call'[g] = c
                         PROVE  pc'[g] # "idle"
                BY DEF UnderWay
            <4>1. c # 0
                BY DEF Calls
            <4>2. g # h /\ call[g] # 0
                BY <2>1, <4>1
            <4> QED
                BY <2>1, <4>2 DEF CallInv
        <3>8. OpenCalls'
            BY <2>1, <3>5, <3>7 DEF OpenCalls
        <3> QED
            BY <3>2, <3>4, <3>6, <3>8 DEF TtlInv
    <2> QED
        BY <2>2, <2>3
<1>7. CASE UNCHANGED vars
    BY <1>7 DEF vars, TtlInv, HasKey, OverCalls, TrimmedFirst, OpenCalls, UnderWay, Outlived,
                    verdicts, mishaps
<1> QED
    BY <1>1, <1>2, <1>3, <1>4, <1>5, <1>6, <1>7 DEF Next, FailOpen

\* What broke off stays so.
LEMMA BrokenStays == TypeOK /\ [Next]_vars /\ broken' = 0 => broken = 0
BY DEF TypeOK, Next, vars, Tick, Begin, BeginStats, Start, Trim, Count, Add, Expire,
       FailOpen, Resend, history, mishaps

LEMMA TtlKept == Spec => [](TypeOK /\ CallInv /\ (broken = 0 => TtlInv))
<1>1. Init => TtlInv
    BY DEF Init, TtlInv, HasKey, OverCalls, TrimmedFirst, OpenCalls
<1>2. TypeOK /\ CallInv /\ (broken = 0 => TtlInv) /\ [Next]_vars
        => (TypeOK /\ CallInv /\ (broken = 0 => TtlInv))'
    BY NextTypes, NextCalls, NextTtl, BrokenStays
<1> QED
    BY <1>1, <1>2, InitCalls, PTL DEF Spec

\* As long as no pipeline breaks off for good, the key has a TTL whenever no
\* call is under way, however the handlers interleave and however often the
\* client resends (ratelimit.go:35-48).
THEOREM NeverWithoutTtl == Spec => []NeverImmortal
<1>1. TypeOK /\ CallInv /\ (broken = 0 => TtlInv) => NeverImmortal
    <2> SUFFICES ASSUME TypeOK, CallInv, TtlInv, zset # {}, expiry = 0
                 PROVE  \E h \in Handlers : pc[h] # "idle" /\ call[h] # 0
        BY DEF NeverImmortal
    <2>1. PICK c \in zset : TRUE
        OBVIOUS
    <2>2. c \in Calls /\ c # 0 /\ score[c] \in Nat
        BY Scores DEF TypeOK, Calls
    <2>3. UnderWay(c)
        BY <2>2 DEF TtlInv, OverCalls
    <2> QED
        BY <2>2, <2>3 DEF UnderWay, CallInv
<1> QED
    BY <1>1, TtlKept, PTL

\* If in addition a pipeline is never slower than the time by which the TTL
\* exceeds the window, no call that still counts is lost with the key
\* (ratelimit.go:27, 48).
THEOREM TtlIsLongEnough == Spec => TtlOutlivesWindow
<1>1. TypeOK /\ CallInv /\ (broken = 0 => TtlInv) /\ [Next]_vars =>
        [clock' # clock /\ broken = 0 => \A c \in zset \ zset' : score[c] + Window <= clock']_vars
    <2> SUFFICES ASSUME TypeOK, CallInv, TtlInv, [Next]_vars, clock' # clock,
                        NEW c \in zset, c \notin zset'
                 PROVE  score[c] + Window <= clock'
        OBVIOUS
    <2>1. Tick
        BY DEF Next, vars, Begin, BeginStats, Start, Trim, Count, Add, Expire, Done, verdicts, mishaps,
               FailOpen, Resend
    <2>2. /\ expiry = clock' /\ clock' = clock + 1 /\ clock \in Nat
          /\ \A h \in Handlers : pc[h] # "idle" => clock < now[h] + Delay /\ now[h] \in Nat
        BY <2>1 DEF Tick, redisVars, TypeOK, verdicts, mishaps
    <2>3. ~ \E h \in Handlers : Outlived(h)
        BY <2>2 DEF Outlived
    <2>4. ~UnderWay(c)
        BY <2>2, <2>3 DEF TtlInv, OpenCalls
    <2>5. score[c] + Ttl <= expiry /\ score[c] \in Nat
        BY <2>4, Scores DEF TtlInv, OverCalls, TypeOK
    <2> QED
        BY <2>2, <2>5
<1> QED
    BY <1>1, TtlKept, PTL DEF Spec, TtlOutlivesWindow

-----------------------------------------------------------------------------
(* Who is denied.                                                          *)

\* Who is counted is recent: a call added after the trim has a handler that is
\* at work now, so its score is younger than a window.  Nobody counts himself,
\* unless the client sent his pipeline again.
NotCounted == \A h \in Handlers :
    pc[h] \in {"trim", "count", "add"} /\ call[h] \notin resent => call[h] \notin zset
CountsRecent == \A h \in Handlers, d \in zset :
    pc[h] = "count" /\ call[h] # 0 => score[call[h]] < score[d] + Window
CountHeld == \A h \in Handlers :
    pc[h] \in {"add", "expire"} /\ call[h] \notin {0} \cup resent
        => count[h] <= Cardinality(Recent(call[h]))
DenyInv == NotCounted /\ CountsRecent /\ CountHeld /\ NoUndueDenial

\* What is recent once stays so: time does not change it, new calls add to it.
LEMMA RecentGrows ==
    ASSUME TypeOK, TypeOK', NEW c \in Calls,
           Calls \subseteq Calls', \A d \in Calls : score'[d] = score[d]
    PROVE  /\ Cardinality(Recent(c)) <= Cardinality(Recent(c)')
           /\ Cardinality(Recent(c)) \in Nat /\ Cardinality(Recent(c)') \in Nat
<1>1. Recent(c) \subseteq Recent(c)'
    BY DEF Recent
<1>2. Recent(c) \subseteq Calls /\ Recent(c)' \subseteq Calls'
    BY DEF Recent
<1>3. Len(score) \in Nat /\ Len(score') \in Nat
    BY DEF TypeOK
<1>4. /\ IsFiniteSet(Recent(c)') /\ Cardinality(Recent(c)') \in Nat
      /\ Cardinality(Recent(c)) \in Nat
    BY <1>2, <1>3, CallSets DEF Calls
<1> QED
    BY <1>1, <1>4, FS_Subset

LEMMA NextDeny ==
    ASSUME Delay < Window,
           TypeOK, CallInv, DenyInv, [Next]_vars
    PROVE  DenyInv'
<1> USE DEF TypeOK
<1>0. TypeOK'
    BY NextTypes
<1>2. CASE Tick
    <2>1. UNCHANGED <<score, pc, call, now, count, denied, resent>>
        BY <1>2 DEF Tick, handlerVars, history, verdicts, mishaps
    <2>2. zset' \subseteq zset
        BY <1>2 DEF Tick, redisVars, verdicts, mishaps
    <2>3. NotCounted' /\ CountsRecent'
        BY <2>1, <2>2 DEF DenyInv, NotCounted, CountsRecent
    <2>4. CountHeld' /\ NoUndueDenial'
        BY <2>1, SameCalls DEF DenyInv, CountHeld, NoUndueDenial, Recent
    <2> QED
        BY <2>3, <2>4 DEF DenyInv
<1>3. ASSUME NEW h \in Handlers, Begin(h)
      PROVE  DenyInv'
    <2>1. /\ \A g \in Handlers : g # h => /\ pc'[g] = pc[g] /\ now'[g] = now[g]
                                          /\ call'[g] = call[g] /\ count'[g] = count[g]
          /\ pc'[h] = "trim" /\ call'[h] = Len(score) + 1
          /\ UNCHANGED <<zset, denied, resent>>
        BY <1>3 DEF Begin, Start, redisVars, verdicts, mishaps
    <2>2. Calls \subseteq Calls' /\ \A d \in Calls : score'[d] = score[d]
        BY <1>3, NewCall
    <2>3. \A c \in Calls : /\ Cardinality(Recent(c)) <= Cardinality(Recent(c)')
                           /\ Cardinality(Recent(c)) \in Nat
                           /\ Cardinality(Recent(c)') \in Nat
        BY <1>0, <2>2, RecentGrows
    <2>4. NotCounted'
        BY <2>1, <1>3, NewCall DEF DenyInv, NotCounted
    <2>5. CountsRecent'
        <3> SUFFICES ASSUME NEW g \in Handlers, NEW d \in zset,
                            pc'[g] = "count", call'[g] # 0
                     PROVE  score'[call'[g]] < score'[d] + Window
            BY <2>1 DEF CountsRecent
        <3>1. g # h /\ pc[g] = "count" /\ call'[g] = call[g] /\ call[g] \in Calls
            BY <2>1
        <3> QED
            BY <2>2, <3>1 DEF DenyInv, CountsRecent
    <2>6. CountHeld'
        <3>1. ASSUME NEW g \in Handlers, pc'[g] \in {"add", "expire"}
              PROVE  g # h /\ pc[g] \in {"add", "expire"} /\ call'[g] = call[g]
                     /\ count'[g] = count[g]
            BY <2>1, <3>1
        <3>2. ASSUME NEW g \in Handlers, pc[g] \in {"add", "expire"},
                     call[g] \notin {0} \cup resent
              PROVE  \A c \in Calls : c = call[g] => count[g] <= Cardinality(Recent(c)')
            <4> SUFFICES ASSUME NEW c \in Calls, c = call[g]
                         PROVE  count[g] <= Cardinality(Recent(c)')
                OBVIOUS
            <4>1. count[g] \in Nat /\ count[g] <= Cardinality(Recent(c))
                BY <3>2 DEF DenyInv, CountHeld
            <4> QED
                BY <2>3, <4>1
        <3> SUFFICES ASSUME NEW g \in Handlers, pc'[g] \in {"add", "expire"},
                            call'[g] \notin {0} \cup resent', NEW c, c = call'[g]
                     PROVE  count'[g] <= Cardinality(Recent(c)')
            BY DEF CountHeld, Recent
        <3>3. c \in Calls /\ c = call[g] /\ count'[g] = count[g]
              /\ pc[g] \in {"add", "expire"} /\ call[g] \notin {0} \cup resent
            BY <2>1, <3>1
        <3> QED
            BY <3>2, <3>3
    <2>7. NoUndueDenial'
        <3> SUFFICES ASSUME NEW c \in denied \ resent
                     PROVE  Cardinality(Recent(c)') >= Max
            BY <2>1 DEF NoUndueDenial
        <3>1. Cardinality(Recent(c)) >= Max
            BY DEF DenyInv, NoUndueDenial
        <3> QED
            BY <2>3, <3>1
    <2> QED
        BY <2>4, <2>5, <2>6, <2>7 DEF DenyInv
<1>4. ASSUME NEW h \in Handlers, Trim(h)
      PROVE  DenyInv'
    <2>1. /\ UNCHANGED <<call, now, count, score, denied, resent>>
          /\ pc[h] = "trim" /\ pc' = [pc EXCEPT ![h] = "count"]
          /\ zset' = {c \in zset : score[c] + Window > now[h]}
        BY <1>4 DEF Trim, history, verdicts, mishaps
    <2>2. NotCounted'
        BY <2>1 DEF DenyInv, NotCounted
    <2>3. call[h] # 0 => score[call[h]] = now[h]
        BY DEF CallInv
    <2>4. \A c \in zset' : call[h] # 0 => score[call[h]] < score[c] + Window
        <3> SUFFICES ASSUME NEW c \in zset', call[h] # 0
                     PROVE  score[call[h]] < score[c] + Window
            OBVIOUS
        <3>1. score[c] + Window > now[h] /\ score[c] \in Nat /\ now[h] \in Nat
            BY <2>1, Scores
        <3> QED
            BY <2>3, <3>1
    <2>5. CountsRecent'
        BY <2>1, <2>4 DEF DenyInv, CountsRecent
    <2>6. CountHeld' /\ NoUndueDenial'
        BY <2>1, SameCalls DEF DenyInv, CountHeld, NoUndueDenial, Recent
    <2> QED
        BY <2>2, <2>5, <2>6 DEF DenyInv
<1>5. ASSUME NEW h \in Handlers, BeginStats(h)
      PROVE  DenyInv'
    <2>1. /\ UNCHANGED <<score, zset, count, denied, resent>>
          /\ pc' = [pc EXCEPT ![h] = "trim"] /\ call' = [call EXCEPT ![h] = 0]
        BY <1>5 DEF BeginStats, Start, redisVars, verdicts, mishaps
    <2>2. 0 \notin zset
        BY DEF Calls
    <2>3. NotCounted' /\ CountsRecent'
        BY <2>1, <2>2 DEF DenyInv, NotCounted, CountsRecent
    <2>4. CountHeld' /\ NoUndueDenial'
        BY <2>1, SameCalls DEF DenyInv, CountHeld, NoUndueDenial, Recent
    <2> QED
        BY <2>3, <2>4 DEF DenyInv
<1>6. ASSUME NEW h \in Handlers, Count(h)
      PROVE  DenyInv'
    <2>1. /\ UNCHANGED <<call, score, zset, denied, resent>>
          /\ pc[h] = "count" /\ count' = [count EXCEPT ![h] = Cardinality(zset)]
          /\ pc' = [pc EXCEPT ![h] = IF call[h] = 0 THEN "expire" ELSE "add"]
        BY <1>6 DEF Count, redisVars, history, verdicts, mishaps
    <2>2. NotCounted' /\ CountsRecent'
        BY <2>1 DEF DenyInv, NotCounted, CountsRecent
    <2>3. call[h] \notin {0} \cup resent
            => Cardinality(zset) <= Cardinality(Recent(call[h]))
        <3> SUFFICES ASSUME call[h] \notin {0} \cup resent
                     PROVE  Cardinality(zset) <= Cardinality(Recent(call[h]))
            OBVIOUS
        <3>1. zset \subseteq Recent(call[h])
            BY <2>1 DEF DenyInv, NotCounted, CountsRecent, Recent
        <3>2. Recent(call[h]) \subseteq 1 .. Len(score) /\ Len(score) \in Nat
            BY DEF Recent, Calls
        <3>3. IsFiniteSet(Recent(call[h]))
            BY <3>2, CallSets
        <3> QED
            BY <3>1, <3>3, FS_Subset
    <2>4. CountHeld'
        <3> SUFFICES ASSUME NEW g \in Handlers, pc'[g] \in {"add", "expire"},
                            call[g] \notin {0} \cup resent
                     PROVE  count'[g] <= Cardinality(Recent(call[g]))
            BY <2>1, SameCalls DEF CountHeld, Recent
        <3>1. CASE g = h
            BY <2>1, <2>3, <3>1
        <3>2. CASE g # h
            BY <2>1, <3>2 DEF DenyInv, CountHeld
        <3> QED
            BY <3>1, <3>2
    <2>5. NoUndueDenial'
        BY <2>1, SameCalls DEF DenyInv, NoUndueDenial, Recent
    <2> QED
        BY <2>2, <2>4, <2>5 DEF DenyInv
<1>7. ASSUME NEW h \in Handlers, Add(h)
      PROVE  DenyInv'
    <2>1. /\ UNCHANGED <<clock, call, now, count, score, denied, resent>>
          /\ pc[h] = "add" /\ pc' = [pc EXCEPT ![h] = "expire"]
          /\ zset' = zset \cup {call[h]}
        BY <1>7 DEF Add, history, verdicts, mishaps
    <2>2. call[h] # 0 /\ score[call[h]] = now[h] /\ clock <= now[h] + Delay
        BY <2>1 DEF CallInv
    <2>3. NotCounted'
        BY <2>1, <2>2 DEF DenyInv, NotCounted, CallInv
    <2>4. ASSUME NEW g \in Handlers, pc[g] = "count", call[g] # 0
          PROVE  score[call[g]] < score[call[h]] + Window
        <3>1. score[call[g]] = now[g] /\ now[g] <= clock
            BY <2>4 DEF CallInv
        <3>2. now[g] \in Nat /\ now[h] \in Nat
            OBVIOUS
        <3> QED
            BY <2>2, <3>1, <3>2
    <2>5. CountsRecent'
        BY <2>1, <2>4 DEF DenyInv, CountsRecent
    <2>6. CountHeld' /\ NoUndueDenial'
        BY <2>1, SameCalls DEF DenyInv, CountHeld, NoUndueDenial, Recent
    <2> QED
        BY <2>3, <2>5, <2>6 DEF DenyInv
<1>8. ASSUME NEW h \in Handlers, Expire(h) \/ FailOpen(h)
      PROVE  DenyInv'
    <2>1. /\ UNCHANGED <<score, zset, resent>>
          /\ pc' = [pc EXCEPT ![h] = "idle"] /\ call' = [call EXCEPT ![h] = 0]
          /\ count' = [count EXCEPT ![h] = 0]
        BY <1>8 DEF Expire, FailOpen, Done, redisVars, verdicts, mishaps
    <2>2. NotCounted' /\ CountsRecent'
        BY <2>1 DEF DenyInv, NotCounted, CountsRecent
    <2>3. CountHeld'
        BY <2>1, SameCalls DEF DenyInv, CountHeld, Recent
    <2>4. \A c \in denied' : c \in denied \/
              (c = call[h] /\ c # 0 /\ pc[h] = "expire" /\ count[h] >= Max)
        BY <1>8 DEF Expire, FailOpen, verdicts
    <2>5. \A c \in denied' : c \in Calls /\ Cardinality(Recent(c)) \in Nat
        <3>1. \A c \in denied' : Recent(c) \subseteq 1 .. Len(score)
            BY DEF Recent, Calls
        <3> QED
            BY <3>1, <1>0, <2>1, SameCalls, CallSets
    <2>6. \A c \in denied' \ resent : Cardinality(Recent(c)) >= Max
        <3> SUFFICES ASSUME NEW c \in denied' \ resent, c \notin denied
                     PROVE  Cardinality(Recent(c)) >= Max
            BY DEF DenyInv, NoUndueDenial
        <3>1. c = call[h] /\ c # 0 /\ pc[h] = "expire" /\ count[h] >= Max /\ count[h] \in Nat
            BY <2>4
        <3>2. count[h] <= Cardinality(Recent(c))
            BY <3>1 DEF DenyInv, CountHeld
        <3> QED
            BY <2>5, <3>1, <3>2
    <2>7. NoUndueDenial'
        BY <2>1, <2>6, SameCalls DEF NoUndueDenial, Recent
    <2> QED
        BY <2>2, <2>3, <2>7 DEF DenyInv
<1>10. ASSUME NEW h \in Handlers, Resend(h)
       PROVE  DenyInv'
    <2>1. /\ UNCHANGED <<score, zset, call, count, denied>>
          /\ pc' = [pc EXCEPT ![h] = "trim"]
          /\ resent' = resent \cup ({call[h]} \ {0})
        BY <1>10 DEF Resend, redisVars, verdicts
    <2>2. NotCounted'
        <3> SUFFICES ASSUME NEW g \in Handlers, pc'[g] \in {"trim", "count", "add"},
                            call[g] \notin resent'
                     PROVE  call[g] \notin zset
            BY <2>1 DEF NotCounted
        <3>1. CASE g = h
            BY <2>1, <3>1 DEF Calls
        <3>2. CASE g # h
            BY <2>1, <3>2 DEF DenyInv, NotCounted
        <3> QED
            BY <3>1, <3>2
    <2>3. CountsRecent'
        BY <2>1 DEF DenyInv, CountsRecent
    <2>4. CountHeld' /\ NoUndueDenial'
        BY <2>1, SameCalls DEF DenyInv, CountHeld, NoUndueDenial, Recent
    <2> QED
        BY <2>2, <2>3, <2>4 DEF DenyInv
<1>9. CASE UNCHANGED vars
    BY <1>9, SameCalls DEF vars, DenyInv, NotCounted, CountsRecent, CountHeld, verdicts, mishaps,
                           NoUndueDenial, Recent
<1> QED
    BY <1>2, <1>3, <1>4, <1>5, <1>6, <1>7, <1>8, <1>9, <1>10 DEF Next

\* As long as a pipeline is faster than the window, whoever is denied, and was
\* not sent again, had Max other calls in the last window or at the
\* same moment: calls that left the window, and broken-off pipelines without a
\* ZADD, deny nobody (ratelimit.go:33-55).
THEOREM DenialsAreDue ==
    ASSUME Delay < Window
    PROVE  Spec => []NoUndueDenial
<1>1. Init => DenyInv
    BY DEF Init, DenyInv, NotCounted, CountsRecent, CountHeld, NoUndueDenial
<1>2. TypeOK /\ CallInv /\ DenyInv /\ [Next]_vars => DenyInv'
    BY NextDeny
<1>3. DenyInv => NoUndueDenial
    BY DEF DenyInv
<1> QED
    BY <1>1, <1>2, <1>3, CallsKnown, PTL DEF Spec
-----------------------------------------------------------------------------
(* How far the limit is overrun.                                           *)

\* Calls that were let pass by a count, whose handler is still at work ...
Passed == {c \in Calls : \E h \in Handlers :
              call[h] = c /\ pc[h] \in {"add", "expire"} /\ count[h] < Max}
\* ... and all calls that have a handler.
AtWork == {c \in Calls : \E h \in Handlers : call[h] = c}

Others == Cardinality(Handlers) - 1

\* As long as nothing of the window that ends at t was removed, a call that
\* passed is in the sorted set, or its handler is about to add it.
Held(t) == \A c \in Within(allowed \cup Passed, t) :
               c \in zset \/ \E h \in Handlers : pc[h] = "add" /\ call[h] = c

Early(t) == Held(t) /\ Cardinality(Within(allowed \cup Passed, t)) <= Max + Others

\* Once something was removed, the window is over and gets no more calls than
\* are at work.
Late(t) == clock > t /\ Cardinality(Within(allowed \cup AtWork, t)) <= Max + 2 * Others

OverrunInv ==
    /\ \A h \in Handlers : call[h] \notin allowed
    /\ \A t \in Nat : Early(t) \/ Late(t)

LEMMA HandlersCounted ==
    /\ IsFiniteSet(Handlers) /\ Others \in Nat
    /\ \A h \in Handlers : IsFiniteSet(Handlers \ {h}) /\ Cardinality(Handlers \ {h}) = Others
<1>1. IsFiniteSet(Handlers) /\ Cardinality(Handlers) \in Nat /\ Cardinality(Handlers) # 0
    BY HandlersAssumption, FS_CardinalityType, FS_EmptySet
<1> QED
    BY <1>1, FS_RemoveElement DEF Others

LEMMA CallsCounted ==
    ASSUME TypeOK, NEW S, S \subseteq Calls
    PROVE  IsFiniteSet(S) /\ Cardinality(S) \in Nat
<1>1. Len(score) \in Nat
    BY DEF TypeOK
<1> QED
    BY <1>1, CallSets DEF Calls

\* There are no more calls than handlers that work on them.
LEMMA NoMoreThanHandlers ==
    ASSUME TypeOK, NEW S \in SUBSET Handlers, NEW T \in SUBSET Calls,
           \A c \in T : \E h \in S : call[h] = c
    PROVE  Cardinality(T) <= Cardinality(S)
<1> DEFINE f == [c \in T |-> CHOOSE h \in S : call[h] = c]
<1>1. \A c \in T : f[c] \in S /\ call[f[c]] = c
    OBVIOUS
<1> HIDE DEF f
<1>2. f \in [T -> S]
    BY <1>1 DEF f
<1>3. f \in Injection(T, S)
    BY <1>1, <1>2 DEF Injection, IsInjective
<1>4. IsFiniteSet(S)
    BY HandlersCounted, FS_Subset
<1> QED
    BY <1>3, <1>4, FS_Injection

LEMMA WithinCalls ==
    ASSUME TypeOK, NEW t
    PROVE  /\ Within(allowed \cup Passed, t) \subseteq Calls
           /\ Within(allowed \cup AtWork, t) \subseteq Calls
           /\ Within(allowed, t) \subseteq Calls
           /\ Within(allowed, t) \subseteq Within(allowed \cup Passed, t)
           /\ Within(allowed, t) \subseteq Within(allowed \cup AtWork, t)
BY DEF TypeOK, Within, Passed, AtWork

LEMMA StaysEarly ==
    ASSUME TypeOK, TypeOK', NEW t \in Nat, Early(t),
           Within(allowed \cup Passed, t)' \subseteq Within(allowed \cup Passed, t),
           Held(t)'
    PROVE  Early(t)'
<1>1. IsFiniteSet(Within(allowed \cup Passed, t))
    BY WithinCalls, CallsCounted
<1>2. IsFiniteSet(Within(allowed \cup Passed, t)')
    BY <1>1, FS_Subset
<1>3. Cardinality(Within(allowed \cup Passed, t)') <= Cardinality(Within(allowed \cup Passed, t))
    BY <1>1, FS_Subset
<1>4. /\ Cardinality(Within(allowed \cup Passed, t)) \in Nat
      /\ Cardinality(Within(allowed \cup Passed, t)') \in Nat
    BY <1>1, <1>2, FS_CardinalityType
<1>5. Cardinality(Within(allowed \cup Passed, t)') <= Max + Others
    BY <1>3, <1>4, HandlersCounted DEF Early
<1> QED
    BY <1>5 DEF Early, Others

LEMMA StaysLate ==
    ASSUME TypeOK, TypeOK', NEW t \in Nat, Late(t), clock <= clock',
           Within(allowed \cup AtWork, t)' \subseteq Within(allowed \cup AtWork, t)
    PROVE  Late(t)'
<1>1. IsFiniteSet(Within(allowed \cup AtWork, t))
    BY WithinCalls, CallsCounted
<1>2. IsFiniteSet(Within(allowed \cup AtWork, t)')
    BY <1>1, FS_Subset
<1>3. Cardinality(Within(allowed \cup AtWork, t)') <= Cardinality(Within(allowed \cup AtWork, t))
    BY <1>1, FS_Subset
<1>4. /\ Cardinality(Within(allowed \cup AtWork, t)) \in Nat
      /\ Cardinality(Within(allowed \cup AtWork, t)') \in Nat
    BY <1>1, <1>2, FS_CardinalityType
<1>5. Cardinality(Within(allowed \cup AtWork, t)') <= Max + 2 * Others
    BY <1>3, <1>4, HandlersCounted DEF Late
<1>6. clock' > t
    BY DEF Late, TypeOK
<1> QED
    BY <1>5, <1>6 DEF Late, Others

\* If one handler has no call of the window, those of the others are all that
\* may come on top.
LEMMA OneIsOut ==
    ASSUME TypeOK, NEW t \in Nat, Early(t), NEW h \in Handlers,
           call[h] \notin Within(Calls, t)
    PROVE  Cardinality(Within(allowed \cup AtWork, t)) <= Max + 2 * Others
<1> DEFINE S == Within(allowed, t)
           T == {c \in Calls : \E g \in Handlers \ {h} : call[g] = c}
<1>1. Within(allowed \cup AtWork, t) \subseteq S \cup T
    BY DEF Within, AtWork
<1>2. Cardinality(T) <= Others
    BY NoMoreThanHandlers, HandlersCounted
<1>3. IsFiniteSet(T) /\ Cardinality(T) \in Nat
    BY CallsCounted
<1>4. Cardinality(S) <= Max + Others
    <2>1. /\ IsFiniteSet(Within(allowed \cup Passed, t))
          /\ Cardinality(Within(allowed \cup Passed, t)) \in Nat
        BY WithinCalls, CallsCounted
    <2>2. Cardinality(S) <= Cardinality(Within(allowed \cup Passed, t))
        BY <2>1, WithinCalls, FS_Subset
    <2>3. Cardinality(S) \in Nat
        BY WithinCalls, CallsCounted
    <2> QED
        BY <2>1, <2>2, <2>3, HandlersCounted DEF Early
<1>5. IsFiniteSet(S) /\ Cardinality(S) \in Nat
    BY WithinCalls, CallsCounted
<1>6. /\ IsFiniteSet(S \cup T) /\ Cardinality(S \cup T) <= Cardinality(S) + Cardinality(T)
      /\ Cardinality(S \cup T) \in Nat
    <2>1. /\ IsFiniteSet(S \cup T)
          /\ Cardinality(S \cup T) = Cardinality(S) + Cardinality(T) - Cardinality(S \cap T)
        BY <1>3, <1>5, FS_Union
    <2>2. Cardinality(S \cap T) \in Nat
        BY <1>5, FS_Subset, FS_CardinalityType
    <2>3. Cardinality(S \cup T) \in Nat
        BY <2>1, FS_CardinalityType
    <2> QED
        BY <1>3, <1>5, <2>1, <2>2, <2>3
<1>7. /\ Cardinality(Within(allowed \cup AtWork, t)) <= Cardinality(S \cup T)
      /\ Cardinality(Within(allowed \cup AtWork, t)) \in Nat
    BY <1>1, <1>6, FS_Subset, WithinCalls, CallsCounted
<1> HIDE DEF S, T
<1> QED
    BY <1>2, <1>3, <1>4, <1>5, <1>6, <1>7, HandlersCounted

\* Whoever counts fewer than Max finds all that passed, but for what the other
\* handlers are about to add.
LEMMA OneMorePasses ==
    ASSUME TypeOK, NEW t \in Nat, Held(t), NEW h \in Handlers, pc[h] = "count",
           Cardinality(zset) < Max
    PROVE  Cardinality(Within(allowed \cup Passed, t) \cup {call[h]}) <= Max + Others
<1> DEFINE P == Within(allowed \cup Passed, t)
           T == {c \in Calls : \E g \in Handlers \ {h} : call[g] = c}
<1>1. P \subseteq zset \cup T
    <2> SUFFICES ASSUME NEW c \in P, c \notin zset
                 PROVE  c \in T
        OBVIOUS
    <2>1. PICK g \in Handlers : pc[g] = "add" /\ call[g] = c
        BY DEF Held
    <2> QED
        BY <2>1, WithinCalls
<1>2. Cardinality(T) <= Others
    BY NoMoreThanHandlers, HandlersCounted
<1>3. IsFiniteSet(T) /\ Cardinality(T) \in Nat /\ IsFiniteSet(zset) /\ Cardinality(zset) \in Nat
    BY CallsCounted DEF TypeOK
<1>4. IsFiniteSet(P) /\ Cardinality(P) \in Nat
    BY WithinCalls, CallsCounted
<1>5. /\ IsFiniteSet(zset \cup T) /\ Cardinality(zset \cup T) <= Cardinality(zset) + Cardinality(T)
      /\ Cardinality(zset \cup T) \in Nat
    <2>1. /\ IsFiniteSet(zset \cup T)
          /\ Cardinality(zset \cup T)
                = Cardinality(zset) + Cardinality(T) - Cardinality(zset \cap T)
        BY <1>3, FS_Union
    <2>2. Cardinality(zset \cap T) \in Nat
        BY <1>3, FS_Subset, FS_CardinalityType
    <2>3. Cardinality(zset \cup T) \in Nat
        BY <2>1, FS_CardinalityType
    <2> QED
        BY <1>3, <2>1, <2>2, <2>3
<1>6. Cardinality(P) <= Cardinality(zset \cup T)
    BY <1>1, <1>5, FS_Subset
<1> HIDE DEF P, T
<1>7. /\ Cardinality(P \cup {call[h]}) \in Nat
      /\ Cardinality(P \cup {call[h]}) <= Cardinality(P) + 1
    <2>1. Cardinality(P \cup {call[h]}) = Cardinality(P) \/
          Cardinality(P \cup {call[h]}) = Cardinality(P) + 1
        BY <1>4, FS_AddElement
    <2> QED
        BY <1>4, <2>1
<1>8. Cardinality(P \cup {call[h]}) <= Max + Others
    BY <1>2, <1>3, <1>4, <1>5, <1>6, <1>7, HandlersCounted
<1> QED
    BY <1>8 DEF P

LEMMA InitOverrun == Init => OverrunInv
<1> SUFFICES ASSUME Init
             PROVE  OverrunInv
    OBVIOUS
<1>1. ASSUME NEW t \in Nat
      PROVE  Early(t)
    <2>1. Within(allowed \cup Passed, t) = {}
        BY DEF Init, Within, Passed, Calls
    <2> QED
        BY <2>1, FS_EmptySet, HandlersCounted DEF Early, Held
<1> QED
    BY <1>1 DEF Init, OverrunInv

\* A call is let pass once: no call at work is already allowed.
LEMMA AllowedAreOver ==
    ASSUME TypeOK, CallInv, [Next]_vars, \A h \in Handlers : call[h] \notin allowed
    PROVE  \A h \in Handlers : call'[h] \notin allowed'
<1> USE DEF TypeOK
<1>1. 0 \notin allowed /\ Len(score) + 1 \notin allowed
    BY DEF Calls
<1>2. CASE UNCHANGED <<call, allowed>>
    BY <1>2
<1>3. ASSUME NEW h \in Handlers, Begin(h) \/ BeginStats(h)
      PROVE  \A g \in Handlers : call'[g] \notin allowed'
    <2>1. allowed' = allowed
        BY <1>3 DEF Begin, BeginStats, Start, verdicts
    <2>2. call' = [call EXCEPT ![h] = 0] \/ call' = [call EXCEPT ![h] = Len(score) + 1]
        BY <1>3 DEF Begin, BeginStats, Start
    <2> QED
        BY <1>1, <2>1, <2>2
<1>4. ASSUME NEW h \in Handlers, FailOpen(h)
      PROVE  \A g \in Handlers : call'[g] \notin allowed'
    BY <1>1, <1>4 DEF FailOpen, Done, verdicts
<1>5. ASSUME NEW h \in Handlers, Expire(h)
      PROVE  \A g \in Handlers : call'[g] \notin allowed'
    <2>1. /\ call' = [call EXCEPT ![h] = 0]
          /\ \A c \in allowed' : c \in allowed \/ (c = call[h] /\ c # 0)
        BY <1>5 DEF Expire, Done
    <2>2. 0 \notin allowed'
        BY <1>1, <2>1
    <2>3. ASSUME NEW g \in Handlers, g # h, call[g] \in allowed'
          PROVE  FALSE
        BY <2>1, <2>3 DEF CallInv
    <2> QED
        BY <2>1, <2>2, <2>3
<1>6. ASSUME NEW h \in Handlers, Trim(h) \/ Count(h) \/ Add(h) \/ Resend(h)
      PROVE  UNCHANGED <<call, allowed>>
    BY <1>6 DEF Trim, Count, Add, Resend, history, verdicts
<1>7. Tick => UNCHANGED <<call, allowed>>
    BY DEF Tick, handlerVars, history, verdicts
<1>8. UNCHANGED vars => UNCHANGED <<call, allowed>>
    BY DEF vars
<1> QED
    BY <1>2, <1>3, <1>4, <1>5, <1>6, <1>7, <1>8 DEF Next

\* No step makes a window that is over get more calls.
LEMMA NextLate ==
    ASSUME TypeOK, TypeOK', CallInv, [Next]_vars, NEW t \in Nat, Late(t)
    PROVE  Late(t)'
<1> USE DEF TypeOK
<1>1. clock <= clock'
    BY DEF Next, Tick, Begin, BeginStats, Start, Trim, Count, Add, Expire, FailOpen, Resend,
           Done, vars
<1>2. CASE UNCHANGED <<score, call, allowed>>
    <2>1. Within(allowed \cup AtWork, t)' = Within(allowed \cup AtWork, t)
        BY <1>2, SameCalls DEF Within, AtWork
    <2> QED
        BY <1>1, <2>1, StaysLate
<1>3. ASSUME NEW h \in Handlers, Begin(h)
      PROVE  Late(t)'
    <2>1. /\ call' = [call EXCEPT ![h] = Len(score) + 1]
          /\ allowed' = allowed
        BY <1>3 DEF Begin, Start, verdicts
    <2>2. /\ \A c \in Calls : score'[c] = score[c]
          /\ score'[Len(score) + 1] = clock
          /\ Calls' = Calls \cup {Len(score) + 1}
          /\ Len(score) + 1 \notin {0} \cup Calls
        BY <1>3, NewCall
    <2>3. ~ (clock <= t)
        BY DEF Late
    <2>4. Within(allowed \cup AtWork, t)' \subseteq Within(allowed \cup AtWork, t)
        <3> SUFFICES ASSUME NEW c \in Within(allowed \cup AtWork, t)'
                     PROVE  c \in Within(allowed \cup AtWork, t)
            OBVIOUS
        <3>1. c \in Calls' /\ score'[c] <= t /\ t < score'[c] + Window
              /\ (c \in allowed \/ \E g \in Handlers : call'[g] = c)
            BY <2>1, <2>2 DEF Within, AtWork
        <3>2. c \in Calls
            BY <2>2, <2>3, <3>1
        <3>3. c \in allowed \/ \E g \in Handlers : call[g] = c
            BY <2>1, <2>2, <3>1, <3>2
        <3> QED
            BY <2>2, <3>1, <3>2, <3>3 DEF Within, AtWork
    <2> QED
        BY <1>1, <2>4, StaysLate
<1>4. ASSUME NEW h \in Handlers, BeginStats(h) \/ FailOpen(h) \/ Expire(h)
      PROVE  Late(t)'
    <2>1. /\ call' = [call EXCEPT ![h] = 0] /\ score' = score
          /\ \A c \in allowed' : c \in allowed \/ c = call[h]
        BY <1>4 DEF BeginStats, Start, FailOpen, Expire, Done, verdicts
    <2>2. Within(allowed \cup AtWork, t)' \subseteq Within(allowed \cup AtWork, t)
        <3> SUFFICES ASSUME NEW c \in Within(allowed \cup AtWork, t)'
                     PROVE  c \in Within(allowed \cup AtWork, t)
            OBVIOUS
        <3>1. /\ c \in Calls /\ score[c] <= t /\ t < score[c] + Window
              /\ c \in allowed' \/ \E g \in Handlers : call'[g] = c
            BY <2>1, SameCalls DEF Within, AtWork
        <3>2. c # 0
            BY <3>1 DEF Calls
        <3>3. c \in allowed \/ \E g \in Handlers : call[g] = c
            BY <2>1, <3>1, <3>2
        <3> QED
            BY <3>1, <3>3 DEF Within, AtWork
    <2> QED
        BY <1>1, <2>2, StaysLate
<1>5. ASSUME NEW h \in Handlers, Trim(h) \/ Count(h) \/ Add(h) \/ Resend(h)
      PROVE  UNCHANGED <<score, call, allowed>>
    BY <1>5 DEF Trim, Count, Add, Resend, history, verdicts
<1>6. Tick => UNCHANGED <<score, call, allowed>>
    BY DEF Tick, handlerVars, history, verdicts
<1>7. UNCHANGED vars => UNCHANGED <<score, call, allowed>>
    BY DEF vars
<1> QED
    BY <1>2, <1>3, <1>4, <1>5, <1>6, <1>7 DEF Next

\* The steps of one handler that touch neither the sorted set nor the count.
LEMMA BeginsEarly ==
    ASSUME TypeOK, TypeOK', CallInv, NEW h \in Handlers, Begin(h) \/ BeginStats(h),
           NEW t \in Nat, Early(t)
    PROVE  Early(t)'
<1> USE DEF TypeOK
<1>1. /\ UNCHANGED <<zset, count, allowed>>
      /\ \A g \in Handlers : g # h => pc'[g] = pc[g] /\ call'[g] = call[g]
      /\ pc[h] = "idle" /\ pc'[h] = "trim"
    BY DEF Begin, BeginStats, Start, redisVars, verdicts
<1>2. \A c \in Calls : score'[c] = score[c]
    BY NewCall DEF BeginStats
<1>3. 0 \notin Calls' /\ allowed \subseteq Calls
    BY DEF Calls
<1>4. \A c \in Passed' : c \in Passed
    <2> SUFFICES ASSUME NEW c \in Calls', NEW g \in Handlers, call'[g] = c,
                        pc'[g] \in {"add", "expire"}, count'[g] < Max
                 PROVE  c \in Passed
        BY DEF Passed
    <2>1. g # h
        BY <1>1
    <2>2. c \in Calls
        BY <1>1, <1>3, <2>1
    <2> QED
        BY <1>1, <2>1, <2>2 DEF Passed
<1>5. Within(allowed \cup Passed, t)' \subseteq Within(allowed \cup Passed, t)
    BY <1>1, <1>2, <1>3, <1>4 DEF Within, Passed
<1>6. Held(t)'
    <2> SUFFICES ASSUME NEW c \in Within(allowed \cup Passed, t)'
                 PROVE  c \in zset' \/ \E g \in Handlers : pc'[g] = "add" /\ call'[g] = c
        BY DEF Held
    <2>1. c \in zset \/ \E g \in Handlers : pc[g] = "add" /\ call[g] = c
        BY <1>5 DEF Early, Held
    <2> QED
        BY <1>1, <2>1
<1> QED
    BY <1>5, <1>6, StaysEarly

\* The ZADD brings in what Held promised.
LEMMA AddsEarly ==
    ASSUME TypeOK, TypeOK', CallInv, NEW h \in Handlers, Add(h), NEW t \in Nat, Early(t)
    PROVE  Early(t)'
<1> USE DEF TypeOK
<1>1. /\ UNCHANGED <<score, call, count, allowed>>
      /\ zset' = zset \cup {call[h]}
      /\ pc[h] = "add" /\ pc' = [pc EXCEPT ![h] = "expire"]
    BY DEF Add, history, verdicts
<1>2. Passed' = Passed
    BY <1>1, SameCalls DEF Passed
<1>3. Within(allowed \cup Passed, t)' = Within(allowed \cup Passed, t)
    BY <1>1, <1>2 DEF Within
<1>4. Held(t)'
    BY <1>1, <1>3 DEF Early, Held
<1> QED
    BY <1>3, <1>4, StaysEarly

\* A verdict only moves a call that passed to the allowed ones.
LEMMA ExpiresEarly ==
    ASSUME TypeOK, TypeOK', CallInv, NEW h \in Handlers, Expire(h), NEW t \in Nat, Early(t)
    PROVE  Early(t)'
<1> USE DEF TypeOK
<1>1. /\ UNCHANGED <<score, zset>> /\ pc[h] = "expire"
      /\ \A g \in Handlers : g # h => pc'[g] = pc[g] /\ call'[g] = call[g] /\ count'[g] = count[g]
      /\ pc'[h] = "idle"
      /\ \A c \in allowed' : c \in allowed \/ (c = call[h] /\ c # 0 /\ count[h] < Max)
    BY DEF Expire, Done
<1>2. \A c \in allowed' \cup Passed' : c \in allowed \cup Passed
    <2>1. \A c \in Passed' : c \in Passed
        BY <1>1, SameCalls DEF Passed
    <2>2. \A c \in allowed' : c \in allowed \cup Passed
        BY <1>1, SameCalls DEF Passed
    <2> QED
        BY <2>1, <2>2
<1>3. Within(allowed \cup Passed, t)' \subseteq Within(allowed \cup Passed, t)
    BY <1>1, <1>2 DEF Within
<1>4. Held(t)'
    <2> SUFFICES ASSUME NEW c \in Within(allowed \cup Passed, t)'
                 PROVE  c \in zset' \/ \E g \in Handlers : pc'[g] = "add" /\ call'[g] = c
        BY DEF Held
    <2>1. c \in zset \/ \E g \in Handlers : pc[g] = "add" /\ call[g] = c
        BY <1>3 DEF Early, Held
    <2> QED
        BY <1>1, <2>1
<1> QED
    BY <1>3, <1>4, StaysEarly

\* A call that is sent again has no verdict yet, and nobody else works on it.
LEMMA ResendsEarly ==
    ASSUME TypeOK, TypeOK', CallInv, NEW h \in Handlers, Resend(h), NEW t \in Nat, Early(t),
           call[h] \notin allowed
    PROVE  Early(t)'
<1> USE DEF TypeOK
<1>1. /\ UNCHANGED <<score, zset, call, count, allowed>>
      /\ pc' = [pc EXCEPT ![h] = "trim"]
    BY DEF Resend, redisVars, verdicts
<1>2. Passed' \subseteq Passed
    BY <1>1, SameCalls DEF Passed
<1>3. Within(allowed \cup Passed, t)' \subseteq Within(allowed \cup Passed, t)
    BY <1>1, <1>2 DEF Within
<1>4. call[h] \notin Passed'
    <2> SUFFICES ASSUME NEW g \in Handlers, call[g] = call[h], call[h] \in Calls,
                        pc'[g] \in {"add", "expire"}
                 PROVE  FALSE
        BY <1>1, SameCalls DEF Passed
    <2>1. g # h
        BY <1>1
    <2>2. call[g] # 0
        BY DEF Calls
    <2> QED
        BY <2>1, <2>2 DEF CallInv
<1>5. Held(t)'
    <2> SUFFICES ASSUME NEW c \in Within(allowed \cup Passed, t)'
                 PROVE  c \in zset' \/ \E g \in Handlers : pc'[g] = "add" /\ call'[g] = c
        BY DEF Held
    <2>1. c # call[h]
        BY <1>1, <1>4 DEF Within
    <2>2. c \in zset \/ \E g \in Handlers : pc[g] = "add" /\ call[g] = c
        BY <1>3 DEF Early, Held
    <2> QED
        BY <1>1, <2>1, <2>2
<1> QED
    BY <1>3, <1>5, StaysEarly

\* A count lets one more call pass, if it finds fewer than Max.
LEMMA CountsEarly ==
    ASSUME TypeOK, TypeOK', CallInv, NEW h \in Handlers, Count(h), NEW t \in Nat, Early(t)
    PROVE  Early(t)'
<1> USE DEF TypeOK
<1>1. /\ UNCHANGED <<score, zset, call, allowed>> /\ pc[h] = "count"
      /\ \A g \in Handlers : g # h => pc'[g] = pc[g] /\ count'[g] = count[g]
      /\ pc'[h] = IF call[h] = 0 THEN "expire" ELSE "add"
      /\ count'[h] = Cardinality(zset)
    BY DEF Count, redisVars, history, verdicts
<1>2. \A c \in Passed' : c \in Passed \/ (c = call[h] /\ c # 0 /\ Cardinality(zset) < Max)
    <2> SUFFICES ASSUME NEW c \in Calls, NEW g \in Handlers, call[g] = c,
                        pc'[g] \in {"add", "expire"}, count'[g] < Max
                 PROVE  c \in Passed \/ (c = call[h] /\ c # 0 /\ Cardinality(zset) < Max)
        BY <1>1, SameCalls DEF Passed
    <2>1. CASE g = h
        <3>1. c # 0
            BY DEF Calls
        <3> QED
            BY <1>1, <2>1, <3>1
    <2>2. CASE g # h
        BY <1>1, <2>2 DEF Passed
    <2> QED
        BY <2>1, <2>2
<1>3. \A c \in Within(allowed \cup Passed, t)' :
          c \in Within(allowed \cup Passed, t)
              \/ (c = call[h] /\ c # 0 /\ Cardinality(zset) < Max)
    BY <1>1, <1>2 DEF Within
<1>4. Held(t)'
    <2> SUFFICES ASSUME NEW c \in Within(allowed \cup Passed, t)'
                 PROVE  c \in zset' \/ \E g \in Handlers : pc'[g] = "add" /\ call'[g] = c
        BY DEF Held
    <2>1. CASE c = call[h] /\ c # 0
        BY <1>1, <2>1
    <2>2. CASE c \in Within(allowed \cup Passed, t)
        <3>1. c \in zset \/ \E g \in Handlers : pc[g] = "add" /\ call[g] = c
            BY <2>2 DEF Early, Held
        <3> QED
            BY <1>1, <3>1
    <2> QED
        BY <1>3, <2>1, <2>2
<1>5. CASE Within(allowed \cup Passed, t)' \subseteq Within(allowed \cup Passed, t)
    BY <1>4, <1>5, StaysEarly
<1>6. CASE ~ (Within(allowed \cup Passed, t)' \subseteq Within(allowed \cup Passed, t))
    <2>1. Cardinality(zset) < Max
        BY <1>3, <1>6
    <2> DEFINE P == Within(allowed \cup Passed, t) \cup {call[h]}
    <2>2. Cardinality(P) <= Max + Others
        BY <1>1, <2>1, OneMorePasses DEF Early
    <2>3. IsFiniteSet(P) /\ Cardinality(P) \in Nat
        <3>1. IsFiniteSet(Within(allowed \cup Passed, t))
            BY WithinCalls, CallsCounted
        <3> QED
            BY <3>1, FS_AddElement, FS_CardinalityType
    <2>4. Within(allowed \cup Passed, t)' \subseteq P
        BY <1>3
    <2> HIDE DEF P
    <2>5. /\ Cardinality(Within(allowed \cup Passed, t)') <= Cardinality(P)
          /\ Cardinality(Within(allowed \cup Passed, t)') \in Nat
        BY <2>3, <2>4, FS_Subset, FS_CardinalityType
    <2>6. Cardinality(Within(allowed \cup Passed, t)') <= Max + Others
        BY <2>2, <2>3, <2>5, HandlersCounted
    <2> QED
        BY <1>4, <2>6 DEF Early, Others
<1> QED
    BY <1>5, <1>6

\* ZREMRANGEBYSCORE either leaves the window alone, or its handler read the
\* clock when the window was over.
LEMMA TrimsEarly ==
    ASSUME TypeOK, TypeOK', CallInv, NEW h \in Handlers, Trim(h), NEW t \in Nat, Early(t)
    PROVE  Early(t)' \/ Late(t)'
<1> USE DEF TypeOK
<1>1. /\ UNCHANGED <<clock, score, call, count, allowed>> /\ pc[h] = "trim"
      /\ zset' = {c \in zset : score[c] + Window > now[h]}
      /\ pc' = [pc EXCEPT ![h] = "count"]
    BY DEF Trim, history, verdicts
<1>2. Passed' = Passed /\ AtWork' = AtWork
    BY <1>1, SameCalls DEF Passed, AtWork
<1>3. /\ Within(allowed \cup Passed, t)' = Within(allowed \cup Passed, t)
      /\ Within(allowed \cup AtWork, t)' = Within(allowed \cup AtWork, t)
    BY <1>1, <1>2 DEF Within
<1>4. CASE \A c \in Within(allowed \cup Passed, t) : c \in zset => c \in zset'
    <2>1. Held(t)'
        BY <1>1, <1>3, <1>4 DEF Early, Held
    <2> QED
        BY <1>3, <2>1, StaysEarly
<1>5. ASSUME NEW d \in Within(allowed \cup Passed, t), d \in zset, d \notin zset'
      PROVE  Late(t)'
    <2>1. score[d] + Window <= now[h] /\ score[d] \in Nat /\ t < score[d] + Window
        BY <1>1, <1>5, Scores DEF Within
    <2>2. t < now[h] /\ now[h] <= clock /\ now[h] \in Nat
        BY <1>1, <2>1 DEF CallInv
    <2>3. call[h] \notin Within(Calls, t)
        <3>1. CASE call[h] = 0
            BY <3>1 DEF Within, Calls
        <3>2. CASE call[h] # 0
            BY <2>2, <3>2 DEF Within, CallInv
        <3> QED
            BY <3>1, <3>2
    <2>4. Cardinality(Within(allowed \cup AtWork, t)) <= Max + 2 * Others
        BY <2>3, OneIsOut
    <2>5. clock' > t
        BY <1>1, <2>2
    <2> QED
        BY <1>3, <2>4, <2>5 DEF Late, Others
<1> QED
    BY <1>4, <1>5

\* The TTL takes the sorted set away only when the window of every call in it
\* is over, and no handler at work has a call from then.
LEMMA TicksEarly ==
    ASSUME TypeOK, TypeOK', CallInv, TtlInv, Tick, NEW t \in Nat, Early(t)
    PROVE  Early(t)' \/ Late(t)'
<1> USE DEF TypeOK
<1>1. /\ UNCHANGED <<score, pc, call, now, count, allowed>> /\ clock' = clock + 1
      /\ \A h \in Handlers : pc[h] # "idle" => clock < now[h] + Delay
      /\ \/ zset' = {} /\ expiry = clock'
         \/ zset' = zset
    BY DEF Tick, handlerVars, redisVars, history, verdicts
<1>2. Passed' = Passed /\ AtWork' = AtWork
    BY <1>1, SameCalls DEF Passed, AtWork
<1>3. /\ Within(allowed \cup Passed, t)' = Within(allowed \cup Passed, t)
      /\ Within(allowed \cup AtWork, t)' = Within(allowed \cup AtWork, t)
    BY <1>1, <1>2 DEF Within
<1>4. CASE \A c \in Within(allowed \cup Passed, t) : c \in zset => c \in zset'
    <2>1. Held(t)'
        BY <1>1, <1>3, <1>4 DEF Early, Held
    <2> QED
        BY <1>3, <2>1, StaysEarly
<1>5. ASSUME NEW d \in Within(allowed \cup Passed, t), d \in zset, d \notin zset'
      PROVE  Late(t)'
    <2>1. expiry = clock' /\ expiry # 0
        BY <1>1, <1>5
    <2>2. \A h \in Handlers : ~Outlived(h)
        BY <1>1, <2>1 DEF Outlived
    <2>3. score[d] + Ttl <= expiry
        BY <1>5, <2>1, <2>2 DEF TtlInv, OverCalls, OpenCalls
    <2>4. score[d] \in Nat /\ t < score[d] + Window
        BY <1>5, Scores DEF Within
    <2>5. t < clock' /\ t + Delay < expiry
        BY <2>1, <2>3, <2>4
    <2>6. PICK h \in Handlers : TRUE
        BY HandlersAssumption
    <2>7. call[h] \notin Within(Calls, t)
        <3>1. CASE call[h] = 0
            BY <3>1 DEF Within, Calls
        <3>2. CASE call[h] # 0
            <4>1. pc[h] # "idle" /\ score[call[h]] = now[h] /\ now[h] \in Nat
                BY <3>2 DEF CallInv
            <4>2. expiry <= now[h] + Delay
                BY <2>2, <4>1 DEF Outlived
            <4>3. t < now[h]
                BY <2>5, <4>1, <4>2
            <4> QED
                BY <4>1, <4>3 DEF Within
        <3> QED
            BY <3>1, <3>2
    <2>8. Cardinality(Within(allowed \cup AtWork, t)) <= Max + 2 * Others
        BY <2>7, OneIsOut
    <2> QED
        BY <1>3, <2>5, <2>8 DEF Late, Others
<1> QED
    BY <1>4, <1>5

LEMMA NextOverrun ==
    ASSUME broken' = 0, TypeOK, TypeOK', CallInv, TtlInv, OverrunInv, [Next]_vars
    PROVE  OverrunInv'
<1>1. \A h \in Handlers : call'[h] \notin allowed'
    BY AllowedAreOver DEF OverrunInv
<1>2. ASSUME NEW t \in Nat
      PROVE  Early(t)' \/ Late(t)'
    <2>1. CASE Late(t)
        BY <2>1, NextLate
    <2>2. ASSUME Early(t), UNCHANGED vars
          PROVE  Early(t)'
        <3>1. Calls' = Calls /\ Passed' = Passed
            BY <2>2 DEF Calls, Passed, vars
        <3> QED
            BY <2>2, <3>1 DEF Early, Held, Within, vars
    <2>3. CASE Early(t)
        <3>1. \A h \in Handlers : ~FailOpen(h)
            BY DEF FailOpen, TypeOK
        <3>2. ASSUME NEW h \in Handlers, Resend(h)
              PROVE  Early(t)'
            BY <2>3, <3>2, ResendsEarly DEF OverrunInv
        <3> QED
            BY <2>2, <2>3, <3>1, <3>2, BeginsEarly, AddsEarly, ExpiresEarly, CountsEarly,
               TrimsEarly, TicksEarly DEF Next
    <2> QED
        BY <2>1, <2>3 DEF OverrunInv
<1> QED
    BY <1>1, <1>2 DEF OverrunInv

LEMMA OverrunBounds ==
    ASSUME TypeOK, broken = 0 => OverrunInv
    PROVE  BoundedOverrun
<1> SUFFICES ASSUME OverrunInv, NEW t \in 1 .. clock
             PROVE  Cardinality(Within(allowed, t)) <= Max + 2 * Others
    BY DEF BoundedOverrun, Others
<1>1. t \in Nat
    BY DEF TypeOK
<1>2. Cardinality(Within(allowed, t)) \in Nat
    BY WithinCalls, CallsCounted
<1>3. CASE Early(t)
    <2>1. /\ IsFiniteSet(Within(allowed \cup Passed, t))
          /\ Cardinality(Within(allowed \cup Passed, t)) \in Nat
        BY WithinCalls, CallsCounted
    <2>2. Cardinality(Within(allowed, t)) <= Cardinality(Within(allowed \cup Passed, t))
        BY <2>1, WithinCalls, FS_Subset
    <2> QED
        BY <1>2, <1>3, <2>1, <2>2, HandlersCounted DEF Early
<1>4. CASE Late(t)
    <2>1. /\ IsFiniteSet(Within(allowed \cup AtWork, t))
          /\ Cardinality(Within(allowed \cup AtWork, t)) \in Nat
        BY WithinCalls, CallsCounted
    <2>2. Cardinality(Within(allowed, t)) <= Cardinality(Within(allowed \cup AtWork, t))
        BY <2>1, WithinCalls, FS_Subset
    <2> QED
        BY <1>2, <1>4, <2>1, <2>2, HandlersCounted DEF Late
<1> QED
    BY <1>1, <1>3, <1>4 DEF OverrunInv

\* As long as no pipeline breaks off, no window ever has more allowed calls than
\* the limit and two for each other handler, however the handlers interleave,
\* however slow they are within Delay, and however often the client sends a
\* pipeline again (ratelimit.go:33-55).
THEOREM OverrunIsBounded == Spec => []BoundedOverrun
<1>1. Init => OverrunInv
    BY InitOverrun
<1>2. ASSUME TypeOK, TypeOK', CallInv, broken = 0 => TtlInv, broken = 0 => OverrunInv,
             [Next]_vars
      PROVE  (broken = 0 => OverrunInv)'
    <2> SUFFICES ASSUME broken' = 0
                 PROVE  OverrunInv'
        OBVIOUS
    <2>1. broken = 0
        BY <1>2, BrokenStays
    <2> QED
        BY <1>2, <2>1, NextOverrun
<1>3. TypeOK /\ (broken = 0 => OverrunInv) => BoundedOverrun
    BY OverrunBounds
<1> QED
    BY <1>1, <1>2, <1>3, TtlKept, PTL DEF Spec

\* Requests of one key that come one after another, and that Redis answers, keep
\* to the documented limit (readme.md:423-426), resent pipelines included: only
\* requests at work at the same time exceed it, as LimitKept is violated with two.
THEOREM LimitKeptOneByOne ==
    ASSUME Cardinality(Handlers) = 1, "redis" \notin Faults
    PROVE  Spec => []LimitKept
<1>1. Init => broken = 0
    BY DEF Init
<1>2. broken = 0 /\ [Next]_vars => (broken = 0)'
    BY DEF Next, vars, Tick, Begin, BeginStats, Start, Trim, Count, Add, Expire, Done,
       FailOpen, Resend, handlerVars, history, mishaps
<1>3. broken = 0 /\ BoundedOverrun => LimitKept
    BY LimitAssumption DEF BoundedOverrun, LimitKept
<1> QED
    BY <1>1, <1>2, <1>3, OverrunIsBounded, PTL DEF Spec

=============================================================================
