----------------------------- MODULE RateLimit -----------------------------
(***************************************************************************)
(* The sliding-window rate limiter: one key, that is one consumer or one   *)
(* client address, and the HTTP handlers of all containers that ask for    *)
(* it.  Keys share nothing, so one is enough.                              *)
(*                                                                         *)
(* Allow sends four Redis commands in a pipeline that is not a transaction:*)
(* Redis may serve the commands of other handlers between them, and each   *)
(* command is an action.  The scores are the handlers' own clock readings; *)
(* the clocks of the containers and of Redis are taken to agree.           *)
(*                                                                         *)
(* Faults: "redis", the pipeline breaks off after any command and the      *)
(* middleware lets the request pass unchecked; "resend", the Redis client  *)
(* sends the whole pipeline again.                                         *)
(***************************************************************************)
EXTENDS Naturals, Sequences, FiniteSets

CONSTANTS
    Handlers,  \* requests that may be in flight at once
    Max,       \* calls allowed per window
    Window,    \* its length, 60 s
    Ttl,       \* life of the key after a call, 70 s
    Delay,     \* longest a pipeline takes, from reading the clock to its end
    Horizon,   \* bound: last clock reading
    MaxCalls,  \* bound: calls of Allow
    MaxMishaps,\* bound: pipelines that break off and calls that are sent again
    Faults     \* what may go wrong

ASSUME HandlersAssumption == IsFiniteSet(Handlers) /\ Handlers # {}
ASSUME LimitAssumption == Max \in Nat \ {0} /\ Window \in Nat \ {0}
ASSUME TtlAssumption == Ttl \in Nat /\ Delay \in Nat /\ Delay + Window <= Ttl
ASSUME BoundsAssumption == Horizon \in Nat /\ MaxCalls \in Nat /\ MaxMishaps \in Nat
ASSUME FaultsAssumption == Faults \subseteq {"redis", "resend"}

VARIABLES
    clock,
    score,    \* clock reading of each call of Allow; a call is its number here
    zset,     \* the sorted set: the calls that have a member in it
    expiry,   \* when its key expires, 0 if it has no TTL
    pc,       \* next command of each handler's pipeline
    call,     \* the call it serves, 0 if it only reads the count
    now,      \* its clock reading
    count,    \* the reply to its ZCARD
    allowed,  \* history: calls that were allowed ...
    denied,   \* ... and denied
    broken,   \* history: how many pipelines broke off for good
    resent    \* history: calls whose pipeline was sent again

redisVars == <<zset, expiry>>
handlerVars == <<pc, call, now, count>>
verdicts == <<allowed, denied>>
mishaps == <<broken, resent>>
history == <<score, verdicts, mishaps>>
vars == <<clock, score, zset, expiry, pc, call, now, count, allowed, denied,
          broken, resent>>

Calls == 1 .. Len(score)
Command == {"idle", "trim", "count", "add", "expire"}

-----------------------------------------------------------------------------
Init ==
    /\ clock = 1
    /\ score = <<>>
    /\ zset = {} /\ expiry = 0
    /\ pc = [h \in Handlers |-> "idle"]
    /\ call = [h \in Handlers |-> 0]
    /\ now = [h \in Handlers |-> 0]
    /\ count = [h \in Handlers |-> 0]
    /\ allowed = {} /\ denied = {}
    /\ broken = 0 /\ resent = {}

\* Time passes, and Redis removes the key when its TTL is over.
Tick ==
    /\ clock < Horizon
    /\ \A h \in Handlers : pc[h] # "idle" => clock < now[h] + Delay
    /\ clock' = clock + 1
    /\ IF expiry = clock'
       THEN zset' = {} /\ expiry' = 0
       ELSE UNCHANGED redisVars
    /\ UNCHANGED <<handlerVars, history>>

\* A handler reads the clock and sends its pipeline.
Start(h, c) ==
    /\ pc[h] = "idle"
    /\ pc' = [pc EXCEPT ![h] = "trim"]
    /\ call' = [call EXCEPT ![h] = c]
    /\ now' = [now EXCEPT ![h] = clock]
    /\ UNCHANGED <<clock, redisVars, count, verdicts, mishaps>>

\* Allow: a call of its own, whose member in the sorted set is unique.
Begin(h) ==
    /\ Len(score) < MaxCalls
    /\ score' = Append(score, clock)
    /\ Start(h, Len(score) + 1)

\* GetCurrentCount, for the statistics page: Allow without the ZADD.
BeginStats(h) ==
    /\ Start(h, 0)
    /\ UNCHANGED score

\* Mutant: ZREMRANGEBYSCORE leaves the end of its range out.
TrimOpenEnd(h) ==
    /\ pc[h] = "trim"
    /\ zset' = {c \in zset : score[c] + Window >= now[h]}
    /\ expiry' = IF zset' = {} THEN 0 ELSE expiry
    /\ pc' = [pc EXCEPT ![h] = "count"]
    /\ UNCHANGED <<clock, call, now, count, history>>

\* ZREMRANGEBYSCORE 0 now-60000, both ends included.  A sorted set that is
\* empty does not exist, and neither does its TTL.
Trim(h) ==
    /\ pc[h] = "trim"
    /\ zset' = {c \in zset : score[c] + Window > now[h]}
    /\ expiry' = IF zset' = {} THEN 0 ELSE expiry
    /\ pc' = [pc EXCEPT ![h] = "count"]
    /\ UNCHANGED <<clock, call, now, count, history>>

\* Mutant: reading the count takes a slot too.
CountTakesSlot(h) ==
    /\ pc[h] = "count"
    /\ count' = [count EXCEPT ![h] = Cardinality(zset)]
    /\ pc' = [pc EXCEPT ![h] = "add"]
    /\ UNCHANGED <<clock, redisVars, call, now, history>>

\* ZCARD.
Count(h) ==
    /\ pc[h] = "count"
    /\ count' = [count EXCEPT ![h] = Cardinality(zset)]
    /\ pc' = [pc EXCEPT ![h] = IF call[h] = 0 THEN "expire" ELSE "add"]
    /\ UNCHANGED <<clock, redisVars, call, now, history>>

\* Mutant: the member is the clock reading alone, so that calls of the same
\* millisecond are one member.
AddSameMember(h) ==
    /\ pc[h] = "add"
    /\ zset' = zset \cup {CHOOSE c \in Calls : score[c] = now[h]}
    /\ pc' = [pc EXCEPT ![h] = "expire"]
    /\ UNCHANGED <<clock, expiry, call, now, count, history>>

\* ZADD, also for a call that will be denied.
Add(h) ==
    /\ pc[h] = "add"
    /\ zset' = zset \cup {call[h]}
    /\ pc' = [pc EXCEPT ![h] = "expire"]
    /\ UNCHANGED <<clock, expiry, call, now, count, history>>

\* The handler forgets its pipeline.
Done(h) ==
    /\ pc' = [pc EXCEPT ![h] = "idle"]
    /\ call' = [call EXCEPT ![h] = 0]
    /\ now' = [now EXCEPT ![h] = 0]
    /\ count' = [count EXCEPT ![h] = 0]
    /\ UNCHANGED <<clock, score>>

\* Mutant: only the first call of a window sets the TTL.
ExpireFirst(h) ==
    /\ pc[h] = "expire"
    /\ expiry' = IF zset # {} /\ count[h] = 0 THEN clock + Ttl ELSE expiry
    /\ allowed' = allowed \cup {c \in {call[h]} : c # 0 /\ count[h] < Max}
    /\ denied' = denied \cup {c \in {call[h]} : c # 0 /\ count[h] >= Max}
    /\ Done(h)
    /\ UNCHANGED <<zset, mishaps>>

\* Mutant: the key lives as long as the window.
ExpireWithWindow(h) ==
    /\ pc[h] = "expire"
    /\ expiry' = IF zset = {} THEN 0 ELSE clock + Window
    /\ allowed' = allowed \cup {c \in {call[h]} : c # 0 /\ count[h] < Max}
    /\ denied' = denied \cup {c \in {call[h]} : c # 0 /\ count[h] >= Max}
    /\ Done(h)
    /\ UNCHANGED <<zset, mishaps>>

\* EXPIRE, which does nothing without a key; the replies arrive, and the count
\* from before the ZADD decides.
Expire(h) ==
    /\ pc[h] = "expire"
    /\ expiry' = IF zset = {} THEN 0 ELSE clock + Ttl
    /\ allowed' = allowed \cup {c \in {call[h]} : c # 0 /\ count[h] < Max}
    /\ denied' = denied \cup {c \in {call[h]} : c # 0 /\ count[h] >= Max}
    /\ Done(h)
    /\ UNCHANGED <<zset, mishaps>>

\* The bound on faults does not count what is sent again a second time.
MoreMishaps == broken + Cardinality(resent) < MaxMishaps

\* The pipeline breaks off: the middleware serves the request unchecked.
FailOpen(h) ==
    /\ "redis" \in Faults /\ pc[h] # "idle" /\ MoreMishaps
    /\ broken' = broken + 1
    /\ Done(h)
    /\ UNCHANGED <<redisVars, verdicts, resent>>

\* The pipeline breaks off and the client sends it again, member and all.
Resend(h) ==
    /\ "resend" \in Faults /\ pc[h] # "idle"
    /\ call[h] \in {0} \cup resent \/ MoreMishaps
    /\ pc' = [pc EXCEPT ![h] = "trim"]
    /\ resent' = resent \cup ({call[h]} \ {0})
    /\ UNCHANGED <<clock, redisVars, call, now, count, score, verdicts, broken>>

Next ==
    \/ Tick
    \/ \E h \in Handlers :
          \/ Begin(h) \/ BeginStats(h)
          \/ Trim(h) \/ Count(h) \/ Add(h) \/ Expire(h)
          \/ FailOpen(h) \/ Resend(h)

Spec == Init /\ [][Next]_vars

-----------------------------------------------------------------------------
TypeOK ==
    /\ clock \in Nat \ {0}
    /\ score \in Seq(Nat)
    /\ zset \subseteq Calls
    /\ expiry \in Nat
    /\ pc \in [Handlers -> Command]
    /\ call \in [Handlers -> {0} \cup Calls]
    /\ now \in [Handlers -> Nat]
    /\ count \in [Handlers -> Nat]
    /\ allowed \subseteq Calls /\ denied \subseteq Calls
    /\ broken \in Nat /\ resent \subseteq Calls

\* The calls of S in the window that ends at t.
Within(S, t) == {c \in S : score[c] <= t /\ t < score[c] + Window}

\* The documented limit: no window has more than Max allowed calls
\* (readme.md:423-426).  Interleaved pipelines break it.
LimitKept == \A t \in 1 .. clock : Cardinality(Within(allowed, t)) <= Max

\* What the limiter does guarantee, as long as no pipeline breaks off: a window
\* exceeds the limit by two calls at most for each other handler that is at work
\* on the key, those that count before it adds and those that count late, in a
\* window already trimmed (ratelimit.go:33-52).  A pipeline that broke off after
\* its ZADD leaves an old TTL behind, at whose end more calls are forgotten.
BoundedOverrun ==
    LET others == Cardinality(Handlers) - 1
    IN  broken = 0 =>
            \A t \in 1 .. clock :
                Cardinality(Within(allowed, t)) <= Max + 2 * others

\* The other calls that are less than a window older than c, or newer.
Recent(c) == {d \in Calls \ {c} : score[c] < score[d] + Window}

\* Nobody is denied for calls that have left the window: who is denied had Max
\* other calls in it, or they came at the same moment (ratelimit.go:33-36, 55).
\* A call that was sent again may have counted itself.
NoUndueDenial == \A c \in denied \ resent : Cardinality(Recent(c)) >= Max

\* A key without a TTL would stay in Redis for ever: as long as no pipeline
\* breaks off, there is none but while the handler of one of its calls is still
\* at work (ratelimit.go:48).
NeverImmortal ==
    broken = 0 /\ zset # {} /\ expiry = 0
        => \E h \in Handlers : pc[h] # "idle" /\ call[h] # 0

\* The TTL never takes a call away that still counts: 70 s outlive the window,
\* and the 10 s between them a slow pipeline (ratelimit.go:27, 48).
TtlOutlivesWindow ==
    [][clock' # clock /\ broken = 0 =>
            \A c \in zset \ zset' : score[c] + Window <= clock']_vars

=============================================================================
