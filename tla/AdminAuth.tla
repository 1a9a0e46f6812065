----------------------------- MODULE AdminAuth -----------------------------
(***************************************************************************)
(* Administrators: the rows of admin_users, the login codes and sessions   *)
(* in Redis, the handlers that log in and delete accounts, and the seed of *)
(* the first account when a container starts.  Each Redis command, SQL     *)
(* statement and mail is an action.                                        *)
(*                                                                         *)
(* Rows, codes and sessions are numbered in the order they are made.  No   *)
(* statement changes a row, so a session that carries a copy of the e-mail *)
(* and the role of a row carries its number here.  A code is a number no   *)
(* other code has: that two are equal by chance is left out.  Only who got *)
(* the mail knows the code.                                                *)
(*                                                                         *)
(* Faults: "redis", "pg" and "smtp", a command, a statement or a mail      *)
(* fails, before or after it took effect; "resend", the Redis client       *)
(* repeats a command; "cut", the client goes away and takes the request's  *)
(* context with it.                                                        *)
(***************************************************************************)
EXTENDS Naturals, Sequences, FiniteSets

CONSTANTS
    Emails,      \* addresses of administrators
    Nobody,      \* stands for no address
    Requests,    \* login and delete requests that may be in flight at once
    Containers,
    Seed,        \* ADMIN_SEED_EMAIL of each container
    HandRoles,   \* bound: roles of rows inserted by hand ...
    MaxRows,     \* ... and rows there may be after such an insertion
    MaxCodes,    \* bound: codes generated
    MaxSessions, \* bound: sessions opened
    MaxAsked,    \* bound: requests to add or delete an account
    MaxEvents,   \* bound: faults, logouts and expiries
    Faults       \* what may go wrong

Roles == {"viewer", "admin", "super_admin"}

ASSUME NobodyAssumption == Nobody \notin Emails
ASSUME SeedAssumption == Seed \in [Containers -> Emails] /\ HandRoles \subseteq Roles
ASSUME BoundsAssumption ==
    /\ MaxRows \in Nat /\ MaxCodes \in Nat /\ MaxSessions \in Nat
    /\ MaxAsked \in Nat /\ MaxEvents \in Nat
ASSUME RequestsAssumption == IsFiniteSet(Requests)
ASSUME FaultsAssumption == Faults \subseteq {"redis", "pg", "smtp", "resend", "cut"}

VARIABLES
    account,  \* every row ever inserted: its e-mail and role
    present,  \* the rows not deleted since
    code,     \* of each address: the code in Redis, 0 if there is none
    owner,    \* the address each code was generated for
    inbox,    \* the codes that were mailed
    session,  \* every session opened: its account, and the code it was opened with
    live,     \* the sessions that exist
    boot,     \* where the start of each container stands
    pc,       \* next step of each request
    addr,     \* the address it is about, or that of its session
    num,      \* the code it is about
    row,      \* the account it found, or is to delete
    asked,    \* how many requests to add or delete there were ...
    events,   \* ... and faults, logouts and expiries
    by,       \* history: who deleted each row
    late,     \* history: sessions opened for each row since it was deleted
    kept,     \* history: codes whose DEL failed
    over,     \* history: codes that were typed, or whose time is over
    blind     \* history: an account was deleted unchecked

rows == <<account, present, by>>
codes == <<code, owner, inbox>>
sessions == <<session, live, late>>
request == <<pc, addr, num, row>>
history == <<kept, over, blind>>
vars == <<account, present, code, owner, inbox, session, live, boot, pc, addr,
          num, row, asked, events, by, late, kept, over, blind>>

Accounts == 1 .. Len(account)
Codes == 1 .. Len(owner)
Sessions == 1 .. Len(session)

Rank(role) == CASE role = "super_admin" -> 3
                [] role = "admin" -> 2
                [] role = "viewer" -> 1

AtLeast(s, role) == Rank(account[session[s].user].role) >= Rank(role)

\* FindByEmail: the row of an address, a set of one or none.
RowOf(e) == {i \in present : account[i].email = e}

-----------------------------------------------------------------------------
Init ==
    /\ account = <<>> /\ present = {}
    /\ code = [e \in Emails |-> 0] /\ owner = <<>> /\ inbox = {}
    /\ session = <<>> /\ live = {}
    /\ boot = [c \in Containers |-> "off"]
    /\ pc = [t \in Requests |-> "idle"]
    /\ addr = [t \in Requests |-> Nobody]
    /\ num = [t \in Requests |-> 0]
    /\ row = [t \in Requests |-> 0]
    /\ asked = 0 /\ events = 0
    /\ by = <<>> /\ late = <<>>
    /\ kept = {} /\ over = {} /\ blind = FALSE

-----------------------------------------------------------------------------
\* Something happens out of turn.
Event == events < MaxEvents /\ events' = events + 1
Fault(f) == f \in Faults /\ Event
AsPlanned == UNCHANGED events

(* Rows: the seed of a container that starts, and SQL by hand.             *)

\* INSERT: the e-mail is unique.
Insert(e, role) ==
    /\ RowOf(e) = {}
    /\ account' = Append(account, [email |-> e, role |-> role])
    /\ present' = present \cup {Len(account) + 1}
    /\ by' = Append(by, Nobody)
    /\ late' = Append(late, 0)

InsertByHand(e) ==
    /\ Len(account) < MaxRows
    /\ \E role \in HandRoles : Insert(e, role)
    /\ UNCHANGED <<codes, session, live, boot, request, asked, events, history>>

\* The rows are counted.  If that fails the process exits, as if it had not
\* been started.
StartUp(c) ==
    /\ boot[c] = "off"
    /\ boot' = [boot EXCEPT ![c] = IF present = {} THEN "seed" ELSE "on"]
    /\ UNCHANGED <<rows, codes, sessions, request, asked, events, history>>

\* Mutant: the process does not exit when the INSERT fails, and waits for ever.
SeedAccountHangs(c) ==
    /\ boot[c] = "seed"
    /\ Insert(Seed[c], "super_admin")
    /\ boot' = [boot EXCEPT ![c] = "on"]
    /\ UNCHANGED <<codes, session, live, request, asked, events, history>>

\* There was none: the first account is inserted.  If another container was
\* faster, the process exits.
SeedAccount(c) ==
    /\ boot[c] = "seed"
    /\ \/ /\ Insert(Seed[c], "super_admin")
          /\ boot' = [boot EXCEPT ![c] = "on"]
       \/ /\ RowOf(Seed[c]) # {}
          /\ boot' = [boot EXCEPT ![c] = "off"]
          /\ UNCHANGED <<rows, late>>
    /\ UNCHANGED <<codes, session, live, request, asked, events, history>>

SeedFails(c) ==
    /\ boot[c] = "seed" /\ Fault("pg")
    /\ boot' = [boot EXCEPT ![c] = "off"]
    /\ Insert(Seed[c], "super_admin") \/ UNCHANGED <<rows, late>>
    /\ UNCHANGED <<codes, session, live, request, asked, history>>

\* A container stops (bound: only if no account is left, as its next start
\* changes nothing otherwise).
Stop(c) ==
    /\ boot[c] = "on" /\ present = {}
    /\ boot' = [boot EXCEPT ![c] = "off"]
    /\ UNCHANGED <<rows, codes, sessions, request, asked, events, history>>

-----------------------------------------------------------------------------
(* Requests.                                                               *)

\* A container serves requests after its seed (bound: all containers have, before
\* any serves one).
Served == \A c \in Containers : boot[c] = "on"

Step(t, at) == pc' = [pc EXCEPT ![t] = at]

Finish(t) ==
    /\ Step(t, "idle")
    /\ addr' = [addr EXCEPT ![t] = Nobody]
    /\ num' = [num EXCEPT ![t] = 0]
    /\ row' = [row EXCEPT ![t] = 0]

\* POST /auth/request-login: the account exists and a code is generated.  For
\* an unknown address nothing happens.
AskCode(t, e) ==
    /\ Served /\ pc[t] = "idle" /\ Len(owner) < MaxCodes
    /\ RowOf(e) # {}
    /\ owner' = Append(owner, e)
    /\ Step(t, "store")
    /\ addr' = [addr EXCEPT ![t] = e]
    /\ num' = [num EXCEPT ![t] = Len(owner) + 1]
    /\ UNCHANGED <<rows, code, inbox, sessions, boot, row, asked, events, history>>

\* Mutant: there is one key for the codes of all addresses.
StoreCodeForAll(t) ==
    /\ pc[t] = "store"
    /\ code' = [e \in Emails |-> IF e = addr[t] THEN num[t] ELSE 0]
    /\ AsPlanned /\ Step(t, "mail")
    /\ UNCHANGED <<rows, owner, inbox, sessions, boot, addr, num, row, asked,
                   history>>

\* SET: an older code of the same address is overwritten.
StoreCode(t) ==
    /\ pc[t] = "store"
    /\ \/ /\ code' = [code EXCEPT ![addr[t]] = num[t]]
          /\ \/ AsPlanned /\ Step(t, "mail") /\ UNCHANGED <<addr, num, row>>
             \/ Fault("resend") /\ UNCHANGED request
             \/ Fault("redis") /\ Finish(t)
       \/ Fault("redis") /\ Finish(t) /\ UNCHANGED code
    /\ UNCHANGED <<rows, owner, inbox, sessions, boot, asked, history>>

\* The mail is sent.  An error does not say whether it arrived.
MailCode(t) ==
    /\ pc[t] = "mail"
    /\ \/ inbox' = inbox \cup {num[t]} /\ (AsPlanned \/ Fault("smtp"))
       \/ Fault("smtp") /\ UNCHANGED inbox
    /\ Finish(t)
    /\ UNCHANGED <<rows, code, owner, sessions, boot, asked, history>>

\* POST /auth/verify-login: GET finds the code the user typed.  Any other is
\* refused.
CheckCode(t, n) ==
    /\ Served /\ pc[t] = "idle"
    /\ n \in inbox /\ code[owner[n]] = n
    /\ Step(t, "spend")
    /\ addr' = [addr EXCEPT ![t] = owner[n]]
    /\ num' = [num EXCEPT ![t] = n]
    /\ over' = over \cup {n}
    /\ UNCHANGED <<rows, codes, sessions, boot, row, asked, events, kept, blind>>

\* Mutant: the code stays until it expires.
SpendCodeNot(t) ==
    /\ pc[t] = "spend"
    /\ Step(t, "find")
    /\ UNCHANGED <<rows, codes, sessions, boot, addr, num, row, asked, events,
                   history>>

\* DEL, of whatever code is there by now; its error is ignored.
SpendCode(t) ==
    /\ pc[t] = "spend"
    /\ \/ /\ code' = [code EXCEPT ![addr[t]] = 0]
          /\ \/ AsPlanned /\ Step(t, "find")
             \/ Fault("resend") /\ UNCHANGED pc
          /\ UNCHANGED kept
       \/ /\ Fault("redis")
          /\ kept' = kept \cup {num[t]}
          /\ Step(t, "find")
          /\ UNCHANGED code
    /\ UNCHANGED <<rows, owner, inbox, sessions, boot, addr, num, row, asked,
                   over, blind>>

\* Mutant: nobody looks whether there was an account.
FindAccountOrNone(t) ==
    /\ pc[t] = "find"
    /\ row' = [row EXCEPT ![t] = IF RowOf(addr[t]) = {} THEN 0
                                ELSE CHOOSE i \in RowOf(addr[t]) : TRUE]
    /\ Step(t, "open")
    /\ UNCHANGED <<rows, codes, sessions, boot, addr, num, asked, events, history>>

\* Mutant: deleted rows are only marked so, and are found all the same.
FindAccountDeletedToo(t) ==
    /\ pc[t] = "find"
    /\ \E i \in Accounts :
          /\ account[i].email = addr[t]
          /\ row' = [row EXCEPT ![t] = i]
    /\ Step(t, "open")
    /\ UNCHANGED <<rows, codes, sessions, boot, addr, num, asked, events, history>>

\* The account is read again.
FindAccount(t) ==
    /\ pc[t] = "find"
    /\ \/ /\ RowOf(addr[t]) # {} /\ AsPlanned
          /\ row' = [row EXCEPT ![t] = CHOOSE i \in RowOf(addr[t]) : TRUE]
          /\ Step(t, "open")
          /\ UNCHANGED <<addr, num>>
       \/ RowOf(addr[t]) = {} /\ AsPlanned /\ Finish(t)
       \/ Fault("pg") /\ Finish(t)
    /\ UNCHANGED <<rows, codes, sessions, boot, asked, history>>

\* SET of the session, whose cookie the answer carries.  If the SET fails
\* nobody ever knows the cookie.
OpenSession(t) ==
    /\ pc[t] = "open" /\ Len(session) < MaxSessions
    /\ \/ /\ AsPlanned
          /\ session' = Append(session, [user |-> row[t], code |-> num[t]])
          /\ live' = live \cup {Len(session) + 1}
          /\ late' = [late EXCEPT ![row[t]] = IF row[t] \in present THEN @ ELSE @ + 1]
       \/ Fault("redis") /\ UNCHANGED sessions
    /\ Finish(t)
    /\ UNCHANGED <<rows, codes, boot, asked, history>>

\* POST /auth/logout: whether or not its DEL succeeds the cookie is gone.  Or
\* the session's eight hours are over.
EndSession(s) ==
    /\ s \in live /\ Event
    /\ live' = live \ {s}
    /\ UNCHANGED <<rows, codes, session, late, boot, request, asked, history>>

\* The code's fifteen minutes are over.
ExpireCode(e) ==
    /\ code[e] # 0 /\ Event
    /\ code' = [code EXCEPT ![e] = 0]
    /\ over' = over \cup {code[e]}
    /\ UNCHANGED <<rows, owner, inbox, sessions, boot, request, asked, kept,
                   blind>>

\* POST /auth/admin-users by session s.  The INSERT writes the session's e-mail
\* to created_by, a column of type UUID, and always fails: no row is added.
AddUser(s, e, role) ==
    /\ Served /\ asked < MaxAsked
    /\ s \in live /\ AtLeast(s, "admin")
    /\ role = "super_admin" => AtLeast(s, "super_admin")
    /\ RowOf(e) = {}
    /\ asked' = asked + 1
    /\ UNCHANGED <<rows, codes, sessions, boot, request, events, history>>

\* DELETE /auth/admin-users/{id} by session s, whose role was read at login.
AskDelete(t, s, i) ==
    /\ Served /\ pc[t] = "idle" /\ asked < MaxAsked
    /\ s \in live /\ AtLeast(s, "super_admin")
    /\ Step(t, "check")
    /\ addr' = [addr EXCEPT ![t] = account[session[s].user].email]
    /\ row' = [row EXCEPT ![t] = i]
    /\ asked' = asked + 1
    /\ UNCHANGED <<rows, codes, sessions, boot, num, events, history>>

\* Mutant: nothing is compared.
CheckTargetNot(t) ==
    /\ pc[t] = "check"
    /\ Step(t, "remove")
    /\ UNCHANGED <<rows, codes, sessions, boot, addr, num, row, asked, events,
                   history>>

\* Nobody may delete his own account: his row is read.  If that fails, the
\* deletion goes on.
CheckTarget(t) ==
    /\ pc[t] = "check"
    /\ \/ /\ row[t] \in RowOf(addr[t]) /\ AsPlanned
          /\ Finish(t) /\ UNCHANGED blind
       \/ /\ row[t] \notin RowOf(addr[t]) /\ AsPlanned
          /\ Step(t, "remove") /\ UNCHANGED <<addr, num, row, blind>>
       \/ /\ Fault("pg")
          /\ Step(t, "remove") /\ UNCHANGED <<addr, num, row>>
          /\ blind' = TRUE
    /\ UNCHANGED <<rows, codes, sessions, boot, asked, kept, over>>

\* DELETE of the row, if it is there still.
Remove(t) ==
    /\ pc[t] = "remove"
    /\ \/ /\ row[t] \in present
          /\ present' = present \ {row[t]}
          /\ by' = [by EXCEPT ![row[t]] = addr[t]]
          /\ AsPlanned \/ Fault("pg")
       \/ row[t] \notin present /\ AsPlanned /\ UNCHANGED <<present, by>>
       \/ Fault("pg") /\ UNCHANGED <<present, by>>
    /\ Finish(t)
    /\ UNCHANGED <<account, codes, sessions, boot, asked, history>>

\* The client goes away, and the next command of the request fails.
Abandon(t) ==
    /\ pc[t] # "idle" /\ Fault("cut")
    /\ Finish(t)
    /\ UNCHANGED <<rows, codes, sessions, boot, asked, history>>

-----------------------------------------------------------------------------
Start(c) == StartUp(c) \/ SeedAccount(c) \/ SeedFails(c) \/ Stop(c)

Login(t) ==
    \/ \E e \in Emails : AskCode(t, e)
    \/ StoreCode(t) \/ MailCode(t)
    \/ \E n \in Codes : CheckCode(t, n)
    \/ SpendCode(t) \/ FindAccount(t) \/ OpenSession(t)

Delete(t) ==
    \/ \E s \in Sessions, i \in Accounts : AskDelete(t, s, i)
    \/ CheckTarget(t) \/ Remove(t)

Next ==
    \/ \E c \in Containers : Start(c)
    \/ \E t \in Requests : Login(t) \/ Delete(t) \/ Abandon(t)
    \/ \E e \in Emails : InsertByHand(e) \/ ExpireCode(e)
    \/ \E s \in Sessions : EndSession(s)
    \/ \E s \in Sessions, e \in Emails, role \in Roles : AddUser(s, e, role)

Spec == Init /\ [][Next]_vars

\* The container runtime restarts a process that exits, and the database does
\* not fail for ever.
FairSpec ==
    /\ Spec
    /\ \A c \in Containers : WF_vars(StartUp(c)) /\ SF_vars(SeedAccount(c))

-----------------------------------------------------------------------------
PCs == {"idle", "store", "mail", "spend", "find", "open", "check", "remove"}

RowType ==
    /\ account \in Seq([email : Emails, role : Roles])
    /\ present \subseteq Accounts
    /\ by \in Seq(Emails \cup {Nobody}) /\ Len(by) = Len(account)
    /\ late \in Seq(Nat) /\ Len(late) = Len(account)

CodeType ==
    /\ owner \in Seq(Emails)
    /\ code \in [Emails -> {0} \cup Codes]
    /\ inbox \subseteq Codes /\ kept \subseteq Codes /\ over \subseteq Codes

SessionType ==
    /\ session \in Seq([user : Accounts, code : Codes])
    /\ live \subseteq Sessions

RequestType ==
    /\ pc \in [Requests -> PCs]
    /\ addr \in [Requests -> Emails \cup {Nobody}]
    /\ num \in [Requests -> {0} \cup Codes]
    /\ row \in [Requests -> {0} \cup Accounts]
    /\ \A t \in Requests :
          /\ addr[t] = Nobody <=> pc[t] = "idle"
          /\ num[t] = 0 <=> pc[t] \in {"idle", "check", "remove"}
          /\ row[t] # 0 <=> pc[t] \in {"open", "check", "remove"}

\* Every variable has its type; a request holds an address, a code and an
\* account exactly as long as it works with them, so that no session is opened
\* for an account that was not found (module_auth.go:186-189).
TypeOK ==
    /\ RowType /\ CodeType /\ SessionType /\ RequestType
    /\ boot \in [Containers -> {"off", "seed", "on"}]
    /\ asked \in Nat /\ events \in Nat
    /\ blind \in BOOLEAN

\* A code opens sessions only for verifications that were under way together:
\* once one has succeeded, Redis holds the code no longer and it opens no more,
\* unless its DEL failed (module_auth.go:177-183).
SpentCodesGone ==
    \A s \in Sessions :
        LET n == session[s].code
        IN  n \notin kept => code[owner[n]] # n

\* A code opens one session at most: "one-time use" (module_auth.go:182).
OneTimeUse == \A n \in Codes : Cardinality({s \in Sessions : session[s].code = n}) <= 1

\* GET and DEL being two commands, that is not so.  What remains of it: a code opens
\* no more sessions than requests can be served together, however many find it
\* before the first DEL, and none for whoever types it later (module_auth.go:177-183).
SessionsPerCode ==
    \A n \in Codes \ kept :
        Cardinality({s \in Sessions : session[s].code = n}) <= Cardinality(Requests)

\* A code that was mailed can be used until it is typed or its time is over,
\* whatever is requested, typed or deleted for other addresses.  Only another
\* code of its own address can cost the user his: by being stored over it, or
\* by a DEL that was meant for the other (module_auth.go:146-150, 183).
CodesNotWasted ==
    \A n \in inbox \ over :
        \/ code[owner[n]] = n
        \/ \E k \in Codes \ {n} : owner[k] = owner[n]

\* Deleting an account ends its logins: only those succeed still that other
\* requests have under way (module_auth.go:185-189).
LateLoginsInFlight ==
    \A i \in Accounts : i \notin present => late[i] < Cardinality(Requests)

\* No administrator can lock everybody out, himself included: if no account is
\* left, two had a part in it, whatever sessions of deleted accounts go on
\* working (module_auth.go:292-305).  Not so if the own account could not be read.
LockoutTakesTwo ==
    present = {} /\ account # <<>> /\ ~blind
        => \E i, k \in Accounts : by[i] # by[k]

\* Containers that start together and find no account do not keep each other
\* from starting (main.go:94-97, 188-212).
EveryStartSucceeds == \A c \in Containers : boot[c] = "off" ~> boot[c] = "on"

=============================================================================
