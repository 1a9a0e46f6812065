-------------------------- MODULE AdminAuthProofs --------------------------
(***************************************************************************)
(* Theorems about login codes, sessions and the accounts of               *)
(* administrators, for any number of addresses, requests and containers    *)
(* and under every fault.                                                  *)
(***************************************************************************)
EXTENDS AdminAuth, SequenceTheorems, FiniteSetTheorems, TLAPS

USE NobodyAssumption, SeedAssumption, BoundsAssumption, RequestsAssumption,
    FaultsAssumption

-----------------------------------------------------------------------------
(* Types.                                                                  *)

LEMMA InitTypes == Init => TypeOK
<1> SUFFICES ASSUME Init
             PROVE  TypeOK
    OBVIOUS
<1>1. /\ account = <<>> /\ by = <<>> /\ late = <<>> /\ session = <<>> /\ owner = <<>>
      /\ present = {} /\ inbox = {} /\ kept = {} /\ live = {}
    BY DEF Init
<1>2. RowType
    BY <1>1, EmptySeq DEF RowType
<1>3. CodeType
    BY <1>1, EmptySeq DEF Init, CodeType
<1>4. SessionType
    BY <1>1, EmptySeq DEF SessionType
<1>5. RequestType
    BY DEF Init, RequestType, PCs
<1> QED
    BY <1>2, <1>3, <1>4, <1>5 DEF Init, TypeOK

\* What an INSERT does.
LEMMA Inserted ==
    ASSUME TypeOK, NEW e \in Emails, NEW role \in Roles, Insert(e, role)
    PROVE  /\ RowType' /\ Accounts \subseteq Accounts'
           /\ Len(account') = Len(account) + 1
           /\ \A i \in Accounts : /\ account'[i] = account[i] /\ by'[i] = by[i]
                                  /\ late'[i] = late[i]
           /\ by'[Len(account) + 1] = Nobody /\ late'[Len(account) + 1] = 0
           /\ present' = present \cup {Len(account) + 1}
<1> DEFINE new == [email |-> e, role |-> role]
<1>1. /\ account \in Seq([email : Emails, role : Roles]) /\ present \subseteq 1 .. Len(account)
      /\ by \in Seq(Emails \cup {Nobody}) /\ Len(by) = Len(account)
      /\ late \in Seq(Nat) /\ Len(late) = Len(account)
    BY DEF TypeOK, RowType, Accounts
<1>2. /\ account' = Append(account, new) /\ by' = Append(by, Nobody)
      /\ late' = Append(late, 0) /\ present' = present \cup {Len(account) + 1}
    BY DEF Insert
<1>3. new \in [email : Emails, role : Roles]
    OBVIOUS
<1> HIDE DEF new
<1>4. /\ account' \in Seq([email : Emails, role : Roles])
      /\ Len(account') = Len(account) + 1
      /\ \A i \in 1 .. Len(account) : account'[i] = account[i]
    BY <1>1, <1>2, <1>3, AppendProperties
<1>5. /\ by' \in Seq(Emails \cup {Nobody}) /\ Len(by') = Len(by) + 1
      /\ \A i \in 1 .. Len(by) : by'[i] = by[i]
      /\ by'[Len(by) + 1] = Nobody
    <2>1. Nobody \in Emails \cup {Nobody}
        OBVIOUS
    <2> QED
        BY <1>1, <1>2, <2>1, AppendProperties
<1>6. /\ late' \in Seq(Nat) /\ Len(late') = Len(late) + 1
      /\ \A i \in 1 .. Len(late) : late'[i] = late[i]
      /\ late'[Len(late) + 1] = 0
    BY <1>1, <1>2, AppendProperties
<1>7. Len(account) \in Nat
    BY <1>1
<1>8. present' \subseteq 1 .. Len(account')
    <2> SUFFICES ASSUME NEW i \in present'
                 PROVE  i \in 1 .. Len(account) + 1
        BY <1>4
    <2>1. i \in 1 .. Len(account) \/ i = Len(account) + 1
        BY <1>1, <1>2
    <2> QED
        BY <1>7, <2>1
<1> QED
    BY <1>1, <1>2, <1>4, <1>5, <1>6, <1>7, <1>8 DEF RowType, Accounts

\* More accounts and codes leave the type of what points to them.
LEMMA SessionsStay ==
    ASSUME TypeOK, Accounts \subseteq Accounts', Codes \subseteq Codes',
           UNCHANGED <<session, live>>
    PROVE  SessionType'
<1>1. session \in Seq([user : Accounts, code : Codes])
    BY DEF TypeOK, SessionType
<1>2. [user : Accounts, code : Codes] \subseteq [user : Accounts', code : Codes']
    OBVIOUS
<1>3. session \in Seq([user : Accounts', code : Codes'])
    BY <1>1, <1>2, SeqMonotonic
<1> QED
    BY <1>3 DEF TypeOK, SessionType, Sessions

LEMMA RequestsStay ==
    ASSUME TypeOK, Accounts \subseteq Accounts', Codes \subseteq Codes',
           UNCHANGED request
    PROVE  RequestType'
BY DEF TypeOK, RequestType, request

\* A request ends.
LEMMA Finished ==
    ASSUME TypeOK, NEW t \in Requests, Finish(t), Accounts \subseteq Accounts',
           Codes \subseteq Codes'
    PROVE  RequestType'
<1>1. RequestType
    BY DEF TypeOK
<1>2. /\ pc' = [pc EXCEPT ![t] = "idle"] /\ addr' = [addr EXCEPT ![t] = Nobody]
      /\ num' = [num EXCEPT ![t] = 0] /\ row' = [row EXCEPT ![t] = 0]
    BY DEF Finish, Step
<1>3. /\ pc' \in [Requests -> PCs] /\ addr' \in [Requests -> Emails \cup {Nobody}]
      /\ num' \in [Requests -> {0} \cup Codes'] /\ row' \in [Requests -> {0} \cup Accounts']
    BY <1>1, <1>2 DEF RequestType, PCs
<1> QED
    BY <1>1, <1>2, <1>3 DEF RequestType

\* The identifiers do not change, and neither does what has them for a domain.
LEMMA SameIds ==
    ASSUME UNCHANGED <<account, owner>>
    PROVE  Accounts' = Accounts /\ Codes' = Codes
BY DEF Accounts, Codes

LEMMA RowsStay ==
    ASSUME TypeOK, UNCHANGED <<rows, late>>
    PROVE  RowType'
BY DEF TypeOK, RowType, Accounts, rows

LEMMA EventTyped == TypeOK /\ (Event \/ AsPlanned) => events' \in Nat
BY DEF TypeOK, Event, AsPlanned
-----------------------------------------------------------------------------
\* Each step keeps the types: first those of containers and rows ...
LEMMA RowSteps ==
    ASSUME TypeOK,
           \/ \E e \in Emails : InsertByHand(e)
           \/ \E c \in Containers : Start(c)
    PROVE  TypeOK'
<1>1. /\ UNCHANGED <<code, owner, inbox, session, live, kept, over, request, asked, blind>>
      /\ boot' \in [Containers -> {"off", "seed", "on"}]
      /\ events' \in Nat
      /\ (\E e \in Emails, role \in Roles : Insert(e, role)) \/ UNCHANGED <<rows, late>>
    <2>1. CASE \E e \in Emails : InsertByHand(e)
        <3>1. PICK e \in Emails : InsertByHand(e)
            BY <2>1
        <3>2. PICK role \in HandRoles : Insert(e, role)
            BY <3>1 DEF InsertByHand
        <3>3. role \in Roles
            OBVIOUS
        <3> QED
            BY <3>1, <3>2, <3>3 DEF InsertByHand, TypeOK, codes, history
    <2>2. ASSUME NEW c \in Containers, StartUp(c) \/ Stop(c)
          PROVE  <1>1!1 /\ <1>1!2 /\ <1>1!3 /\ <1>1!4
        BY <2>2 DEF StartUp, Stop, TypeOK, codes, sessions, history
    <2>3. ASSUME NEW c \in Containers, SeedAccount(c) \/ SeedFails(c)
          PROVE  <1>1!1 /\ <1>1!2 /\ <1>1!3 /\ <1>1!4
        <3>1. Seed[c] \in Emails /\ "super_admin" \in Roles
            BY DEF Roles
        <3>2. /\ UNCHANGED <<code, owner, inbox, session, live, kept, over, request, asked, blind>>
              /\ boot' \in [Containers -> {"off", "seed", "on"}]
              /\ Insert(Seed[c], "super_admin") \/ UNCHANGED <<rows, late>>
            BY <2>3 DEF SeedAccount, SeedFails, TypeOK, codes, history
        <3>3. events' \in Nat
            BY <2>3, EventTyped DEF SeedAccount, SeedFails, Fault, AsPlanned
        <3> QED
            BY <3>1, <3>2, <3>3
    <2> QED
        BY <2>1, <2>2, <2>3 DEF Start
<1>2. RowType' /\ Accounts \subseteq Accounts'
    <2>1. CASE UNCHANGED <<rows, late>>
        BY <2>1, RowsStay DEF rows, Accounts
    <2> QED
        BY <1>1, <2>1, Inserted
<1>3. Codes' = Codes
    BY <1>1 DEF Codes
<1>4. SessionType' /\ RequestType'
    BY <1>1, <1>2, <1>3, SessionsStay, RequestsStay
<1>5. CodeType'
    BY <1>1, <1>3 DEF TypeOK, CodeType
<1> QED
    BY <1>1, <1>2, <1>4, <1>5 DEF TypeOK

\* ... then of login codes ...
LEMMA CodeSteps ==
    ASSUME TypeOK, NEW t \in Requests,
           \/ \E e \in Emails : AskCode(t, e)
           \/ StoreCode(t) \/ MailCode(t)
           \/ \E n \in Codes : CheckCode(t, n)
           \/ SpendCode(t)
    PROVE  TypeOK'
<1>1. UNCHANGED <<rows, sessions, boot, asked, blind>>
    BY DEF AskCode, StoreCode, MailCode, CheckCode, SpendCode, history
<1>2. RowType' /\ Accounts' = Accounts
    BY <1>1, RowsStay DEF sessions, rows, Accounts
<1>3. events' \in Nat
    <2>1. Event \/ AsPlanned
        BY DEF AskCode, StoreCode, MailCode, CheckCode, SpendCode, Fault, AsPlanned
    <2> QED
        BY <2>1, EventTyped
<1>4. CodeType' /\ Codes \subseteq Codes' /\ RequestType'
    <2>1. CASE \E e \in Emails : AskCode(t, e)
        <3>1. PICK e \in Emails : AskCode(t, e)
            BY <2>1
        <3>2. owner \in Seq(Emails) /\ Len(owner) \in Nat
            BY DEF TypeOK, CodeType
        <3>3. owner' \in Seq(Emails) /\ Len(owner') = Len(owner) + 1
            BY <3>1, <3>2, AppendProperties DEF AskCode
        <3>4. Codes' = Codes \cup {Len(owner) + 1}
            BY <3>2, <3>3 DEF Codes
        <3>5. CodeType'
            BY <3>1, <3>3, <3>4 DEF AskCode, TypeOK, CodeType, history
        <3>6. RequestType'
            <4>1. /\ pc' = [pc EXCEPT ![t] = "store"] /\ addr' = [addr EXCEPT ![t] = e]
                  /\ num' = [num EXCEPT ![t] = Len(owner) + 1] /\ row' = row
                  /\ pc[t] = "idle"
                BY <3>1 DEF AskCode, Step
            <4>2. /\ num' \in [Requests -> {0} \cup Codes']
                  /\ Len(owner) + 1 # 0 /\ e # Nobody
                BY <3>2, <3>4, <4>1 DEF TypeOK, RequestType
            <4> QED
                BY <1>2, <4>1, <4>2 DEF TypeOK, RequestType, PCs
        <3> QED
            BY <3>4, <3>5, <3>6
    <2>2. CASE StoreCode(t)
        <3>1. Codes' = Codes /\ inbox' = inbox /\ UNCHANGED <<kept, over, owner>>
            BY <2>2 DEF StoreCode, Codes, history
        <3>2. CodeType'
            <4>1. num[t] \in {0} \cup Codes
                BY DEF TypeOK, RequestType
            <4>2. code' = code \/ code' = [code EXCEPT ![addr[t]] = num[t]]
                BY <2>2 DEF StoreCode
            <4> QED
                BY <3>1, <4>1, <4>2 DEF TypeOK, CodeType
        <3>3. CASE Finish(t)
            BY <1>2, <3>1, <3>2, <3>3, Finished
        <3>4. CASE UNCHANGED request
            BY <1>2, <3>1, <3>2, <3>4, RequestsStay
        <3>5. CASE Step(t, "mail") /\ UNCHANGED <<addr, num, row>>
            <4>1. RequestType'
                BY <1>2, <2>2, <3>1, <3>5 DEF StoreCode, Step, TypeOK, RequestType, PCs
            <4> QED
                BY <3>1, <3>2, <4>1
        <3> QED
            BY <2>2, <3>3, <3>4, <3>5 DEF StoreCode
    <2>3. CASE MailCode(t)
        <3>1. Codes' = Codes /\ code' = code /\ UNCHANGED <<kept, over, owner>>
            BY <2>3 DEF MailCode, Codes, history
        <3>2. num[t] \in Codes
            BY <2>3 DEF MailCode, TypeOK, RequestType
        <3>3. CodeType'
            BY <2>3, <3>1, <3>2 DEF MailCode, TypeOK, CodeType
        <3> QED
            BY <1>2, <2>3, <3>1, <3>3, Finished DEF MailCode
    <2>4. CASE \E n \in Codes : CheckCode(t, n)
        <3>1. PICK n \in Codes : CheckCode(t, n)
            BY <2>4
        <3>2. /\ Codes' = Codes /\ UNCHANGED <<code, owner, inbox, kept>>
              /\ over' = over \cup {n}
            BY <3>1 DEF CheckCode, Codes, codes, history
        <3>3. owner[n] \in Emails /\ n # 0
            BY ElementOfSeq DEF Codes, TypeOK, CodeType
        <3>4. RequestType'
            BY <1>2, <3>1, <3>2, <3>3 DEF CheckCode, Step, TypeOK, RequestType, PCs
        <3> QED
            BY <3>2, <3>4 DEF TypeOK, CodeType
    <2>5. CASE SpendCode(t)
        <3>1. Codes' = Codes /\ inbox' = inbox /\ owner' = owner
            BY <2>5 DEF SpendCode, Codes
        <3>2. num[t] \in Codes
            BY <2>5 DEF SpendCode, TypeOK, RequestType
        <3>3. CodeType'
            BY <2>5, <3>1, <3>2 DEF SpendCode, TypeOK, CodeType
        <3>4. (Step(t, "find") \/ UNCHANGED pc) /\ UNCHANGED <<addr, num, row>>
            BY <2>5 DEF SpendCode
        <3>5. RequestType'
            BY <1>2, <2>5, <3>1, <3>4 DEF SpendCode, Step, TypeOK, RequestType, PCs
        <3> QED
            BY <3>1, <3>3, <3>5
    <2> QED
        BY <2>1, <2>2, <2>3, <2>4, <2>5
<1>5. SessionType'
    BY <1>1, <1>2, <1>4, SessionsStay DEF sessions
<1> QED
    BY <1>1, <1>2, <1>3, <1>4, <1>5 DEF TypeOK
\* ... then of logins that open a session ...
LEMMA FoundRow ==
    ASSUME TypeOK, NEW e, RowOf(e) # {}
    PROVE  /\ (CHOOSE i \in RowOf(e) : TRUE) \in present
           /\ (CHOOSE i \in RowOf(e) : TRUE) \in Accounts
BY DEF RowOf, TypeOK, RowType

LEMMA SessionSteps ==
    ASSUME TypeOK, NEW t \in Requests, FindAccount(t) \/ OpenSession(t) \/ Abandon(t)
    PROVE  TypeOK'
<1>1. UNCHANGED <<rows, codes, boot, asked, history>>
    BY DEF FindAccount, OpenSession, Abandon
<1>2. Accounts' = Accounts /\ Codes' = Codes
    BY <1>1, SameIds DEF rows, codes
<1>3. events' \in Nat
    <2>1. Event \/ AsPlanned
        BY DEF FindAccount, OpenSession, Abandon, Fault
    <2> QED
        BY <2>1, EventTyped
<1>4. CodeType'
    BY <1>1, <1>2 DEF TypeOK, CodeType, codes, history
<1>5. RequestType'
    <2>1. CASE Finish(t)
        BY <1>2, <2>1, Finished
    <2>2. CASE ~Finish(t)
        <3>1. /\ RowOf(addr[t]) # {} /\ Step(t, "open") /\ UNCHANGED <<addr, num>>
              /\ row' = [row EXCEPT ![t] = CHOOSE i \in RowOf(addr[t]) : TRUE]
              /\ pc[t] = "find"
            BY <2>2 DEF FindAccount, OpenSession, Abandon
        <3> DEFINE i == CHOOSE i \in RowOf(addr[t]) : TRUE
        <3>2. i \in Accounts /\ i # 0
            BY <3>1, FoundRow DEF Accounts
        <3> HIDE DEF i
        <3>3. row' = [row EXCEPT ![t] = i]
            BY <3>1 DEF i
        <3>4. /\ pc' = [pc EXCEPT ![t] = "open"] /\ addr' = addr /\ num' = num
            BY <3>1 DEF Step
        <3>5. /\ pc' \in [Requests -> PCs] /\ row' \in [Requests -> {0} \cup Accounts']
              /\ addr' \in [Requests -> Emails \cup {Nobody}]
              /\ num' \in [Requests -> {0} \cup Codes']
            BY <1>2, <3>2, <3>3, <3>4 DEF TypeOK, RequestType, PCs
        <3>6. ASSUME NEW u \in Requests
              PROVE  /\ addr'[u] = Nobody <=> pc'[u] = "idle"
                     /\ num'[u] = 0 <=> pc'[u] \in {"idle", "check", "remove"}
                     /\ row'[u] # 0 <=> pc'[u] \in {"open", "check", "remove"}
            BY <3>1, <3>2, <3>3, <3>4 DEF TypeOK, RequestType
        <3> QED
            BY <3>5, <3>6 DEF RequestType
    <2> QED
        BY <2>1, <2>2
<1>6. RowType' /\ SessionType'
    <2>1. CASE UNCHANGED sessions
        <3>1. UNCHANGED <<rows, late>> /\ UNCHANGED <<session, live>>
            BY <1>1, <2>1 DEF sessions
        <3> QED
            BY <1>2, <3>1, RowsStay, SessionsStay
    <2>2. CASE ~UNCHANGED sessions
        <3> DEFINE new == [user |-> row[t], code |-> num[t]]
        <3> DEFINE l == IF row[t] \in present THEN late[row[t]] ELSE late[row[t]] + 1
        <3>1. /\ pc[t] = "open" /\ session' = Append(session, new)
              /\ live' = live \cup {Len(session) + 1}
              /\ late' = [late EXCEPT ![row[t]] = l]
            BY <2>2 DEF FindAccount, OpenSession, Abandon
        <3>2. row[t] \in Accounts /\ num[t] \in Codes
            BY <3>1 DEF TypeOK, RequestType
        <3>3. new \in [user : Accounts, code : Codes]
            BY <3>2
        <3>4. l \in Nat
            <4>1. late[row[t]] \in Nat
                BY <3>2, ElementOfSeq DEF TypeOK, RowType, Accounts
            <4> QED
                BY <4>1
        <3> HIDE DEF new, l
        <3>5. session \in Seq([user : Accounts, code : Codes]) /\ Len(session) \in Nat
            BY DEF TypeOK, SessionType
        <3>6. /\ session' \in Seq([user : Accounts, code : Codes])
              /\ Len(session') = Len(session) + 1
            BY <3>1, <3>3, <3>5, AppendProperties
        <3>7. live' \subseteq Sessions'
            <4> SUFFICES ASSUME NEW s \in live'
                         PROVE  s \in 1 .. Len(session) + 1
                BY <3>6 DEF Sessions
            <4>1. s \in 1 .. Len(session) \/ s = Len(session) + 1
                BY <3>1 DEF TypeOK, SessionType, Sessions
            <4> QED
                BY <3>5, <4>1
        <3>8. late' \in Seq(Nat) /\ Len(late') = Len(late)
            BY <3>1, <3>2, <3>4, ExceptSeq DEF TypeOK, RowType, Accounts
        <3> QED
            BY <1>1, <1>2, <3>6, <3>7, <3>8 DEF TypeOK, RowType, SessionType, rows
    <2> QED
        BY <2>1, <2>2
<1> QED
    BY <1>1, <1>3, <1>4, <1>5, <1>6 DEF TypeOK, history

\* ... then of deletions ...
LEMMA DeleteSteps ==
    ASSUME TypeOK, NEW t \in Requests, Delete(t)
    PROVE  TypeOK'
<1>1. UNCHANGED <<account, late, codes, session, live, boot, kept, over>>
    BY DEF Delete, AskDelete, CheckTarget, Remove, rows, sessions, history
<1>2. Accounts' = Accounts /\ Codes' = Codes
    BY <1>1, SameIds DEF codes
<1>3. events' \in Nat /\ asked' \in Nat /\ blind' \in BOOLEAN
    <2>1. Event \/ AsPlanned
        BY DEF Delete, AskDelete, CheckTarget, Remove, Fault, AsPlanned
    <2>2. (asked' = asked \/ asked' = asked + 1) /\ (blind' = blind \/ blind' = TRUE)
        BY DEF Delete, AskDelete, CheckTarget, Remove, history
    <2>3. asked' \in Nat
        BY <2>2 DEF TypeOK
    <2>4. blind' \in BOOLEAN
        BY <2>2, Zenon DEF TypeOK
    <2> QED
        BY <2>1, <2>3, <2>4, EventTyped
<1>4. CodeType' /\ SessionType'
    <2>1. CodeType'
        BY <1>1, <1>2 DEF TypeOK, CodeType, codes
    <2> QED
        BY <1>1, <1>2, <2>1, SessionsStay
<1>5. RequestType'
    <2>1. CASE Finish(t)
        BY <1>2, <2>1, Finished
    <2>2. ASSUME NEW s \in Sessions, NEW i \in Accounts, AskDelete(t, s, i)
          PROVE  RequestType'
        <3>1. session[s] \in [user : Accounts, code : Codes]
            BY ElementOfSeq DEF Sessions, TypeOK, SessionType
        <3>2. account[session[s].user] \in [email : Emails, role : Roles]
            BY <3>1, ElementOfSeq DEF Accounts, TypeOK, RowType
        <3> DEFINE e == account[session[s].user].email
        <3>3. e \in Emails /\ i # 0
            BY <3>2 DEF Accounts
        <3> HIDE DEF e
        <3>4. /\ pc' = [pc EXCEPT ![t] = "check"] /\ addr' = [addr EXCEPT ![t] = e]
              /\ row' = [row EXCEPT ![t] = i] /\ num' = num /\ pc[t] = "idle"
            BY <2>2 DEF AskDelete, Step, e
        <3> QED
            BY <1>2, <3>3, <3>4 DEF TypeOK, RequestType, PCs
    <2>3. CASE CheckTarget(t) /\ Step(t, "remove") /\ UNCHANGED <<addr, num, row>>
        BY <1>2, <2>3 DEF CheckTarget, Step, TypeOK, RequestType, PCs
    <2> QED
        BY <2>1, <2>2, <2>3 DEF Delete, CheckTarget, Remove
<1>6. RowType'
    <2>1. CASE UNCHANGED <<present, by>>
        BY <1>1, <2>1, RowsStay DEF rows
    <2>2. CASE ~UNCHANGED <<present, by>>
        <3>1. /\ pc[t] = "remove" /\ row[t] \in present /\ present' = present \ {row[t]}
              /\ by' = [by EXCEPT ![row[t]] = addr[t]]
            BY <2>2 DEF Delete, AskDelete, CheckTarget, Remove, rows
        <3>2. row[t] \in 1 .. Len(by) /\ addr[t] \in Emails \cup {Nobody}
            BY <3>1 DEF TypeOK, RowType, RequestType, Accounts
        <3>3. by' \in Seq(Emails \cup {Nobody}) /\ Len(by') = Len(by)
            BY <3>1, <3>2, ExceptSeq DEF TypeOK, RowType
        <3> QED
            BY <1>1, <1>2, <3>1, <3>3 DEF TypeOK, RowType
    <2> QED
        BY <2>1, <2>2
<1> QED
    BY <1>1, <1>3, <1>4, <1>5, <1>6 DEF TypeOK

\* ... and of the rest.
LEMMA OtherSteps ==
    ASSUME TypeOK,
           \/ \E e \in Emails : ExpireCode(e)
           \/ \E s \in Sessions : EndSession(s)
           \/ \E s \in Sessions, e \in Emails, role \in Roles : AddUser(s, e, role)
           \/ UNCHANGED vars
    PROVE  TypeOK'
<1>1. /\ UNCHANGED <<rows, late, owner, inbox, session, boot, request, kept, blind>>
      /\ code' \in [Emails -> {0} \cup Codes] /\ over' \subseteq Codes /\ live' \subseteq live
      /\ asked' \in Nat
    <2>1. /\ UNCHANGED <<rows, late, owner, inbox, session, boot, request, kept, blind>>
          /\ \/ UNCHANGED <<code, over>>
             \/ \E e \in Emails : /\ code' = [code EXCEPT ![e] = 0] /\ code[e] # 0
                                  /\ over' = over \cup {code[e]}
          /\ live' \subseteq live
          /\ asked' = asked \/ asked' = asked + 1
        BY DEF ExpireCode, EndSession, AddUser, vars, rows, codes, sessions, request,
               history
    <2>2. code' \in [Emails -> {0} \cup Codes] /\ over' \subseteq Codes /\ asked' \in Nat
        BY <2>1 DEF TypeOK, CodeType
    <2> QED
        BY <2>1, <2>2
<1>2. events' \in Nat
    <2>1. Event \/ AsPlanned
        BY DEF ExpireCode, EndSession, AddUser, vars, AsPlanned
    <2> QED
        BY <2>1, EventTyped
<1>3. Accounts' = Accounts /\ Codes' = Codes
    BY <1>1, SameIds DEF rows
<1>4. RowType' /\ RequestType'
    BY <1>1, <1>3, RowsStay, RequestsStay
<1>5. CodeType' /\ SessionType'
    BY <1>1, <1>3 DEF TypeOK, CodeType, SessionType, Sessions
<1> QED
    BY <1>1, <1>2, <1>4, <1>5 DEF TypeOK

LEMMA NextTypes == TypeOK /\ [Next]_vars => TypeOK'
<1>1. ASSUME TypeOK, NEW t \in Requests, Login(t)
      PROVE  TypeOK'
    BY <1>1, CodeSteps, SessionSteps DEF Login
<1> QED
    BY <1>1, RowSteps, SessionSteps, DeleteSteps, OtherSteps DEF Next

\* Every variable keeps its type, so that no session is opened for an account
\* that was not found (verifyLogin).
THEOREM TypeCorrect == Spec => []TypeOK
BY InitTypes, NextTypes, PTL DEF Spec
-----------------------------------------------------------------------------
(* A code that opened a session.                                           *)

\* Redis holds the code no longer, unless its DEL failed.
Gone(n) == n \notin kept => code[owner[n]] # n

Storing == {"store", "mail"}
Verifying == {"spend", "find", "open"}

\* A code whose mail is not yet sent is known to one request alone; what is
\* verified was mailed; a request keeps the address of its code.
KnownInv ==
    /\ \A s \in Sessions : session[s].code \in inbox
    /\ \A t \in Requests :
          /\ pc[t] \in Storing => num[t] \notin inbox
          /\ pc[t] \in Verifying => num[t] \in inbox
          /\ pc[t] \in Storing \cup Verifying => addr[t] = owner[num[t]]
    /\ \A t, u \in Requests :
          t # u /\ pc[t] \in Storing /\ pc[u] \in Storing => num[t] # num[u]

\* A code is gone before a session is opened with it, and stays so.
GoneInv ==
    /\ \A s \in Sessions : Gone(session[s].code)
    /\ \A t \in Requests : pc[t] \in {"find", "open"} => Gone(num[t])

SpentInv == KnownInv /\ GoneInv

\* Codes and sessions have an owner and an account.
LEMMA Owned ==
    ASSUME TypeOK
    PROVE  /\ \A n \in Codes : owner[n] \in Emails /\ n # 0
           /\ \A s \in Sessions : session[s].code \in Codes /\ session[s].user \in Accounts
           /\ \A t \in Requests : pc[t] \in Storing \cup Verifying => num[t] \in Codes
           /\ inbox \subseteq Codes
<1>1. ASSUME NEW n \in Codes
      PROVE  owner[n] \in Emails /\ n # 0
    BY <1>1, ElementOfSeq DEF TypeOK, CodeType, Codes
<1>2. ASSUME NEW s \in Sessions
      PROVE  session[s].code \in Codes /\ session[s].user \in Accounts
    <2>1. session[s] \in [user : Accounts, code : Codes]
        BY ElementOfSeq DEF TypeOK, SessionType, Sessions
    <2> QED
        BY <2>1
<1>3. ASSUME NEW t \in Requests, pc[t] \in Storing \cup Verifying
      PROVE  num[t] \in Codes
    BY <1>3 DEF TypeOK, RequestType, Storing, Verifying
<1> QED
    BY <1>1, <1>2, <1>3 DEF TypeOK, CodeType

\* A request that does nothing to codes but perhaps to find its account.
Quiet(t) ==
    \/ pc'[t] \in {"idle", "check", "remove"}
    \/ UNCHANGED <<addr[t], num[t]>> /\ (pc'[t] = pc[t] \/ (pc[t] = "find" /\ pc'[t] = "open"))

LEMMA QuietSpent ==
    ASSUME TypeOK, SpentInv, UNCHANGED <<owner, inbox, kept, session>>,
           \A e \in Emails : code'[e] \in {code[e], 0},
           \A t \in Requests : Quiet(t)
    PROVE  SpentInv'
<1>1. ASSUME NEW n \in Codes, Gone(n)
      PROVE  Gone(n)'
    <2>1. owner[n] \in Emails /\ n # 0
        BY Owned
    <2> QED
        BY <1>1, <2>1 DEF Gone
<1>2. KnownInv'
    <2>1. \A s \in Sessions' : session'[s].code \in inbox'
        BY DEF SpentInv, KnownInv, Sessions
    <2>2. ASSUME NEW t \in Requests
          PROVE  /\ pc'[t] \in Storing => num'[t] \notin inbox'
                 /\ pc'[t] \in Verifying => num'[t] \in inbox'
                 /\ pc'[t] \in Storing \cup Verifying => addr'[t] = owner'[num'[t]]
        BY DEF SpentInv, KnownInv, Quiet, Storing, Verifying
    <2>3. ASSUME NEW t \in Requests, NEW u \in Requests, t # u,
                 pc'[t] \in Storing, pc'[u] \in Storing
          PROVE  num'[t] # num'[u]
        BY <2>3 DEF SpentInv, KnownInv, Quiet, Storing
    <2> QED
        BY <2>1, <2>2, <2>3 DEF KnownInv
<1>3. GoneInv'
    <2>1. ASSUME NEW s \in Sessions'
          PROVE  Gone(session[s].code)'
        <3>1. s \in Sessions /\ session'[s] = session[s]
            BY DEF Sessions
        <3>2. session[s].code \in Codes /\ Gone(session[s].code)
            BY <3>1, Owned DEF SpentInv, GoneInv
        <3>3. owner[session[s].code] \in Emails /\ session[s].code # 0
            BY <3>2, Owned
        <3>4. session'[s].code = session[s].code
            BY <3>1
        <3> QED
            BY <3>2, <3>3, <3>4 DEF Gone
    <2>2. ASSUME NEW t \in Requests, pc'[t] \in {"find", "open"}
          PROVE  Gone(num[t])'
        <3>1. pc[t] \in {"find", "open"} /\ num'[t] = num[t]
            BY <2>2 DEF Quiet
        <3>2. num[t] \in Codes /\ Gone(num[t])
            BY <3>1, Owned DEF SpentInv, GoneInv, Verifying
        <3>3. owner[num[t]] \in Emails /\ num[t] # 0
            BY <3>2, Owned
        <3> QED
            BY <3>1, <3>2, <3>3 DEF Gone
    <2> QED
        BY <2>1, <2>2 DEF GoneInv
<1> QED
    BY <1>2, <1>3 DEF SpentInv
\* What requests other than t, and sessions, keep when t alone moves and no
\* session is opened.
LEMMA OthersSpent ==
    ASSUME TypeOK, SpentInv, NEW t \in Requests,
           \A u \in Requests \ {t} : UNCHANGED <<pc[u], addr[u], num[u]>>,
           UNCHANGED session, inbox \subseteq inbox',
           \A n \in inbox : Gone(n) => Gone(n)',
           \A n \in Codes : owner'[n] = owner[n],
           \A u \in Requests \ {t} : pc[u] \in Storing => num[u] \notin inbox',
           \/ pc'[t] \notin Storing
           \/ num'[t] \notin inbox' /\ \A u \in Requests \ {t} :
                                           pc[u] \in Storing => num[u] # num'[t],
           pc'[t] \in Storing \cup Verifying => addr'[t] = owner'[num'[t]],
           pc'[t] \in Verifying => num'[t] \in inbox',
           pc'[t] \in {"find", "open"} => Gone(num[t])'
    PROVE  SpentInv'
<1>1. KnownInv'
    <2>1. \A s \in Sessions' : session'[s].code \in inbox'
        BY DEF SpentInv, KnownInv, Sessions
    <2>2. ASSUME NEW u \in Requests
          PROVE  /\ pc'[u] \in Storing => num'[u] \notin inbox'
                 /\ pc'[u] \in Verifying => num'[u] \in inbox'
                 /\ pc'[u] \in Storing \cup Verifying => addr'[u] = owner'[num'[u]]
        <3>1. CASE u = t
            BY <3>1
        <3>2. CASE u # t
            <4>1. pc'[u] = pc[u] /\ addr'[u] = addr[u] /\ num'[u] = num[u]
                BY <3>2
            <4>2. pc[u] \in Storing \cup Verifying => num[u] \in Codes
                BY Owned
            <4> QED
                BY <3>2, <4>1, <4>2 DEF SpentInv, KnownInv
        <3> QED
            BY <3>1, <3>2
    <2>3. ASSUME NEW u \in Requests, NEW v \in Requests, u # v,
                 pc'[u] \in Storing, pc'[v] \in Storing
          PROVE  num'[u] # num'[v]
        <3>1. CASE u = t
            BY <2>3, <3>1
        <3>2. CASE v = t
            BY <2>3, <3>2
        <3>3. CASE u # t /\ v # t
            BY <2>3, <3>3 DEF SpentInv, KnownInv
        <3> QED
            BY <3>1, <3>2, <3>3
    <2> QED
        BY <2>1, <2>2, <2>3 DEF KnownInv
<1>2. GoneInv'
    <2>1. ASSUME NEW s \in Sessions'
          PROVE  Gone(session[s].code)'
        <3>1. s \in Sessions /\ session' = session
            BY DEF Sessions
        <3>2. session[s].code \in inbox /\ Gone(session[s].code)
            BY <3>1 DEF SpentInv, GoneInv, KnownInv
        <3> DEFINE n == session[s].code
        <3>3. n' = n
            BY <3>1
        <3>4. Gone(n)'
            <4>1. \A k : k \in inbox /\ Gone(k) =>
                      (k \notin kept' => code'[owner'[k]] # k)
                BY DEF Gone
            <4> QED
                BY <3>2, <3>3, <4>1 DEF Gone
        <3> QED
            BY <3>4
    <2>2. ASSUME NEW u \in Requests, pc'[u] \in {"find", "open"}
          PROVE  Gone(num[u])'
        <3>1. CASE u = t
            BY <2>2, <3>1
        <3>2. CASE u # t
            <4>1. pc[u] \in {"find", "open"} /\ num'[u] = num[u]
                BY <2>2, <3>2
            <4>2. num[u] \in inbox /\ Gone(num[u])
                BY <4>1 DEF SpentInv, GoneInv, KnownInv, Verifying
            <4>3. \A k : k \in inbox /\ Gone(k) =>
                      (k \notin kept' => code'[owner'[k]] # k)
                BY DEF Gone
            <4> QED
                BY <4>1, <4>2, <4>3 DEF Gone
        <3> QED
            BY <3>1, <3>2
    <2> QED
        BY <2>1, <2>2 DEF GoneInv
<1> QED
    BY <1>1, <1>2 DEF SpentInv
\* What a request does to its own place leaves that of others.
LEMMA OnlyOne ==
    ASSUME TypeOK, NEW t \in Requests, NEW at, NEW u \in Requests \ {t}
    PROVE  /\ Step(t, at) => pc'[u] = pc[u]
           /\ Finish(t) => UNCHANGED <<pc[u], addr[u], num[u]>> /\ pc'[t] = "idle"
           /\ Step(t, at) => pc'[t] = at
BY DEF TypeOK, RequestType, Step, Finish

LEMMA AskSpent ==
    ASSUME TypeOK, SpentInv, NEW t \in Requests, NEW e \in Emails, AskCode(t, e)
    PROVE  SpentInv'
<1>1. /\ owner' = Append(owner, e) /\ UNCHANGED <<code, inbox, kept, session>>
      /\ pc' = [pc EXCEPT ![t] = "store"] /\ addr' = [addr EXCEPT ![t] = e]
      /\ num' = [num EXCEPT ![t] = Len(owner) + 1]
    BY DEF AskCode, Step, sessions, history
<1>2. owner \in Seq(Emails) /\ Len(owner) \in Nat
    BY DEF TypeOK, CodeType
<1>3. /\ \A n \in Codes : owner'[n] = owner[n]
      /\ owner'[Len(owner) + 1] = e /\ Len(owner) + 1 \notin Codes
    BY <1>1, <1>2, AppendProperties DEF Codes
<1>4. /\ pc'[t] = "store" /\ addr'[t] = e /\ num'[t] = Len(owner) + 1
      /\ \A u \in Requests \ {t} : UNCHANGED <<pc[u], addr[u], num[u]>>
    BY <1>1 DEF TypeOK, RequestType
<1>5. \A n \in inbox : Gone(n) => Gone(n)'
    BY <1>1, <1>3, Owned DEF Gone
<1>6. num'[t] \notin inbox' /\ \A u \in Requests \ {t} : pc[u] \in Storing => num[u] # num'[t]
    BY <1>1, <1>3, <1>4, Owned
<1>7. addr'[t] = owner'[num'[t]]
    BY <1>3, <1>4
<1>8. \A u \in Requests \ {t} : pc[u] \in Storing => num[u] \notin inbox'
    BY <1>1 DEF SpentInv, KnownInv
<1> QED
    BY <1>1, <1>3, <1>4, <1>5, <1>6, <1>7, <1>8, OthersSpent DEF Verifying

LEMMA StoreSpent ==
    ASSUME TypeOK, SpentInv, NEW t \in Requests, StoreCode(t)
    PROVE  SpentInv'
<1>1. /\ UNCHANGED <<owner, inbox, kept, session>> /\ pc[t] = "store"
      /\ code' = code \/ code' = [code EXCEPT ![addr[t]] = num[t]]
      /\ \/ Finish(t)
         \/ UNCHANGED <<addr, num>> /\ (pc' = pc \/ Step(t, "mail"))
    BY DEF StoreCode, sessions, history, request
<1>2. num[t] \notin inbox /\ addr[t] = owner[num[t]]
    BY <1>1 DEF SpentInv, KnownInv, Storing
<1>3. ASSUME NEW n \in inbox, Gone(n)
      PROVE  Gone(n)'
    <2>1. owner[n] \in Emails /\ n # num[t]
        BY <1>2, Owned
    <2>2. code'[owner[n]] \in {code[owner[n]], num[t]}
        BY <1>1, <2>1 DEF TypeOK, CodeType
    <2> QED
        BY <1>1, <1>3, <2>1, <2>2 DEF Gone
<1>4. /\ \A u \in Requests \ {t} : UNCHANGED <<pc[u], addr[u], num[u]>>
      /\ pc'[t] \in {"idle", "store", "mail"}
      /\ pc'[t] # "idle" => addr'[t] = addr[t] /\ num'[t] = num[t]
    BY <1>1, OnlyOne DEF Step, Finish, TypeOK, RequestType
<1>5. \A u \in Requests \ {t} : pc[u] \in Storing =>
            num[u] \notin inbox' /\ num[u] # num[t]
    BY <1>1 DEF SpentInv, KnownInv, Storing
<1> QED
    BY <1>1, <1>2, <1>3, <1>4, <1>5, OthersSpent DEF Storing, Verifying

LEMMA MailSpent ==
    ASSUME TypeOK, SpentInv, NEW t \in Requests, MailCode(t)
    PROVE  SpentInv'
<1>1. /\ UNCHANGED <<owner, code, kept, session>> /\ pc[t] = "mail" /\ Finish(t)
      /\ inbox' = inbox \/ inbox' = inbox \cup {num[t]}
    BY DEF MailCode, sessions, history
<1>2. /\ \A u \in Requests \ {t} : UNCHANGED <<pc[u], addr[u], num[u]>>
      /\ pc'[t] = "idle"
    BY <1>1 DEF Step, Finish, TypeOK, RequestType
<1>3. \A n \in inbox : Gone(n) => Gone(n)'
    BY <1>1 DEF Gone
<1>4. \A u \in Requests \ {t} : pc[u] \in Storing => num[u] \notin inbox'
    BY <1>1 DEF SpentInv, KnownInv, Storing
<1> QED
    BY <1>1, <1>2, <1>3, <1>4, OthersSpent DEF Storing, Verifying

LEMMA CheckSpent ==
    ASSUME TypeOK, SpentInv, NEW t \in Requests, NEW n \in Codes, CheckCode(t, n)
    PROVE  SpentInv'
<1>1. /\ UNCHANGED <<owner, code, inbox, kept, session>> /\ n \in inbox
      /\ pc' = [pc EXCEPT ![t] = "spend"] /\ addr' = [addr EXCEPT ![t] = owner[n]]
      /\ num' = [num EXCEPT ![t] = n]
    BY DEF CheckCode, Step, codes, sessions, history
<1>2. /\ \A u \in Requests \ {t} : UNCHANGED <<pc[u], addr[u], num[u]>>
      /\ pc'[t] = "spend" /\ addr'[t] = owner[n] /\ num'[t] = n
    BY <1>1 DEF TypeOK, RequestType
<1>3. \A k \in inbox : Gone(k) => Gone(k)'
    BY <1>1 DEF Gone
<1>4. \A u \in Requests \ {t} : pc[u] \in Storing => num[u] \notin inbox'
    BY <1>1 DEF SpentInv, KnownInv, Storing
<1> QED
    BY <1>1, <1>2, <1>3, <1>4, OthersSpent DEF Storing, Verifying

LEMMA SpendSpent ==
    ASSUME TypeOK, SpentInv, NEW t \in Requests, SpendCode(t)
    PROVE  SpentInv'
<1>1. /\ UNCHANGED <<owner, inbox, session, addr, num>> /\ pc[t] = "spend"
      /\ \/ kept' = kept /\ code' = [code EXCEPT ![addr[t]] = 0]
         \/ kept' = kept \cup {num[t]} /\ code' = code
      /\ Step(t, "find") \/ pc' = pc
    BY DEF SpendCode, sessions
<1>2. num[t] \in inbox /\ addr[t] = owner[num[t]] /\ owner[num[t]] \in Emails /\ num[t] # 0
    BY <1>1, Owned DEF SpentInv, KnownInv, Verifying
<1>3. ASSUME NEW n \in inbox, Gone(n)
      PROVE  Gone(n)'
    <2>1. owner[n] \in Emails /\ n # 0
        BY Owned
    <2> QED
        BY <1>1, <1>3, <2>1 DEF Gone, TypeOK, CodeType
<1>4. /\ \A u \in Requests \ {t} : UNCHANGED <<pc[u], addr[u], num[u]>>
      /\ pc'[t] \in {"spend", "find"}
    BY <1>1 DEF Step, TypeOK, RequestType
<1>5. Gone(num[t])'
    <2>1. \/ num[t] \in kept'
          \/ code'[owner[num[t]]] = 0
        BY <1>1, <1>2 DEF TypeOK, CodeType
    <2> QED
        BY <1>1, <1>2, <2>1 DEF Gone
<1>6. \A u \in Requests \ {t} : pc[u] \in Storing => num[u] \notin inbox'
    BY <1>1 DEF SpentInv, KnownInv, Storing
<1> QED
    BY <1>1, <1>2, <1>3, <1>4, <1>5, <1>6, OthersSpent DEF Storing, Verifying
LEMMA OpenSpent ==
    ASSUME TypeOK, SpentInv, NEW t \in Requests, OpenSession(t)
    PROVE  SpentInv'
<1>1. /\ UNCHANGED <<owner, code, inbox, kept>> /\ pc[t] = "open" /\ Finish(t)
      /\ session' = session \/ session' = Append(session, [user |-> row[t], code |-> num[t]])
    BY DEF OpenSession, codes, sessions, history
<1>2. \A e \in Emails : code'[e] \in {code[e], 0}
    BY <1>1
<1>3. ASSUME NEW u \in Requests
      PROVE  Quiet(u)
    BY <1>1 DEF Finish, Step, Quiet, TypeOK, RequestType
<1>4. CASE session' = session
    BY <1>1, <1>2, <1>3, <1>4, QuietSpent
<1>5. CASE session' = Append(session, [user |-> row[t], code |-> num[t]])
    <2> DEFINE new == [user |-> row[t], code |-> num[t]]
    <2>1. new.code \in inbox /\ Gone(new.code)
        BY <1>1 DEF SpentInv, KnownInv, GoneInv, Verifying
    <2>2. new \in [user : Accounts, code : Codes]
        BY <1>1 DEF TypeOK, RequestType
    <2> HIDE DEF new
    <2>3. session \in Seq([user : Accounts, code : Codes]) /\ Len(session) \in Nat
        BY DEF TypeOK, SessionType
    <2>4. /\ Len(session') = Len(session) + 1 /\ session'[Len(session) + 1] = new
          /\ \A s \in Sessions : session'[s] = session[s]
        BY <1>5, <2>2, <2>3, AppendProperties DEF new, Sessions
    <2>5. ASSUME NEW s \in Sessions'
          PROVE  session'[s].code \in inbox /\ Gone(session[s].code)'
        <3>1. s \in Sessions \/ s = Len(session) + 1
            BY <2>3, <2>4 DEF Sessions
        <3>2. \E k \in inbox : session'[s].code = k /\ Gone(k)
            <4>1. CASE s \in Sessions
                BY <2>4, <4>1 DEF SpentInv, KnownInv, GoneInv
            <4>2. CASE s = Len(session) + 1
                BY <2>1, <2>4, <4>2
            <4> QED
                BY <3>1, <4>1, <4>2
        <3> QED
            BY <1>1, <3>2 DEF Gone
    <2>6. ASSUME NEW u \in Requests
          PROVE  /\ pc'[u] = "idle" \/ UNCHANGED <<pc[u], addr[u], num[u]>>
        BY <1>1 DEF Finish, Step, TypeOK, RequestType
    <2>7. KnownInv'
        <3>1. ASSUME NEW u \in Requests
              PROVE  /\ pc'[u] \in Storing => num'[u] \notin inbox'
                     /\ pc'[u] \in Verifying => num'[u] \in inbox'
                     /\ pc'[u] \in Storing \cup Verifying => addr'[u] = owner'[num'[u]]
            BY <1>1, <2>6 DEF SpentInv, KnownInv, Storing, Verifying
        <3>2. ASSUME NEW u \in Requests, NEW v \in Requests, u # v,
                     pc'[u] \in Storing, pc'[v] \in Storing
              PROVE  num'[u] # num'[v]
            BY <2>6, <3>2 DEF SpentInv, KnownInv, Storing
        <3> QED
            BY <1>1, <2>5, <3>1, <3>2 DEF KnownInv
    <2>8. ASSUME NEW u \in Requests, pc'[u] \in {"find", "open"}
          PROVE  Gone(num[u])'
        <3>1. pc[u] \in {"find", "open"} /\ num'[u] = num[u]
            BY <2>6, <2>8
        <3> QED
            BY <1>1, <3>1 DEF SpentInv, GoneInv, Gone
    <2> QED
        BY <2>5, <2>7, <2>8 DEF SpentInv, GoneInv
<1> QED
    BY <1>1, <1>4, <1>5

LEMMA NextSpent == TypeOK /\ SpentInv /\ [Next]_vars => SpentInv'
<1> SUFFICES ASSUME TypeOK, SpentInv, [Next]_vars
             PROVE  SpentInv'
    OBVIOUS
<1>1. ASSUME \/ \E c \in Containers : Start(c)
             \/ \E e \in Emails : InsertByHand(e)
             \/ \E s \in Sessions : EndSession(s)
             \/ \E s \in Sessions, e \in Emails, role \in Roles : AddUser(s, e, role)
             \/ UNCHANGED vars
      PROVE  SpentInv'
    <2>1. UNCHANGED <<code, owner, inbox, kept, session, pc, addr, num>>
        BY <1>1 DEF Start, StartUp, SeedAccount, SeedFails, Stop, InsertByHand,
                    EndSession, AddUser, vars, codes, sessions, request, history
    <2>2. \A t \in Requests : Quiet(t)
        BY <2>1 DEF Quiet
    <2> QED
        BY <2>1, <2>2, QuietSpent
<1>2. ASSUME NEW e \in Emails, ExpireCode(e)
      PROVE  SpentInv'
    <2>1. /\ UNCHANGED <<owner, inbox, kept, session, pc, addr, num>>
          /\ code' = [code EXCEPT ![e] = 0]
        BY <1>2 DEF ExpireCode, sessions, request, history
    <2>2. \A t \in Requests : Quiet(t)
        BY <2>1 DEF Quiet
    <2>3. \A a \in Emails : code'[a] \in {code[a], 0}
        BY <2>1 DEF TypeOK, CodeType
    <2> QED
        BY <2>1, <2>2, <2>3, QuietSpent
<1>3. ASSUME NEW t \in Requests, Delete(t) \/ Abandon(t) \/ FindAccount(t)
      PROVE  SpentInv'
    <2>1. UNCHANGED <<code, owner, inbox, kept, session>>
        BY <1>3 DEF Delete, AskDelete, CheckTarget, Remove, Abandon, FindAccount,
                    codes, sessions, history
    <2>2. ASSUME NEW u \in Requests
          PROVE  Quiet(u)
        <3>1. CASE Finish(t)
            BY <3>1 DEF Finish, Step, Quiet, TypeOK, RequestType
        <3>2. CASE ~Finish(t) /\ (Delete(t) \/ Abandon(t))
            <4>1. Step(t, "check") \/ Step(t, "remove")
                BY <1>3, <3>2 DEF Delete, AskDelete, CheckTarget, Remove, Abandon
            <4>2. u # t => UNCHANGED <<addr[u], num[u]>>
                BY <1>3, <3>2 DEF Delete, AskDelete, CheckTarget, Remove, Abandon,
                                  TypeOK, RequestType
            <4> QED
                BY <4>1, <4>2 DEF Step, Quiet, TypeOK, RequestType
        <3>3. CASE ~Finish(t) /\ FindAccount(t)
            BY <3>3 DEF FindAccount, Step, Quiet, TypeOK, RequestType
        <3> QED
            BY <1>3, <3>1, <3>2, <3>3
    <2>3. \A a \in Emails : code'[a] \in {code[a], 0}
        BY <2>1
    <2> QED
        BY <2>1, <2>2, <2>3, QuietSpent
<1>4. ASSUME NEW t \in Requests, Login(t)
      PROVE  SpentInv'
    BY <1>3, <1>4, AskSpent, StoreSpent, MailSpent, CheckSpent, SpendSpent, OpenSpent
       DEF Login
<1> QED
    BY <1>1, <1>2, <1>3, <1>4 DEF Next

\* A code opens no session once one was opened with it, but for verifications
\* that had found it before: when the first of them succeeds Redis does not hold
\* it any more, and nothing ever puts it back (requestLogin, verifyLogin).
THEOREM CodesStaySpent == Spec => []SpentCodesGone
<1>1. Init => SpentInv
    BY DEF Init, SpentInv, KnownInv, GoneInv, Sessions, Storing, Verifying
<1>2. TypeOK /\ SpentInv /\ [Next]_vars => (TypeOK /\ SpentInv)'
    BY NextTypes, NextSpent
<1>3. SpentInv => SpentCodesGone
    BY DEF SpentInv, GoneInv, Gone, SpentCodesGone
<1> QED
    BY <1>1, <1>2, <1>3, InitTypes, PTL DEF Spec

-----------------------------------------------------------------------------
(* A code that was mailed and never typed.                                 *)

\* It was typed, its time is over, Redis holds it, or its address has another.
Fine(n) ==
    \/ n \in over
    \/ code[owner[n]] = n
    \/ \E k \in Codes \ {n} : owner[k] = owner[n]

WasteInv ==
    /\ \A n \in inbox : Fine(n)
    /\ \A t \in Requests :
          /\ pc[t] = "mail" => Fine(num[t])
          /\ pc[t] \in Verifying => num[t] \in over

\* What a request may do to its own place.
Sound(t) ==
    /\ pc'[t] = "mail" => \/ pc[t] = "mail" /\ num'[t] = num[t]
                          \/ num'[t] \in Codes /\ Fine(num[t])'
    /\ pc'[t] \in Verifying => \/ pc[t] \in Verifying /\ num'[t] = num[t]
                               \/ num'[t] \in over'

LEMMA KeepsFine ==
    ASSUME TypeOK, WasteInv, over \subseteq over',
           \A n \in Codes : Fine(n) => Fine(n)',
           \A n \in inbox' : n \in inbox \/ \E t \in Requests : pc[t] = "mail" /\ num[t] = n,
           \A t \in Requests : Sound(t)
    PROVE  WasteInv'
<1>1. ASSUME NEW n \in inbox'
      PROVE  Fine(n)'
    <2>1. n \in Codes /\ Fine(n)
        BY Owned DEF WasteInv, Storing
    <2> QED
        BY <2>1
<1>2. ASSUME NEW t \in Requests, pc'[t] = "mail"
      PROVE  Fine(num[t])'
    <2>1. CASE pc[t] = "mail" /\ num'[t] = num[t]
        <3>1. num[t] \in Codes /\ Fine(num[t])
            BY <2>1, Owned DEF WasteInv, Storing
        <3>2. \A n : n = num[t] /\ Fine(n)' => Fine(num[t])'
            BY <2>1 DEF Fine
        <3> QED
            BY <3>1, <3>2
    <2> QED
        BY <1>2, <2>1 DEF Sound
<1>3. ASSUME NEW t \in Requests, pc'[t] \in Verifying
      PROVE  num'[t] \in over'
    BY <1>3 DEF Sound, WasteInv
<1> QED
    BY <1>1, <1>2, <1>3 DEF WasteInv

\* Nothing happens to codes.
LEMMA CalmFine ==
    ASSUME TypeOK, WasteInv, UNCHANGED <<code, owner, over, inbox>>,
           \A t \in Requests : Sound(t)
    PROVE  WasteInv'
<1>1. \A n \in Codes : Fine(n) => Fine(n)'
    BY DEF Fine, Codes
<1> QED
    BY <1>1, KeepsFine

LEMMA AskFine ==
    ASSUME TypeOK, WasteInv, NEW t \in Requests, NEW e \in Emails, AskCode(t, e)
    PROVE  WasteInv'
<1>1. /\ owner' = Append(owner, e) /\ UNCHANGED <<code, inbox, over>>
      /\ pc' = [pc EXCEPT ![t] = "store"] /\ num' = [num EXCEPT ![t] = Len(owner) + 1]
    BY DEF AskCode, Step, history
<1>2. owner \in Seq(Emails) /\ Len(owner) \in Nat
    BY DEF TypeOK, CodeType
<1>3. /\ \A n \in Codes : owner'[n] = owner[n]
      /\ Codes \subseteq Codes'
    BY <1>1, <1>2, AppendProperties DEF Codes
<1>4. ASSUME NEW n \in Codes, Fine(n)
      PROVE  Fine(n)'
    <2>1. CASE \E k \in Codes \ {n} : owner[k] = owner[n]
        BY <1>3, <2>1 DEF Fine
    <2> QED
        BY <1>1, <1>3, <1>4, <2>1 DEF Fine
<1>5. \A u \in Requests : Sound(u)
    BY <1>1 DEF Sound, Verifying, TypeOK, RequestType
<1> QED
    BY <1>1, <1>4, <1>5, KeepsFine

LEMMA StoreFine ==
    ASSUME TypeOK, KnownInv, WasteInv, NEW t \in Requests, StoreCode(t)
    PROVE  WasteInv'
<1>1. /\ UNCHANGED <<owner, inbox, over>> /\ pc[t] = "store"
      /\ code' = code \/ code' = [code EXCEPT ![addr[t]] = num[t]]
      /\ \/ Finish(t)
         \/ UNCHANGED <<pc, num>>
         \/ /\ code' = [code EXCEPT ![addr[t]] = num[t]]
            /\ Step(t, "mail") /\ UNCHANGED num
    BY DEF StoreCode, history, request
<1>2. num[t] \in Codes /\ addr[t] = owner[num[t]] /\ owner[num[t]] \in Emails
    BY <1>1, Owned DEF KnownInv, Storing
<1>3. Codes' = Codes
    BY <1>1 DEF Codes
<1>4. ASSUME NEW n \in Codes, Fine(n)
      PROVE  Fine(n)'
    <2>1. owner[n] \in Emails
        BY Owned
    <2>2. code'[owner[n]] = code[owner[n]] \/ owner[n] = owner[num[t]]
        BY <1>1, <1>2, <2>1 DEF TypeOK, CodeType
    <2>3. code' = code \/ code'[owner[num[t]]] = num[t]
        BY <1>1, <1>2 DEF TypeOK, CodeType
    <2> QED
        BY <1>1, <1>2, <1>3, <1>4, <2>2, <2>3 DEF Fine
<1>5. ASSUME NEW u \in Requests
      PROVE  Sound(u)
    <2>1. CASE ~Step(t, "mail")
        BY <1>1, <2>1 DEF Sound, Finish, Step, Verifying, TypeOK, RequestType
    <2>2. CASE /\ code' = [code EXCEPT ![addr[t]] = num[t]]
               /\ Step(t, "mail") /\ UNCHANGED num
        <3>1. Fine(num[t])'
            BY <1>1, <1>2, <2>2 DEF Fine, TypeOK, CodeType
        <3> QED
            BY <1>2, <2>2, <3>1 DEF Sound, Step, Verifying, TypeOK, RequestType
    <2>3. CASE Finish(t)
        BY <2>3 DEF Sound, Finish, Step, Verifying, TypeOK, RequestType
    <2>4. CASE UNCHANGED <<pc, num>>
        BY <2>4 DEF Sound
    <2> QED
        BY <1>1, <2>2, <2>3, <2>4
<1> QED
    BY <1>1, <1>4, <1>5, KeepsFine

LEMMA SpendFine ==
    ASSUME TypeOK, KnownInv, WasteInv, NEW t \in Requests, SpendCode(t)
    PROVE  WasteInv'
<1>1. /\ UNCHANGED <<owner, inbox, over, num>> /\ pc[t] = "spend"
      /\ code' = code \/ code' = [code EXCEPT ![addr[t]] = 0]
      /\ Step(t, "find") \/ pc' = pc
    BY DEF SpendCode
<1>2. /\ num[t] \in Codes /\ num[t] \in over
      /\ addr[t] = owner[num[t]] /\ owner[num[t]] \in Emails
    BY <1>1, Owned DEF KnownInv, WasteInv, Verifying
<1>3. ASSUME NEW n \in Codes, Fine(n)
      PROVE  Fine(n)'
    <2>1. owner[n] \in Emails
        BY Owned
    <2>2. code'[owner[n]] = code[owner[n]] \/ owner[n] = owner[num[t]]
        BY <1>1, <1>2, <2>1 DEF TypeOK, CodeType
    <2> QED
        BY <1>1, <1>2, <1>3, <2>2 DEF Fine, Codes
<1>4. \A u \in Requests : Sound(u)
    BY <1>1 DEF Sound, Step, Verifying, TypeOK, RequestType
<1> QED
    BY <1>1, <1>3, <1>4, KeepsFine

LEMMA ExpireFine ==
    ASSUME TypeOK, WasteInv, NEW e \in Emails, ExpireCode(e)
    PROVE  WasteInv'
<1>1. /\ UNCHANGED <<owner, inbox, pc, num>> /\ code' = [code EXCEPT ![e] = 0]
      /\ over' = over \cup {code[e]}
    BY DEF ExpireCode, request
<1>2. ASSUME NEW n \in Codes, Fine(n)
      PROVE  Fine(n)'
    <2>1. owner[n] \in Emails
        BY Owned
    <2>2. code'[owner[n]] = code[owner[n]] \/ owner[n] = e
        BY <1>1, <2>1 DEF TypeOK, CodeType
    <2> QED
        BY <1>1, <1>2, <2>2 DEF Fine, Codes
<1>3. \A u \in Requests : Sound(u)
    BY <1>1 DEF Sound
<1> QED
    BY <1>1, <1>2, <1>3, KeepsFine

LEMMA NextFine == TypeOK /\ KnownInv /\ WasteInv /\ [Next]_vars => WasteInv'
<1> SUFFICES ASSUME TypeOK, KnownInv, WasteInv, [Next]_vars
             PROVE  WasteInv'
    OBVIOUS
<1>1. ASSUME \/ \E c \in Containers : Start(c)
             \/ \E e \in Emails : InsertByHand(e)
             \/ \E s \in Sessions : EndSession(s)
             \/ \E s \in Sessions, e \in Emails, role \in Roles : AddUser(s, e, role)
             \/ UNCHANGED vars
      PROVE  WasteInv'
    <2>1. UNCHANGED <<code, owner, over, inbox, pc, num>>
        BY <1>1 DEF Start, StartUp, SeedAccount, SeedFails, Stop, InsertByHand,
                    EndSession, AddUser, vars, codes, request, history
    <2>2. \A t \in Requests : Sound(t)
        BY <2>1 DEF Sound
    <2> QED
        BY <2>1, <2>2, CalmFine
<1>2. ASSUME NEW t \in Requests,
             Delete(t) \/ Abandon(t) \/ FindAccount(t) \/ OpenSession(t)
      PROVE  WasteInv'
    <2>1. UNCHANGED <<code, owner, over, inbox>>
        BY <1>2 DEF Delete, AskDelete, CheckTarget, Remove, Abandon, FindAccount,
                    OpenSession, codes, history
    <2>2. \/ Finish(t)
          \/ UNCHANGED num /\ (Step(t, "check") \/ Step(t, "remove"))
          \/ UNCHANGED num /\ pc[t] = "find" /\ Step(t, "open")
        BY <1>2 DEF Delete, AskDelete, CheckTarget, Remove, Abandon, FindAccount,
                    OpenSession
    <2>3. \A u \in Requests : Sound(u)
        BY <2>2 DEF Sound, Finish, Step, Verifying, TypeOK, RequestType
    <2> QED
        BY <2>1, <2>3, CalmFine
<1>3. ASSUME NEW t \in Requests, MailCode(t)
      PROVE  WasteInv'
    <2>1. /\ UNCHANGED <<owner, code, over>> /\ pc[t] = "mail" /\ Finish(t)
          /\ inbox' = inbox \/ inbox' = inbox \cup {num[t]}
        BY <1>3 DEF MailCode, history
    <2>2. \A n \in Codes : Fine(n) => Fine(n)'
        BY <2>1 DEF Fine, Codes
    <2>3. \A u \in Requests : Sound(u)
        BY <2>1 DEF Sound, Finish, Step, Verifying, TypeOK, RequestType
    <2> QED
        BY <2>1, <2>2, <2>3, KeepsFine
<1>4. ASSUME NEW t \in Requests, NEW n \in Codes, CheckCode(t, n)
      PROVE  WasteInv'
    <2>1. /\ UNCHANGED <<code, owner, inbox>> /\ over' = over \cup {n}
          /\ pc' = [pc EXCEPT ![t] = "spend"] /\ num' = [num EXCEPT ![t] = n]
        BY <1>4 DEF CheckCode, Step, codes
    <2>2. \A k \in Codes : Fine(k) => Fine(k)'
        BY <2>1 DEF Fine, Codes
    <2>3. \A u \in Requests : Sound(u)
        BY <2>1 DEF Sound, Verifying, TypeOK, RequestType
    <2> QED
        BY <2>1, <2>2, <2>3, KeepsFine
<1> QED
    BY <1>1, <1>2, <1>3, <1>4, AskFine, StoreFine, SpendFine, ExpireFine DEF Next, Login

\* A code that was mailed is there until it is typed or its time is over, for
\* all that happens to other addresses; only another code of its own address is
\* ever stored over it, or deleted in its place (requestLogin, verifyLogin).
THEOREM MailedCodesLast == Spec => []CodesNotWasted
<1>1. Init => SpentInv /\ WasteInv
    BY DEF Init, SpentInv, KnownInv, GoneInv, WasteInv, Sessions, Storing, Verifying
<1>2. TypeOK /\ SpentInv /\ WasteInv /\ [Next]_vars => (TypeOK /\ SpentInv /\ WasteInv)'
    BY NextTypes, NextSpent, NextFine DEF SpentInv
<1>3. WasteInv => CodesNotWasted
    BY DEF WasteInv, CodesNotWasted, Fine
<1> QED
    BY <1>1, <1>2, <1>3, InitTypes, PTL DEF Spec
-----------------------------------------------------------------------------
(* Sessions for deleted accounts.                                          *)

\* Requests that will open a session for row i.
Openers(i) == {t \in Requests : pc[t] = "open" /\ row[t] = i}

LateOf(i) == IF i \in present THEN late[i] = 0
             ELSE late[i] + Cardinality(Openers(i)) < Cardinality(Requests)

LateInv == \A i \in Accounts : LateOf(i)

LEMMA Counted ==
    ASSUME NEW S \in SUBSET Requests
    PROVE  /\ IsFiniteSet(S) /\ Cardinality(S) \in Nat
           /\ Cardinality(S) <= Cardinality(Requests) /\ Cardinality(Requests) \in Nat
BY FS_Subset, FS_CardinalityType

\* The openers are fewer than the requests if one of them is not an opener.
LEMMA OneIsNot ==
    ASSUME NEW t \in Requests, NEW S \in SUBSET Requests, t \notin S
    PROVE  Cardinality(S) < Cardinality(Requests)
<1>1. S \subseteq Requests \ {t}
    OBVIOUS
<1>2. /\ Cardinality(Requests \ {t}) = Cardinality(Requests) - 1
      /\ IsFiniteSet(Requests \ {t}) /\ Cardinality(Requests) \in Nat
    BY FS_RemoveElement, FS_CardinalityType
<1>3. Cardinality(S) <= Cardinality(Requests \ {t}) /\ Cardinality(S) \in Nat
    BY <1>1, <1>2, Counted, FS_Subset
<1> QED
    BY <1>2, <1>3

LEMMA LateTyped ==
    ASSUME TypeOK, NEW i \in Accounts
    PROVE  late[i] \in Nat
BY ElementOfSeq DEF TypeOK, RowType, Accounts

\* A request that does not become an opener.
Still(t) == pc'[t] = "open" => pc[t] = "open" /\ row'[t] = row[t]

LEMMA KeepsLate ==
    ASSUME TypeOK, LateInv, NEW i \in Accounts, late'[i] = late[i],
           i \in present' <=> i \in present, \A t \in Requests : Still(t)
    PROVE  LateOf(i)'
<1>1. Openers(i) \in SUBSET Requests /\ Openers(i)' \subseteq Openers(i)
    BY DEF Openers, Still
<1>2. /\ Cardinality(Openers(i)') <= Cardinality(Openers(i))
      /\ Cardinality(Openers(i)') \in Nat /\ Cardinality(Openers(i)) \in Nat
      /\ Cardinality(Requests) \in Nat /\ late[i] \in Nat
    BY <1>1, Counted, FS_Subset, LateTyped
<1>3. i \notin present => late[i] + Cardinality(Openers(i)) < Cardinality(Requests)
    BY DEF LateInv, LateOf
<1>4. i \in present => late[i] = 0
    BY DEF LateInv, LateOf
<1>5. i \notin present => late[i] + Cardinality(Openers(i)') < Cardinality(Requests)
    BY <1>2, <1>3
<1> QED
    BY <1>4, <1>5 DEF LateOf

LEMMA RowsLate ==
    ASSUME TypeOK, LateInv,
           \/ \E e \in Emails : InsertByHand(e)
           \/ \E c \in Containers : Start(c)
    PROVE  LateInv'
<1>1. /\ UNCHANGED request
      /\ (\E e \in Emails, role \in Roles : Insert(e, role)) \/ UNCHANGED <<rows, late>>
    <2>1. ASSUME NEW e \in Emails, InsertByHand(e)
          PROVE  <1>1!1 /\ <1>1!2
        <3>1. PICK role \in HandRoles : Insert(e, role)
            BY <2>1 DEF InsertByHand
        <3>2. role \in Roles
            OBVIOUS
        <3> QED
            BY <2>1, <3>1, <3>2 DEF InsertByHand
    <2>2. ASSUME NEW c \in Containers, Start(c)
          PROVE  <1>1!1 /\ <1>1!2
        <3>1. Seed[c] \in Emails /\ "super_admin" \in Roles
            BY DEF Roles
        <3>2. UNCHANGED request
            BY <2>2 DEF Start, StartUp, SeedAccount, SeedFails, Stop
        <3>3. Insert(Seed[c], "super_admin") \/ UNCHANGED <<rows, late>>
            BY <2>2 DEF Start, StartUp, SeedAccount, SeedFails, Stop, sessions
        <3> QED
            BY <3>1, <3>2, <3>3
    <2> QED
        BY <2>1, <2>2
<1>2. \A t \in Requests : Still(t)
    BY <1>1 DEF request, Still
<1>3. CASE UNCHANGED <<rows, late>>
    <2>1. Accounts' = Accounts /\ late' = late /\ present' = present
        BY <1>3 DEF rows, Accounts
    <2>2. ASSUME NEW i \in Accounts
          PROVE  LateOf(i)'
        BY <1>2, <2>1, KeepsLate
    <2> QED
        BY <2>1, <2>2 DEF LateInv
<1>4. ASSUME NEW e \in Emails, NEW role \in Roles, Insert(e, role)
      PROVE  LateInv'
    <2>1. /\ \A i \in Accounts : late'[i] = late[i]
          /\ late'[Len(account) + 1] = 0 /\ Len(account') = Len(account) + 1
          /\ present' = present \cup {Len(account) + 1} /\ Len(account) \in Nat
        BY <1>4, Inserted DEF TypeOK, RowType
    <2>2. ASSUME NEW i \in Accounts'
          PROVE  LateOf(i)'
        <3>1. (i \in Accounts /\ i # Len(account) + 1) \/ i = Len(account) + 1
            BY <2>1 DEF Accounts
        <3>2. CASE i \in Accounts /\ i # Len(account) + 1
            BY <1>2, <2>1, <3>2, KeepsLate
        <3>3. CASE i = Len(account) + 1
            BY <2>1, <3>3 DEF LateOf
        <3> QED
            BY <3>1, <3>2, <3>3
    <2> QED
        BY <2>2 DEF LateInv
<1> QED
    BY <1>1, <1>3, <1>4

\* An opener is not open any more: either its session exists and, if the row is
\* deleted, it is late; or nothing came of it.
LEMMA OpenLate ==
    ASSUME TypeOK, LateInv, NEW t \in Requests, OpenSession(t)
    PROVE  LateInv'
<1>1. /\ UNCHANGED <<account, present>> /\ pc[t] = "open" /\ Finish(t)
      /\ \/ late' = [late EXCEPT ![row[t]] = IF row[t] \in present THEN @ ELSE @ + 1]
         \/ late' = late
    BY DEF OpenSession, rows, sessions
<1>2. row[t] \in Accounts
    BY <1>1 DEF TypeOK, RequestType
<1>3. ASSUME NEW u \in Requests
      PROVE  Still(u) /\ pc'[t] = "idle"
    BY <1>1 DEF Still, Finish, Step, TypeOK, RequestType
<1>4. ASSUME NEW i \in Accounts
      PROVE  LateOf(i)'
    <2>1. CASE late'[i] = late[i]
        BY <1>1, <1>3, <2>1, KeepsLate
    <2>2. CASE late'[i] # late[i]
        <3>1. i = row[t] /\ i \notin present /\ late'[i] = late[i] + 1
            BY <1>1, <1>2, <1>4, <2>2 DEF TypeOK, RowType, Accounts
        <3>2. /\ Openers(i) \in SUBSET Requests /\ t \in Openers(i)
              /\ Openers(i)' \subseteq Openers(i) \ {t}
            BY <1>1, <1>3, <3>1 DEF Openers, Still
        <3>3. /\ Cardinality(Openers(i) \ {t}) = Cardinality(Openers(i)) - 1
              /\ IsFiniteSet(Openers(i) \ {t})
            BY <3>2, Counted, FS_RemoveElement
        <3>4. Cardinality(Openers(i)') <= Cardinality(Openers(i) \ {t})
            BY <3>2, <3>3, FS_Subset
        <3>5. /\ Cardinality(Openers(i)') \in Nat /\ Cardinality(Openers(i)) \in Nat
              /\ Cardinality(Requests) \in Nat /\ late[i] \in Nat
            BY <1>4, <3>2, Counted, LateTyped
        <3>6. late[i] + Cardinality(Openers(i)) < Cardinality(Requests)
            BY <3>1 DEF LateInv, LateOf
        <3>7. late'[i] + Cardinality(Openers(i)') < Cardinality(Requests)
            BY <3>1, <3>3, <3>4, <3>5, <3>6
        <3> QED
            BY <1>1, <3>1, <3>7 DEF LateOf
    <2> QED
        BY <2>1, <2>2
<1>5. Accounts' = Accounts
    BY <1>1 DEF Accounts
<1> QED
    BY <1>4, <1>5 DEF LateInv

\* A request that found its account becomes an opener: the account is not deleted.
LEMMA FindLate ==
    ASSUME TypeOK, LateInv, NEW t \in Requests, FindAccount(t)
    PROVE  LateInv'
<1>1. UNCHANGED <<account, present, late>>
    BY DEF FindAccount, rows, sessions
<1>2. CASE Finish(t)
    <2>1. ASSUME NEW u \in Requests
          PROVE  Still(u)
        BY <1>2 DEF Still, Finish, Step, TypeOK, RequestType
    <2>2. ASSUME NEW i \in Accounts
          PROVE  LateOf(i)'
        BY <1>1, <2>1, KeepsLate
    <2> QED
        BY <1>1, <2>2 DEF LateInv, Accounts
<1>3. CASE ~Finish(t)
    <2> DEFINE k == CHOOSE i \in RowOf(addr[t]) : TRUE
    <2>1. /\ RowOf(addr[t]) # {} /\ Step(t, "open")
          /\ row' = [row EXCEPT ![t] = k]
        BY <1>3 DEF FindAccount
    <2>2. k \in present
        BY <2>1, FoundRow
    <2> HIDE DEF k
    <2>3. ASSUME NEW i \in Accounts, i \notin present
          PROVE  LateOf(i)'
        <3>1. Openers(i) \in SUBSET Requests /\ Openers(i)' \subseteq Openers(i)
            BY <2>1, <2>2, <2>3 DEF Openers, Step, TypeOK, RequestType
        <3>2. /\ Cardinality(Openers(i)') <= Cardinality(Openers(i))
              /\ Cardinality(Openers(i)') \in Nat /\ Cardinality(Openers(i)) \in Nat
              /\ Cardinality(Requests) \in Nat /\ late[i] \in Nat
            BY <3>1, Counted, FS_Subset, LateTyped
        <3>3. late[i] + Cardinality(Openers(i)) < Cardinality(Requests)
            BY <2>3 DEF LateInv, LateOf
        <3>4. late[i] + Cardinality(Openers(i)') < Cardinality(Requests)
            BY <3>2, <3>3
        <3> QED
            BY <1>1, <2>3, <3>4 DEF LateOf
    <2>4. ASSUME NEW i \in Accounts, i \in present
          PROVE  LateOf(i)'
        BY <1>1, <2>4 DEF LateInv, LateOf
    <2> QED
        BY <1>1, <2>3, <2>4 DEF LateInv, Accounts
<1> QED
    BY <1>2, <1>3

\* When a row is deleted, the request that does it is not among its openers.
LEMMA RemoveLate ==
    ASSUME TypeOK, LateInv, NEW t \in Requests, Remove(t)
    PROVE  LateInv'
<1>1. /\ UNCHANGED <<account, late>> /\ pc[t] = "remove" /\ Finish(t)
      /\ present' = present \/ present' = present \ {row[t]}
    BY DEF Remove, sessions
<1>2. ASSUME NEW u \in Requests
      PROVE  Still(u) /\ pc'[t] = "idle"
    BY <1>1 DEF Still, Finish, Step, TypeOK, RequestType
<1>3. ASSUME NEW i \in Accounts
      PROVE  LateOf(i)'
    <2>1. CASE i \in present' <=> i \in present
        BY <1>1, <1>2, <2>1, KeepsLate
    <2>2. CASE ~(i \in present' <=> i \in present)
        <3>1. i \in present /\ i \notin present' /\ late'[i] = 0
            BY <1>1, <2>2 DEF LateInv, LateOf
        <3>2. Openers(i)' \in SUBSET Requests /\ t \notin Openers(i)'
            BY <1>2 DEF Openers
        <3>3. /\ Cardinality(Openers(i)') < Cardinality(Requests)
              /\ Cardinality(Openers(i)') \in Nat
            BY <3>2, OneIsNot, Counted
        <3> QED
            BY <3>1, <3>3 DEF LateOf
    <2> QED
        BY <2>1, <2>2
<1> QED
    BY <1>1, <1>3 DEF LateInv, Accounts

LEMMA NextLate == TypeOK /\ LateInv /\ [Next]_vars => LateInv'
<1> SUFFICES ASSUME TypeOK, LateInv, [Next]_vars
             PROVE  LateInv'
    OBVIOUS
<1>1. ASSUME UNCHANGED <<account, present, late>>, \A t \in Requests : Still(t)
      PROVE  LateInv'
    <2>1. ASSUME NEW i \in Accounts
          PROVE  LateOf(i)'
        BY <1>1, KeepsLate
    <2> QED
        BY <1>1, <2>1 DEF LateInv, Accounts
<1>2. ASSUME \/ \E e \in Emails : ExpireCode(e)
             \/ \E s \in Sessions : EndSession(s)
             \/ \E s \in Sessions, e \in Emails, role \in Roles : AddUser(s, e, role)
             \/ UNCHANGED vars
      PROVE  LateInv'
    <2>1. UNCHANGED <<account, present, late, pc, row>>
        BY <1>2 DEF ExpireCode, EndSession, AddUser, vars, rows, sessions, request
    <2> QED
        BY <1>1, <2>1 DEF Still
<1>3. ASSUME NEW t \in Requests,
             \/ \E e \in Emails : AskCode(t, e)
             \/ StoreCode(t) \/ MailCode(t)
             \/ \E n \in Codes : CheckCode(t, n)
             \/ SpendCode(t) \/ Abandon(t)
             \/ \E s \in Sessions, i \in Accounts : AskDelete(t, s, i)
             \/ CheckTarget(t)
      PROVE  LateInv'
    <2>1. UNCHANGED <<account, present, late>>
        BY <1>3 DEF AskCode, StoreCode, MailCode, CheckCode, SpendCode, Abandon,
                    AskDelete, CheckTarget, rows, sessions
    <2>2. \/ Finish(t)
          \/ \E at \in PCs \ {"open"} : Step(t, at) /\ row' = row
          \/ Step(t, "check") /\ \E i \in Accounts : row' = [row EXCEPT ![t] = i]
          \/ UNCHANGED <<pc, row>>
        BY <1>3 DEF AskCode, StoreCode, MailCode, CheckCode, SpendCode, Abandon,
                    AskDelete, CheckTarget, request, PCs
    <2>3. ASSUME NEW u \in Requests
          PROVE  Still(u)
        BY <2>2 DEF Still, Finish, Step, TypeOK, RequestType
    <2> QED
        BY <1>1, <2>1, <2>3
<1> QED
    BY <1>2, <1>3, RowsLate, OpenLate, FindLate, RemoveLate DEF Next, Login, Delete

\* A deletion ends the logins of its account: sessions are opened for it still
\* by verifications that had read the row, which are fewer than the requests
\* (deleteAdminUser, verifyLogin).
THEOREM LoginsEnd == Spec => []LateLoginsInFlight
<1>1. Init => LateInv
    BY DEF Init, LateInv, Accounts
<1>2. TypeOK /\ LateInv /\ [Next]_vars => (TypeOK /\ LateInv)'
    BY NextTypes, NextLate
<1>3. TypeOK /\ LateInv => LateLoginsInFlight
    <2> SUFFICES ASSUME TypeOK, LateInv, NEW i \in Accounts, i \notin present
                 PROVE  late[i] < Cardinality(Requests)
        BY DEF LateLoginsInFlight
    <2>1. Openers(i) \in SUBSET Requests
        BY DEF Openers
    <2>2. /\ Cardinality(Openers(i)) \in Nat /\ Cardinality(Requests) \in Nat
          /\ late[i] \in Nat
        BY <2>1, Counted, LateTyped
    <2> QED
        BY <2>2 DEF LateInv, LateOf
<1> QED
    BY <1>1, <1>2, <1>3, InitTypes, PTL DEF Spec

-----------------------------------------------------------------------------
(* How many sessions one code opens.                                       *)

OpenedWith(n) == {s \in Sessions : session[s].code = n}
Verifiers(n) == {t \in Requests : pc[t] \in Verifying /\ num[t] = n}

\* The sessions opened with the code, and those that may yet be.
Shared(n) == n \notin kept
    => Cardinality(OpenedWith(n)) + Cardinality(Verifiers(n)) <= Cardinality(Requests)

ShareInv == \A n \in Codes : Shared(n)

\* Sessions are finitely many.
LEMMA OpenedFinite ==
    ASSUME TypeOK, NEW n
    PROVE  IsFiniteSet(OpenedWith(n)) /\ Cardinality(OpenedWith(n)) \in Nat
<1>1. IsFiniteSet(Sessions)
    BY FS_Interval DEF Sessions, TypeOK, SessionType
<1>2. OpenedWith(n) \subseteq Sessions
    BY DEF OpenedWith
<1> QED
    BY <1>1, <1>2, FS_Subset, FS_CardinalityType

\* Nobody has a code that was not generated yet.
LEMMA NewCode ==
    ASSUME TypeOK, ShareInv, NEW n
    PROVE  Shared(n)
<1>1. CASE n \in Codes
    BY <1>1 DEF ShareInv
<1>2. CASE n \notin Codes
    <2>1. OpenedWith(n) = {} /\ Verifiers(n) = {}
        BY <1>2, Owned DEF OpenedWith, Verifiers
    <2>2. Cardinality(Requests) \in Nat
        BY FS_CardinalityType
    <2> QED
        BY <2>1, <2>2, FS_EmptySet DEF Shared
<1> QED
    BY <1>1, <1>2

\* A request that does not come to verify a code.
Stays(t, n) == pc'[t] \in Verifying /\ num'[t] = n => pc[t] \in Verifying /\ num[t] = n

\* Nobody has joined.
LEMMA KeepsShare ==
    ASSUME TypeOK, ShareInv, session' = session, kept \subseteq kept', NEW n,
           \A t \in Requests : Stays(t, n)
    PROVE  Shared(n)'
<1>1. OpenedWith(n)' = OpenedWith(n)
    BY DEF OpenedWith, Sessions
<1>2. Verifiers(n)' \subseteq Verifiers(n) /\ Verifiers(n) \in SUBSET Requests
    BY DEF Verifiers, Stays
<1>3. /\ Cardinality(Verifiers(n)') <= Cardinality(Verifiers(n))
      /\ Cardinality(Verifiers(n)') \in Nat /\ Cardinality(Verifiers(n)) \in Nat
      /\ Cardinality(OpenedWith(n)) \in Nat /\ Cardinality(Requests) \in Nat
    BY <1>2, Counted, FS_Subset, OpenedFinite
<1>4. n \notin kept'
        => Cardinality(OpenedWith(n)) + Cardinality(Verifiers(n)) <= Cardinality(Requests)
    BY NewCode DEF Shared
<1>5. n \notin kept'
        => Cardinality(OpenedWith(n)) + Cardinality(Verifiers(n)') <= Cardinality(Requests)
    BY <1>3, <1>4
<1> QED
    BY <1>1, <1>5 DEF Shared

\* A code that is found has opened no session yet, unless its DEL failed.
LEMMA CheckShare ==
    ASSUME TypeOK, SpentInv, ShareInv, NEW t \in Requests, NEW n \in Codes, CheckCode(t, n)
    PROVE  ShareInv'
<1>1. /\ UNCHANGED <<owner, session, kept>> /\ code[owner[n]] = n
      /\ pc' = [pc EXCEPT ![t] = "spend"] /\ num' = [num EXCEPT ![t] = n]
    BY DEF CheckCode, Step, codes, sessions
<1>2. ASSUME NEW k \in Codes, k # n
      PROVE  Shared(k)'
    <2>1. \A u \in Requests : Stays(u, k)
        BY <1>1, <1>2 DEF Stays, TypeOK, RequestType
    <2> QED
        BY <1>1, <2>1, KeepsShare
<1>3. Shared(n)'
    <2>1. n \notin kept => OpenedWith(n) = {}
        BY <1>1 DEF SpentInv, GoneInv, Gone, OpenedWith
    <2>2. OpenedWith(n)' = OpenedWith(n)
        BY <1>1 DEF OpenedWith, Sessions
    <2>3. Verifiers(n)' \in SUBSET Requests
        BY DEF Verifiers
    <2>4. /\ Cardinality(Verifiers(n)') <= Cardinality(Requests)
          /\ Cardinality(Verifiers(n)') \in Nat /\ Cardinality(Requests) \in Nat
        BY <2>3, Counted
    <2>5. n \notin kept' => Cardinality(OpenedWith(n)') = 0
        BY <1>1, <2>1, <2>2, FS_EmptySet
    <2> QED
        BY <2>4, <2>5 DEF Shared
<1> QED
    BY <1>1, <1>2, <1>3 DEF ShareInv, Codes

\* Who opens a session verifies no longer.
LEMMA OpenShare ==
    ASSUME TypeOK, ShareInv, NEW t \in Requests, OpenSession(t)
    PROVE  ShareInv'
<1>1. /\ UNCHANGED <<owner, kept>> /\ pc[t] = "open"
      /\ pc' = [pc EXCEPT ![t] = "idle"] /\ num' = [num EXCEPT ![t] = 0]
      /\ session' = session \/ session' = Append(session, [user |-> row[t], code |-> num[t]])
    BY DEF OpenSession, Finish, Step, codes, sessions, history
<1>2. \A u \in Requests : \A n : Stays(u, n)
    BY <1>1 DEF Stays, Verifying, TypeOK, RequestType
<1>3. CASE session' = session
    BY <1>1, <1>2, <1>3, KeepsShare DEF ShareInv, Codes
<1>4. CASE session' = Append(session, [user |-> row[t], code |-> num[t]])
    <2> DEFINE new == [user |-> row[t], code |-> num[t]]
               last == Len(session) + 1
    <2>1. new \in [user : Accounts, code : Codes]
        BY <1>1 DEF TypeOK, RequestType
    <2>2. session \in Seq([user : Accounts, code : Codes]) /\ Len(session) \in Nat
        BY DEF TypeOK, SessionType
    <2>3. /\ Len(session') = last /\ session'[last].code = num[t]
          /\ \A s \in Sessions : session'[s] = session[s]
        BY <1>4, <2>1, <2>2, AppendProperties DEF Sessions
    <2>4. Sessions' = Sessions \cup {last} /\ last \notin Sessions
        BY <2>2, <2>3 DEF Sessions
    <2>5. ASSUME NEW n \in Codes
          PROVE  Shared(n)'
        <3>1. Verifiers(n)' \subseteq Verifiers(n) /\ Verifiers(n) \in SUBSET Requests
            BY <1>2 DEF Verifiers, Stays
        <3>2. /\ Cardinality(Verifiers(n)') <= Cardinality(Verifiers(n))
              /\ Cardinality(Verifiers(n)') \in Nat /\ Cardinality(Verifiers(n)) \in Nat
              /\ Cardinality(OpenedWith(n)) \in Nat /\ Cardinality(Requests) \in Nat
              /\ IsFiniteSet(Verifiers(n)) /\ IsFiniteSet(OpenedWith(n))
            BY <3>1, Counted, FS_Subset, OpenedFinite
        <3>3. n \notin kept =>
                Cardinality(OpenedWith(n)) + Cardinality(Verifiers(n)) <= Cardinality(Requests)
            BY DEF ShareInv, Shared
        <3>4. CASE n # num[t]
            <4>1. OpenedWith(n)' = OpenedWith(n)
                BY <2>3, <2>4, <3>4 DEF OpenedWith
            <4>2. n \notin kept =>
                    Cardinality(OpenedWith(n)) + Cardinality(Verifiers(n)') <= Cardinality(Requests)
                BY <3>2, <3>3
            <4> QED
                BY <1>1, <4>1, <4>2 DEF Shared
        <3>5. CASE n = num[t]
            <4>1. OpenedWith(n)' = OpenedWith(n) \cup {last} /\ last \notin OpenedWith(n)
                BY <2>3, <2>4, <3>5 DEF OpenedWith
            <4>2. t \in Verifiers(n) /\ Verifiers(n)' \subseteq Verifiers(n) \ {t}
                BY <1>1, <3>1, <3>5 DEF Verifiers, Verifying, TypeOK, RequestType
            <4>3. Cardinality(OpenedWith(n)') = Cardinality(OpenedWith(n)) + 1
                BY <3>2, <4>1, FS_AddElement
            <4>4. /\ Cardinality(Verifiers(n) \ {t}) = Cardinality(Verifiers(n)) - 1
                  /\ IsFiniteSet(Verifiers(n) \ {t})
                BY <3>2, <4>2, FS_RemoveElement
            <4>5. Cardinality(Verifiers(n)') <= Cardinality(Verifiers(n)) - 1
                BY <4>2, <4>4, FS_Subset
            <4>6. n \notin kept =>
                    Cardinality(OpenedWith(n)') + Cardinality(Verifiers(n)') <= Cardinality(Requests)
                BY <3>2, <3>3, <4>3, <4>5
            <4> QED
                BY <1>1, <4>6 DEF Shared
        <3> QED
            BY <3>4, <3>5
    <2> QED
        BY <1>1, <2>5 DEF ShareInv, Codes
<1> QED
    BY <1>1, <1>3, <1>4

\* ShareInv is preserved by every step.
LEMMA NextShare == TypeOK /\ SpentInv /\ ShareInv /\ [Next]_vars => ShareInv'
<1> SUFFICES ASSUME TypeOK, SpentInv, ShareInv, [Next]_vars
             PROVE  ShareInv'
    OBVIOUS
<1>1. ASSUME session' = session, kept \subseteq kept',
             \A t \in Requests : \A n : Stays(t, n)
      PROVE  ShareInv'
    BY <1>1, KeepsShare DEF ShareInv
<1>2. ASSUME \/ \E c \in Containers : Start(c)
             \/ \E e \in Emails : InsertByHand(e) \/ ExpireCode(e)
             \/ \E s \in Sessions : EndSession(s)
             \/ \E s \in Sessions, e \in Emails, role \in Roles : AddUser(s, e, role)
             \/ UNCHANGED vars
      PROVE  ShareInv'
    <2>1. UNCHANGED <<session, kept, pc, num>>
        BY <1>2 DEF Start, StartUp, SeedAccount, SeedFails, Stop, InsertByHand, ExpireCode,
                    EndSession, AddUser, vars, sessions, request, history
    <2> QED
        BY <1>1, <2>1 DEF Stays
<1>3. ASSUME NEW t \in Requests,
             \/ \E e \in Emails : AskCode(t, e)
             \/ StoreCode(t) \/ MailCode(t) \/ SpendCode(t) \/ FindAccount(t)
             \/ Delete(t) \/ Abandon(t)
      PROVE  ShareInv'
    <2>1. session' = session /\ kept \subseteq kept'
        BY <1>3 DEF AskCode, StoreCode, MailCode, SpendCode, FindAccount, Delete,
                    AskDelete, CheckTarget, Remove, Abandon, sessions, history
    <2>2. ASSUME NEW u \in Requests, NEW n
          PROVE  Stays(u, n)
        <3>1. CASE Finish(t) \/ UNCHANGED <<pc, num>>
            BY <3>1 DEF Finish, Step, Stays, Verifying, TypeOK, RequestType
        <3>2. CASE \E at \in {"store", "mail", "check", "remove"} :
                        Step(t, at) /\ \A v \in Requests \ {t} : num'[v] = num[v]
            BY <3>2 DEF Step, Stays, Verifying, TypeOK, RequestType
        <3>3. CASE /\ pc[t] \in Verifying /\ num' = num
                   /\ \E at \in Verifying : Step(t, at)
            BY <3>3 DEF Step, Stays, Verifying, TypeOK, RequestType
        <3>4. ASSUME \E e \in Emails : AskCode(t, e) PROVE <3>2!1
            BY <3>4 DEF AskCode, TypeOK, RequestType
        <3>5. ASSUME StoreCode(t) PROVE <3>1!1 \/ <3>2!1
            BY <3>5 DEF StoreCode, request
        <3>6. ASSUME MailCode(t) \/ Abandon(t) PROVE <3>1!1
            BY <3>6 DEF MailCode, Abandon
        <3>7. ASSUME SpendCode(t) PROVE <3>1!1 \/ <3>3!1
            BY <3>7 DEF SpendCode, Verifying
        <3>8. ASSUME FindAccount(t) PROVE <3>1!1 \/ <3>3!1
            BY <3>8 DEF FindAccount, Verifying
        <3>9. ASSUME Delete(t) PROVE <3>1!1 \/ <3>2!1
            BY <3>9 DEF Delete, AskDelete, CheckTarget, Remove
        <3> QED
            BY <1>3, <3>1, <3>2, <3>3, <3>4, <3>5, <3>6, <3>7, <3>8, <3>9
    <2> QED
        BY <1>1, <2>1, <2>2
<1> QED
    BY <1>2, <1>3, CheckShare, OpenShare DEF Next, Login

\* A code opens no more sessions than requests are served together, unless its
\* DEL fails: all who use it find it before the first of them has deleted it,
\* and so are under way together (verifyLogin).
THEOREM FewSessionsPerCode == Spec => []SessionsPerCode
<1>1. Init => SpentInv /\ ShareInv
    BY DEF Init, SpentInv, KnownInv, GoneInv, ShareInv, Sessions, Codes, Storing, Verifying
<1>2. TypeOK /\ SpentInv /\ ShareInv /\ [Next]_vars => (TypeOK /\ SpentInv /\ ShareInv)'
    BY NextTypes, NextSpent, NextShare
<1>3. TypeOK /\ ShareInv => SessionsPerCode
    <2> SUFFICES ASSUME TypeOK, ShareInv, NEW n \in Codes \ kept
                 PROVE  Cardinality(OpenedWith(n)) <= Cardinality(Requests)
        BY DEF SessionsPerCode, OpenedWith
    <2>1. Verifiers(n) \in SUBSET Requests
        BY DEF Verifiers
    <2>2. /\ Cardinality(OpenedWith(n)) \in Nat /\ Cardinality(Verifiers(n)) \in Nat
          /\ Cardinality(Requests) \in Nat
        BY <2>1, Counted, OpenedFinite
    <2> QED
        BY <2>2 DEF ShareInv, Shared
<1> QED
    BY <1>1, <1>2, <1>3, InitTypes, PTL DEF Spec

-----------------------------------------------------------------------------
(* Who deleted the accounts.                                               *)

\* An address some account has, or had.
Known(e) == \E k \in Accounts : account[k].email = e

\* Who deletes has an account, or had one when he logged in; unless it could not
\* be read, it is not the one to delete.
DeleterInv ==
    \A t \in Requests :
        /\ pc[t] \in {"check", "remove"} => Known(addr[t])
        /\ pc[t] = "remove" /\ ~blind
             => row[t] \notin present \/ account[row[t]].email # addr[t]

ByInv ==
    \A i \in Accounts : i \notin present =>
        Known(by[i]) /\ (~blind => by[i] # account[i].email)

LockInv == DeleterInv /\ ByInv

\* A request that does not come closer to a deletion.
Calm(t) == pc'[t] \in {"check", "remove"} =>
               pc'[t] = pc[t] /\ addr'[t] = addr[t] /\ row'[t] = row[t]

LEMMA CalmLock ==
    ASSUME TypeOK, LockInv, blind' = blind, \A t \in Requests : Calm(t),
           Accounts \subseteq Accounts',
           \A i \in Accounts : /\ account'[i] = account[i] /\ by'[i] = by[i]
                               /\ i \in present' <=> i \in present,
           \A i \in Accounts' : i \in Accounts \/ i \in present'
    PROVE  LockInv'
<1>1. ASSUME NEW e, Known(e)
      PROVE  Known(e)'
    BY <1>1 DEF Known
<1>2. ASSUME NEW t \in Requests, pc'[t] \in {"check", "remove"}
      PROVE  /\ Known(addr[t])'
             /\ pc'[t] = "remove" /\ ~blind'
                  => row'[t] \notin present' \/ account'[row'[t]].email # addr'[t]
    <2>1. pc'[t] = pc[t] /\ addr'[t] = addr[t] /\ row'[t] = row[t]
        BY <1>2 DEF Calm
    <2>2. row[t] \in Accounts
        BY <1>2, <2>1 DEF TypeOK, RequestType
    <2>3. /\ Known(addr[t])
          /\ pc[t] = "remove" /\ ~blind
                  => row[t] \notin present \/ account[row[t]].email # addr[t]
        BY <1>2, <2>1 DEF LockInv, DeleterInv
    <2>4. \E k \in Accounts' : account'[k].email = addr'[t]
        BY <2>1, <2>3 DEF Known
    <2> QED
        BY <2>1, <2>2, <2>3, <2>4 DEF Known
<1>3. DeleterInv'
    BY <1>2 DEF DeleterInv
<1>4. ASSUME NEW i \in Accounts', i \notin present'
      PROVE  Known(by[i])' /\ (~blind' => by'[i] # account'[i].email)
    <2>1. i \in Accounts /\ i \notin present
        BY <1>4
    <2>2. Known(by[i]) /\ (~blind => by[i] # account[i].email)
        BY <2>1 DEF LockInv, ByInv
    <2> QED
        BY <2>1, <2>2 DEF Known
<1> QED
    BY <1>3, <1>4 DEF LockInv, ByInv

LEMMA RowsLock ==
    ASSUME TypeOK, LockInv,
           \/ \E e \in Emails : InsertByHand(e)
           \/ \E c \in Containers : Start(c)
    PROVE  LockInv'
<1>1. /\ UNCHANGED <<request, blind>>
      /\ (\E e \in Emails, role \in Roles : Insert(e, role)) \/ UNCHANGED rows
    <2>1. ASSUME NEW e \in Emails, InsertByHand(e)
          PROVE  <1>1!1 /\ <1>1!2
        <3>1. PICK role \in HandRoles : Insert(e, role)
            BY <2>1 DEF InsertByHand
        <3>2. role \in Roles
            OBVIOUS
        <3> QED
            BY <2>1, <3>1, <3>2 DEF InsertByHand, history
    <2>2. ASSUME NEW c \in Containers, Start(c)
          PROVE  <1>1!1 /\ <1>1!2
        <3>1. Seed[c] \in Emails /\ "super_admin" \in Roles
            BY DEF Roles
        <3>2. UNCHANGED <<request, blind>>
            BY <2>2 DEF Start, StartUp, SeedAccount, SeedFails, Stop, history
        <3>3. Insert(Seed[c], "super_admin") \/ UNCHANGED rows
            BY <2>2 DEF Start, StartUp, SeedAccount, SeedFails, Stop
        <3> QED
            BY <3>1, <3>2, <3>3
    <2> QED
        BY <2>1, <2>2
<1>2. blind' = blind /\ \A t \in Requests : Calm(t)
    BY <1>1 DEF request, Calm
<1>3. CASE UNCHANGED rows
    <2>1. Accounts' = Accounts /\ UNCHANGED <<account, present, by>>
        BY <1>3 DEF rows, Accounts
    <2> QED
        BY <1>2, <2>1, CalmLock
<1>4. ASSUME NEW e \in Emails, NEW role \in Roles, Insert(e, role)
      PROVE  LockInv'
    <2>1. /\ Accounts \subseteq Accounts' /\ Len(account') = Len(account) + 1
          /\ \A i \in Accounts : account'[i] = account[i] /\ by'[i] = by[i]
          /\ present' = present \cup {Len(account) + 1} /\ Len(account) \in Nat
        BY <1>4, Inserted DEF TypeOK, RowType
    <2>2. \A i \in Accounts : i \in present' <=> i \in present
        BY <2>1 DEF Accounts
    <2>3. \A i \in Accounts' : i \in Accounts \/ i \in present'
        BY <2>1 DEF Accounts
    <2> QED
        BY <1>2, <2>1, <2>2, <2>3, CalmLock
<1> QED
    BY <1>1, <1>3, <1>4

\* Every session was opened for an account.
LEMMA AskDeleteLock ==
    ASSUME TypeOK, LockInv, NEW t \in Requests, NEW s \in Sessions, NEW i \in Accounts,
           AskDelete(t, s, i)
    PROVE  LockInv'
<1> DEFINE e == account[session[s].user].email
<1>1. Known(e)
    BY Owned DEF Known
<1> HIDE DEF e
<1>2. /\ UNCHANGED <<account, present, by, blind>> /\ pc' = [pc EXCEPT ![t] = "check"]
      /\ addr' = [addr EXCEPT ![t] = e] /\ row' = [row EXCEPT ![t] = i]
    BY DEF AskDelete, Step, rows, history, e
<1>3. ByInv'
    BY <1>2 DEF LockInv, ByInv, Known, Accounts
<1>4. ASSUME NEW u \in Requests
      PROVE  /\ pc'[u] \in {"check", "remove"} => Known(addr'[u])
             /\ pc'[u] = "remove" /\ ~blind'
                  => row'[u] \notin present' \/ account'[row'[u]].email # addr'[u]
    BY <1>1, <1>2 DEF LockInv, DeleterInv, TypeOK, RequestType
<1>5. DeleterInv'
    <2>1. \A x : Known(x) => Known(x)'
        BY <1>2 DEF Known, Accounts
    <2>2. ASSUME NEW u \in Requests, pc'[u] \in {"check", "remove"}
          PROVE  Known(addr[u])'
        BY <1>2, <1>4, <2>2 DEF Known, Accounts
    <2> QED
        BY <1>4, <2>2 DEF DeleterInv
<1> QED
    BY <1>3, <1>5 DEF LockInv

LEMMA CheckTargetLock ==
    ASSUME TypeOK, LockInv, NEW t \in Requests, CheckTarget(t)
    PROVE  LockInv'
<1>1. /\ UNCHANGED <<account, present, by>> /\ pc[t] = "check" /\ Accounts' = Accounts
    BY DEF CheckTarget, rows, Accounts
<1>2. CASE Finish(t) /\ blind' = blind
    <2>1. \A u \in Requests : Calm(u)
        BY <1>2 DEF Calm, Finish, Step, TypeOK, RequestType
    <2> QED
        BY <1>1, <1>2, <2>1, CalmLock
<1>3. CASE /\ Step(t, "remove") /\ UNCHANGED <<addr, row>>
           /\ \/ blind' = blind /\ row[t] \notin RowOf(addr[t])
              \/ blind' = TRUE
    <2>1. ASSUME NEW i \in Accounts, i \notin present'
          PROVE  Known(by[i])' /\ (~blind' => by'[i] # account'[i].email)
        <3>1. Known(by[i]) /\ (~blind => by[i] # account[i].email)
            BY <1>1, <2>1 DEF LockInv, ByInv
        <3>2. ~blind' => ~blind
            BY <1>3
        <3> QED
            BY <1>1, <3>1, <3>2 DEF Known
    <2>2. ASSUME NEW u \in Requests
          PROVE  /\ pc'[u] \in {"check", "remove"} => Known(addr[u])'
                 /\ pc'[u] = "remove" /\ ~blind'
                      => row'[u] \notin present' \/ account'[row'[u]].email # addr'[u]
        <3>1. pc'[u] = IF u = t THEN "remove" ELSE pc[u]
            BY <1>3 DEF Step, TypeOK, RequestType
        <3>2. Known(addr[u])' <=> Known(addr[u])
            BY <1>1, <1>3 DEF Known
        <3>3. CASE u # t
            BY <1>1, <1>3, <3>1, <3>2, <3>3 DEF LockInv, DeleterInv
        <3>4. CASE u = t
            BY <1>1, <1>3, <3>1, <3>2, <3>4 DEF LockInv, DeleterInv, RowOf
        <3> QED
            BY <3>3, <3>4
    <2> QED
        BY <1>1, <2>1, <2>2 DEF LockInv, DeleterInv, ByInv
<1> QED
    BY <1>2, <1>3 DEF CheckTarget, history

LEMMA RemoveLock ==
    ASSUME TypeOK, LockInv, NEW t \in Requests, Remove(t)
    PROVE  LockInv'
<1>1. /\ UNCHANGED <<account, blind>> /\ pc[t] = "remove" /\ Finish(t) /\ Accounts' = Accounts
      /\ \/ UNCHANGED <<present, by>>
         \/ /\ row[t] \in present /\ present' = present \ {row[t]}
            /\ by' = [by EXCEPT ![row[t]] = addr[t]]
    BY DEF Remove, history, Accounts
<1>2. \A u \in Requests : Calm(u)
    BY <1>1 DEF Calm, Finish, Step, TypeOK, RequestType
<1>3. CASE UNCHANGED <<present, by>>
    BY <1>1, <1>2, <1>3, CalmLock
<1>4. CASE /\ row[t] \in present /\ present' = present \ {row[t]}
           /\ by' = [by EXCEPT ![row[t]] = addr[t]]
    <2>1. \A e : Known(e)' <=> Known(e)
        BY <1>1 DEF Known
    <2>2. ASSUME NEW u \in Requests
          PROVE  /\ pc'[u] \in {"check", "remove"} => Known(addr[u])'
                 /\ pc'[u] = "remove" /\ ~blind'
                      => row'[u] \notin present' \/ account'[row'[u]].email # addr'[u]
        <3>1. pc'[u] \in {"check", "remove"} =>
                  pc'[u] = pc[u] /\ addr'[u] = addr[u] /\ row'[u] = row[u]
            BY <1>2 DEF Calm
        <3>2. pc[u] \in {"check", "remove"} => \E k \in Accounts : account[k].email = addr[u]
            BY DEF LockInv, DeleterInv, Known
        <3>3. pc'[u] \in {"check", "remove"} => Known(addr[u])'
            BY <1>1, <3>1, <3>2 DEF Known
        <3> QED
            BY <1>1, <1>4, <3>1, <3>3 DEF LockInv, DeleterInv
    <2>3. Known(addr[t]) /\ (~blind => account[row[t]].email # addr[t])
        BY <1>1, <1>4 DEF LockInv, DeleterInv
    <2>4. by \in Seq(Emails \cup {Nobody}) /\ Accounts = 1 .. Len(by)
        BY DEF TypeOK, RowType, Accounts
    <2>5. \A i \in Accounts : by'[i] = IF i = row[t] THEN addr[t] ELSE by[i]
        BY <1>4, <2>4
    <2>6. ASSUME NEW i \in Accounts, i \notin present'
          PROVE  Known(by[i])' /\ (~blind' => by'[i] # account'[i].email)
        <3>1. CASE i = row[t]
            BY <1>1, <2>3, <2>5, <3>1 DEF Known
        <3>2. CASE i # row[t]
            <4>1. i \notin present /\ by'[i] = by[i]
                BY <1>4, <2>5, <2>6, <3>2
            <4> QED
                BY <1>1, <4>1 DEF LockInv, ByInv, Known
        <3> QED
            BY <3>1, <3>2
    <2> QED
        BY <1>1, <2>2, <2>6 DEF LockInv, DeleterInv, ByInv
<1> QED
    BY <1>1, <1>3, <1>4

LEMMA NextLock == TypeOK /\ LockInv /\ [Next]_vars => LockInv'
<1> SUFFICES ASSUME TypeOK, LockInv, [Next]_vars
             PROVE  LockInv'
    OBVIOUS
<1>1. ASSUME UNCHANGED <<account, present, by, blind>>, \A t \in Requests : Calm(t)
      PROVE  LockInv'
    <2>1. Accounts' = Accounts
        BY <1>1 DEF Accounts
    <2> QED
        BY <1>1, <2>1, CalmLock
<1>2. ASSUME \/ \E e \in Emails : ExpireCode(e)
             \/ \E s \in Sessions : EndSession(s)
             \/ \E s \in Sessions, e \in Emails, role \in Roles : AddUser(s, e, role)
             \/ UNCHANGED vars
      PROVE  LockInv'
    <2>1. UNCHANGED <<account, present, by, blind, pc, addr, row>>
        BY <1>2 DEF ExpireCode, EndSession, AddUser, vars, rows, request, history
    <2> QED
        BY <1>1, <2>1 DEF Calm
<1>3. ASSUME NEW t \in Requests, Login(t) \/ Abandon(t)
      PROVE  LockInv'
    <2>1. UNCHANGED <<account, present, by, blind>>
        BY <1>3 DEF Login, AskCode, StoreCode, MailCode, CheckCode, SpendCode,
                    FindAccount, OpenSession, Abandon, rows, history
    <2>2. /\ pc'[t] \notin {"check", "remove"}
          /\ \A u \in Requests \ {t} : UNCHANGED <<pc[u], addr[u], row[u]>>
        BY <1>3 DEF Login, AskCode, StoreCode, MailCode, CheckCode, SpendCode,
                    FindAccount, OpenSession, Abandon, Finish, Step, request,
                    TypeOK, RequestType
    <2>3. \A u \in Requests : Calm(u)
        BY <2>2 DEF Calm
    <2> QED
        BY <1>1, <2>1, <2>3
<1> QED
    BY <1>2, <1>3, RowsLock, AskDeleteLock, CheckTargetLock, RemoveLock DEF Next, Delete

\* Once all accounts are deleted, not all by the same address: each is deleted by
\* an address other than its own, that of an account that is deleted as well
\* (deleteAdminUser).
THEOREM TwoLockOut == Spec => []LockoutTakesTwo
<1>1. Init => LockInv
    BY DEF Init, LockInv, DeleterInv, ByInv, Accounts
<1>2. TypeOK /\ LockInv /\ [Next]_vars => (TypeOK /\ LockInv)'
    BY NextTypes, NextLock
<1>3. TypeOK /\ LockInv => LockoutTakesTwo
    <2> SUFFICES ASSUME TypeOK, LockInv, present = {}, account # <<>>, ~blind
                 PROVE  \E i, k \in Accounts : by[i] # by[k]
        BY DEF LockoutTakesTwo
    <2>1. 1 \in Accounts
        <3>1. account \in Seq([email : Emails, role : Roles])
            BY DEF TypeOK, RowType
        <3> QED
            BY <3>1, EmptySeq DEF Accounts
    <2>2. PICK k \in Accounts : account[k].email = by[1]
        BY <2>1 DEF LockInv, ByInv, Known
    <2>3. by[k] # account[k].email
        BY DEF LockInv, ByInv
    <2> QED
        BY <2>1, <2>2, <2>3
<1> QED
    BY <1>1, <1>2, <1>3, InitTypes, PTL DEF Spec
=============================================================================
