----------------------------- MODULE JobService -----------------------------
(***************************************************************************)
(* What the service promises about a job, seen from outside: its row, the  *)
(* mails the mail server accepted, the attempts made and the replays asked *)
(* for.  Stream, workers and DLQ are gone.  Delivery implements it.        *)
(***************************************************************************)
EXTENDS Naturals

CONSTANTS
    Jobs,       \* the jobs
    Limit,      \* MAX_RETRIES, the same in every container
    MaxReplays  \* bound: replay requests per job

ASSUME LimitAssumption == Limit \in Nat
ASSUME ReplaysAssumption == MaxReplays \in Nat

VARIABLES
    status,  \* status of the job's row, or "none"
    mails,   \* mails accepted
    tries,   \* attempts begun
    again    \* replays requested

vars == <<status, mails, tries, again>>

Init ==
    /\ status = [j \in Jobs |-> "none"]
    /\ mails = [j \in Jobs |-> 0]
    /\ tries = [j \in Jobs |-> 0]
    /\ again = [j \in Jobs |-> 0]

\* The job is stored.
Accept(j) ==
    /\ status[j] = "none"
    /\ status' = [status EXCEPT ![j] = "pending"]
    /\ UNCHANGED <<mails, tries, again>>

\* A worker takes the job up: MAX_RETRIES + 1 times, and once more per replay.
Try(j) ==
    /\ status[j] # "none"
    /\ tries[j] < Limit + 1 + again[j]
    /\ tries' = [tries EXCEPT ![j] = @ + 1]
    /\ UNCHANGED <<status, mails, again>>

\* An attempt leads to one mail at most.
Mail(j) ==
    /\ mails[j] < tries[j]
    /\ mails' = [mails EXCEPT ![j] = @ + 1]
    /\ UNCHANGED <<status, tries, again>>

\* Delivered is only said of a job that was mailed.  Without a replay the row
\* is written once.
ReportDelivered(j) ==
    /\ mails[j] > 0
    /\ again[j] = 0 => status[j] = "pending"
    /\ status' = [status EXCEPT ![j] = "delivered"]
    /\ UNCHANGED <<mails, tries, again>>

\* Failed is only said when all attempts are used up, and then the last
\* attempt's outcome may overwrite what an earlier one reported.
ReportFailed(j) ==
    /\ tries[j] > Limit
    /\ again[j] = 0 => status[j] = "pending"
    /\ status' = [status EXCEPT ![j] = "failed"]
    /\ UNCHANGED <<mails, tries, again>>

\* Only a job that used up its attempts can be replayed (bound: MaxReplays).
Again(j) ==
    /\ tries[j] > Limit
    /\ again[j] < MaxReplays
    /\ again' = [again EXCEPT ![j] = @ + 1]
    /\ UNCHANGED <<status, mails, tries>>

Next == \E j \in Jobs : Accept(j) \/ Try(j) \/ Mail(j) \/ ReportDelivered(j)
                            \/ ReportFailed(j) \/ Again(j)

Spec == Init /\ [][Next]_vars

-----------------------------------------------------------------------------
TypeOK ==
    /\ status \in [Jobs -> {"none", "pending", "delivered", "failed"}]
    /\ mails \in [Jobs -> Nat]
    /\ tries \in [Jobs -> Nat]
    /\ again \in [Jobs -> Nat]

\* An attempt leads to one mail at most and there are MAX_RETRIES + 1 of them, and
\* one more for each replay (worker.go:84-87, 128; module_admin.go:105-119).  The
\* actions above are made so; that the code's are is for Delivery to show.
Budget == \A j \in Jobs : mails[j] <= tries[j] /\ tries[j] <= Limit + 1 + again[j]

\* A job is only called failed when the attempts of its limit have been made
\* (worker.go:128-137).
FailedAfterAll ==
    \A j \in Jobs : status[j] = "failed" => tries[j] >= Limit + 1

=============================================================================
