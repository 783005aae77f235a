----------------------------- MODULE WorkLease -----------------------------
(***************************************************************************)
(* What the job queue promises, with the database, the budget and the Run  *)
(* row left out: a Job is worked by at most one worker slot at a time, is  *)
(* put back only when nobody works it, and once it has finished or has     *)
(* been cancelled it never comes back by itself.  JobQueue implements it   *)
(* under the assumptions its runs name.                                    *)
(***************************************************************************)
EXTENDS FiniteSets

CONSTANTS Jobs, Slots

VARIABLES
    status,   \* [Jobs -> Status]
    holders   \* [Jobs -> SUBSET Slots]: the slots at work on a Job

vars == <<status, holders>>

Stopped == {"failed", "terminated", "paused_on_budget"}
Status == Stopped \union {"none", "queued", "running", "done", "cancelled"}

Init ==
    /\ status = [j \in Jobs |-> "none"]
    /\ holders = [j \in Jobs |-> {}]

Enqueue(j) ==
    /\ status[j] = "none"
    /\ status' = [status EXCEPT ![j] = "queued"]
    /\ UNCHANGED holders

\* A slot takes a queued Job that nobody holds.
Claim(s, j) ==
    /\ status[j] = "queued"
    /\ holders[j] = {}
    /\ status' = [status EXCEPT ![j] = "running"]
    /\ holders' = [holders EXCEPT ![j] = {s}]

\* Only a slot that holds the Job says how it ended.
Finish(s, j, outcome) ==
    /\ s \in holders[j]
    /\ status[j] = "running"
    /\ status' = [status EXCEPT ![j] = outcome]
    /\ holders' = [holders EXCEPT ![j] = {}]

\* Queued Jobs are called off, all of them in one act.
Withdraw(S) ==
    /\ \A j \in S : status[j] = "queued"
    /\ status' = [j \in Jobs |-> IF j \in S THEN "cancelled" ELSE status[j]]
    /\ UNCHANGED holders

\* Stopped Jobs, and running Jobs whose worker is gone, are put back.
Return(S) ==
    /\ \A j \in S : /\ status[j] \in Stopped \union {"running"}
                    /\ holders[j] = {}
    /\ status' = [j \in Jobs |-> IF j \in S THEN "queued" ELSE status[j]]
    /\ UNCHANGED holders

\* The worker process dies and drops everything it held.
Lose ==
    /\ holders' = [j \in Jobs |-> {}]
    /\ UNCHANGED status

Next ==
    \/ \E j \in Jobs : Enqueue(j)
    \/ \E s \in Slots, j \in Jobs : Claim(s, j)
    \/ \E s \in Slots, j \in Jobs, outcome \in Stopped \union {"done"} :
            Finish(s, j, outcome)
    \/ \E S \in SUBSET Jobs : Withdraw(S) \/ Return(S)
    \/ Lose

Spec == Init /\ [][Next]_vars
=============================================================================
