---------------------------- MODULE SyncJobContract ----------------------------
(***************************************************************************)
(* What a row of sync_jobs promises to those who read it, for the jobs of  *)
(* one type of one store: jobs are claimed one after the other, a claim    *)
(* leaves no other job active, only a job that a worker has started        *)
(* succeeds, and a job that has ended stays as it ended.                   *)
(*                                                                         *)
(* The three refreshes each write this table with queries of their own,    *)
(* from launches, workers, timeouts and failure handlers that overlap.     *)
(* StoreRefresh, ComplianceCycle and RuleRefresh implement this contract.  *)
(***************************************************************************)
EXTENDS Naturals

CONSTANT MaxJobs    \* bound on the jobs

VARIABLE state      \* sync_jobs.state of each job, "none" before it is claimed

Jobs   == 1..MaxJobs
Active == {"queued", "running"}
Ended  == {"succeeded", "failed"}

Init == state = [j \in Jobs |-> "none"]

\* The next job is claimed; one that was still active has timed out.
Claim(j) ==
    /\ \A k \in Jobs : state[k] = "none" <=> k >= j
    /\ state' = [k \in Jobs |->
          IF k = j THEN "queued" ELSE IF state[k] \in Active THEN "failed" ELSE state[k]]

\* A worker starts the job, or starts it again.
Start(j) ==
    /\ state[j] \in Active
    /\ state' = [state EXCEPT ![j] = "running"]

\* An attempt has stored everything.
Succeed(j) ==
    /\ state[j] = "running"
    /\ state' = [state EXCEPT ![j] = "succeeded"]

\* An attempt or a launch fails, or the job was quiet for too long.
Fail(j) ==
    /\ state[j] \in Active
    /\ state' = [state EXCEPT ![j] = "failed"]

Next == \E j \in Jobs : Claim(j) \/ Start(j) \/ Succeed(j) \/ Fail(j)

Spec == Init /\ [][Next]_state

-----------------------------------------------------------------------------
(* What readers of the table may rely on                                   *)

\* Never two jobs at once, and the active one is the newest.
NewestIsActive ==
    \A j \in Jobs : state[j] \in Active => \A k \in Jobs : k > j => state[k] = "none"

\* A job that has ended is never taken up again and keeps its result.
EndsStay   == \A j \in Jobs : state[j] \in Ended => state'[j] = state[j]
EndIsFinal == [][EndsStay]_state
=============================================================================
