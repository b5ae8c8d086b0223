------------------------------ MODULE RuleRefresh ------------------------------
(***************************************************************************)
(* The refresh of SHEIN's publishing rules for one store                   *)
(* (rule-refresh-service.js, rule-refresh-scheduler.js): an administrator  *)
(* or the monthly scheduler claims a job, a worker reads the official      *)
(* category tree and then the schema of every target in parallel lanes     *)
(* that share one progress record, and a failed job can be retried for the *)
(* targets it recorded as failed.                                          *)
(*                                                                         *)
(* External: SHEIN, which answers or refuses; BullMQ; the list of sync     *)
(* jobs, which times jobs out.                                             *)
(*                                                                         *)
(* Abstractions.  A target is a number, its place in the list of targets,  *)
(* and its snapshots (attribute template and publish standard) are one.    *)
(* The model spans one month, so has_full_refresh asks about all jobs.     *)
(* Time is two flags: the window of the schedule is open, and a job was    *)
(* not updated for fifteen minutes.  getFailedTargets reads a job that has *)
(* ended and can no longer change, so it is part of the claim.             *)
(***************************************************************************)
EXTENDS Naturals, FiniteSets, Sequences

CONSTANTS
    Workers,        \* handler slots of the refresh workers
    Launchers,      \* control servers, one launch at a time each
    Schedulers,     \* workers with the schedule loop
    Nobody,         \* no slot, no scheduler
    NTargets,       \* targets of a full refresh at most
    Lanes,          \* targetConcurrency
    MaxJobs,        \* bound on refreshes
    MaxAttempts,    \* attempts of a queue entry
    MaxFaults       \* bound on failures, deaths, lapsed and lost locks

ASSUME ProcessAssumption ==
    /\ Nobody \notin Workers \cup Schedulers
    /\ Launchers \cap Schedulers = {}
ASSUME BoundsAssumption ==
    /\ {NTargets, Lanes, MaxJobs, MaxAttempts} \subseteq Nat \ {0}
    /\ MaxFaults \in Nat

VARIABLES
    job,            \* sync_jobs: state, scope, the retried job and the error of each
    progress,       \* sync_jobs.progress: succeeded and failedTargets
    quiet,          \* jobs whose updated_at is past the timeout
    entry,          \* BullMQ: the state of the job's entry
    lock,           \* BullMQ: the slot that holds the entry
    tries,          \* BullMQ: failed attempts of the entry
    unrecorded,     \* failed events of the queue whose recordQueueFailure is under way
    slot,           \* the attempt in each slot
    strays,         \* lanes that go on after their attempt has failed
    launch,         \* what each launcher and scheduler is doing
    advisory,       \* the holder of each advisory lock of the schedule
    due,            \* the window of the monthly schedule is open
    snapshots,      \* shein_rule_snapshots of each target
    goal,           \* the targets of the attempt that ended a job
    stored,         \* the targets that attempts of a job stored
    lockLost,       \* a scheduler went on after its connection was lost
    faults          \* faults so far

jobVars   == <<job, progress, quiet>>
queueVars == <<entry, lock, tries, unrecorded>>
workVars  == <<slot, strays>>
planVars  == <<launch, advisory, due>>
pastVars  == <<goal, stored, lockLost>>
vars == <<jobVars, queueVars, workVars, planVars, snapshots, pastVars, faults>>

Jobs    == 1..MaxJobs
Targets == 1..NTargets
Starters == Launchers \cup Schedulers

NoProgress == [ok |-> 0, bad |-> {}]
NoJob      == [state |-> "none", scope |-> "all", retries |-> 0, code |-> "none", by |-> "none"]
IdleSlot   == [step |-> "none", job |-> 0, targets |-> {}, left |-> {}, reading |-> {},
               mem |-> NoProgress, writes |-> <<>>]
IdleLaunch == [step |-> "none", job |-> 0, by |-> "none"]

Active(j) == job[j].state \in {"queued", "running"}
Newest    == Cardinality({j \in Jobs : job[j].state # "none"})

Init ==
    /\ job = [j \in Jobs |-> NoJob]
    /\ progress = [j \in Jobs |-> NoProgress]
    /\ quiet = {}
    /\ entry = [j \in Jobs |-> "none"]
    /\ lock = [j \in Jobs |-> Nobody]
    /\ tries = [j \in Jobs |-> 0]
    /\ unrecorded = {}
    /\ slot = [w \in Workers |-> IdleSlot]
    /\ strays = {}
    /\ launch = [p \in Starters |-> IdleLaunch]
    /\ advisory = [key \in {"due", "expired"} |-> Nobody]
    /\ due = FALSE
    /\ snapshots = [t \in Targets |-> "none"]
    /\ goal = [j \in Jobs |-> {}]
    /\ stored = [j \in Jobs |-> {}]
    /\ lockLost = FALSE
    /\ faults = 0

Fault == faults < MaxFaults /\ faults' = faults + 1

-----------------------------------------------------------------------------
(* Time and timeouts                                                       *)

Working(j) == \E w \in Workers : slot[w].job = j

\* An attempt updates its job with every target; that it does not is a fault.
JobLapses(j) ==
    /\ Active(j) /\ j \notin quiet
    /\ IF Working(j) THEN Fault ELSE UNCHANGED faults
    /\ quiet' = quiet \cup {j}
    /\ UNCHANGED <<job, progress, queueVars, workVars, planVars, snapshots, pastVars>>

\* Mutant: only a job that was started is timed out.
StartedOnly(j) == job[j].state = "running" /\ j \in quiet

\* The timeout of a job that was not updated for too long.
TimedOut(j) == Active(j) /\ j \in quiet

\* Mutant: a state of its own for jobs that failed outside of an attempt.
Abandoned(j) == [job[j] EXCEPT !.state = "abandoned", !.code = "other"]

Failed(j) == [job[j] EXCEPT !.state = "failed", !.code = "other"]

AfterTimeout == [j \in Jobs |-> IF TimedOut(j) THEN Failed(j) ELSE job[j]]
NoneActive(jobs) == \A j \in Jobs : jobs[j].state \notin {"queued", "running"}

\* The jobs take their new states; the age of an ended job does not matter.
JobsTo(jobs) ==
    /\ job' = jobs
    /\ quiet' = {j \in quiet : jobs[j].state \in {"queued", "running"}}

\* getActive, and the list of sync jobs.
ListSyncJobs ==
    /\ JobsTo(AfterTimeout)
    /\ job' # job
    /\ UNCHANGED <<progress, queueVars, workVars, planVars, snapshots, pastVars, faults>>

WindowTurns ==
    /\ due' = ~due
    /\ UNCHANGED <<jobVars, queueVars, workVars, launch, advisory, snapshots, pastVars, faults>>

\* A stored schema is valid for half an hour.
SnapshotExpires(t) ==
    /\ snapshots[t] = "fresh"
    /\ snapshots' = [snapshots EXCEPT ![t] = "expired"]
    /\ UNCHANGED <<jobVars, queueVars, workVars, planVars, pastVars, faults>>

-----------------------------------------------------------------------------
(* startRefresh                                                            *)

\* A job may be retried when it failed and recorded failed targets.
Retryable(r) == job[r].state = "failed" /\ progress[r].bad # {}

\* claimRefresh: old jobs time out, and without an active job a new one is
\* claimed, by the launcher or scheduler that then has to queue it.
ClaimRefresh(p, scope, r, after) ==
    /\ Newest < MaxJobs
    /\ IF NoneActive(AfterTimeout)
       THEN LET j == Newest + 1 IN
            /\ JobsTo([AfterTimeout EXCEPT ![j] =
                  [state |-> "queued", scope |-> scope, retries |-> r, code |-> "none",
                   by |-> launch[p].by]])
            /\ launch' = [launch EXCEPT ![p].step = "add", ![p].job = j]
       ELSE /\ JobsTo(AfterTimeout)
            /\ launch' = [launch EXCEPT ![p].step = after]
    /\ UNCHANGED <<progress, queueVars, workVars, advisory, due, snapshots, pastVars, faults>>

\* An administrator asks for a refresh, or for the retry of a failed one,
\* which has the scope of the job it retries.
StartRefresh(p) ==
    /\ p \in Launchers /\ launch[p].step = "none"
    /\ \/ \E scope \in {"referenced", "all"} : ClaimRefresh(p, scope, 0, "none")
       \/ \E r \in Jobs : Retryable(r) /\ ClaimRefresh(p, job[r].scope, r, "none")

\* A launch that is over: a scheduler goes on to prune.
Launched(p) ==
    launch' = [launch EXCEPT ![p] =
        IF p \in Schedulers THEN [@ EXCEPT !.step = "prune", !.job = 0] ELSE IdleLaunch]

\* queue.add with the job's id, which is new.
Added(j) == entry' = [entry EXCEPT ![j] = "waiting"]

AddJob(p) ==
    /\ launch[p].step = "add"
    /\ Added(launch[p].job)
    /\ Launched(p)
    /\ UNCHANGED <<jobVars, lock, tries, unrecorded, workVars, advisory, due, snapshots,
                   pastVars, faults>>

\* The add fails, with or without effect on the queue.
AddFails(p) ==
    /\ launch[p].step = "add"
    /\ Fault
    /\ UNCHANGED entry \/ Added(launch[p].job)
    /\ launch' = [launch EXCEPT ![p].step = "fail"]
    /\ UNCHANGED <<jobVars, lock, tries, unrecorded, workVars, advisory, due, snapshots, pastVars>>

\* saveFailure without progress: an active job fails and keeps its progress.
FailKeeping(j) == JobsTo([job EXCEPT ![j] = IF Active(j) THEN Failed(j) ELSE @])

\* COALESCE: without progress of its own, a failure keeps the stored one.
Kept(j) == progress

FailLaunch(p) ==
    /\ launch[p].step = "fail"
    /\ FailKeeping(launch[p].job)
    /\ progress' = Kept(launch[p].job)
    /\ Launched(p)
    /\ UNCHANGED <<queueVars, workVars, advisory, due, snapshots, pastVars, faults>>

-----------------------------------------------------------------------------
(* The scheduler                                                           *)

Expired == {t \in Targets : snapshots[t] = "expired"}
FullRefreshes == {j \in Jobs : job[j].state # "none" /\ job[j].scope = "all"}

\* In the window, or when some snapshot has expired, take the advisory lock
\* of this kind of run; without it there is nothing to do.
Wake(s) ==
    LET key == IF due THEN "due" ELSE "expired" IN
    /\ launch[s].step = "none"
    /\ due \/ Expired # {}
    /\ advisory[key] = Nobody
    /\ advisory' = [advisory EXCEPT ![key] = s]
    /\ launch' = [launch EXCEPT ![s] = [step |-> "list", job |-> 0, by |-> key]]
    /\ UNCHANGED <<jobVars, queueVars, workVars, due, snapshots, pastVars, faults>>

\* Mutant: the jobs of this month are not looked at.
EveryStore(key) == key = "due" \/ Expired # {}

\* The store is not skipped: outside the window it has an expired snapshot,
\* in the window no full refresh of this month.
Wanted(key) == IF key = "due" THEN FullRefreshes = {} ELSE Expired # {}

ListStores(s) ==
    /\ launch[s].step = "list"
    /\ launch' = [launch EXCEPT ![s].step = IF Wanted(launch[s].by) THEN "claim" ELSE "prune"]
    /\ UNCHANGED <<jobVars, queueVars, workVars, advisory, due, snapshots, pastVars, faults>>

StartScheduled(s) ==
    /\ launch[s].step = "claim"
    /\ ClaimRefresh(s, "all", 0, "prune")

\* The run is over; a scheduler that still has its lock gives it back.
Unlock(s) ==
    /\ launch' = [launch EXCEPT ![s] = IdleLaunch]
    /\ advisory' = [key \in DOMAIN advisory |-> IF advisory[key] = s THEN Nobody ELSE advisory[key]]

\* prune_shein_rule_snapshots deletes at most 500 of the expired snapshots.
Prune(s) ==
    /\ launch[s].step = "prune"
    /\ \E gone \in SUBSET Expired :
          snapshots' = [t \in Targets |-> IF t \in gone THEN "none" ELSE snapshots[t]]
    /\ Unlock(s)
    /\ UNCHANGED <<jobVars, queueVars, workVars, due, pastVars, faults>>

\* A query of the scheduler fails.
ScheduleFails(s) ==
    /\ launch[s].step \in {"list", "prune"}
    /\ Fault
    /\ Unlock(s)
    /\ UNCHANGED <<jobVars, queueVars, workVars, due, snapshots, pastVars>>

\* The claim of a scheduled refresh fails: the error is counted.
ClaimFails(s) ==
    /\ launch[s].step = "claim"
    /\ Fault
    /\ launch' = [launch EXCEPT ![s].step = "prune"]
    /\ UNCHANGED <<jobVars, queueVars, workVars, advisory, due, snapshots, pastVars>>

\* The connection that holds the lock is lost, which its scheduler learns later.
LoseLock(key) ==
    /\ advisory[key] # Nobody
    /\ Fault
    /\ advisory' = [advisory EXCEPT ![key] = Nobody]
    /\ lockLost' = TRUE
    /\ UNCHANGED <<jobVars, queueVars, workVars, launch, due, snapshots, goal, stored>>

-----------------------------------------------------------------------------
(* processRefreshJob                                                       *)

\* The attempt is over, if the slot still holds the entry.
Finished(w, j, outcome) ==
    /\ entry' = [entry EXCEPT ![j] = IF lock[j] = w THEN outcome ELSE @]
    /\ lock' = [lock EXCEPT ![j] = IF @ = w THEN Nobody ELSE @]

\* The attempt threw: the queue counts it and tells the worker of the failure.
Rejected(w, j) ==
    /\ Finished(w, j, IF tries[j] + 1 < MaxAttempts THEN "waiting" ELSE "failed")
    /\ tries' = [tries EXCEPT ![j] = IF lock[j] = w THEN @ + 1 ELSE @]
    /\ unrecorded' = IF lock[j] = w THEN unrecorded \cup {j} ELSE unrecorded

\* A free slot takes the entry and marks the job as running; the entry of a
\* job that has ended is skipped.
MarkRunning(w, j) ==
    /\ slot[w].step = "none"
    /\ entry[j] = "waiting"
    /\ IF Active(j)
       THEN /\ job' = [job EXCEPT ![j].state = "running"]
            /\ quiet' = quiet \ {j}
            /\ entry' = [entry EXCEPT ![j] = "active"]
            /\ lock' = [lock EXCEPT ![j] = w]
            /\ slot' = [slot EXCEPT ![w] = [IdleSlot EXCEPT !.step = "categories", !.job = j]]
       ELSE /\ entry' = [entry EXCEPT ![j] = "completed"]
            /\ UNCHANGED <<job, quiet, lock, slot>>
    /\ UNCHANGED <<progress, tries, unrecorded, strays, planVars, snapshots, pastVars, faults>>

\* markRunning itself fails: nothing of the attempt is recorded here.
MarkRunningFails(w, j) ==
    /\ slot[w].step = "none"
    /\ entry[j] = "waiting"
    /\ Fault
    /\ entry' = [entry EXCEPT ![j] = IF tries[j] + 1 < MaxAttempts THEN "waiting" ELSE "failed"]
    /\ tries' = [tries EXCEPT ![j] = @ + 1]
    /\ unrecorded' = unrecorded \cup {j}
    /\ UNCHANGED <<jobVars, lock, workVars, planVars, snapshots, pastVars>>

\* The tree is read.  A retry takes the failed targets of the job it retries,
\* which all have to be in the tree; otherwise the targets are those of the
\* tree, or those that drafts and templates refer to.
ReadTargets(w) ==
    /\ slot[w].step = "categories"
    /\ LET r == job[slot[w].job].retries IN
       \E found \in SUBSET Targets :
          LET targets == IF r = 0 THEN found ELSE progress[r].bad IN
          slot' = [slot EXCEPT ![w] =
              IF targets \subseteq found
              THEN [@ EXCEPT !.step = "reset", !.targets = targets]
              ELSE [@ EXCEPT !.step = "failEarly"]]
    /\ UNCHANGED <<jobVars, queueVars, strays, planVars, snapshots, pastVars, faults>>

\* SHEIN refuses the tree, or a query fails.
ReadTargetsFails(w) ==
    /\ slot[w].step = "categories"
    /\ slot' = [slot EXCEPT ![w].step = "failEarly"]
    /\ UNCHANGED <<jobVars, queueVars, strays, planVars, snapshots, pastVars, faults>>

\* The lanes that are free take the next targets.
Refilled(s) ==
    LET free == Lanes - Cardinality(s.reading) - Len(s.writes)
        next == {t \in s.left : Cardinality({u \in s.left : u < t}) < free}
    IN  [s EXCEPT !.left = @ \ next, !.reading = @ \cup next]

\* updateProgress: only a running job takes it.
WriteProgress(j, p) ==
    /\ progress' = [progress EXCEPT ![j] = IF job[j].state = "running" THEN p ELSE @]
    /\ quiet' = IF job[j].state = "running" THEN quiet \ {j} ELSE quiet

ResetProgress(w) ==
    /\ slot[w].step = "reset"
    /\ WriteProgress(slot[w].job, NoProgress)
    /\ slot' = [slot EXCEPT ![w] = Refilled([@ EXCEPT !.step = "work", !.left = slot[w].targets])]
    /\ UNCHANGED <<job, queueVars, strays, planVars, snapshots, pastVars, faults>>

\* A lane has read and stored the schema of its target; saveProgress.
Stored(s, t) ==
    LET mem == [s.mem EXCEPT !.ok = @ + 1] IN
    [s EXCEPT !.reading = @ \ {t}, !.mem = mem, !.writes = Append(@, mem)]

StoreTarget(w, t) ==
    /\ t \in slot[w].reading
    /\ snapshots' = [snapshots EXCEPT ![t] = "fresh"]
    /\ stored' = [stored EXCEPT ![slot[w].job] = @ \cup {t}]
    /\ slot' = [slot EXCEPT ![w] = Stored(@, t)]
    /\ UNCHANGED <<jobVars, queueVars, strays, planVars, goal, lockLost, faults>>

\* Mutant: the target replaces the failed ones before it.
LastMissed(s, t) ==
    LET mem == [s.mem EXCEPT !.bad = {t}] IN
    [s EXCEPT !.reading = @ \ {t}, !.mem = mem, !.writes = Append(@, mem)]

\* The schema is refused or not stored: the target is recorded as failed.
Missed(s, t) ==
    LET mem == [s.mem EXCEPT !.bad = @ \cup {t}] IN
    [s EXCEPT !.reading = @ \ {t}, !.mem = mem, !.writes = Append(@, mem)]

MissTarget(w, t) ==
    /\ t \in slot[w].reading
    /\ slot' = [slot EXCEPT ![w] = Missed(@, t)]
    /\ UNCHANGED <<jobVars, queueVars, strays, planVars, snapshots, pastVars, faults>>

\* The writes of the lanes are chained in the order of their calls.
SaveProgress(w) ==
    LET s == slot[w] IN
    /\ s.writes # <<>>
    /\ WriteProgress(s.job, Head(s.writes))
    /\ slot' = [slot EXCEPT ![w] = Refilled([s EXCEPT !.writes = Tail(s.writes)])]
    /\ UNCHANGED <<job, queueVars, strays, planVars, snapshots, pastVars, faults>>

\* A write fails: the attempt is over at once, while the lanes that wait for
\* SHEIN go on with the targets they have.
SaveProgressFails(w) ==
    LET s == slot[w] IN
    /\ s.step = "reset" \/ s.writes # <<>>
    /\ Fault
    /\ strays' = strays \cup {<<s.job, t>> : t \in s.reading}
    /\ slot' = [slot EXCEPT ![w].step = "fail", ![w].left = {}, ![w].reading = {},
                            ![w].writes = <<>>]
    /\ UNCHANGED <<jobVars, queueVars, planVars, snapshots, pastVars>>

StrayStores(j, t) ==
    /\ <<j, t>> \in strays
    /\ strays' = strays \ {<<j, t>>}
    /\ snapshots' = [snapshots EXCEPT ![t] = "fresh"]
    /\ stored' = [stored EXCEPT ![j] = @ \cup {t}]
    /\ UNCHANGED <<jobVars, queueVars, slot, planVars, goal, lockLost, faults>>

StrayEnds(j, t) ==
    /\ <<j, t>> \in strays
    /\ strays' = strays \ {<<j, t>>}
    /\ UNCHANGED <<jobVars, queueVars, slot, planVars, snapshots, pastVars, faults>>

\* Mutant: the first lane that finds no target left ends the work.
NoneLeft(s) == s.step = "work" /\ s.left = {}

\* All lanes are through and all their writes are done.
WorkDone(s) == s.step = "work" /\ s.left \cup s.reading = {} /\ s.writes = <<>>

\* saveSuccess and saveFailure with progress: an active job ends.
EndJob(w, state, code) ==
    LET s == slot[w] IN
    /\ JobsTo([job EXCEPT ![s.job] =
          IF Active(s.job) THEN [@ EXCEPT !.state = state, !.code = code] ELSE @])
    /\ progress' = [progress EXCEPT ![s.job] = IF Active(s.job) THEN s.mem ELSE @]
    /\ goal' = [goal EXCEPT ![s.job] = IF Active(s.job) THEN s.targets ELSE @]

SaveSuccess(w) ==
    /\ WorkDone(slot[w]) /\ slot[w].mem.bad = {}
    /\ EndJob(w, "succeeded", "none")
    /\ Finished(w, slot[w].job, "completed")
    /\ slot' = [slot EXCEPT ![w] = IdleSlot]
    /\ UNCHANGED <<tries, unrecorded, strays, planVars, snapshots, stored, lockLost, faults>>

SaveSuccessFails(w) ==
    /\ WorkDone(slot[w]) /\ slot[w].mem.bad = {}
    /\ Fault
    /\ slot' = [slot EXCEPT ![w].step = "fail"]
    /\ UNCHANGED <<jobVars, queueVars, strays, planVars, snapshots, pastVars>>

\* RULE_REFRESH_PARTIAL
Partial(s) == WorkDone(s) /\ s.mem.bad # {}

Failing(s) == s.step \in {"failEarly", "fail"} \/ Partial(s)

\* The exit of a failed attempt: saveFailure, with the progress in memory once
\* there is one.
SaveFailure(w) ==
    LET s == slot[w] IN
    /\ Failing(s)
    /\ IF s.step = "failEarly"
       THEN FailKeeping(s.job) /\ progress' = Kept(s.job) /\ UNCHANGED goal
       ELSE EndJob(w, "failed", IF Partial(s) THEN "partial" ELSE "other")
    /\ Rejected(w, s.job)
    /\ slot' = [slot EXCEPT ![w] = IdleSlot]
    /\ UNCHANGED <<strays, planVars, snapshots, stored, lockLost, faults>>

SaveFailureFails(w) ==
    /\ Failing(slot[w])
    /\ Fault
    /\ Rejected(w, slot[w].job)
    /\ slot' = [slot EXCEPT ![w] = IdleSlot]
    /\ UNCHANGED <<jobVars, strays, planVars, snapshots, pastVars>>

\* recordQueueFailure, which nobody waits for: another attempt may be at work.
RecordQueueFailure(j) ==
    /\ j \in unrecorded
    /\ unrecorded' = unrecorded \ {j}
    /\ FailKeeping(j)
    /\ progress' = Kept(j)
    /\ UNCHANGED <<entry, lock, tries, workVars, planVars, snapshots, pastVars, faults>>

RecordFails(j) ==
    /\ j \in unrecorded
    /\ Fault
    /\ unrecorded' = unrecorded \ {j}
    /\ UNCHANGED <<jobVars, entry, lock, tries, workVars, planVars, snapshots, pastVars>>

-----------------------------------------------------------------------------
(* Crashes                                                                 *)

WorkerDies(w) ==
    /\ slot[w].step # "none"
    /\ Fault
    /\ slot' = [slot EXCEPT ![w] = IdleSlot]
    /\ UNCHANGED <<jobVars, queueVars, strays, planVars, snapshots, pastVars>>

\* With a scheduler its connection ends, and with that its lock.
StarterDies(p) ==
    /\ launch[p].step # "none"
    /\ Fault
    /\ Unlock(p)
    /\ UNCHANGED <<jobVars, queueVars, workVars, due, snapshots, pastVars>>

\* BullMQ takes an entry whose lock has lapsed for stalled and queues it again,
\* or fails it and perhaps tells a worker so.  That its slot is still at work is
\* a fault.
Stall(j) ==
    /\ entry[j] = "active"
    /\ IF Working(j) THEN Fault ELSE UNCHANGED faults
    /\ \/ entry' = [entry EXCEPT ![j] = "waiting"] /\ UNCHANGED unrecorded
       \/ /\ entry' = [entry EXCEPT ![j] = "failed"]
          /\ unrecorded' \in {unrecorded, unrecorded \cup {j}}
    /\ lock' = [lock EXCEPT ![j] = Nobody]
    /\ UNCHANGED <<jobVars, tries, workVars, planVars, snapshots, pastVars>>

-----------------------------------------------------------------------------
Launch(p)   == AddJob(p) \/ FailLaunch(p)
Schedule(s) == ListStores(s) \/ StartScheduled(s) \/ Prune(s)
Work(w) ==
    \/ ReadTargets(w)
    \/ ResetProgress(w)
    \/ \E t \in Targets : StoreTarget(w, t)
    \/ SaveProgress(w)
    \/ SaveSuccess(w)
    \/ SaveFailure(w)

Next ==
    \/ ListSyncJobs
    \/ Schedulers # {} /\ (WindowTurns \/ \E t \in Targets : SnapshotExpires(t))
    \/ \E p \in Starters : StartRefresh(p) \/ Launch(p) \/ AddFails(p) \/ StarterDies(p)
    \/ \E s \in Schedulers : Wake(s) \/ Schedule(s) \/ ScheduleFails(s) \/ ClaimFails(s)
    \/ \E key \in DOMAIN advisory : LoseLock(key)
    \/ \E w \in Workers :
          \/ Work(w) \/ ReadTargetsFails(w) \/ SaveProgressFails(w)
          \/ SaveSuccessFails(w) \/ SaveFailureFails(w) \/ WorkerDies(w)
          \/ \E t \in Targets : MissTarget(w, t)
    \/ \E j \in Jobs :
          \/ JobLapses(j) \/ RecordQueueFailure(j) \/ RecordFails(j) \/ Stall(j)
          \/ \E t \in Targets : StrayStores(j, t) \/ StrayEnds(j, t)
          \/ \E w \in Workers : MarkRunning(w, j) \/ MarkRunningFails(w, j)

Spec == Init /\ [][Next]_vars

\* Running processes proceed, time passes and the jobs are listed again.
\* Nothing is assumed of the queue, of administrators, of the schedule and of
\* SHEIN, which may refuse every target but answers each request.
Fairness ==
    /\ \A p \in Starters : WF_vars(Launch(p))
    /\ \A w \in Workers : WF_vars(Work(w))
    /\ \A j \in Jobs : WF_vars(~Working(j) /\ JobLapses(j))
    /\ WF_vars(ListSyncJobs)

FairSpec == Spec /\ Fairness

-----------------------------------------------------------------------------
(* Properties                                                              *)

ProgressType == [ok : 0..NTargets, bad : SUBSET Targets]

TypeOK ==
    /\ job \in [Jobs -> [state : {"none", "queued", "running", "succeeded", "failed"},
                         scope : {"referenced", "all"}, retries : 0..MaxJobs,
                         code : {"none", "partial", "other"},
                         by : {"none", "due", "expired"}]]
    /\ progress \in [Jobs -> ProgressType]
    /\ quiet \subseteq Jobs
    /\ entry \in [Jobs -> {"none", "waiting", "active", "completed", "failed"}]
    /\ lock \in [Jobs -> Workers \cup {Nobody}]
    /\ tries \in [Jobs -> 0..MaxAttempts]
    /\ unrecorded \subseteq Jobs
    /\ \A w \in Workers :
          /\ slot[w].step \in {"none", "categories", "reset", "work", "failEarly", "fail"}
          /\ slot[w].job \in 0..MaxJobs
          /\ slot[w].mem \in ProgressType
          /\ slot[w].left \cup slot[w].reading \subseteq slot[w].targets
          /\ Cardinality(slot[w].reading) + Len(slot[w].writes) <= Lanes
    /\ strays \subseteq Jobs \X Targets
    /\ launch \in [Starters -> [step : {"none", "list", "claim", "add", "fail", "prune"},
                                job : 0..MaxJobs, by : {"none", "due", "expired"}]]
    /\ advisory \in [{"due", "expired"} -> Schedulers \cup {Nobody}]
    /\ due \in BOOLEAN
    /\ snapshots \in [Targets -> {"none", "fresh", "expired"}]
    /\ goal \in [Jobs -> SUBSET Targets]
    /\ stored \in [Jobs -> SUBSET Targets]
    /\ lockLost \in BOOLEAN
    /\ faults \in 0..MaxFaults

\* A refresh that succeeded stored every target of the attempt that ended it,
\* however its lanes, attempts and recorded failures overlapped.
SucceededIsComplete ==
    \A j \in Jobs : job[j].state = "succeeded" => goal[j] \subseteq stored[j]

\* After a partial failure, the retry of the failed targets is enough: once it
\* has succeeded, the two jobs together have stored all targets of the first.
RetryRepairs ==
    \A j \in Jobs : \A r \in {job[j].retries} \ {0} :
        job[j].state = "succeeded" /\ job[r].code = "partial"
            => goal[r] \subseteq stored[r] \cup stored[j]

\* The monthly window starts one refresh, whatever the schedulers, their
\* crashes and administrators do, unless a scheduler lost its advisory lock.
MonthlyOnce ==
    lockLost \/ Cardinality({j \in Jobs : job[j].by = "due"}) <= 1

\* Every refresh ends, also when its entry is lost or its worker dies.
RefreshEnds == \A j \in Jobs : Active(j) ~> ~Active(j)

\* The refreshes as rows of sync_jobs.
Ledger == INSTANCE SyncJobContract WITH state <- [j \in Jobs |-> job[j].state]

\* Of the refreshes, the retries among them, one is active at a time and each ends
\* once, whatever lanes, attempts and recorded failures are still under way.
JobsKeepContract == Ledger!Spec
=============================================================================
