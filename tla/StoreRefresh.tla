---------------------------- MODULE StoreRefresh ----------------------------
(***************************************************************************)
(* The business snapshot of one store (store-business-service.js): a user  *)
(* or the scheduler claims a refresh, a worker reads SHEIN and stores what *)
(* it read, while webhook notices mark the snapshot as out of date and     *)
(* write the product quota into it.  Launches and workers die or fail      *)
(* between any two queries, jobs are delivered again, and three places     *)
(* time out a job without heartbeat: the next claim, the dashboard and the *)
(* list of sync jobs.                                                      *)
(*                                                                         *)
(* External: SHEIN, whose data change at any time; BullMQ; the webhook     *)
(* worker (WebhookPipeline).                                               *)
(*                                                                         *)
(* Abstractions.  Data are the version of SHEIN's data at the first        *)
(* request of a read.  Time is three flags: the snapshot's refresh and a   *)
(* job's last update are more than ten minutes old, the last manual        *)
(* refresh less than a minute.  The list of sync jobs waits fifteen        *)
(* minutes, not told apart from ten.  A claim is one SQL statement and     *)
(* saveSuccess one transaction; saveFailure is two.                        *)
(***************************************************************************)
EXTENDS Naturals

CONSTANTS
    Workers,        \* handler slots of the refresh workers
    Launchers,      \* processes that start refreshes, one launch at a time each
    NoWorker,       \* a queue entry nobody holds
    Quotas,         \* product quotas SHEIN sends
    NoQuota,        \* a snapshot without productQuota
    MaxJobs,        \* bound on refreshes
    MaxVersion,     \* bound on the versions of SHEIN's data
    MaxNotices,     \* bound on counted notices
    MaxAttempts,    \* attempts of a queue entry
    MaxFaults       \* bound on failures, deaths, lapsed locks and heartbeats

ASSUME ProcessAssumption ==
    /\ NoWorker \notin Workers
    /\ Workers \cap Launchers = {}
ASSUME QuotaAssumption == NoQuota \notin Quotas
ASSUME BoundsAssumption ==
    /\ {MaxJobs, MaxVersion, MaxAttempts} \subseteq Nat \ {0}
    /\ {MaxNotices, MaxFaults} \subseteq Nat

VARIABLES
    shein,          \* the version of the data at SHEIN
    snap,           \* store_business_snapshots: state, data, quota, counted, synced
    lapsed,         \* refresh_started_at is past the timeout
    cooling,        \* last_manual_refresh_at is within the cooldown
    job,            \* sync_jobs.state of each refresh, "none" before it is claimed
    quiet,          \* jobs whose updated_at is past the timeout
    entry,          \* BullMQ: the state of the job's entry
    lock,           \* BullMQ: the slot that holds the entry
    tries,          \* BullMQ: failed attempts of the entry
    proc,           \* what each slot and launcher is doing, for which job
    told,           \* the version at SHEIN when the last notice was counted
    raced,          \* a notice was counted while a read was not stored yet
    late,           \* a process wrote the snapshot for a job that had ended
    torn,           \* a saveFailure ended between its two queries
    faults          \* faults so far

jobVars   == <<job, quiet>>
queueVars == <<entry, lock, tries>>
timeVars  == <<lapsed, cooling>>
vars == <<shein, snap, timeVars, jobVars, queueVars, proc, told, raced, late, torn, faults>>

Jobs      == 1..MaxJobs
Processes == Workers \cup Launchers
Idle      == [step |-> "none", job |-> 0, read |-> 0]
Steps     == {"none", "add", "read", "save", "failSnapshot", "failJob"}

Active(j) == job[j] \in {"queued", "running"}
Newest    == IF \E j \in Jobs : job[j] # "none"
             THEN CHOOSE j \in Jobs : job[j] # "none" /\ \A k \in Jobs : k > j => job[k] = "none"
             ELSE 0

Init ==
    /\ shein = 1
    /\ snap = [state |-> "none", data |-> 0, quota |-> NoQuota, counted |-> 0, synced |-> 0]
    /\ lapsed = FALSE
    /\ cooling = FALSE
    /\ job = [j \in Jobs |-> "none"]
    /\ quiet = {}
    /\ entry = [j \in Jobs |-> "none"]
    /\ lock = [j \in Jobs |-> NoWorker]
    /\ tries = [j \in Jobs |-> 0]
    /\ proc = [p \in Processes |-> Idle]
    /\ told = 0
    /\ raced = FALSE
    /\ late = FALSE
    /\ torn = FALSE
    /\ faults = 0

Fault == faults < MaxFaults /\ faults' = faults + 1

To(p, step) == proc' = [proc EXCEPT ![p].step = step]
Done(p)     == proc' = [proc EXCEPT ![p] = Idle]

-----------------------------------------------------------------------------
(* Webhook notices and SHEIN                                               *)

SheinChanges ==
    /\ shein < MaxVersion
    /\ shein' = shein + 1
    /\ UNCHANGED <<snap, timeVars, jobVars, queueVars, proc, told, raced, late, torn, faults>>

\* A notice finds no row: it makes one that is idle.
RowState == IF snap.state = "none" THEN "idle" ELSE snap.state

\* saveQuotaProjection, which the worker may have to repeat.
SaveQuota(q) ==
    /\ snap' = [snap EXCEPT !.state = RowState, !.quota = q]
    /\ UNCHANGED <<shein, timeVars, jobVars, queueVars, proc, told, raced, late, torn, faults>>

\* markBusinessInvalidated
CountNotice ==
    /\ snap.counted < MaxNotices
    /\ snap' = [snap EXCEPT !.state = RowState, !.counted = @ + 1]
    /\ told' = shein
    /\ raced' = (raced \/ \E w \in Workers : proc[w].step = "save")
    /\ UNCHANGED <<shein, timeVars, jobVars, queueVars, proc, late, torn, faults>>

-----------------------------------------------------------------------------
(* Time and timeouts                                                       *)

CooldownEnds ==
    /\ cooling
    /\ cooling' = FALSE
    /\ UNCHANGED <<shein, snap, lapsed, jobVars, queueVars, proc, told, raced, late, torn, faults>>

RefreshLapses ==
    /\ snap.state # "none" /\ ~lapsed /\ ~cooling
    /\ lapsed' = TRUE
    /\ UNCHANGED <<shein, snap, cooling, jobVars, queueVars, proc, told, raced, late, torn, faults>>

\* A worker is at work on the job and touches it every half minute.
Beating(j) == job[j] = "running" /\ \E w \in Workers : proc[w].job = j

\* A job is updated last when it is claimed, the time its refresh started.
JobLapses(j) ==
    /\ Active(j) /\ lapsed /\ j \notin quiet
    /\ IF Beating(j) THEN Fault ELSE UNCHANGED faults
    /\ quiet' = quiet \cup {j}
    /\ UNCHANGED <<shein, snap, timeVars, job, queueVars, proc, told, raced, late, torn>>

\* touchRefreshJob
Touch(j) ==
    /\ Beating(j) /\ j \in quiet
    /\ quiet' = quiet \ {j}
    /\ UNCHANGED <<shein, snap, timeVars, job, queueVars, proc, told, raced, late, torn, faults>>

\* Mutant: only a job that was started is timed out.
StartedOnly(j) == job[j] = "running" /\ j \in quiet

\* The timeout of a job that was not updated for too long.
TimedOut(j) == Active(j) /\ j \in quiet

\* Mutant: a state of its own for jobs that were timed out.
TimeoutState == [j \in Jobs |-> IF TimedOut(j) THEN "timed_out" ELSE job[j]]

AfterTimeout == [j \in Jobs |-> IF TimedOut(j) THEN "failed" ELSE job[j]]
NoneActive(jobs) == \A j \in Jobs : jobs[j] \notin {"queued", "running"}

\* The jobs take their new states; the age of an ended job does not matter.
JobsTo(jobs) ==
    /\ job' = jobs
    /\ quiet' = {j \in quiet : jobs[j] \in {"queued", "running"}}

\* Where a refresh without result leaves the snapshot: failed while it is empty.
Settled(s) == [s EXCEPT !.state = IF s.data = 0 /\ s.quota = NoQuota THEN "failed" ELSE "ready"]

\* Mutants: the dashboard settles a snapshot whose job is alive; the failure
\* of a refresh clears the marker of the notices.
OldEnough       == snap.state = "refreshing" /\ lapsed
SettledAsRead(s) == [Settled(s) EXCEPT !.synced = s.counted]

\* The snapshot has been refreshing for too long and no job is left to end it.
Orphaned == snap.state = "refreshing" /\ lapsed /\ NoneActive(AfterTimeout)

\* What saveFailure writes into the snapshot.
AfterFailure(s) == Settled(s)

\* getDashboard of a refreshing snapshot: reconcileStale.
ReconcileStale ==
    /\ snap.state = "refreshing"
    /\ JobsTo(AfterTimeout)
    /\ snap' = IF Orphaned THEN Settled(snap) ELSE snap
    /\ <<snap, job>>' # <<snap, job>>
    /\ UNCHANGED <<shein, timeVars, queueVars, proc, told, raced, late, torn, faults>>

\* The list of sync jobs times the job out and leaves the snapshot alone.
ListSyncJobs ==
    /\ JobsTo(AfterTimeout)
    /\ job' # job
    /\ UNCHANGED <<shein, snap, timeVars, queueVars, proc, told, raced, late, torn, faults>>

-----------------------------------------------------------------------------
(* startRefresh                                                            *)

\* The snapshot row lets a refresh be claimed.
RowClaimable(manual) ==
    \/ snap.state = "none"
    \/ /\ snap.state # "refreshing" \/ lapsed
       /\ manual => ~cooling

\* claimRefresh by a launcher without launch in flight: old jobs time out, and
\* without an active job the snapshot and a new job are claimed together.
ClaimRefresh(p, manual) ==
    /\ proc[p] = Idle
    /\ Newest < MaxJobs
    /\ IF NoneActive(AfterTimeout) /\ RowClaimable(manual)
       THEN LET j == Newest + 1 IN
            /\ JobsTo([AfterTimeout EXCEPT ![j] = "queued"])
            /\ snap' = [snap EXCEPT !.state = "refreshing"]
            /\ lapsed' = FALSE
            /\ cooling' = (manual \/ cooling)
            /\ proc' = [proc EXCEPT ![p] = [step |-> "add", job |-> j, read |-> 0]]
       ELSE /\ JobsTo(AfterTimeout)
            /\ UNCHANGED <<snap, timeVars, proc>>
    /\ UNCHANGED <<shein, queueVars, told, raced, late, torn, faults>>

\* queue.add with the job's id, which is new.
Added(j) == entry' = [entry EXCEPT ![j] = "waiting"]

AddJob(p) ==
    /\ p \in Launchers /\ proc[p].step = "add"
    /\ Added(proc[p].job)
    /\ Done(p)
    /\ UNCHANGED <<shein, snap, timeVars, jobVars, lock, tries, told, raced, late, torn, faults>>

\* The add fails, with or without effect on the queue.
AddFails(p) ==
    /\ p \in Launchers /\ proc[p].step = "add"
    /\ Fault
    /\ UNCHANGED entry \/ Added(proc[p].job)
    /\ To(p, "failSnapshot")
    /\ UNCHANGED <<shein, snap, timeVars, jobVars, lock, tries, told, raced, late, torn>>

-----------------------------------------------------------------------------
(* processRefreshJob                                                       *)

\* A free slot takes the entry and marks the job as running; the entry of a
\* job that has ended is skipped.
MarkRunning(w, j) ==
    /\ proc[w] = Idle
    /\ entry[j] = "waiting"
    /\ IF Active(j)
       THEN /\ job' = [job EXCEPT ![j] = "running"]
            /\ quiet' = quiet \ {j}
            /\ entry' = [entry EXCEPT ![j] = "active"]
            /\ lock' = [lock EXCEPT ![j] = w]
            /\ proc' = [proc EXCEPT ![w] = [step |-> "read", job |-> j, read |-> 0]]
       ELSE /\ entry' = [entry EXCEPT ![j] = "completed"]
            /\ UNCHANGED <<jobVars, lock, proc>>
    /\ UNCHANGED <<shein, snap, timeVars, tries, told, raced, late, torn, faults>>

ReadShein(w) ==
    /\ w \in Workers /\ proc[w].step = "read"
    /\ proc' = [proc EXCEPT ![w].read = shein, ![w].step = "save"]
    /\ UNCHANGED <<shein, snap, timeVars, jobVars, queueVars, told, raced, late, torn, faults>>

\* The attempt is over, if the slot still holds the entry.
Finished(w, j, outcome) ==
    /\ entry' = [entry EXCEPT ![j] = IF lock[j] = w THEN outcome ELSE @]
    /\ lock' = [lock EXCEPT ![j] = IF @ = w THEN NoWorker ELSE @]

Rejected(w, j) ==
    /\ Finished(w, j, IF tries[j] + 1 < MaxAttempts THEN "waiting" ELSE "failed")
    /\ tries' = [tries EXCEPT ![j] = IF lock[j] = w THEN @ + 1 ELSE @]

Ended(j, outcome) == JobsTo([job EXCEPT ![j] = IF Active(j) THEN outcome ELSE @])

\* Mutant: the stored snapshot is replaced as a whole.
ReplacedBy(read) == [snap EXCEPT !.data = read, !.quota = NoQuota]

\* The new snapshot has no quota: the stored one is kept.
MergedWith(read) == [snap EXCEPT !.data = read]

\* saveSuccess, whatever has become of the job since.
SaveSuccess(w) ==
    LET j == proc[w].job IN
    /\ w \in Workers /\ proc[w].step = "save"
    /\ snap' = [MergedWith(proc[w].read) EXCEPT !.state = "ready", !.synced = snap.counted]
    /\ Ended(j, "succeeded")
    /\ late' = (late \/ ~Active(j))
    /\ Finished(w, j, "completed")
    /\ Done(w)
    /\ UNCHANGED <<shein, timeVars, tries, told, raced, torn, faults>>

\* SHEIN refuses the read, or the transaction of saveSuccess fails.
RefreshFails(w) ==
    /\ w \in Workers
    /\ \/ proc[w].step = "read" /\ UNCHANGED faults
       \/ proc[w].step = "save" /\ Fault
    /\ To(w, "failSnapshot")
    /\ UNCHANGED <<shein, snap, timeVars, jobVars, queueVars, told, raced, late, torn>>

\* saveFailure of a worker or a launcher, first query.
FailSnapshot(p) ==
    /\ proc[p].step = "failSnapshot"
    /\ snap' = AfterFailure(snap)
    /\ late' = (late \/ ~Active(proc[p].job))
    /\ To(p, "failJob")
    /\ UNCHANGED <<shein, timeVars, jobVars, queueVars, told, raced, torn, faults>>

\* The process is through with a failed refresh.
GivesUp(p) ==
    /\ Done(p)
    /\ IF p \in Workers THEN Rejected(p, proc[p].job) ELSE UNCHANGED queueVars

\* saveFailure, second query.
FailJob(p) ==
    /\ proc[p].step = "failJob"
    /\ Ended(proc[p].job, "failed")
    /\ GivesUp(p)
    /\ UNCHANGED <<shein, snap, timeVars, told, raced, late, torn, faults>>

Torn(p) == torn' = (torn \/ proc[p].step = "failJob")

\* saveFailure throws itself.
SaveFailureFails(p) ==
    /\ proc[p].step \in {"failSnapshot", "failJob"}
    /\ Fault
    /\ GivesUp(p)
    /\ Torn(p)
    /\ UNCHANGED <<shein, snap, timeVars, jobVars, told, raced, late>>

-----------------------------------------------------------------------------
(* Crashes                                                                 *)

Dies(p) ==
    /\ proc[p] # Idle
    /\ Fault
    /\ Done(p)
    /\ Torn(p)
    /\ UNCHANGED <<shein, snap, timeVars, jobVars, queueVars, told, raced, late>>

\* BullMQ takes an entry whose lock has lapsed for stalled and queues it again,
\* or fails it.  That its slot is still at work is a fault.
Stall(j) ==
    /\ entry[j] = "active"
    /\ IF \E w \in Workers : proc[w].job = j THEN Fault ELSE UNCHANGED faults
    /\ \E outcome \in {"waiting", "failed"} : entry' = [entry EXCEPT ![j] = outcome]
    /\ lock' = [lock EXCEPT ![j] = NoWorker]
    /\ UNCHANGED <<shein, snap, timeVars, jobVars, tries, proc, told, raced, late, torn>>

-----------------------------------------------------------------------------
Step(p) ==
    \/ AddJob(p)
    \/ ReadShein(p)
    \/ SaveSuccess(p)
    \/ FailSnapshot(p)
    \/ FailJob(p)

Next ==
    \/ SheinChanges
    \/ \E q \in Quotas : SaveQuota(q)
    \/ CountNotice
    \/ CooldownEnds
    \/ RefreshLapses
    \/ ReconcileStale
    \/ ListSyncJobs
    \/ \E p \in Launchers, manual \in BOOLEAN : ClaimRefresh(p, manual)
    \/ \E p \in Processes :
          Step(p) \/ AddFails(p) \/ RefreshFails(p) \/ SaveFailureFails(p) \/ Dies(p)
    \/ \E j \in Jobs :
          \/ JobLapses(j) \/ Touch(j) \/ Stall(j)
          \/ \E w \in Workers : MarkRunning(w, j)

Spec == Init /\ [][Next]_vars

\* Running processes proceed, time passes, and the dashboard and the list of
\* jobs are looked at again.  Nothing is assumed of the queue, of users who
\* start refreshes, of the scheduler and of SHEIN.
Fairness ==
    /\ \A p \in Processes : WF_vars(Step(p))
    /\ WF_vars(CooldownEnds)
    /\ WF_vars(RefreshLapses)
    /\ \A j \in Jobs : WF_vars(~Beating(j) /\ JobLapses(j))
    /\ WF_vars(ReconcileStale)
    /\ WF_vars(ListSyncJobs)

FairSpec == Spec /\ Fairness

-----------------------------------------------------------------------------
(* Properties                                                              *)

TypeOK ==
    /\ shein \in 1..MaxVersion
    /\ snap \in [state : {"none", "idle", "refreshing", "ready", "failed"},
                 data : 0..MaxVersion, quota : Quotas \cup {NoQuota},
                 counted : 0..MaxNotices, synced : 0..MaxNotices]
    /\ lapsed \in BOOLEAN
    /\ cooling \in BOOLEAN
    /\ job \in [Jobs -> {"none", "queued", "running", "succeeded", "failed"}]
    /\ quiet \subseteq Jobs
    /\ entry \in [Jobs -> {"none", "waiting", "active", "completed", "failed"}]
    /\ lock \in [Jobs -> Workers \cup {NoWorker}]
    /\ tries \in [Jobs -> 0..MaxAttempts]
    /\ proc \in [Processes -> [step : Steps, job : 0..MaxJobs, read : 0..MaxVersion]]
    /\ told \in 0..MaxVersion
    /\ raced \in BOOLEAN
    /\ late \in BOOLEAN
    /\ torn \in BOOLEAN
    /\ faults \in 0..MaxFaults

\* While a refresh is under way the snapshot says so, unless the refresh is
\* being failed at this moment, a saveFailure was cut in two, or a process
\* wrote for a job that had ended: no timeout, claim or notice tears them apart.
ActiveMeansRefreshing ==
    \/ NoneActive(job)
    \/ snap.state = "refreshing"
    \/ \E p \in Processes : proc[p].step = "failJob"
    \/ torn \/ late

\* When the snapshot no longer announces data changed at SHEIN, its data were
\* read after every counted notice.  Only a notice that is counted between a
\* read and its saveSuccess can be missed: saveSuccess takes it for read.
MarkerCoversData ==
    snap.synced = snap.counted => snap.data >= told \/ raced

\* No refresh takes the data back in time, as long as no process writes for a
\* job that was timed out, and none ever loses the quota a notice brought.
NothingGoesBack ==
    [][/\ snap.data <= snap'.data \/ late'
       /\ snap.quota # NoQuota => snap'.quota # NoQuota]_snap

\* Every refresh ends: its job comes to an end, and the snapshot leaves
\* refreshing or is claimed again, whatever dies and even if the queue never
\* delivers the job.
RefreshEnds ==
    \A j \in Jobs :
        Active(j) \/ (snap.state = "refreshing" /\ Newest = j)
            ~> ~Active(j) /\ (snap.state # "refreshing" \/ Newest # j)

\* The refreshes as rows of sync_jobs.
Ledger == INSTANCE SyncJobContract WITH state <- job

\* Whatever dies, lapses or comes twice, a refresh is a job as the table promises:
\* one at a time, successful only if a worker started it, and over once it ended.
JobsKeepContract == Ledger!Spec
=============================================================================
