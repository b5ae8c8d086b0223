-------------------------- MODULE StoreRefreshProofs --------------------------
(***************************************************************************)
(* The safety properties of StoreRefresh, for all workers, launchers,      *)
(* quotas and bounds.                                                      *)
(*                                                                         *)
(* Three things carry them.  At most one job is active, because a claim    *)
(* times the old ones out first (OneActive); what leaves the snapshot in   *)
(* another state than refreshing ends that job, is about to, or is on      *)
(* record as torn or late (ActiveExplained).  A read that is not stored    *)
(* yet is as new as the last counted notice and as the stored data, for    *)
(* the job that is active (ReadsAreFresh).  And a job's id is new in the   *)
(* queue when its entry is added (IdsAreNew), so that no attempt is        *)
(* counted twice.                                                          *)
(***************************************************************************)
EXTENDS StoreRefresh, TLAPS

\* A process that is not idle works on a job; only a launcher adds, only a
\* worker reads and saves.
ProcessesWork ==
    \A p \in Processes :
        /\ proc[p].step # "none" => proc[p].job \in Jobs
        /\ proc[p].step = "add" => p \in Launchers
        /\ proc[p].step \in {"read", "save"} => p \in Workers

\* Only an active entry is held, and an entry that may be tried has tries left.
EntriesAreHeld ==
    \A j \in Jobs :
        /\ lock[j] # NoWorker => entry[j] = "active"
        /\ entry[j] \in {"waiting", "active"} => tries[j] < MaxAttempts
        /\ entry[j] = "none" => tries[j] = 0

\* Jobs are claimed in the order of their numbers.
JobsInOrder == \E m \in 0..MaxJobs : \A j \in Jobs : job[j] # "none" <=> j <= m

\* Nobody knows a job before it is claimed, and its entry is added by its
\* launcher alone.
IdsAreNew ==
    /\ \A j \in Jobs : job[j] = "none" =>
          entry[j] = "none" /\ \A p \in Processes : proc[p].job # j
    /\ \A p \in Processes : proc[p].step = "add" =>
          /\ entry[proc[p].job] = "none"
          /\ \A q \in Processes : proc[q].job = proc[p].job => q = p

OneActive == \A j, k \in Jobs : Active(j) /\ Active(k) => j = k

\* The snapshot of an active job has left refreshing only in a saveFailure of
\* that job which has its second query still to make.
ActiveExplained ==
    \/ NoneActive(job)
    \/ snap.state = "refreshing"
    \/ \E p \in Processes : proc[p].step = "failJob" /\ Active(proc[p].job)
    \/ torn \/ late

\* Nothing is newer than SHEIN's data, and no sync covers notices to come.
NothingIsAhead ==
    /\ snap.data <= shein
    /\ told <= shein
    /\ snap.synced <= snap.counted
    /\ \A p \in Processes : proc[p].step = "save" => proc[p].read <= shein

\* What is about to be stored covers the counted notices, and the stored data
\* if its job is active.
ReadsAreFresh ==
    \A p \in Processes : proc[p].step = "save" =>
        /\ proc[p].read >= told \/ raced
        /\ Active(proc[p].job) => proc[p].read >= snap.data \/ late

IInv ==
    /\ TypeOK
    /\ ProcessesWork
    /\ EntriesAreHeld
    /\ JobsInOrder
    /\ IdsAreNew
    /\ OneActive
    /\ ActiveExplained
    /\ NothingIsAhead
    /\ ReadsAreFresh
    /\ MarkerCoversData

-----------------------------------------------------------------------------
(* Types                                                                   *)

RefreshStates == {"none", "queued", "running", "succeeded", "failed"}
SnapStates    == {"none", "idle", "refreshing", "ready", "failed"}
SnapType ==
    [state : SnapStates, data : 0..MaxVersion, quota : Quotas \cup {NoQuota},
     counted : 0..MaxNotices, synced : 0..MaxNotices]
ProcType == [step : Steps, job : 0..MaxJobs, read : 0..MaxVersion]

LEMMA Bounds ==
    /\ MaxJobs \in Nat /\ MaxJobs > 0
    /\ MaxVersion \in Nat /\ MaxVersion > 0
    /\ MaxAttempts \in Nat /\ MaxAttempts > 0
    /\ MaxNotices \in Nat
    /\ MaxFaults \in Nat
    /\ Jobs = 1..MaxJobs
  BY BoundsAssumption DEF Jobs

LEMMA IdleTyped == Idle \in ProcType /\ Idle.step = "none" /\ Idle.job = 0
  BY Bounds DEF Idle, ProcType, Steps

LEMMA NewTyped ==
    ASSUME NEW step \in Steps, NEW j \in Jobs
    PROVE  [step |-> step, job |-> j, read |-> 0] \in ProcType
  BY Bounds DEF ProcType

LEMMA StepTyped ==
    ASSUME NEW r \in ProcType, NEW step \in Steps
    PROVE  /\ [r EXCEPT !.step = step] \in ProcType
           /\ [r EXCEPT !.step = step].step = step
           /\ [r EXCEPT !.step = step].job = r.job
           /\ [r EXCEPT !.step = step].read = r.read
  BY DEF ProcType

Reading(r, v) == [r EXCEPT !.read = v, !.step = "save"]

LEMMA ReadTyped ==
    ASSUME NEW r \in ProcType, NEW v \in 0..MaxVersion
    PROVE  /\ Reading(r, v) \in ProcType
           /\ Reading(r, v).step = "save"
           /\ Reading(r, v).job = r.job
           /\ Reading(r, v).read = v
  BY DEF ProcType, Steps, Reading

\* One process goes on.
LEMMA ProcessTo ==
    ASSUME TypeOK, NEW p \in Processes, NEW r \in ProcType, proc' = [proc EXCEPT ![p] = r]
    PROVE  /\ proc' \in [Processes -> ProcType]
           /\ \A q \in Processes : proc'[q] = IF q = p THEN r ELSE proc[q]
  BY DEF TypeOK, ProcType

LEMMA ProcessToStep ==
    ASSUME TypeOK, NEW p \in Processes, NEW step \in Steps, To(p, step)
    PROVE  /\ proc' \in [Processes -> ProcType]
           /\ \A q \in Processes \ {p} : proc'[q] = proc[q]
           /\ proc'[p].step = step /\ proc'[p].job = proc[p].job /\ proc'[p].read = proc[p].read
<1>1. proc[p] \in ProcType
  BY DEF TypeOK, ProcType
<1>2. proc' = [proc EXCEPT ![p] = [proc[p] EXCEPT !.step = step]]
  BY DEF To
<1>3. QED
  BY <1>1, <1>2, StepTyped, ProcessTo

LEMMA ProcessDone ==
    ASSUME TypeOK, NEW p \in Processes, Done(p)
    PROVE  /\ proc' \in [Processes -> ProcType]
           /\ \A q \in Processes : proc'[q] = IF q = p THEN Idle ELSE proc[q]
  BY IdleTyped, ProcessTo DEF Done

\* A snapshot with these fields.
SnapIs(s, state, data, quota, counted, synced) ==
    /\ s \in SnapType
    /\ s.state = state /\ s.data = data /\ s.quota = quota
    /\ s.counted = counted /\ s.synced = synced

LEMMA SnapWithState ==
    ASSUME NEW s \in SnapType, NEW st \in SnapStates
    PROVE  SnapIs([s EXCEPT !.state = st], st, s.data, s.quota, s.counted, s.synced)
  BY DEF SnapIs, SnapType

LEMMA SnapWithQuota ==
    ASSUME NEW s \in SnapType, NEW st \in SnapStates, NEW q \in Quotas
    PROVE  SnapIs([s EXCEPT !.state = st, !.quota = q], st, s.data, q, s.counted, s.synced)
  BY DEF SnapIs, SnapType

LEMMA SnapWithNotice ==
    ASSUME NEW s \in SnapType, NEW st \in SnapStates, s.counted < MaxNotices
    PROVE  SnapIs([s EXCEPT !.state = st, !.counted = @ + 1],
                  st, s.data, s.quota, s.counted + 1, s.synced)
<1>1. s.counted + 1 \in 0..MaxNotices
  BY Bounds DEF SnapType
<1>2. QED
  BY <1>1 DEF SnapIs, SnapType

LEMMA SnapWithRead ==
    ASSUME NEW s \in SnapType, NEW v \in 0..MaxVersion
    PROVE  SnapIs([[s EXCEPT !.data = v] EXCEPT !.state = "ready", !.synced = s.counted],
                  "ready", v, s.quota, s.counted, s.counted)
  BY DEF SnapIs, SnapType, SnapStates

LEMMA SnapTyped == TypeOK => snap \in SnapType /\ RowState \in SnapStates
  BY DEF TypeOK, SnapType, SnapStates, RowState

LEMMA SettledIs ==
    ASSUME NEW s \in SnapType
    PROVE  /\ SnapIs(Settled(s), Settled(s).state, s.data, s.quota, s.counted, s.synced)
           /\ Settled(s).state \in {"failed", "ready"}
<1> DEFINE st == IF s.data = 0 /\ s.quota = NoQuota THEN "failed" ELSE "ready"
<1>1. st \in SnapStates /\ st \in {"failed", "ready"}
  BY DEF SnapStates
<1>2. Settled(s) = [s EXCEPT !.state = st]
  BY DEF Settled
<1> HIDE DEF st
<1>3. SnapIs(Settled(s), st, s.data, s.quota, s.counted, s.synced)
  BY <1>1, <1>2, SnapWithState
<1>4. QED
  BY <1>1, <1>3 DEF SnapIs

\* What a timeout makes of the jobs.
LEMMA TimeoutTyped ==
    TypeOK => /\ AfterTimeout \in [Jobs -> RefreshStates]
              /\ \A j \in Jobs : \/ AfterTimeout[j] = job[j]
                                 \/ Active(j) /\ AfterTimeout[j] = "failed"
  BY DEF TypeOK, AfterTimeout, TimedOut, RefreshStates

LEMMA JobsToTyped ==
    ASSUME TypeOK, NEW jobs \in [Jobs -> RefreshStates], JobsTo(jobs)
    PROVE  job' \in [Jobs -> RefreshStates] /\ quiet' \subseteq Jobs
  BY DEF JobsTo, TypeOK

LEMMA EndedTyped ==
    ASSUME TypeOK, NEW j \in Jobs, NEW outcome \in {"succeeded", "failed"}, Ended(j, outcome)
    PROVE  /\ job' \in [Jobs -> RefreshStates] /\ quiet' \subseteq Jobs
           /\ \A k \in Jobs : job'[k] = IF k = j /\ Active(j) THEN outcome ELSE job[k]
  BY JobsToTyped DEF Ended, JobsTo, TypeOK, RefreshStates

\* The number of the newest job.
LEMMA NewestIsLast ==
    ASSUME TypeOK, JobsInOrder
    PROVE  Newest \in 0..MaxJobs /\ \A j \in Jobs : job[j] # "none" <=> j <= Newest
<1>1. PICK m \in 0..MaxJobs : \A j \in Jobs : job[j] # "none" <=> j <= m
  BY DEF JobsInOrder
<1>2. CASE m = 0
  <2>1. ~ \E j \in Jobs : job[j] # "none"
    BY <1>1, <1>2, Bounds
  <2>2. QED
    BY <1>1, <1>2, <2>1 DEF Newest
<1>3. CASE m # 0
  <2> DEFINE Last(j) == job[j] # "none" /\ \A k \in Jobs : k > j => job[k] = "none"
  <2>1. m \in Jobs /\ Last(m)
    BY <1>1, <1>3, Bounds
  <2>2. ASSUME NEW j \in Jobs, Last(j) PROVE j = m
    BY <1>1, <1>3, <2>1, <2>2, Bounds
  <2>3. Newest = CHOOSE j \in Jobs : Last(j)
    BY <2>1 DEF Newest
  <2> HIDE DEF Last
  <2>4. Newest = m
    BY <2>1, <2>2, <2>3
  <2>5. QED
    BY <1>1, <2>4
<1>4. QED
  BY <1>2, <1>3

EntryStates == {"none", "waiting", "active", "completed", "failed"}

QueueTyped ==
    /\ entry \in [Jobs -> EntryStates]
    /\ lock \in [Jobs -> Workers \cup {NoWorker}]
    /\ tries \in [Jobs -> 0..MaxAttempts]

LEMMA FinishedTyped ==
    ASSUME TypeOK, NEW w \in Workers, NEW j \in Jobs, NEW outcome \in EntryStates,
           Finished(w, j, outcome)
    PROVE  /\ entry' \in [Jobs -> EntryStates]
           /\ lock' \in [Jobs -> Workers \cup {NoWorker}]
           /\ \A k \in Jobs :
                 /\ entry'[k] = IF k = j /\ lock[j] = w THEN outcome ELSE entry[k]
                 /\ lock'[k] = IF k = j /\ lock[j] = w THEN NoWorker ELSE lock[k]
  BY DEF Finished, TypeOK, EntryStates

LEMMA RejectedTyped ==
    ASSUME TypeOK, EntriesAreHeld, NEW w \in Workers, NEW j \in Jobs, Rejected(w, j)
    PROVE  /\ QueueTyped'
           /\ \A k \in Jobs :
                 IF k = j /\ lock[j] = w
                 THEN /\ entry[k] = "active" /\ lock'[k] = NoWorker
                      /\ entry'[k] \in {"waiting", "failed"}
                      /\ entry'[k] = "waiting" => tries'[k] < MaxAttempts
                 ELSE entry'[k] = entry[k] /\ lock'[k] = lock[k] /\ tries'[k] = tries[k]
<1> DEFINE outcome == IF tries[j] + 1 < MaxAttempts THEN "waiting" ELSE "failed"
<1>1. outcome \in EntryStates
  BY DEF EntryStates
<1>2. Finished(w, j, outcome)
  BY DEF Rejected
<1>3. tries' = [tries EXCEPT ![j] = IF lock[j] = w THEN @ + 1 ELSE @]
  BY DEF Rejected
<1>4. tries[j] \in 0..MaxAttempts /\ (lock[j] = w => entry[j] = "active" /\ tries[j] < MaxAttempts)
  BY ProcessAssumption DEF TypeOK, EntriesAreHeld
<1>5. tries' \in [Jobs -> 0..MaxAttempts]
  BY <1>3, <1>4, Bounds DEF TypeOK
<1>6. \A k \in Jobs : tries'[k] = IF k = j /\ lock[j] = w THEN tries[j] + 1 ELSE tries[k]
  BY <1>3 DEF TypeOK
<1>7. outcome \in {"waiting", "failed"} /\ (outcome = "waiting" => tries[j] + 1 < MaxAttempts)
  OBVIOUS
<1> HIDE DEF outcome
<1>8. /\ entry' \in [Jobs -> EntryStates] /\ lock' \in [Jobs -> Workers \cup {NoWorker}]
      /\ \A k \in Jobs :
            /\ entry'[k] = IF k = j /\ lock[j] = w THEN outcome ELSE entry[k]
            /\ lock'[k] = IF k = j /\ lock[j] = w THEN NoWorker ELSE lock[k]
  BY <1>1, <1>2, FinishedTyped
<1>9. QED
  BY <1>4, <1>5, <1>6, <1>7, <1>8 DEF QueueTyped

\* The process of a failed refresh gives up: a launcher leaves the queue alone.
LEMMA GivesUpTyped ==
    ASSUME TypeOK, EntriesAreHeld, NEW p \in Processes, proc[p].job \in Jobs, GivesUp(p)
    PROVE  /\ QueueTyped'
           /\ Done(p)
           /\ \A k \in Jobs :
                 \/ /\ entry[k] = "active" /\ lock'[k] = NoWorker
                    /\ entry'[k] \in {"waiting", "failed"}
                    /\ entry'[k] = "waiting" => tries'[k] < MaxAttempts
                 \/ entry'[k] = entry[k] /\ lock'[k] = lock[k] /\ tries'[k] = tries[k]
<1>1. CASE p \in Workers
  BY <1>1, RejectedTyped DEF GivesUp
<1>2. CASE p \notin Workers
  BY <1>2 DEF GivesUp, queueVars, QueueTyped, TypeOK, EntryStates
<1>3. QED
  BY <1>1, <1>2

\* The types, group by group.
OthersTyped ==
    /\ lapsed \in BOOLEAN /\ cooling \in BOOLEAN
    /\ raced \in BOOLEAN /\ late \in BOOLEAN /\ torn \in BOOLEAN
    /\ shein \in 1..MaxVersion /\ told \in 0..MaxVersion /\ faults \in 0..MaxFaults
JobsTyped  == job \in [Jobs -> RefreshStates] /\ quiet \subseteq Jobs
ProcsTyped == proc \in [Processes -> ProcType]

LEMMA TypesAre == TypeOK <=> OthersTyped /\ JobsTyped /\ ProcsTyped /\ QueueTyped /\ snap \in SnapType
  BY DEF TypeOK, OthersTyped, JobsTyped, ProcsTyped, QueueTyped, SnapType, SnapStates, ProcType,
     RefreshStates, EntryStates

LEMMA TypesArePrimed ==
    TypeOK' <=> OthersTyped' /\ JobsTyped' /\ ProcsTyped' /\ QueueTyped' /\ snap' \in SnapType
  BY DEF TypeOK, OthersTyped, JobsTyped, ProcsTyped, QueueTyped, SnapType, SnapStates, ProcType,
     RefreshStates, EntryStates

LEMMA TypeStep == IInv /\ [Next]_vars => TypeOK'
<1> SUFFICES ASSUME IInv, [Next]_vars PROVE TypeOK'
  OBVIOUS
<1> USE DEF jobVars, queueVars, timeVars
<1>1. TypeOK /\ ProcessesWork /\ EntriesAreHeld /\ JobsInOrder
  BY DEF IInv
<1>2. OthersTyped /\ JobsTyped /\ ProcsTyped /\ QueueTyped /\ snap \in SnapType
  BY <1>1, TypesAre
<1>3. ASSUME Fault PROVE faults' \in 0..MaxFaults
  BY <1>1, <1>3, Bounds DEF Fault, TypeOK
<1>4. ASSUME UNCHANGED job, quiet' \subseteq Jobs PROVE JobsTyped'
  BY <1>2, <1>4 DEF JobsTyped
<1>5. CASE SheinChanges
  <2>1. OthersTyped'
    BY <1>2, <1>5, Bounds DEF SheinChanges, OthersTyped
  <2>2. QED
    BY <1>2, <1>5, <2>1, TypesArePrimed DEF SheinChanges, JobsTyped, ProcsTyped, QueueTyped
<1>6. ASSUME NEW q \in Quotas, SaveQuota(q) PROVE TypeOK'
  <2>1. snap' \in SnapType
    BY <1>1, <1>6, SnapTyped, SnapWithQuota DEF SaveQuota, SnapIs
  <2>2. QED
    BY <1>2, <1>6, <2>1, TypesArePrimed DEF SaveQuota, OthersTyped, JobsTyped, ProcsTyped, QueueTyped
<1>7. CASE CountNotice
  <2>1. snap' \in SnapType
    BY <1>1, <1>7, SnapTyped, SnapWithNotice DEF CountNotice, SnapIs
  <2>2. OthersTyped'
    BY <1>2, <1>7, Bounds DEF CountNotice, OthersTyped
  <2>3. QED
    BY <1>2, <1>7, <2>1, <2>2, TypesArePrimed DEF CountNotice, JobsTyped, ProcsTyped, QueueTyped
<1>8. CASE CooldownEnds \/ RefreshLapses
  <2>1. OthersTyped'
    BY <1>2, <1>8 DEF CooldownEnds, RefreshLapses, OthersTyped
  <2>2. QED
    BY <1>2, <1>8, <2>1, TypesArePrimed
       DEF CooldownEnds, RefreshLapses, JobsTyped, ProcsTyped, QueueTyped
<1>9. ASSUME NEW j \in Jobs, JobLapses(j) \/ Touch(j) PROVE TypeOK'
  <2>1. OthersTyped'
    BY <1>2, <1>3, <1>9 DEF JobLapses, Touch, OthersTyped
  <2>2. JobsTyped'
    BY <1>2, <1>9 DEF JobLapses, Touch, JobsTyped
  <2>3. QED
    BY <1>2, <1>9, <2>1, <2>2, TypesArePrimed DEF JobLapses, Touch, ProcsTyped, QueueTyped
<1>10. CASE ReconcileStale \/ ListSyncJobs
  <2>1. JobsTyped'
    BY <1>1, <1>10, TimeoutTyped, JobsToTyped DEF ReconcileStale, ListSyncJobs, JobsTyped
  <2>2. snap' \in SnapType
    BY <1>2, <1>10, SettledIs DEF ReconcileStale, ListSyncJobs, SnapIs
  <2>3. QED
    BY <1>2, <1>10, <2>1, <2>2, TypesArePrimed
       DEF ReconcileStale, ListSyncJobs, OthersTyped, ProcsTyped, QueueTyped
<1>11. ASSUME NEW p \in Launchers, NEW manual \in BOOLEAN, ClaimRefresh(p, manual) PROVE TypeOK'
  <2>1. CASE NoneActive(AfterTimeout) /\ RowClaimable(manual)
    <3> DEFINE j == Newest + 1
    <3>1. j \in Jobs
      BY <1>1, <1>11, NewestIsLast, Bounds DEF ClaimRefresh
    <3>2. /\ JobsTo([AfterTimeout EXCEPT ![j] = "queued"])
          /\ snap' = [snap EXCEPT !.state = "refreshing"]
          /\ lapsed' = FALSE /\ cooling' = (manual \/ cooling)
          /\ proc' = [proc EXCEPT ![p] = [step |-> "add", job |-> j, read |-> 0]]
          /\ UNCHANGED <<shein, queueVars, told, raced, late, torn, faults>>
      BY <1>11, <2>1 DEF ClaimRefresh
    <3> HIDE DEF j
    <3>3. JobsTyped'
      <4>1. [AfterTimeout EXCEPT ![j] = "queued"] \in [Jobs -> RefreshStates]
        BY <1>1, <3>1, TimeoutTyped DEF RefreshStates
      <4>2. QED
        BY <1>1, <3>2, <4>1, JobsToTyped DEF JobsTyped
    <3>4. snap' \in SnapType
      BY <1>2, <3>2, SnapWithState DEF SnapIs, SnapStates
    <3>5. ProcsTyped'
      <4>1. [step |-> "add", job |-> j, read |-> 0] \in ProcType
        BY <3>1, NewTyped DEF Steps
      <4>2. p \in Processes
        BY DEF Processes
      <4>3. QED
        BY <1>1, <3>2, <4>1, <4>2, ProcessTo DEF ProcsTyped
    <3>6. OthersTyped' /\ QueueTyped'
      BY <1>2, <3>2 DEF OthersTyped, QueueTyped
    <3>7. QED
      BY <3>3, <3>4, <3>5, <3>6, TypesArePrimed
  <2>2. CASE ~(NoneActive(AfterTimeout) /\ RowClaimable(manual))
    <3>1. JobsTyped'
      BY <1>1, <1>11, <2>2, TimeoutTyped, JobsToTyped DEF ClaimRefresh, JobsTyped
    <3>2. QED
      BY <1>2, <1>11, <2>2, <3>1, TypesArePrimed DEF ClaimRefresh, OthersTyped, ProcsTyped, QueueTyped
  <2>3. QED
    BY <2>1, <2>2
<1>12. ASSUME NEW p \in Processes, proc[p].step # "none" PROVE proc[p].job \in Jobs
  BY <1>1, <1>12 DEF ProcessesWork
<1>13. ASSUME NEW j \in Jobs, Added(j) PROVE entry' \in [Jobs -> EntryStates]
  BY <1>2, <1>13 DEF Added, QueueTyped, EntryStates
<1>14. ASSUME NEW p \in Processes, AddJob(p) PROVE TypeOK'
  <2>1. entry' \in [Jobs -> EntryStates] /\ ProcsTyped'
    BY <1>1, <1>12, <1>13, <1>14, ProcessDone DEF AddJob, ProcsTyped
  <2>2. QED
    BY <1>2, <1>14, <2>1, TypesArePrimed DEF AddJob, OthersTyped, JobsTyped, QueueTyped
<1>15. ASSUME NEW p \in Processes, AddFails(p) PROVE TypeOK'
  <2>1. entry' \in [Jobs -> EntryStates]
    BY <1>2, <1>12, <1>13, <1>15 DEF AddFails, QueueTyped
  <2>2. ProcsTyped'
    BY <1>1, <1>15, ProcessToStep DEF AddFails, ProcsTyped, Steps
  <2>3. QED
    BY <1>2, <1>3, <1>15, <2>1, <2>2, TypesArePrimed DEF AddFails, OthersTyped, JobsTyped, QueueTyped
<1>16. ASSUME NEW j \in Jobs, NEW w \in Workers, MarkRunning(w, j) PROVE TypeOK'
  <2>1. CASE Active(j)
    <3>1. JobsTyped' /\ QueueTyped'
      BY <1>2, <1>16, <2>1 DEF MarkRunning, JobsTyped, QueueTyped, RefreshStates, EntryStates
    <3>2. ProcsTyped'
      <4>1. [step |-> "read", job |-> j, read |-> 0] \in ProcType
        BY NewTyped DEF Steps
      <4>2. QED
        BY <1>1, <1>16, <2>1, <4>1, ProcessTo DEF MarkRunning, ProcsTyped, Processes
    <3>3. QED
      BY <1>2, <1>16, <3>1, <3>2, TypesArePrimed DEF MarkRunning, OthersTyped
  <2>2. CASE ~Active(j)
    <3>1. QueueTyped'
      BY <1>2, <1>16, <2>2 DEF MarkRunning, QueueTyped, EntryStates
    <3>2. QED
      BY <1>2, <1>16, <2>2, <3>1, TypesArePrimed DEF MarkRunning, OthersTyped, JobsTyped, ProcsTyped
  <2>3. QED
    BY <2>1, <2>2
<1>17. ASSUME NEW p \in Processes, ReadShein(p) PROVE TypeOK'
  <2>1. proc[p] \in ProcType /\ shein \in 0..MaxVersion
    BY <1>2, Bounds DEF ProcsTyped, OthersTyped
  <2>2. proc' = [proc EXCEPT ![p] = Reading(proc[p], shein)]
    BY <1>17 DEF ReadShein, Reading
  <2>3. ProcsTyped'
    BY <1>1, <2>1, <2>2, ReadTyped, ProcessTo DEF ProcsTyped
  <2>4. QED
    BY <1>2, <1>17, <2>3, TypesArePrimed DEF ReadShein, OthersTyped, JobsTyped, QueueTyped
<1>18. ASSUME NEW p \in Processes, SaveSuccess(p) PROVE TypeOK'
  <2>1. proc[p].read \in 0..MaxVersion /\ proc[p].job \in Jobs /\ p \in Workers
    BY <1>2, <1>12, <1>18 DEF SaveSuccess, ProcsTyped, ProcType
  <2>2. snap' \in SnapType
    BY <1>2, <1>18, <2>1, SnapWithRead DEF SaveSuccess, MergedWith, SnapIs
  <2>3. JobsTyped'
    BY <1>1, <1>18, <2>1, EndedTyped DEF SaveSuccess, JobsTyped
  <2>4. QueueTyped'
    BY <1>1, <1>2, <1>18, <2>1, FinishedTyped DEF SaveSuccess, QueueTyped, EntryStates
  <2>5. ProcsTyped'
    BY <1>1, <1>18, ProcessDone DEF SaveSuccess, ProcsTyped
  <2>6. OthersTyped'
    BY <1>2, <1>18 DEF SaveSuccess, OthersTyped
  <2>7. QED
    BY <2>2, <2>3, <2>4, <2>5, <2>6, TypesArePrimed
<1>19. ASSUME NEW p \in Processes, RefreshFails(p) PROVE TypeOK'
  <2>1. ProcsTyped'
    BY <1>1, <1>19, ProcessToStep DEF RefreshFails, ProcsTyped, Steps
  <2>2. OthersTyped'
    BY <1>2, <1>3, <1>19 DEF RefreshFails, OthersTyped
  <2>3. QED
    BY <1>2, <1>19, <2>1, <2>2, TypesArePrimed DEF RefreshFails, JobsTyped, QueueTyped
<1>20. ASSUME NEW p \in Processes, FailSnapshot(p) PROVE TypeOK'
  <2>1. ProcsTyped'
    BY <1>1, <1>20, ProcessToStep DEF FailSnapshot, ProcsTyped, Steps
  <2>2. snap' \in SnapType /\ OthersTyped'
    BY <1>2, <1>20, SettledIs DEF FailSnapshot, AfterFailure, SnapIs, OthersTyped
  <2>3. QED
    BY <1>2, <1>20, <2>1, <2>2, TypesArePrimed DEF FailSnapshot, JobsTyped, QueueTyped
<1>21. ASSUME NEW p \in Processes, FailJob(p) PROVE TypeOK'
  <2>1. proc[p].job \in Jobs
    BY <1>12, <1>21 DEF FailJob
  <2>2. QueueTyped' /\ ProcsTyped'
    BY <1>1, <1>21, <2>1, GivesUpTyped, ProcessDone DEF FailJob, ProcsTyped
  <2>3. JobsTyped'
    BY <1>1, <1>21, <2>1, EndedTyped DEF FailJob, JobsTyped
  <2>4. QED
    BY <1>2, <1>21, <2>2, <2>3, TypesArePrimed DEF FailJob, OthersTyped
<1>22. ASSUME NEW p \in Processes, SaveFailureFails(p) PROVE TypeOK'
  <2>1. proc[p].job \in Jobs
    BY <1>12, <1>22 DEF SaveFailureFails
  <2>2. QueueTyped' /\ ProcsTyped'
    BY <1>1, <1>22, <2>1, GivesUpTyped, ProcessDone DEF SaveFailureFails, ProcsTyped
  <2>3. OthersTyped'
    BY <1>2, <1>3, <1>22 DEF SaveFailureFails, Torn, OthersTyped
  <2>4. QED
    BY <1>2, <1>22, <2>2, <2>3, TypesArePrimed DEF SaveFailureFails, JobsTyped
<1>23. ASSUME NEW p \in Processes, Dies(p) PROVE TypeOK'
  <2>1. ProcsTyped'
    BY <1>1, <1>23, ProcessDone DEF Dies, ProcsTyped
  <2>2. OthersTyped'
    BY <1>2, <1>3, <1>23 DEF Dies, Torn, OthersTyped
  <2>3. QED
    BY <1>2, <1>23, <2>1, <2>2, TypesArePrimed DEF Dies, JobsTyped, QueueTyped
<1>24. ASSUME NEW j \in Jobs, Stall(j) PROVE TypeOK'
  <2>1. QueueTyped'
    BY <1>2, <1>24 DEF Stall, QueueTyped, EntryStates
  <2>2. OthersTyped'
    BY <1>2, <1>3, <1>24 DEF Stall, OthersTyped
  <2>3. QED
    BY <1>2, <1>24, <2>1, <2>2, TypesArePrimed DEF Stall, JobsTyped, ProcsTyped
<1>25. CASE UNCHANGED vars
  BY <1>2, <1>25, TypesArePrimed DEF vars, OthersTyped, JobsTyped, ProcsTyped, QueueTyped
<1>26. QED
  BY <1>5, <1>6, <1>7, <1>8, <1>9, <1>10, <1>11, <1>14, <1>15, <1>16, <1>17, <1>18, <1>19, <1>20,
     <1>21, <1>22, <1>23, <1>24, <1>25
     DEF Next, Step

-----------------------------------------------------------------------------
(* Jobs and processes                                                      *)

\* No job is claimed, and none comes back.
JobsMove ==
    \A j \in Jobs :
        /\ job'[j] = "none" <=> job[j] = "none"
        /\ job'[j] \in {"queued", "running"} => Active(j)

LEMMA OrderStep ==
    ASSUME JobsInOrder, OneActive, JobsMove
    PROVE  JobsInOrder' /\ OneActive'
  BY DEF JobsInOrder, OneActive, JobsMove, Active

\* An entry changes that is in the queue already.
EntriesMove == \A j \in Jobs : entry'[j] = entry[j] \/ entry[j] # "none"

\* One process goes on with its job, or leaves it.
GoesOn(p) ==
    /\ \A q \in Processes \ {p} : proc'[q] = proc[q]
    /\ proc'[p].job = 0 \/ proc'[p].job = proc[p].job
    /\ proc'[p].step # "add"

LEMMA ProcessesStay ==
    ASSUME ProcessesWork, IdsAreNew, JobsMove, EntriesMove, proc' = proc
    PROVE  ProcessesWork' /\ IdsAreNew'
<1>1. ProcessesWork'
  BY DEF ProcessesWork
<1>2. IdsAreNew'
  BY DEF ProcessesWork, IdsAreNew, JobsMove, EntriesMove
<1>3. QED
  BY <1>1, <1>2

LEMMA IdsStep ==
    ASSUME ProcessesWork, IdsAreNew, JobsMove, NEW p \in Processes, GoesOn(p),
           \A j \in Jobs : \/ entry'[j] = entry[j] \/ entry[j] # "none"
                          \/ j = proc[p].job
    PROVE  IdsAreNew'
<1>1. ASSUME NEW j \in Jobs, job'[j] = "none"
      PROVE  entry'[j] = "none" /\ \A q \in Processes : proc'[q].job # j
  <2>1. job[j] = "none"
    BY <1>1 DEF JobsMove
  <2>2. entry[j] = "none" /\ \A q \in Processes : proc[q].job # j
    BY <2>1 DEF IdsAreNew
  <2>3. j # 0
    BY Bounds
  <2>4. QED
    BY <2>2, <2>3 DEF GoesOn
<1>2. ASSUME NEW q \in Processes, proc'[q].step = "add"
      PROVE  /\ entry'[proc'[q].job] = "none"
             /\ \A v \in Processes : proc'[v].job = proc'[q].job => v = q
  <2>1. q # p /\ proc'[q] = proc[q] /\ proc[q].step = "add"
    BY <1>2 DEF GoesOn
  <2>2. proc[q].job \in Jobs /\ proc[q].job # 0
    BY <2>1, Bounds DEF ProcessesWork
  <2>3. entry[proc[q].job] = "none" /\ \A v \in Processes : proc[v].job = proc[q].job => v = q
    BY <2>1 DEF IdsAreNew
  <2>4. proc[p].job # proc[q].job
    BY <2>1, <2>3
  <2>5. QED
    BY <2>1, <2>2, <2>3, <2>4 DEF GoesOn
<1>3. QED
  BY <1>1, <1>2 DEF IdsAreNew

\* The entries of a step in which some of them change hands.
LEMMA EntriesStep ==
    ASSUME EntriesAreHeld,
           \A j \in Jobs :
              \/ entry'[j] = entry[j] /\ lock'[j] = lock[j] /\ tries'[j] = tries[j]
              \/ /\ entry'[j] # "none"
                 /\ lock'[j] # NoWorker => entry'[j] = "active"
                 /\ entry'[j] \in {"waiting", "active"} => tries'[j] < MaxAttempts
    PROVE  EntriesAreHeld'
  BY DEF EntriesAreHeld

\* Neither SHEIN nor the data and the marker change, and what is about to be
\* stored stays as good as it was.
DataStay ==
    /\ UNCHANGED <<shein, told, raced>>
    /\ late => late'
    /\ snap'.data = snap.data /\ snap'.counted = snap.counted /\ snap'.synced = snap.synced
    /\ \A p \in Processes : proc'[p].step = "save" =>
          /\ proc[p].step = "save" /\ proc'[p].job = proc[p].job /\ proc'[p].read = proc[p].read
          /\ job'[proc[p].job] \in {"queued", "running"} => Active(proc[p].job)

DataInv == NothingIsAhead /\ ReadsAreFresh /\ MarkerCoversData

LEMMA DataStayStep == DataInv /\ DataStay => DataInv'
<1> SUFFICES ASSUME DataInv, DataStay PROVE DataInv'
  OBVIOUS
<1>1. NothingIsAhead'
  BY DEF DataInv, DataStay, NothingIsAhead
<1>2. ReadsAreFresh'
  BY DEF DataInv, DataStay, ReadsAreFresh, Active
<1>3. MarkerCoversData'
  BY DEF DataInv, DataStay, MarkerCoversData
<1>4. QED
  BY <1>1, <1>2, <1>3 DEF DataInv

\* A process goes on without reading or storing.
LEMMA DataOfProcess ==
    ASSUME DataInv, ProcessesWork, JobsMove, NEW p \in Processes, GoesOn(p), proc'[p].step # "save",
           UNCHANGED <<shein, told, raced>>, late => late',
           snap'.data = snap.data, snap'.counted = snap.counted, snap'.synced = snap.synced
    PROVE  DataInv'
<1>1. ASSUME NEW q \in Processes, proc'[q].step = "save"
      PROVE  /\ proc[q].step = "save" /\ proc'[q].job = proc[q].job /\ proc'[q].read = proc[q].read
             /\ job'[proc[q].job] \in {"queued", "running"} => Active(proc[q].job)
  BY <1>1 DEF GoesOn, JobsMove, ProcessesWork
<1>2. DataStay
  BY <1>1 DEF DataStay
<1>3. QED
  BY <1>2, DataStayStep

LEMMA DataTyped ==
    TypeOK => /\ shein \in Nat /\ told \in Nat
              /\ snap.data \in Nat /\ snap.counted \in Nat /\ snap.synced \in Nat
              /\ \A p \in Processes : proc[p].read \in Nat
  BY Bounds DEF TypeOK

\* SHEIN's data change.
LEMMA SheinData == TypeOK /\ DataInv /\ SheinChanges => DataInv'
<1> SUFFICES ASSUME TypeOK, DataInv, SheinChanges PROVE DataInv'
  OBVIOUS
<1>1. shein' = shein + 1 /\ UNCHANGED <<snap, proc, told, raced, late, job>>
  BY DEF SheinChanges, jobVars
<1>2. QED
  BY <1>1, DataTyped DEF DataInv, NothingIsAhead, ReadsAreFresh, MarkerCoversData, Active

\* A notice is counted, perhaps while a read waits to be stored.
LEMMA NoticeData == TypeOK /\ ProcessesWork /\ DataInv /\ CountNotice => DataInv'
<1> SUFFICES ASSUME TypeOK, ProcessesWork, DataInv, CountNotice PROVE DataInv'
  OBVIOUS
<1>1. /\ snap'.data = snap.data /\ snap'.counted = snap.counted + 1 /\ snap'.synced = snap.synced
      /\ told' = shein /\ UNCHANGED <<shein, proc, late, job>>
  BY SnapTyped, SnapWithNotice DEF CountNotice, SnapIs, jobVars
<1>2. \A p \in Processes : proc[p].step = "save" => raced'
  BY DEF CountNotice, ProcessesWork
<1>3. QED
  BY <1>1, <1>2, DataTyped DEF DataInv, NothingIsAhead, ReadsAreFresh, MarkerCoversData, Active

\* A read is as new as everything counted and stored so far.
LEMMA ReadData ==
    ASSUME TypeOK, DataInv, NEW p \in Processes, ReadShein(p)
    PROVE  DataInv'
<1>1. /\ proc'[p].step = "save" /\ proc'[p].read = shein /\ proc'[p].job = proc[p].job
      /\ \A q \in Processes \ {p} : proc'[q] = proc[q]
  <2>1. proc[p] \in ProcType /\ shein \in 0..MaxVersion
    BY Bounds DEF TypeOK, ProcType
  <2>2. proc' = [proc EXCEPT ![p] = Reading(proc[p], shein)]
    BY DEF ReadShein, Reading
  <2>3. Reading(proc[p], shein) \in ProcType
    BY <2>1, ReadTyped
  <2>4. \A q \in Processes : proc'[q] = IF q = p THEN Reading(proc[p], shein) ELSE proc[q]
    BY <2>2, <2>3, ProcessTo
  <2>5. QED
    BY <2>1, <2>4, ReadTyped
<1>2. UNCHANGED <<shein, snap, told, raced, late, job>>
  BY DEF ReadShein, jobVars
<1>3. NothingIsAhead' /\ MarkerCoversData'
  BY <1>1, <1>2, DataTyped DEF DataInv, NothingIsAhead, MarkerCoversData
<1>4. ASSUME NEW q \in Processes, proc'[q].step = "save"
      PROVE  /\ proc'[q].read >= told' \/ raced'
             /\ job'[proc'[q].job] \in {"queued", "running"} => proc'[q].read >= snap'.data \/ late'
  <2>1. CASE q = p
    BY <1>1, <1>2, <2>1, DataTyped DEF DataInv, NothingIsAhead
  <2>2. CASE q # p
    BY <1>1, <1>2, <1>4, <2>2 DEF DataInv, ReadsAreFresh, Active
  <2>3. QED
    BY <2>1, <2>2
<1>5. QED
  BY <1>3, <1>4 DEF DataInv, ReadsAreFresh, Active

\* saveSuccess: the read covers what was counted, and the data of its own job.
LEMMA SaveData ==
    ASSUME IInv, NEW p \in Processes, SaveSuccess(p)
    PROVE  DataInv' /\ (snap.data <= snap'.data \/ late') /\ snap'.quota = snap.quota
<1> DEFINE j == proc[p].job
<1>1. TypeOK /\ j \in Jobs /\ p \in Workers /\ proc[p].step = "save"
  BY DEF IInv, ProcessesWork, SaveSuccess
<1>2. /\ snap'.data = proc[p].read /\ snap'.counted = snap.counted /\ snap'.synced = snap.counted
      /\ snap'.quota = snap.quota
  <2>1. proc[p].read \in 0..MaxVersion
    BY <1>1 DEF TypeOK
  <2>2. snap' = [[snap EXCEPT !.data = proc[p].read] EXCEPT !.state = "ready", !.synced = snap.counted]
    BY DEF SaveSuccess, MergedWith
  <2>3. QED
    BY <1>1, <2>1, <2>2, SnapTyped, SnapWithRead DEF SnapIs
<1>3. /\ \A k \in Jobs : job'[k] = IF k = j /\ Active(j) THEN "succeeded" ELSE job[k]
      /\ late' = (late \/ ~Active(j))
      /\ \A q \in Processes : proc'[q] = IF q = p THEN Idle ELSE proc[q]
      /\ UNCHANGED <<shein, told, raced>>
  BY <1>1, EndedTyped, ProcessDone DEF SaveSuccess
<1> HIDE DEF j
<1>4. NothingIsAhead'
  BY <1>1, <1>2, <1>3, DataTyped, IdleTyped DEF IInv, NothingIsAhead
<1>5. MarkerCoversData'
  BY <1>1, <1>2, <1>3 DEF IInv, ReadsAreFresh, MarkerCoversData
<1>6. ASSUME NEW q \in Processes, proc'[q].step = "save"
      PROVE  /\ proc'[q].read >= told' \/ raced'
             /\ job'[proc'[q].job] \in {"queued", "running"} => proc'[q].read >= snap'.data \/ late'
  <2>1. q # p /\ proc'[q] = proc[q] /\ proc[q].job \in Jobs
    BY <1>3, <1>6, IdleTyped DEF IInv, ProcessesWork
  <2>2. proc[q].read >= told' \/ raced'
    BY <1>3, <1>6, <2>1 DEF IInv, ReadsAreFresh
  <2>3. ASSUME job'[proc[q].job] \in {"queued", "running"} PROVE late'
    BY <1>1, <1>3, <2>1, <2>3 DEF IInv, OneActive, Active
  <2>4. QED
    BY <2>1, <2>2, <2>3
<1>7. snap.data <= snap'.data \/ late'
  <2>1. Active(j) => proc[p].read >= snap.data \/ late
    BY <1>1 DEF IInv, ReadsAreFresh, j
  <2>2. QED
    BY <1>1, <1>2, <1>3, <2>1, DataTyped
<1>8. QED
  BY <1>2, <1>4, <1>5, <1>6, <1>7 DEF DataInv, ReadsAreFresh, Active

-----------------------------------------------------------------------------
(* The snapshot of an active job                                           *)

\* Nothing takes the snapshot out of refreshing, and no saveFailure goes on.
LEMMA ExplainedStays ==
    ASSUME ActiveExplained, OneActive, ProcessesWork, JobsMove,
           snap.state = "refreshing" => snap'.state = "refreshing",
           torn => torn', late => late',
           \A p \in Processes : proc[p].step = "failJob" => proc'[p] = proc[p]
    PROVE  ActiveExplained'
<1>1. CASE NoneActive(job)
  <2>1. NoneActive(job)'
    BY <1>1 DEF NoneActive, JobsMove, Active
  <2>2. QED
    BY <2>1 DEF ActiveExplained
<1>2. CASE \E p \in Processes : proc[p].step = "failJob" /\ Active(proc[p].job)
  <2>1. PICK p \in Processes : proc[p].step = "failJob" /\ Active(proc[p].job)
    BY <1>2
  <2>2. proc'[p] = proc[p] /\ proc[p].job \in Jobs
    BY <2>1 DEF ProcessesWork
  <2>3. CASE job'[proc[p].job] \in {"queued", "running"}
    BY <2>1, <2>2, <2>3 DEF ActiveExplained, Active
  <2>4. CASE job'[proc[p].job] \notin {"queued", "running"}
    <3>1. NoneActive(job)'
      BY <2>1, <2>2, <2>4 DEF NoneActive, JobsMove, OneActive
    <3>2. QED
      BY <3>1 DEF ActiveExplained
  <2>5. QED
    BY <2>3, <2>4
<1>3. CASE snap.state = "refreshing" \/ torn \/ late
  BY <1>3 DEF ActiveExplained
<1>4. QED
  BY <1>1, <1>2, <1>3 DEF ActiveExplained

\* A job that was active ends, and no other one is active.
LEMMA NoneLeft ==
    ASSUME OneActive, JobsMove, NEW j \in Jobs, Active(j),
           job'[j] \notin {"queued", "running"}
    PROVE  NoneActive(job)'
  BY DEF OneActive, JobsMove, NoneActive

LEMMA FailJobExplained ==
    ASSUME IInv, NEW p \in Processes, FailJob(p), JobsMove,
           \A q \in Processes \ {p} : proc'[q] = proc[q]
    PROVE  ActiveExplained'
<1>1. /\ TypeOK /\ OneActive /\ proc[p].job \in Jobs
      /\ \A k \in Jobs : job'[k] = IF k = proc[p].job /\ Active(proc[p].job) THEN "failed" ELSE job[k]
      /\ UNCHANGED <<snap, torn, late>>
  BY EndedTyped DEF IInv, ProcessesWork, FailJob
<1>2. CASE Active(proc[p].job)
  <2>1. job'[proc[p].job] = "failed"
    BY <1>1, <1>2
  <2>2. NoneActive(job)'
    BY <1>1, <1>2, <2>1, NoneLeft
  <2>3. QED
    BY <2>2 DEF ActiveExplained
<1>3. CASE ~Active(proc[p].job)
  <2>1. NoneActive(job) => NoneActive(job)'
    BY <1>1, <1>3 DEF NoneActive
  <2>2. ASSUME NEW q \in Processes, proc[q].step = "failJob", Active(proc[q].job)
        PROVE  proc'[q].step = "failJob" /\ job'[proc'[q].job] \in {"queued", "running"}
    BY <1>1, <1>3, <2>2 DEF IInv, ProcessesWork, Active
  <2>3. QED
    BY <1>1, <2>1, <2>2 DEF IInv, ActiveExplained, Active
<1>4. QED
  BY <1>2, <1>3

-----------------------------------------------------------------------------
(* The invariant                                                           *)

\* A step around the processes.
LEMMA AroundKeeps ==
    ASSUME IInv, TypeOK', JobsMove, EntriesMove, EntriesAreHeld', proc' = proc,
           DataInv', ActiveExplained'
    PROVE  IInv'
  BY OrderStep, ProcessesStay DEF IInv, DataInv

\* A step of one process.
LEMMA ProcessKeeps ==
    ASSUME IInv, TypeOK', JobsMove, NEW p \in Processes, GoesOn(p),
           proc'[p].step # "none" => proc'[p].job = proc[p].job /\ proc[p].step # "none",
           proc'[p].step \in {"read", "save"} => p \in Workers,
           \A j \in Jobs : entry'[j] = entry[j] \/ entry[j] # "none" \/ j = proc[p].job,
           EntriesAreHeld', DataInv', ActiveExplained'
    PROVE  IInv'
<1>1. ProcessesWork'
  <2>1. proc'[p].step # "none" => proc'[p].job \in Jobs
    BY DEF IInv, ProcessesWork
  <2>2. QED
    BY <2>1 DEF IInv, ProcessesWork, GoesOn
<1>2. IdsAreNew'
  BY IdsStep DEF IInv
<1>3. QED
  BY <1>1, <1>2, OrderStep DEF IInv, DataInv

LEMMA InitInv == Init => IInv
<1> SUFFICES ASSUME Init PROVE IInv
  OBVIOUS
<1>1. /\ proc = [p \in Processes |-> Idle] /\ job = [j \in Jobs |-> "none"]
      /\ entry = [j \in Jobs |-> "none"] /\ lock = [j \in Jobs |-> NoWorker]
      /\ tries = [j \in Jobs |-> 0]
  BY DEF Init
<1>2. TypeOK
  <2>1. OthersTyped /\ JobsTyped
    <3>1. JobsTyped
      BY DEF Init, JobsTyped, RefreshStates
    <3>2. 1 \in 1..MaxVersion /\ 0 \in 0..MaxVersion /\ 0 \in 0..MaxFaults
      BY Bounds
    <3>3. QED
      BY <3>1, <3>2 DEF Init, OthersTyped
  <2>2. ProcsTyped /\ QueueTyped
    BY <1>1, Bounds, IdleTyped DEF ProcsTyped, QueueTyped, EntryStates
  <2>3. snap \in SnapType
    BY Bounds DEF Init, SnapType, SnapStates
  <2>4. QED
    BY <2>1, <2>2, <2>3, TypesAre
<1>3. ProcessesWork /\ EntriesAreHeld /\ IdsAreNew
  BY <1>1, Bounds, IdleTyped DEF ProcessesWork, EntriesAreHeld, IdsAreNew
<1>4. JobsInOrder
  <2>1. 0 \in 0..MaxJobs /\ \A j \in Jobs : job[j] # "none" <=> j <= 0
    BY <1>1, Bounds
  <2>2. QED
    BY <2>1 DEF JobsInOrder
<1>5. OneActive /\ ActiveExplained
  BY <1>1 DEF OneActive, ActiveExplained, NoneActive, Active
<1>6. NothingIsAhead /\ ReadsAreFresh /\ MarkerCoversData
  BY <1>1, IdleTyped DEF Init, NothingIsAhead, ReadsAreFresh, MarkerCoversData
<1>7. QED
  BY <1>2, <1>3, <1>4, <1>5, <1>6 DEF IInv

\* A refresh is claimed: its job is new, and no other one is active.
LEMMA ClaimKeeps ==
    ASSUME IInv, TypeOK', NEW p \in Launchers, NEW manual \in BOOLEAN, ClaimRefresh(p, manual),
           NoneActive(AfterTimeout), RowClaimable(manual)
    PROVE  IInv'
<1> DEFINE j == Newest + 1
<1>1. TypeOK /\ JobsInOrder /\ p \in Processes /\ p \notin Workers
  BY ProcessAssumption DEF IInv, Processes
<1>2. j \in Jobs /\ Newest \in 0..MaxJobs /\ \A k \in Jobs : job[k] # "none" <=> k <= Newest
  BY <1>1, NewestIsLast, Bounds DEF ClaimRefresh
<1>3. job[j] = "none"
  BY <1>2
<1>4. /\ job' = [AfterTimeout EXCEPT ![j] = "queued"]
      /\ snap' = [snap EXCEPT !.state = "refreshing"]
      /\ proc' = [proc EXCEPT ![p] = [step |-> "add", job |-> j, read |-> 0]]
      /\ UNCHANGED <<shein, queueVars, told, raced, late, torn>>
  BY DEF ClaimRefresh, JobsTo
<1>5. j = Newest + 1
  OBVIOUS
<1> HIDE DEF j
<1>6. \A k \in Jobs : job'[k] = IF k = j THEN "queued" ELSE AfterTimeout[k]
  BY <1>1, <1>2, <1>4, TimeoutTyped
<1>7. \A k \in Jobs \ {j} : /\ job'[k] \notin {"queued", "running"}
                            /\ job'[k] = "none" <=> job[k] = "none"
  BY <1>1, <1>6, TimeoutTyped DEF NoneActive, Active
<1>8. /\ \A q \in Processes \ {p} : proc'[q] = proc[q]
      /\ proc'[p].step = "add" /\ proc'[p].job = j
  BY <1>1, <1>4 DEF TypeOK
<1>9. entry[j] = "none" /\ \A q \in Processes : proc[q].job # j
  BY <1>2, <1>3 DEF IInv, IdsAreNew
<1>10. ProcessesWork'
  BY <1>1, <1>2, <1>8 DEF IInv, ProcessesWork
<1>11. JobsInOrder'
  <2>1. j \in 0..MaxJobs
    BY <1>2, Bounds
  <2>2. \A k \in Jobs : job'[k] # "none" <=> k <= j
    BY <1>2, <1>5, <1>6, <1>7, Bounds
  <2>3. QED
    BY <2>1, <2>2 DEF JobsInOrder
<1>12. EntriesAreHeld'
  BY <1>4 DEF IInv, EntriesAreHeld, queueVars
<1>13. IdsAreNew'
  <2>1. ASSUME NEW k \in Jobs, job'[k] = "none"
        PROVE  entry'[k] = "none" /\ \A q \in Processes : proc'[q].job # k
    BY <1>4, <1>6, <1>7, <1>8, <2>1 DEF IInv, IdsAreNew, queueVars
  <2>2. ASSUME NEW q \in Processes, proc'[q].step = "add"
        PROVE  /\ entry'[proc'[q].job] = "none"
               /\ \A v \in Processes : proc'[v].job = proc'[q].job => v = q
    <3>1. CASE q = p
      BY <1>4, <1>8, <1>9, <3>1 DEF queueVars
    <3>2. CASE q # p
      BY <1>4, <1>8, <1>9, <2>2, <3>2 DEF IInv, IdsAreNew, queueVars
    <3>3. QED
      BY <3>1, <3>2
  <2>3. QED
    BY <2>1, <2>2 DEF IdsAreNew
<1>14. OneActive'
  BY <1>7 DEF OneActive, Active
<1>15. snap'.state = "refreshing" /\ snap'.data = snap.data /\ snap'.counted = snap.counted
       /\ snap'.synced = snap.synced
  BY <1>1, <1>4, SnapTyped, SnapWithState DEF SnapIs, SnapStates
<1>16. DataInv'
  <2>1. ASSUME NEW q \in Processes, proc'[q].step = "save"
        PROVE  /\ proc[q].step = "save" /\ proc'[q].job = proc[q].job /\ proc'[q].read = proc[q].read
               /\ job'[proc[q].job] \in {"queued", "running"} => Active(proc[q].job)
    BY <1>7, <1>8, <1>9, <2>1 DEF IInv, ProcessesWork
  <2>2. DataStay
    BY <1>4, <1>15, <2>1 DEF DataStay
  <2>3. QED
    BY <2>2, DataStayStep DEF IInv, DataInv
<1>17. QED
  BY <1>10, <1>11, <1>12, <1>13, <1>14, <1>15, <1>16 DEF IInv, DataInv, ActiveExplained

\* A slot takes a job that is active.
LEMMA RunningKeeps ==
    ASSUME IInv, TypeOK', NEW j \in Jobs, NEW w \in Workers, MarkRunning(w, j), Active(j)
    PROVE  IInv'
<1>1. TypeOK /\ w \in Processes /\ proc[w] = Idle /\ entry[j] = "waiting" /\ tries[j] < MaxAttempts
  BY DEF IInv, EntriesAreHeld, MarkRunning, Processes
<1>2. /\ \A k \in Jobs : job'[k] = IF k = j THEN "running" ELSE job[k]
      /\ \A k \in Jobs : entry'[k] = IF k = j THEN "active" ELSE entry[k]
      /\ \A k \in Jobs \ {j} : lock'[k] = lock[k]
      /\ \A q \in Processes : proc'[q] = IF q = w THEN [step |-> "read", job |-> j, read |-> 0]
                                                 ELSE proc[q]
      /\ UNCHANGED <<shein, snap, tries, told, raced, late, torn>>
  BY <1>1 DEF MarkRunning, TypeOK
<1>3. JobsMove
  BY <1>2 DEF JobsMove, Active
<1>4. ProcessesWork'
  BY <1>2 DEF IInv, ProcessesWork
<1>5. EntriesAreHeld'
  BY <1>1, <1>2, EntriesStep DEF IInv
<1>6. IdsAreNew'
  <2>1. ASSUME NEW k \in Jobs, job'[k] = "none"
        PROVE  entry'[k] = "none" /\ \A q \in Processes : proc'[q].job # k
    BY <1>2, <2>1 DEF IInv, IdsAreNew
  <2>2. ASSUME NEW q \in Processes, proc'[q].step = "add"
        PROVE  /\ entry'[proc'[q].job] = "none"
               /\ \A v \in Processes : proc'[v].job = proc'[q].job => v = q
    <3>1. q # w /\ proc'[q] = proc[q] /\ proc[q].job \in Jobs
      BY <1>2, <2>2 DEF IInv, ProcessesWork
    <3>2. entry[proc[q].job] = "none" /\ \A v \in Processes : proc[v].job = proc[q].job => v = q
      BY <2>2, <3>1 DEF IInv, IdsAreNew
    <3>3. QED
      BY <1>1, <1>2, <3>1, <3>2
  <2>3. QED
    BY <2>1, <2>2 DEF IdsAreNew
<1>7. DataStay
  BY <1>2, <1>3 DEF DataStay, JobsMove, IInv, ProcessesWork
<1>8. ActiveExplained'
  <2>1. \A q \in Processes : proc[q].step = "failJob" => proc'[q] = proc[q]
    BY <1>1, <1>2, IdleTyped
  <2>2. QED
    BY <1>2, <1>3, <2>1, ExplainedStays DEF IInv
<1>9. QED
  BY <1>3, <1>4, <1>5, <1>6, <1>7, <1>8, OrderStep, DataStayStep DEF IInv, DataInv

LEMMA InvStep == IInv /\ [Next]_vars => IInv'
<1> SUFFICES ASSUME IInv, [Next]_vars PROVE IInv'
  OBVIOUS
<1> USE DEF jobVars, queueVars, timeVars
<1>1. TypeOK' /\ TypeOK /\ ProcessesWork /\ EntriesAreHeld /\ OneActive /\ ActiveExplained /\ DataInv
  BY TypeStep DEF IInv, DataInv
<1>2. ASSUME job' = job PROVE JobsMove
  BY <1>2 DEF JobsMove, Active
<1>3. ASSUME UNCHANGED queueVars PROVE EntriesMove /\ EntriesAreHeld'
  BY <1>1, <1>3 DEF EntriesMove, EntriesAreHeld
<1>4. ASSUME NEW j \in Jobs, NEW outcome \in {"succeeded", "failed"}, Ended(j, outcome) PROVE JobsMove
  BY <1>1, <1>4, EndedTyped DEF JobsMove, Active
<1>5. ASSUME job' = AfterTimeout PROVE JobsMove
  BY <1>1, <1>5, TimeoutTyped DEF JobsMove, Active
<1>6. ASSUME JobsMove, UNCHANGED <<queueVars, proc, shein, told, raced, torn, late>>,
             snap'.data = snap.data, snap'.counted = snap.counted, snap'.synced = snap.synced,
             (snap.state = "refreshing" => snap'.state = "refreshing") \/ NoneActive(job)'
      PROVE  IInv'
  <2>1. DataStay
    BY <1>1, <1>6 DEF DataStay, JobsMove, ProcessesWork
  <2>2. ActiveExplained'
    BY <1>1, <1>6, ExplainedStays DEF ActiveExplained
  <2>3. QED
    BY <1>1, <1>3, <1>6, <2>1, <2>2, DataStayStep, AroundKeeps
<1>7. CASE SheinChanges
  <2>1. JobsMove /\ EntriesMove /\ EntriesAreHeld' /\ DataInv' /\ proc' = proc
    BY <1>1, <1>2, <1>3, <1>7, SheinData DEF SheinChanges
  <2>2. ActiveExplained'
    BY <1>1, <1>7, <2>1, ExplainedStays DEF SheinChanges
  <2>3. QED
    BY <1>1, <2>1, <2>2, AroundKeeps
<1>8. ASSUME NEW q \in Quotas, SaveQuota(q) PROVE IInv'
  <2>1. SnapIs(snap', RowState, snap.data, q, snap.counted, snap.synced)
    BY <1>1, <1>8, SnapTyped, SnapWithQuota DEF SaveQuota
  <2>2. snap.state = "refreshing" => snap'.state = "refreshing"
    BY <2>1 DEF SnapIs, RowState
  <2>3. QED
    BY <1>2, <1>6, <1>8, <2>1, <2>2 DEF SaveQuota, SnapIs
<1>9. CASE CountNotice
  <2>1. JobsMove /\ EntriesMove /\ EntriesAreHeld' /\ DataInv' /\ proc' = proc
    BY <1>1, <1>2, <1>3, <1>9, NoticeData DEF CountNotice
  <2>2. snap.state = "refreshing" => snap'.state = "refreshing"
    BY <1>1, <1>9, SnapTyped, SnapWithNotice DEF CountNotice, SnapIs, RowState
  <2>3. ActiveExplained'
    BY <1>1, <1>9, <2>1, <2>2, ExplainedStays DEF CountNotice
  <2>4. QED
    BY <1>1, <2>1, <2>3, AroundKeeps
<1>10. CASE CooldownEnds \/ RefreshLapses \/ ListSyncJobs
  BY <1>2, <1>5, <1>6, <1>10 DEF CooldownEnds, RefreshLapses, ListSyncJobs, JobsTo
<1>11. ASSUME NEW j \in Jobs, JobLapses(j) \/ Touch(j) PROVE IInv'
  BY <1>2, <1>6, <1>11 DEF JobLapses, Touch
<1>12. CASE ReconcileStale
  <2>1. job' = AfterTimeout /\ UNCHANGED <<queueVars, proc, shein, told, raced, torn, late>>
    BY <1>12 DEF ReconcileStale, JobsTo
  <2>2. CASE Orphaned
    <3>1. SnapIs(snap', Settled(snap).state, snap.data, snap.quota, snap.counted, snap.synced)
      BY <1>1, <1>12, <2>2, SnapTyped, SettledIs DEF ReconcileStale
    <3>2. NoneActive(job)'
      BY <2>1, <2>2 DEF Orphaned, NoneActive
    <3>3. QED
      BY <1>5, <1>6, <2>1, <3>1, <3>2 DEF SnapIs
  <2>3. CASE ~Orphaned
    BY <1>5, <1>6, <1>12, <2>1, <2>3 DEF ReconcileStale
  <2>4. QED
    BY <2>2, <2>3
<1>13. ASSUME NEW p \in Launchers, NEW manual \in BOOLEAN, ClaimRefresh(p, manual) PROVE IInv'
  <2>1. CASE NoneActive(AfterTimeout) /\ RowClaimable(manual)
    BY <1>1, <1>13, <2>1, ClaimKeeps
  <2>2. CASE ~(NoneActive(AfterTimeout) /\ RowClaimable(manual))
    BY <1>5, <1>6, <1>13, <2>2 DEF ClaimRefresh, JobsTo
  <2>3. QED
    BY <2>1, <2>2
\* The steps of one process that leave jobs and snapshot alone.
<1>14. ASSUME NEW p \in Processes, GoesOn(p), proc[p].step # "failJob" \/ torn',
              proc'[p].step # "none" => proc'[p].job = proc[p].job /\ proc[p].step # "none",
              proc'[p].step \notin {"read", "save"},
              \A j \in Jobs : entry'[j] = entry[j] \/ entry[j] # "none" \/ j = proc[p].job,
              EntriesAreHeld', UNCHANGED <<job, snap, shein, told, raced, late>>, torn => torn'
       PROVE  IInv'
  <2>1. JobsMove /\ DataInv'
    BY <1>1, <1>2, <1>14, DataOfProcess
  <2>2. ActiveExplained'
    <3>1. CASE torn'
      BY <3>1 DEF ActiveExplained
    <3>2. CASE proc[p].step # "failJob"
      <4>1. \A q \in Processes : proc[q].step = "failJob" => proc'[q] = proc[q]
        BY <1>14, <3>2 DEF GoesOn
      <4>2. QED
        BY <1>1, <1>14, <2>1, <4>1, ExplainedStays
    <3>3. QED
      BY <1>14, <3>1, <3>2
  <2>3. QED
    BY <1>1, <1>14, <2>1, <2>2, ProcessKeeps
<1>15. ASSUME NEW p \in Processes, proc[p].step = "add", Added(proc[p].job), UNCHANGED <<lock, tries>>
       PROVE  EntriesAreHeld' /\ \A j \in Jobs : entry'[j] = entry[j] \/ j = proc[p].job
  <2>1. proc[p].job \in Jobs /\ entry[proc[p].job] = "none"
    BY <1>15 DEF IInv, ProcessesWork, IdsAreNew
  <2>2. /\ tries[proc[p].job] = 0 /\ lock[proc[p].job] = NoWorker
        /\ \A j \in Jobs : entry'[j] = IF j = proc[p].job THEN "waiting" ELSE entry[j]
    BY <1>1, <1>15, <2>1 DEF EntriesAreHeld, Added, TypeOK
  <2>3. EntriesAreHeld'
    BY <1>1, <1>15, <2>2, Bounds, EntriesStep
  <2>4. QED
    BY <2>2, <2>3
<1>16. ASSUME NEW p \in Processes, AddJob(p) PROVE IInv'
  <2>1. /\ \A q \in Processes \ {p} : proc'[q] = proc[q]
        /\ proc'[p].step = "none" /\ proc'[p].job = 0
    BY <1>1, <1>16, ProcessDone, IdleTyped DEF AddJob
  <2>2. EntriesAreHeld' /\ \A j \in Jobs : entry'[j] = entry[j] \/ j = proc[p].job
    BY <1>15, <1>16 DEF AddJob
  <2>3. QED
    BY <1>14, <1>16, <2>1, <2>2 DEF AddJob, GoesOn
<1>17. ASSUME NEW p \in Processes, AddFails(p) PROVE IInv'
  <2>1. /\ \A q \in Processes \ {p} : proc'[q] = proc[q]
        /\ proc'[p].step = "failSnapshot" /\ proc'[p].job = proc[p].job
    BY <1>1, <1>17, ProcessToStep DEF AddFails, Steps
  <2>2. EntriesAreHeld' /\ \A j \in Jobs : entry'[j] = entry[j] \/ j = proc[p].job
    BY <1>3, <1>15, <1>17 DEF AddFails
  <2>3. QED
    BY <1>14, <1>17, <2>1, <2>2 DEF AddFails, GoesOn
<1>18. ASSUME NEW j \in Jobs, NEW w \in Workers, MarkRunning(w, j) PROVE IInv'
  <2>1. CASE Active(j)
    BY <1>1, <1>18, <2>1, RunningKeeps
  <2>2. CASE ~Active(j)
    <3>1. /\ entry[j] = "waiting" /\ \A k \in Jobs : entry'[k] = IF k = j THEN "completed" ELSE entry[k]
          /\ UNCHANGED <<job, lock, tries, proc, shein, snap, told, raced, torn, late>>
      BY <1>1, <1>18, <2>2 DEF MarkRunning, TypeOK
    <3>2. EntriesMove /\ EntriesAreHeld'
      BY <1>1, <3>1 DEF EntriesMove, EntriesAreHeld
    <3>3. JobsMove /\ DataStay
      BY <1>1, <1>2, <3>1 DEF DataStay, Active
    <3>4. ActiveExplained'
      BY <1>1, <3>1, <3>3, ExplainedStays
    <3>5. QED
      BY <1>1, <3>1, <3>2, <3>3, <3>4, DataStayStep, AroundKeeps
  <2>3. QED
    BY <2>1, <2>2
<1>19. ASSUME NEW p \in Processes, ReadShein(p) PROVE IInv'
  <2>1. /\ proc[p].step = "read" /\ p \in Workers
        /\ UNCHANGED <<job, queueVars, shein, snap, told, raced, torn, late>>
    BY <1>19 DEF ReadShein
  <2>2. /\ \A q \in Processes \ {p} : proc'[q] = proc[q]
        /\ proc'[p].step = "save" /\ proc'[p].job = proc[p].job
    <3>1. proc[p] \in ProcType /\ shein \in 0..MaxVersion
      BY <1>1, Bounds DEF TypeOK, ProcType
    <3>2. proc' = [proc EXCEPT ![p] = Reading(proc[p], shein)]
      BY <1>19 DEF ReadShein, Reading
    <3>3. Reading(proc[p], shein) \in ProcType
      BY <3>1, ReadTyped
    <3>4. \A q \in Processes : proc'[q] = IF q = p THEN Reading(proc[p], shein) ELSE proc[q]
      BY <1>1, <3>2, <3>3, ProcessTo
    <3>5. QED
      BY <3>1, <3>4, ReadTyped
  <2>3. JobsMove /\ EntriesAreHeld' /\ DataInv' /\ GoesOn(p)
    BY <1>1, <1>2, <1>3, <1>19, <2>1, <2>2, ReadData DEF GoesOn
  <2>4. ActiveExplained'
    <3>1. \A q \in Processes : proc[q].step = "failJob" => proc'[q] = proc[q]
      BY <2>1, <2>2
    <3>2. QED
      BY <1>1, <2>1, <2>3, <3>1, ExplainedStays
  <2>5. QED
    BY <1>1, <2>1, <2>2, <2>3, <2>4, ProcessKeeps
<1>20. ASSUME NEW p \in Processes, SaveSuccess(p) PROVE IInv'
  <2>1. /\ p \in Workers /\ proc[p].step = "save" /\ proc[p].job \in Jobs
        /\ UNCHANGED <<tries, torn>>
    BY <1>1, <1>20 DEF SaveSuccess, ProcessesWork
  <2>2. /\ \A q \in Processes \ {p} : proc'[q] = proc[q]
        /\ proc'[p].step = "none" /\ proc'[p].job = 0
    BY <1>1, <1>20, ProcessDone, IdleTyped DEF SaveSuccess
  <2>3. JobsMove /\ DataInv' /\ GoesOn(p)
    BY <1>4, <1>20, <2>1, <2>2, SaveData DEF SaveSuccess, GoesOn
  <2>4. \A k \in Jobs :
           /\ entry'[k] = IF k = proc[p].job /\ lock[proc[p].job] = p THEN "completed" ELSE entry[k]
           /\ lock'[k] = IF k = proc[p].job /\ lock[proc[p].job] = p THEN NoWorker ELSE lock[k]
    BY <1>1, <1>20, <2>1, FinishedTyped DEF SaveSuccess, EntryStates
  <2>5. EntriesAreHeld'
    BY <1>1, <2>1, <2>4, EntriesStep
  <2>6. ActiveExplained'
    <3>1. CASE Active(proc[p].job)
      <4>1. job'[proc[p].job] = "succeeded"
        BY <1>1, <1>20, <2>1, <3>1, EndedTyped DEF SaveSuccess
      <4>2. NoneActive(job)'
        BY <1>1, <2>1, <2>3, <3>1, <4>1, NoneLeft
      <4>3. QED
        BY <4>2 DEF ActiveExplained
    <3>2. CASE ~Active(proc[p].job)
      BY <1>20, <3>2 DEF SaveSuccess, ActiveExplained
    <3>3. QED
      BY <3>1, <3>2
  <2>7. QED
    BY <1>1, <2>1, <2>2, <2>3, <2>4, <2>5, <2>6, ProcessKeeps
<1>21. ASSUME NEW p \in Processes, RefreshFails(p) PROVE IInv'
  <2>1. /\ \A q \in Processes \ {p} : proc'[q] = proc[q]
        /\ proc'[p].step = "failSnapshot" /\ proc'[p].job = proc[p].job
    BY <1>1, <1>21, ProcessToStep DEF RefreshFails, Steps
  <2>2. proc[p].step \in {"read", "save"}
    BY <1>21 DEF RefreshFails
  <2>3. QED
    BY <1>3, <1>14, <1>21, <2>1, <2>2 DEF RefreshFails, GoesOn
<1>22. ASSUME NEW p \in Processes, FailSnapshot(p) PROVE IInv'
  <2>1. /\ proc[p].step = "failSnapshot" /\ proc[p].job \in Jobs
        /\ late' = (late \/ ~Active(proc[p].job))
        /\ UNCHANGED <<job, queueVars, shein, told, raced, torn>>
    BY <1>1, <1>22 DEF FailSnapshot, ProcessesWork
  <2>2. /\ \A q \in Processes \ {p} : proc'[q] = proc[q]
        /\ proc'[p].step = "failJob" /\ proc'[p].job = proc[p].job
    BY <1>1, <1>22, ProcessToStep DEF FailSnapshot, Steps
  <2>3. snap'.data = snap.data /\ snap'.counted = snap.counted /\ snap'.synced = snap.synced
    BY <1>1, <1>22, SnapTyped, SettledIs DEF FailSnapshot, AfterFailure, SnapIs
  <2>4. JobsMove /\ EntriesAreHeld' /\ GoesOn(p)
    BY <1>2, <1>3, <2>1, <2>2 DEF GoesOn
  <2>5. DataInv'
    BY <1>1, <2>1, <2>2, <2>3, <2>4, DataOfProcess
  <2>6. ActiveExplained'
    BY <2>1, <2>2 DEF ActiveExplained, Active
  <2>7. QED
    BY <1>1, <2>1, <2>2, <2>4, <2>5, <2>6, ProcessKeeps
<1>23. ASSUME NEW p \in Processes, proc[p].step \in {"failSnapshot", "failJob"}, GivesUp(p)
       PROVE  /\ EntriesAreHeld'
              /\ \A j \in Jobs : entry'[j] = entry[j] \/ entry[j] # "none"
              /\ \A q \in Processes \ {p} : proc'[q] = proc[q]
              /\ proc'[p].step = "none" /\ proc'[p].job = 0
  <2>1. proc[p].job \in Jobs
    BY <1>1, <1>23 DEF ProcessesWork
  <2>2. /\ Done(p)
        /\ \A k \in Jobs :
              \/ /\ entry[k] = "active" /\ lock'[k] = NoWorker
                 /\ entry'[k] \in {"waiting", "failed"}
                 /\ entry'[k] = "waiting" => tries'[k] < MaxAttempts
              \/ entry'[k] = entry[k] /\ lock'[k] = lock[k] /\ tries'[k] = tries[k]
    BY <1>1, <1>23, <2>1, GivesUpTyped
  <2>3. EntriesAreHeld'
    BY <1>1, <2>2, EntriesStep
  <2>4. QED
    BY <1>1, <2>2, <2>3, ProcessDone, IdleTyped
<1>24. ASSUME NEW p \in Processes, FailJob(p) PROVE IInv'
  <2>1. /\ proc[p].step = "failJob" /\ proc[p].job \in Jobs
        /\ UNCHANGED <<snap, shein, told, raced, torn, late>>
    BY <1>1, <1>24 DEF FailJob, ProcessesWork
  <2>2. /\ EntriesAreHeld'
        /\ \A j \in Jobs : entry'[j] = entry[j] \/ entry[j] # "none"
        /\ \A q \in Processes \ {p} : proc'[q] = proc[q]
        /\ proc'[p].step = "none" /\ proc'[p].job = 0
    BY <1>23, <1>24 DEF FailJob
  <2>3. JobsMove /\ GoesOn(p)
    BY <1>4, <1>24, <2>1, <2>2 DEF FailJob, GoesOn
  <2>4. DataInv' /\ ActiveExplained'
    BY <1>1, <1>24, <2>1, <2>2, <2>3, DataOfProcess, FailJobExplained
  <2>5. QED
    BY <1>1, <2>1, <2>2, <2>3, <2>4, ProcessKeeps
<1>25. ASSUME NEW p \in Processes, SaveFailureFails(p) PROVE IInv'
  <2>1. /\ EntriesAreHeld'
        /\ \A j \in Jobs : entry'[j] = entry[j] \/ entry[j] # "none"
        /\ \A q \in Processes \ {p} : proc'[q] = proc[q]
        /\ proc'[p].step = "none" /\ proc'[p].job = 0
    BY <1>23, <1>25 DEF SaveFailureFails
  <2>2. torn' = (torn \/ proc[p].step = "failJob") /\ UNCHANGED <<job, snap, shein, told, raced, late>>
    BY <1>25 DEF SaveFailureFails, Torn
  <2>3. QED
    BY <1>14, <2>1, <2>2 DEF GoesOn
<1>26. ASSUME NEW p \in Processes, Dies(p) PROVE IInv'
  <2>1. /\ \A q \in Processes \ {p} : proc'[q] = proc[q]
        /\ proc'[p].step = "none" /\ proc'[p].job = 0
    BY <1>1, <1>26, ProcessDone, IdleTyped DEF Dies
  <2>2. /\ torn' = (torn \/ proc[p].step = "failJob")
        /\ UNCHANGED <<job, queueVars, snap, shein, told, raced, late>>
    BY <1>26 DEF Dies, Torn
  <2>3. QED
    BY <1>3, <1>14, <2>1, <2>2 DEF GoesOn
<1>27. ASSUME NEW j \in Jobs, Stall(j) PROVE IInv'
  <2>1. /\ entry[j] = "active" /\ entry'[j] \in {"waiting", "failed"} /\ lock'[j] = NoWorker
        /\ \A k \in Jobs \ {j} : entry'[k] = entry[k] /\ lock'[k] = lock[k]
        /\ UNCHANGED <<job, tries, proc, shein, snap, told, raced, torn, late>>
    BY <1>1, <1>27 DEF Stall, TypeOK
  <2>2. EntriesMove /\ EntriesAreHeld'
    BY <1>1, <2>1 DEF EntriesMove, EntriesAreHeld
  <2>3. JobsMove /\ DataStay
    BY <1>1, <1>2, <2>1 DEF DataStay, Active
  <2>4. ActiveExplained'
    BY <1>1, <2>1, <2>3, ExplainedStays
  <2>5. QED
    BY <1>1, <2>1, <2>2, <2>3, <2>4, DataStayStep, AroundKeeps
<1>28. CASE UNCHANGED vars
  BY <1>2, <1>6, <1>28 DEF vars
<1>29. QED
  BY <1>7, <1>8, <1>9, <1>10, <1>11, <1>12, <1>13, <1>16, <1>17, <1>18, <1>19, <1>20, <1>21,
     <1>22, <1>24, <1>25, <1>26, <1>27, <1>28
     DEF Next, Step

-----------------------------------------------------------------------------
(* Theorems                                                                *)

LEMMA InvHolds == Spec => []IInv
  BY InitInv, InvStep, PTL DEF Spec

\* Snapshot, jobs, queue entries and processes keep their shape; no entry is
\* tried more often than it has attempts.
THEOREM TypeCorrect == Spec => []TypeOK
<1>1. IInv => TypeOK
  BY DEF IInv
<1>2. QED
  BY <1>1, InvHolds, PTL

\* While a refresh is under way the snapshot says so, but for a refresh that is
\* being failed, a torn saveFailure or a late writer.
THEOREM ActiveProven == Spec => []ActiveMeansRefreshing
<1>1. IInv => ActiveMeansRefreshing
  BY DEF IInv, ActiveExplained, ActiveMeansRefreshing
<1>2. QED
  BY <1>1, InvHolds, PTL

\* Data that the snapshot shows as up to date were read after every counted
\* notice, unless a notice was counted between a read and its saveSuccess.
THEOREM MarkerProven == Spec => []MarkerCoversData
<1>1. IInv => MarkerCoversData
  BY DEF IInv
<1>2. QED
  BY <1>1, InvHolds, PTL

\* The snapshot changes, and neither goes back in time nor loses its quota.
LEMMA ForwardStep ==
    IInv /\ [Next]_vars =>
        [/\ snap.data <= snap'.data \/ late'
         /\ snap.quota # NoQuota => snap'.quota # NoQuota]_snap
<1> DEFINE Forward == /\ snap.data <= snap'.data \/ late'
                      /\ snap.quota # NoQuota => snap'.quota # NoQuota
<1> SUFFICES ASSUME IInv, [Next]_vars, snap' # snap PROVE Forward
  OBVIOUS
<1>1. TypeOK /\ snap.data \in Nat /\ snap \in SnapType
  BY DataTyped, SnapTyped DEF IInv
<1>2. ASSUME snap'.data = snap.data, snap'.quota = snap.quota \/ snap'.quota \in Quotas
      PROVE  Forward
  BY <1>1, <1>2, QuotaAssumption
<1> HIDE DEF Forward
<1>3. ASSUME NEW q \in Quotas, SaveQuota(q) PROVE Forward
  <2>1. SnapIs(snap', RowState, snap.data, q, snap.counted, snap.synced)
    BY <1>1, <1>3, SnapTyped, SnapWithQuota DEF SaveQuota
  <2>2. QED
    BY <1>2, <2>1 DEF SnapIs
<1>4. CASE CountNotice
  BY <1>1, <1>2, <1>4, SnapTyped, SnapWithNotice DEF CountNotice, SnapIs
<1>5. CASE ReconcileStale
  BY <1>1, <1>2, <1>5, SettledIs DEF ReconcileStale, SnapIs
<1>6. ASSUME NEW p \in Launchers, NEW manual \in BOOLEAN, ClaimRefresh(p, manual) PROVE Forward
  <2>1. snap' \in {snap, [snap EXCEPT !.state = "refreshing"]}
    BY <1>6 DEF ClaimRefresh
  <2>2. "refreshing" \in SnapStates
    BY DEF SnapStates
  <2>3. SnapIs([snap EXCEPT !.state = "refreshing"], "refreshing", snap.data, snap.quota,
               snap.counted, snap.synced)
    BY <1>1, <2>2, SnapWithState
  <2>4. QED
    BY <1>2, <2>1, <2>3 DEF SnapIs
<1>7. ASSUME NEW p \in Processes, SaveSuccess(p) PROVE Forward
  BY <1>7, SaveData DEF Forward
<1>8. ASSUME NEW p \in Processes, FailSnapshot(p) PROVE Forward
  BY <1>1, <1>2, <1>8, SettledIs DEF FailSnapshot, AfterFailure, SnapIs
<1>9. QED
  BY <1>3, <1>4, <1>5, <1>6, <1>7, <1>8
     DEF Next, Step, vars, SheinChanges, CooldownEnds, RefreshLapses, ListSyncJobs, JobLapses,
         Touch, AddJob, AddFails, MarkRunning, ReadShein, RefreshFails, FailJob, SaveFailureFails,
         Dies, Stall

\* No refresh takes the data back in time unless it writes for a job that had
\* ended, and none loses the quota.
THEOREM ForwardProven == Spec => NothingGoesBack
  BY ForwardStep, InvHolds, PTL DEF Spec, NothingGoesBack

-----------------------------------------------------------------------------
(* The contract of sync_jobs                                               *)

\* A worker reads and saves for a job that was started: nothing puts a job back
\* into the queue.
WorkersStarted ==
    \A p \in Processes : proc[p].step \in {"read", "save"} => job[proc[p].job] \notin {"none", "queued"}

\* Jobs that were quiet for too long end: it is one job at most.
LEMMA TimeoutRefines ==
    ASSUME TypeOK, OneActive, job' = AfterTimeout
    PROVE  [Ledger!Next]_job
<1>1. CASE \E j \in Jobs : TimedOut(j)
  <2>1. PICK j \in Jobs : TimedOut(j)
    BY <1>1
  <2>2. \A k \in Jobs : AfterTimeout[k] = IF k = j THEN "failed" ELSE job[k]
    BY <2>1 DEF AfterTimeout, TimedOut, OneActive
  <2>3. job' = [job EXCEPT ![j] = "failed"]
    BY <2>2 DEF TypeOK, AfterTimeout
  <2>4. Ledger!Fail(j)
    BY <2>1, <2>3 DEF Ledger!Fail, Ledger!Active, TimedOut, Active
  <2>5. QED
    BY <2>4 DEF Ledger!Next, Ledger!Jobs, Jobs
<1>2. CASE ~ \E j \in Jobs : TimedOut(j)
  BY <1>2 DEF TypeOK, AfterTimeout
<1>3. QED
  BY <1>1, <1>2

\* A claim takes the next number and leaves no other job active.
LEMMA ClaimRefines ==
    ASSUME TypeOK, JobsInOrder, NEW p \in Launchers, NEW manual \in BOOLEAN,
           ClaimRefresh(p, manual), NoneActive(AfterTimeout), RowClaimable(manual)
    PROVE  [Ledger!Next]_job
<1> DEFINE j == Newest + 1
<1>1. j \in Jobs /\ \A k \in Jobs : (job[k] = "none") = (k >= j)
  BY NewestIsLast, Bounds DEF ClaimRefresh
<1>2. job' = [AfterTimeout EXCEPT ![j] = "queued"]
  BY DEF ClaimRefresh, JobsTo
<1> HIDE DEF j
<1>3. ASSUME NEW k \in Jobs, k # j
      PROVE  AfterTimeout[k] = IF job[k] \in {"queued", "running"} THEN "failed" ELSE job[k]
  BY <1>3 DEF AfterTimeout, TimedOut, Active, NoneActive
<1>4. job' = [k \in Jobs |-> IF k = j THEN "queued"
                             ELSE IF job[k] \in {"queued", "running"} THEN "failed" ELSE job[k]]
  BY <1>1, <1>2, <1>3 DEF AfterTimeout
<1>5. Ledger!Claim(j)
  BY <1>1, <1>4 DEF Ledger!Claim, Ledger!Jobs, Ledger!Active, Jobs
<1>6. QED
  BY <1>1, <1>5 DEF Ledger!Next, Ledger!Jobs, Jobs

\* The end of an attempt or of a launch ends the job, if nothing else has.
LEMMA EndRefines ==
    ASSUME TypeOK, NEW j \in Jobs, NEW outcome \in {"succeeded", "failed"}, Ended(j, outcome),
           outcome = "succeeded" => job[j] # "queued"
    PROVE  [Ledger!Next]_job
<1>1. job' = [job EXCEPT ![j] = IF Active(j) THEN outcome ELSE @]
  BY DEF Ended, JobsTo
<1>2. CASE Active(j)
  <2>1. job' = [job EXCEPT ![j] = outcome]
    BY <1>1, <1>2
  <2>2. Ledger!Succeed(j) \/ Ledger!Fail(j)
    BY <1>2, <2>1 DEF Active, Ledger!Succeed, Ledger!Fail, Ledger!Active
  <2>3. QED
    BY <2>2 DEF Ledger!Next, Ledger!Jobs, Jobs
<1>3. CASE ~Active(j)
  BY <1>1, <1>3 DEF TypeOK
<1>4. QED
  BY <1>2, <1>3

LEMMA NextRefines == IInv /\ WorkersStarted /\ [Next]_vars => [Ledger!Next]_job
<1> SUFFICES ASSUME IInv, WorkersStarted, [Next]_vars PROVE [Ledger!Next]_job
  OBVIOUS
<1>1. TypeOK /\ JobsInOrder /\ OneActive /\ ProcessesWork
  BY DEF IInv
<1>2. CASE ReconcileStale \/ ListSyncJobs
  BY <1>1, <1>2, TimeoutRefines DEF ReconcileStale, ListSyncJobs, JobsTo
<1>3. ASSUME NEW p \in Launchers, NEW manual \in BOOLEAN, ClaimRefresh(p, manual)
      PROVE  [Ledger!Next]_job
  BY <1>1, <1>3, ClaimRefines, TimeoutRefines DEF ClaimRefresh, JobsTo
<1>4. ASSUME NEW w \in Workers, NEW j \in Jobs, MarkRunning(w, j) PROVE [Ledger!Next]_job
  <2>1. CASE Active(j)
    <3>1. Ledger!Start(j)
      BY <1>4, <2>1 DEF MarkRunning, Active, Ledger!Start, Ledger!Active
    <3>2. QED
      BY <3>1 DEF Ledger!Next, Ledger!Jobs, Jobs
  <2>2. CASE ~Active(j)
    BY <1>4, <2>2 DEF MarkRunning, jobVars
  <2>3. QED
    BY <2>1, <2>2
<1>5. ASSUME NEW p \in Processes, SaveSuccess(p) PROVE [Ledger!Next]_job
  <2>1. proc[p].job \in Jobs /\ job[proc[p].job] # "queued" /\ Ended(proc[p].job, "succeeded")
    BY <1>1, <1>5 DEF SaveSuccess, ProcessesWork, WorkersStarted
  <2>2. QED
    BY <1>1, <2>1, EndRefines
<1>6. ASSUME NEW p \in Processes, FailJob(p) PROVE [Ledger!Next]_job
  <2>1. proc[p].job \in Jobs /\ Ended(proc[p].job, "failed")
    BY <1>1, <1>6 DEF FailJob, ProcessesWork
  <2>2. QED
    BY <1>1, <2>1, EndRefines
<1>7. QED
  BY <1>2, <1>3, <1>4, <1>5, <1>6
     DEF Next, Step, vars, jobVars, SheinChanges, SaveQuota, CountNotice, CooldownEnds,
         RefreshLapses, JobLapses, Touch, AddJob, AddFails, ReadShein, RefreshFails,
         FailSnapshot, SaveFailureFails, Dies, Stall

\* A step of the contract never undoes the start of a job.
LEMMA StartedStays ==
    ASSUME TypeOK, [Ledger!Next]_job, NEW j \in Jobs, job[j] \notin {"none", "queued"}
    PROVE  job'[j] \notin {"none", "queued"}
<1>1. CASE job' = job
  BY <1>1
<1>2. ASSUME NEW k \in Jobs, Ledger!Claim(k) PROVE job'[j] \notin {"none", "queued"}
  <2>1. k # j
    BY <1>2, Bounds DEF Ledger!Claim, Ledger!Jobs
  <2>2. QED
    BY <1>2, <2>1 DEF Ledger!Claim, Ledger!Jobs, Ledger!Active, Jobs
<1>3. ASSUME NEW k \in Jobs, Ledger!Start(k) \/ Ledger!Succeed(k) \/ Ledger!Fail(k)
      PROVE  job'[j] \notin {"none", "queued"}
  BY <1>3 DEF TypeOK, Ledger!Start, Ledger!Succeed, Ledger!Fail
<1>4. QED
  BY <1>1, <1>2, <1>3 DEF Ledger!Next, Ledger!Jobs, Jobs

LEMMA StartedStep == IInv /\ WorkersStarted /\ [Next]_vars => WorkersStarted'
<1> SUFFICES ASSUME IInv, WorkersStarted, [Next]_vars,
                    NEW p \in Processes, proc'[p].step \in {"read", "save"}
             PROVE  job'[proc'[p].job] \notin {"none", "queued"}
  BY DEF WorkersStarted
<1>1. TypeOK /\ ProcessesWork /\ [Ledger!Next]_job
  BY NextRefines DEF IInv
<1>2. ASSUME proc[p].step \in {"read", "save"}, proc'[p].job = proc[p].job
      PROVE  job'[proc'[p].job] \notin {"none", "queued"}
  BY <1>1, <1>2, StartedStays DEF WorkersStarted, ProcessesWork
<1>3. CASE proc' = proc
  BY <1>2, <1>3
<1>4. ASSUME NEW q \in Processes, NEW step \in Steps \ {"read", "save"}, To(q, step)
      PROVE  job'[proc'[p].job] \notin {"none", "queued"}
  BY <1>1, <1>2, <1>4, ProcessToStep
<1>5. ASSUME NEW q \in Processes, Done(q) PROVE job'[proc'[p].job] \notin {"none", "queued"}
  BY <1>1, <1>2, <1>5, ProcessDone, IdleTyped
<1>6. ASSUME NEW q \in Launchers, NEW manual \in BOOLEAN, ClaimRefresh(q, manual)
      PROVE  job'[proc'[p].job] \notin {"none", "queued"}
  <2>1. proc' = proc \/ proc' = [proc EXCEPT ![q] = [step |-> "add", job |-> Newest + 1, read |-> 0]]
    BY <1>6 DEF ClaimRefresh
  <2>2. proc'[p] = proc[p]
    BY <1>1, <2>1 DEF TypeOK
  <2>3. QED
    BY <1>2, <2>2
<1>7. ASSUME NEW w \in Workers, NEW j \in Jobs, MarkRunning(w, j)
      PROVE  job'[proc'[p].job] \notin {"none", "queued"}
  <2>1. CASE Active(j) /\ p = w
    <3>1. proc'[p].job = j /\ job'[j] = "running"
      BY <1>1, <1>7, <2>1 DEF MarkRunning, TypeOK
    <3>2. QED
      BY <3>1
  <2>2. CASE ~(Active(j) /\ p = w)
    <3>1. proc'[p] = proc[p]
      BY <1>1, <1>7, <2>2 DEF MarkRunning, TypeOK
    <3>2. QED
      BY <1>2, <3>1
  <2>3. QED
    BY <2>1, <2>2
<1>8. ASSUME NEW q \in Processes, ReadShein(q) PROVE job'[proc'[p].job] \notin {"none", "queued"}
  <2>1. CASE p = q
    <3>1. proc[q] \in ProcType /\ shein \in 0..MaxVersion
      BY <1>1, Bounds DEF TypeOK, ProcType
    <3>2. proc' = [proc EXCEPT ![q] = Reading(proc[q], shein)]
      BY <1>8 DEF ReadShein, Reading
    <3>3. proc'[p] = Reading(proc[q], shein)
      BY <1>1, <2>1, <3>2 DEF TypeOK
    <3>4. proc'[p].job = proc[p].job
      BY <2>1, <3>1, <3>3, ReadTyped
    <3>5. QED
      BY <1>2, <1>8, <2>1, <3>4 DEF ReadShein
  <2>2. CASE p # q
    <3>1. proc'[p] = proc[p]
      BY <1>1, <1>8, <2>2 DEF ReadShein, TypeOK
    <3>2. QED
      BY <1>2, <3>1
  <2>3. QED
    BY <2>1, <2>2
<1>9. /\ {"failSnapshot", "failJob"} \subseteq Steps \ {"read", "save"}
  BY DEF Steps
<1>10. QED
  BY <1>3, <1>4, <1>5, <1>6, <1>7, <1>8, <1>9
     DEF Next, Step, vars, jobVars, SheinChanges, SaveQuota, CountNotice, CooldownEnds,
         RefreshLapses, JobLapses, Touch, ReconcileStale, ListSyncJobs, AddJob, AddFails,
         RefreshFails, SaveSuccess, FailSnapshot, FailJob, GivesUp, SaveFailureFails, Dies, Stall

\* The refreshes of a store, run by launchers, workers and timeouts that know
\* nothing of each other, are one sequence of jobs: one active at a time,
\* successful only after a worker started it, and final in its end.
THEOREM ContractImplemented == Spec => JobsKeepContract
<1>1. Init => Ledger!Init
  BY DEF Init, Ledger!Init, Ledger!Jobs, Jobs
<1>2. Init => WorkersStarted
  BY IdleTyped DEF Init, WorkersStarted
<1>3. QED
  BY <1>1, <1>2, InvHolds, NextRefines, StartedStep, PTL DEF Spec, JobsKeepContract, Ledger!Spec

\* Of the jobs of the contract, the active one stays the newest.
LEMMA NewestStays ==
    ASSUME TypeOK, Ledger!NewestIsActive, [Ledger!Next]_job
    PROVE  Ledger!NewestIsActive'
<1>1. ASSUME NEW k \in Jobs, Ledger!Claim(k) PROVE Ledger!NewestIsActive'
  <2>1. \A j \in Jobs : /\ j > k => job'[j] = "none"
                        /\ j # k => job'[j] \notin {"queued", "running"}
    BY <1>1, Bounds DEF Ledger!Claim, Ledger!Jobs, Ledger!Active, Jobs
  <2>2. QED
    BY <2>1 DEF Ledger!NewestIsActive, Ledger!Jobs, Ledger!Active, Jobs
<1>2. ASSUME NEW k \in Jobs, Ledger!Start(k) \/ Ledger!Succeed(k) \/ Ledger!Fail(k)
      PROVE  Ledger!NewestIsActive'
  <2>1. PICK state \in {"running", "succeeded", "failed"} :
           job[k] \in {"queued", "running"} /\ job' = [job EXCEPT ![k] = state]
    BY <1>2 DEF Ledger!Start, Ledger!Succeed, Ledger!Fail, Ledger!Active
  <2>2. \A j \in Jobs : job'[j] = IF j = k THEN state ELSE job[j]
    BY <2>1 DEF TypeOK
  <2>3. QED
    BY <2>1, <2>2 DEF Ledger!NewestIsActive, Ledger!Jobs, Ledger!Active, Jobs
<1>3. CASE job' = job
  BY <1>3 DEF Ledger!NewestIsActive
<1>4. QED
  BY <1>1, <1>2, <1>3 DEF Ledger!Next, Ledger!Jobs, Jobs

\* A step of the contract leaves the jobs that have ended alone.
LEMMA EndStays ==
    ASSUME TypeOK, [Ledger!Next]_job
    PROVE  Ledger!EndsStay
<1>1. ASSUME NEW k \in Jobs, Ledger!Claim(k), NEW j \in Jobs, job[j] \in {"succeeded", "failed"}
      PROVE  job'[j] = job[j]
  <2>1. j # k
    BY <1>1, Bounds DEF Ledger!Claim, Ledger!Jobs, Jobs
  <2>2. QED
    BY <1>1, <2>1 DEF Ledger!Claim, Ledger!Jobs, Ledger!Active, Jobs
<1>2. ASSUME NEW k \in Jobs, Ledger!Start(k) \/ Ledger!Succeed(k) \/ Ledger!Fail(k),
             NEW j \in Jobs, job[j] \in {"succeeded", "failed"}
      PROVE  job'[j] = job[j]
  BY <1>2 DEF TypeOK, Ledger!Start, Ledger!Succeed, Ledger!Fail, Ledger!Active
<1>3. QED
  BY <1>1, <1>2 DEF Ledger!EndsStay, Ledger!Next, Ledger!Jobs, Ledger!Ended, Jobs

\* So whoever reads the table may rely on it: the active job of a store is its
\* newest one, and a job that was seen to end keeps its result for good.
THEOREM ReadersMayRely == Spec => []Ledger!NewestIsActive /\ Ledger!EndIsFinal
<1>1. Init => Ledger!NewestIsActive
  BY DEF Init, Ledger!NewestIsActive, Ledger!Jobs, Ledger!Active, Jobs
<1>2. /\ IInv /\ WorkersStarted /\ Ledger!NewestIsActive /\ [Next]_vars
      => Ledger!NewestIsActive'
  BY NextRefines, NewestStays DEF IInv
<1>3. IInv /\ WorkersStarted /\ [Next]_vars => [Ledger!EndsStay]_job
  BY NextRefines, EndStays DEF IInv
<1>4. Init => WorkersStarted
  BY IdleTyped DEF Init, WorkersStarted
<1>5. QED
  BY <1>1, <1>2, <1>3, <1>4, InvHolds, StartedStep, PTL DEF Spec, Ledger!EndIsFinal
=============================================================================
