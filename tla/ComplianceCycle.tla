--------------------------- MODULE ComplianceCycle ---------------------------
(***************************************************************************)
(* The compliance data of one store: the sync job that reads every SKC's   *)
(* requirements at SHEIN (compliance-sync-service.js) and the submission   *)
(* of evidence (compliance-write-service.js), which is planned from what   *)
(* the last sync stored, confirmed with a one-shot token, written to SHEIN *)
(* and followed by another sync.  Requests of several users overlap; the   *)
(* server restarts; workers die, fail and overlap.                         *)
(*                                                                         *)
(* External: SHEIN, which keeps and reviews reports; BullMQ.               *)
(*                                                                         *)
(* Abstractions.  One control server, as deployed.  An SKC is asked for    *)
(* one thing, a report or photos, and a requirement is its review state.   *)
(* A report comes with the request and is the same each time; photos are   *)
(* taken from the draft.  Uploads, the supplementary attribute snapshots   *)
(* and credentials are left out.                                           *)
(* claimSync is one step: its last query checks again.  A batch of the     *)
(* sync is one SKC, and its update of the progress is part of saveBatch.   *)
(* A plan from a requirement older than a day, and a token older than five *)
(* minutes, are refused without effect, like a request that is not made.   *)
(***************************************************************************)
EXTENDS Naturals

CONSTANTS
    Skcs,           \* SKCs of the store
    Asked,          \* what SHEIN asks of each: "report" or "photos"
    Workers,        \* handler slots of the sync workers
    Requests,       \* submit requests the server can have in flight
    Tokens,         \* confirmation tokens
    NoToken,        \* a request without token
    NoWorker,       \* a queue entry nobody holds
    NoSkc,          \* a process without SKC
    MaxJobs,        \* bound on syncs
    MaxReviews,     \* bound on the decisions SHEIN takes
    MaxDrafts,      \* bound on the versions of a draft
    MaxAttempts,    \* attempts of a queue entry
    MaxFaults       \* bound on failures, deaths, restarts and lapsed locks

ASSUME SkcsAssumption ==
    /\ Skcs # {}
    /\ Asked \in [Skcs -> {"report", "photos"}]
ASSUME NoneAssumption ==
    /\ NoToken \notin Tokens
    /\ NoWorker \notin Workers
    /\ NoSkc \notin Skcs
ASSUME BoundsAssumption ==
    /\ {MaxJobs, MaxAttempts} \subseteq Nat \ {0}
    /\ {MaxReviews, MaxDrafts, MaxFaults} \subseteq Nat

VARIABLES
    shein,          \* review state of each SKC's evidence at SHEIN
    reviews,        \* decisions SHEIN has taken
    local,          \* review state in the stored requirement, "none" without one
    job,            \* sync_jobs.state of each sync, "none" before it is claimed
    items,          \* sync_job_items.state of each sync and SKC
    quiet,          \* jobs whose updated_at is past the timeout
    cooling,        \* a sync has ended within the cooldown
    launch,         \* job the launch in flight is about to add to the queue, 0 for none
    entry,          \* BullMQ: the state of the job's entry
    lock,           \* BullMQ: the slot that holds the entry
    tries,          \* BullMQ: failed attempts of the entry
    worker,         \* what each slot is doing
    draft,          \* version of each SKC's draft
    token,          \* the plan each issued token is bound to
    consumed,       \* tokens in the server's memory of consumed tokens
    request,        \* what each submit request is doing
    writes,         \* certificates saved or photos bound at SHEIN, per token
    forgotten,      \* tokens the server forgot to have consumed
    doubled,        \* jobs two slots were at work on at once
    faults          \* faults so far

sheinVars == <<shein, reviews>>
jobVars   == <<job, items, quiet, cooling>>
queueVars == <<entry, lock, tries>>
syncVars  == <<local, jobVars, launch, queueVars, worker, doubled>>
writeVars == <<draft, token, consumed, request, writes, forgotten>>
vars == <<sheinVars, syncVars, writeVars, faults>>

Jobs         == 1..MaxJobs
ReviewStates == {"missing", "review", "passed", "rejected"}
NoPlan       == [skc |-> NoSkc, state |-> "none", draft |-> 0]
NoRequest    == [step |-> "none", token |-> NoToken, plan |-> NoPlan]
NoWork       == [step |-> "none", job |-> 0, todo |-> {}, failed |-> {}, skc |-> NoSkc, read |-> "none"]

Active(j) == job[j] \in {"queued", "running"}

\* The id the next job gets, if the bound leaves one.
NextJob == {j \in Jobs : job[j] = "none" /\ \A k \in 1..(j - 1) : job[k] # "none"}

\* An earlier sync may have stored the requirements as they are.  A first draft
\* is there.
Init ==
    /\ shein = [s \in Skcs |-> "missing"]
    /\ reviews = 0
    /\ \E known \in {"none", "missing"} : local = [s \in Skcs |-> known]
    /\ job = [j \in Jobs |-> "none"]
    /\ items = [j \in Jobs |-> [s \in Skcs |-> "none"]]
    /\ quiet = {}
    /\ cooling = FALSE
    /\ launch = 0
    /\ entry = [j \in Jobs |-> "none"]
    /\ lock = [j \in Jobs |-> NoWorker]
    /\ tries = [j \in Jobs |-> 0]
    /\ worker = [w \in Workers |-> NoWork]
    /\ draft = [s \in Skcs |-> 0]
    /\ token = [t \in Tokens |-> NoPlan]
    /\ consumed = {}
    /\ request = [r \in Requests |-> NoRequest]
    /\ writes = [t \in Tokens |-> 0]
    /\ forgotten = {}
    /\ doubled = {}
    /\ faults = 0

Fault == faults < MaxFaults /\ faults' = faults + 1

-----------------------------------------------------------------------------
(* SHEIN and time                                                          *)

Review(s) ==
    /\ reviews < MaxReviews
    /\ shein[s] = "review"
    /\ \E decision \in {"passed", "rejected"} : shein' = [shein EXCEPT ![s] = decision]
    /\ reviews' = reviews + 1
    /\ UNCHANGED <<syncVars, writeVars, faults>>

CooldownEnds ==
    /\ cooling
    /\ cooling' = FALSE
    /\ UNCHANGED <<sheinVars, local, job, items, quiet, launch, queueVars, worker, doubled, writeVars, faults>>

\* Nothing was updated for fifteen minutes: there is no heartbeat, only the
\* progress of the batches.
JobLapses(j) ==
    /\ Active(j) /\ j \notin quiet
    /\ quiet' = quiet \cup {j}
    /\ UNCHANGED <<sheinVars, local, job, items, cooling, launch, queueVars, worker, doubled, writeVars, faults>>

-----------------------------------------------------------------------------
(* The life of a sync job                                                  *)

\* The jobs of a set that are still active end; the cooldown starts.
JobsEnd(ended, outcome) ==
    LET live == {j \in ended : Active(j)} IN
    /\ job' = [j \in Jobs |-> IF j \in live THEN outcome ELSE job[j]]
    /\ quiet' = quiet \ live
    /\ cooling' = (cooling \/ live # {})

\* The list of sync jobs, and getActive, time out what was quiet for too long.
ExpireJobs ==
    /\ quiet # {}
    /\ JobsEnd(quiet, "failed")
    /\ UNCHANGED <<sheinVars, local, items, launch, queueVars, worker, doubled, writeVars, faults>>

\* claimSync.  A job it times out itself has only just ended, so the cooldown
\* refuses the claim.
ClaimSync ==
    IF quiet # {}
    THEN JobsEnd(quiet, "failed") /\ UNCHANGED launch
    ELSE IF launch = 0 /\ ~cooling /\ NextJob # {} /\ \A j \in Jobs : ~Active(j)
    THEN /\ \E j \in NextJob : job' = [job EXCEPT ![j] = "queued"] /\ launch' = j
         /\ UNCHANGED <<quiet, cooling>>
    ELSE UNCHANGED <<job, quiet, cooling, launch>>

\* A user refreshes: startSync, which joins a launch in flight.
StartSync ==
    /\ launch = 0
    /\ ClaimSync
    /\ UNCHANGED <<sheinVars, local, items, queueVars, worker, doubled, writeVars, faults>>

AddJob ==
    /\ launch # 0
    /\ entry' = [entry EXCEPT ![launch] = "waiting"]
    /\ launch' = 0
    /\ UNCHANGED <<sheinVars, local, jobVars, lock, tries, worker, doubled, writeVars, faults>>

\* The add fails, with or without effect on the queue, and saveFailure ends the
\* job, if it does not fail as well.
AddFails ==
    /\ launch # 0
    /\ Fault
    /\ entry' \in {entry, [entry EXCEPT ![launch] = "waiting"]}
    /\ JobsEnd({launch}, "failed") \/ UNCHANGED <<job, quiet, cooling>>
    /\ launch' = 0
    /\ UNCHANGED <<sheinVars, local, items, lock, tries, worker, doubled, writeVars>>

-----------------------------------------------------------------------------
(* processSyncJob                                                          *)

\* A free slot takes the entry and marks the job as running; the entry of a
\* job that has ended is skipped.
MarkRunning(w, j) ==
    /\ worker[w] = NoWork
    /\ entry[j] = "waiting"
    /\ IF Active(j)
       THEN /\ job' = [job EXCEPT ![j] = "running"]
            /\ quiet' = quiet \ {j}
            /\ entry' = [entry EXCEPT ![j] = "active"]
            /\ lock' = [lock EXCEPT ![j] = w]
            /\ worker' = [worker EXCEPT ![w].step = "prepare", ![w].job = j]
       ELSE /\ entry' = [entry EXCEPT ![j] = "completed"]
            /\ UNCHANGED <<job, quiet, lock, worker>>
    /\ UNCHANGED <<sheinVars, local, items, cooling, launch, tries, doubled, writeVars, faults>>

\* updateProgress keeps a running job from being timed out.
Progress(j) == quiet' = IF job[j] = "running" THEN quiet \ {j} ELSE quiet

\* listTargets, prepareItems: items of an earlier attempt stay as they are.
PrepareItems(w) ==
    LET j == worker[w].job IN
    /\ worker[w].step = "prepare"
    /\ items' = [items EXCEPT ![j] = [s \in Skcs |-> IF @[s] = "none" THEN "queued" ELSE @[s]]]
    /\ Progress(j)
    /\ worker' = [worker EXCEPT ![w].step = "read", ![w].todo = Skcs]
    /\ UNCHANGED <<sheinVars, local, job, cooling, launch, queueVars, doubled, writeVars, faults>>

\* syncCompliance reads the next SKC, in the order of listTargets; an error or a
\* missing source leaves it without usable answer.
ReadShein(w) ==
    LET s == CHOOSE s \in worker[w].todo : TRUE IN
    /\ worker[w].step = "read"
    /\ \E answer \in {shein[s], "none"} :
          worker' = [worker EXCEPT ![w].step = "save", ![w].todo = @ \ {s},
                                   ![w].skc = s, ![w].read = answer]
    /\ UNCHANGED <<sheinVars, local, jobVars, launch, queueVars, doubled, writeVars, faults>>

\* Mutant: the state name of another table.
CompletedItem(complete) == IF complete THEN "completed" ELSE "failed"

ItemState(complete) == IF complete THEN "succeeded" ELSE "failed"

Answered(w) == worker[w].read # "none"

\* saveBatch in one transaction, whatever has become of the job since.
Stored(w) ==
    LET me == worker[w] IN
    /\ local' = IF Answered(w) THEN [local EXCEPT ![me.skc] = me.read] ELSE local
    /\ items' = [items EXCEPT ![me.job][me.skc] = ItemState(Answered(w))]

SaveBatch(w) ==
    /\ worker[w].step = "save"
    /\ Stored(w)
    /\ Progress(worker[w].job)
    /\ worker' = [worker EXCEPT ![w].step = IF worker[w].todo = {} THEN "finish" ELSE "read",
                                ![w].failed = IF Answered(w) THEN @ ELSE @ \cup {worker[w].skc},
                                ![w].skc = NoSkc, ![w].read = "none"]
    /\ UNCHANGED <<sheinVars, job, cooling, launch, queueVars, doubled, writeVars, faults>>

\* saveBatch fails, or the update of the progress after it: the SKC is saved
\* again, as one without answer.
SaveBatchFails(w) ==
    /\ worker[w].step = "save" /\ Answered(w)
    /\ Fault
    /\ Stored(w) \/ UNCHANGED <<local, items>>
    /\ worker' = [worker EXCEPT ![w].read = "none"]
    /\ UNCHANGED <<sheinVars, job, quiet, cooling, launch, queueVars, doubled, writeVars>>

\* Any other query of the sync fails.
SyncFails(w) ==
    /\ worker[w].step \in {"prepare", "save", "finish"} /\ ~Answered(w)
    /\ Fault
    /\ worker' = [worker EXCEPT ![w] = [NoWork EXCEPT !.step = "fail", !.job = worker[w].job]]
    /\ UNCHANGED <<sheinVars, local, jobVars, launch, queueVars, doubled, writeVars>>

\* The attempt is over, if the slot still holds the entry.
Finished(w, j, outcome) ==
    /\ entry' = [entry EXCEPT ![j] = IF lock[j] = w THEN outcome ELSE @]
    /\ lock' = [lock EXCEPT ![j] = IF @ = w THEN NoWorker ELSE @]
    /\ worker' = [worker EXCEPT ![w] = NoWork]

Rejected(w, j) ==
    /\ Finished(w, j, IF tries[j] + 1 < MaxAttempts THEN "waiting" ELSE "failed")
    /\ tries' = [tries EXCEPT ![j] = IF lock[j] = w THEN @ + 1 ELSE @]

\* Mutant: some SKCs with a complete answer are enough.
SomeComplete(w) == worker[w].failed # Skcs

\* No SKC was left without a complete answer.
AllComplete(w) == worker[w].failed = {}

SaveSuccess(w) ==
    /\ worker[w].step = "finish" /\ AllComplete(w)
    /\ JobsEnd({worker[w].job}, "succeeded")
    /\ Finished(w, worker[w].job, "completed")
    /\ UNCHANGED <<sheinVars, local, items, launch, tries, doubled, writeVars, faults>>

\* A partial or failed sync: saveFailure, and the attempt fails.
SaveFailure(w) ==
    /\ \/ worker[w].step = "fail"
       \/ worker[w].step = "finish" /\ ~AllComplete(w)
    /\ JobsEnd({worker[w].job}, "failed")
    /\ Rejected(w, worker[w].job)
    /\ UNCHANGED <<sheinVars, local, items, launch, doubled, writeVars, faults>>

SaveFailureFails(w) ==
    /\ \/ worker[w].step = "fail"
       \/ worker[w].step = "finish" /\ ~AllComplete(w)
    /\ Fault
    /\ Rejected(w, worker[w].job)
    /\ UNCHANGED <<sheinVars, local, jobVars, launch, doubled, writeVars>>

WorkerDies(w) ==
    /\ worker[w] # NoWork
    /\ Fault
    /\ worker' = [worker EXCEPT ![w] = NoWork]
    /\ UNCHANGED <<sheinVars, local, jobVars, launch, queueVars, doubled, writeVars>>

\* BullMQ takes an entry whose lock has lapsed for stalled and queues it again,
\* or fails it.  That its slot is still at work is a fault.
Stall(j) ==
    LET busy == \E w \in Workers : worker[w].job = j IN
    /\ entry[j] = "active"
    /\ IF busy THEN Fault /\ doubled' = doubled \cup {j} ELSE UNCHANGED <<faults, doubled>>
    /\ \E outcome \in {"waiting", "failed"} : entry' = [entry EXCEPT ![j] = outcome]
    /\ lock' = [lock EXCEPT ![j] = NoWorker]
    /\ UNCHANGED <<sheinVars, local, jobVars, launch, tries, worker, writeVars>>

-----------------------------------------------------------------------------
(* Submitting a report or photos                                           *)

SaveDraft(s) ==
    /\ Asked[s] = "photos" /\ draft[s] < MaxDrafts
    /\ draft' = [draft EXCEPT ![s] = @ + 1]
    /\ UNCHANGED <<sheinVars, syncVars, token, consumed, request, writes, forgotten, faults>>

\* reportPlan, photoPlan: the stored requirement asks for evidence that is
\* neither in review nor passed.  The plan is bound to the requirement, and
\* that of photos to the draft.
Plannable(s) == local[s] \in {"missing", "rejected"}
Plan(s)      == [skc |-> s, state |-> local[s], draft |-> draft[s]]

\* checkReport, checkPhotos: a token is issued for the plan.
Check(s, t) ==
    /\ Plannable(s)
    /\ token[t] = NoPlan
    /\ token' = [token EXCEPT ![t] = Plan(s)]
    /\ UNCHANGED <<sheinVars, syncVars, draft, consumed, request, writes, forgotten, faults>>

\* submitReport, submitPhotos: the request plans again, from what is stored by
\* now.
Submit(r, s, t) ==
    /\ request[r] = NoRequest
    /\ token[t] # NoPlan
    /\ Plannable(s)
    /\ request' = [request EXCEPT ![r] = [step |-> "consume", token |-> t, plan |-> Plan(s)]]
    /\ UNCHANGED <<sheinVars, syncVars, draft, token, consumed, writes, forgotten, faults>>

\* Mutant: a token is looked up among the consumed ones, but not added.
NotRemembered(t) == consumed

\* The tokens consumed once this one is.
ConsumedWith(t) == consumed \cup {t}

Report(r) == Asked[request[r].plan.skc] = "report"

TokenValid(r) ==
    LET t == request[r].token IN
    t \notin consumed /\ token[t] = request[r].plan

\* consumeToken: one synchronous step, before anything is sent to SHEIN.
ConsumeToken(r) ==
    /\ request[r].step = "consume"
    /\ IF TokenValid(r)
       THEN /\ consumed' = ConsumedWith(request[r].token)
            /\ request' = [request EXCEPT ![r].step = IF Report(r) THEN "save" ELSE "bind"]
       ELSE /\ request' = [request EXCEPT ![r] = NoRequest]
            /\ UNCHANGED consumed
    /\ UNCHANGED <<sheinVars, syncVars, draft, token, writes, forgotten, faults>>

Written(r) == writes' = [writes EXCEPT ![request[r].token] = @ + 1]

\* Photos are written by their bind, a report before it.
Bound(r) ==
    /\ shein' = [shein EXCEPT ![request[r].plan.skc] = "review"]
    /\ IF Report(r) THEN UNCHANGED writes ELSE Written(r)

SaveCertificate(r) ==
    /\ request[r].step = "save"
    /\ Written(r)
    /\ request' = [request EXCEPT ![r].step = "bind"]
    /\ UNCHANGED <<sheinVars, syncVars, draft, token, consumed, forgotten, faults>>

Bind(r) ==
    /\ request[r].step = "bind"
    /\ Bound(r)
    /\ request' = [request EXCEPT ![r].step = "readback"]
    /\ UNCHANGED <<reviews, syncVars, draft, token, consumed, forgotten, faults>>

\* A call of SHEIN fails, with or without effect: the submission is over.
CallFails(r) ==
    /\ Fault
    /\ \/ /\ request[r].step = "save"
          /\ Written(r) \/ UNCHANGED writes
          /\ UNCHANGED shein
       \/ /\ request[r].step = "bind"
          /\ Bound(r) \/ UNCHANGED <<shein, writes>>
    /\ request' = [request EXCEPT ![r] = NoRequest]
    /\ UNCHANGED <<reviews, syncVars, draft, token, consumed, forgotten>>

\* startReadback starts a sync, or leaves it to the cooldown, the active job or
\* the launch in flight.
StartReadback(r) ==
    /\ request[r].step = "readback"
    /\ IF launch = 0 THEN ClaimSync ELSE UNCHANGED <<job, quiet, cooling, launch>>
    /\ request' = [request EXCEPT ![r] = NoRequest]
    /\ UNCHANGED <<sheinVars, local, items, queueVars, worker, doubled, draft, token, consumed, writes, forgotten, faults>>

\* The server restarts: requests, launch and consumed tokens are gone.
Restart ==
    /\ Fault
    /\ launch' = 0
    /\ request' = [r \in Requests |-> NoRequest]
    /\ consumed' = {}
    /\ forgotten' = forgotten \cup consumed
    /\ UNCHANGED <<sheinVars, local, jobVars, queueVars, worker, doubled, draft, token, writes>>

-----------------------------------------------------------------------------
Next ==
    \/ \E s \in Skcs : Review(s) \/ SaveDraft(s)
    \/ CooldownEnds \/ ExpireJobs \/ StartSync \/ AddJob \/ AddFails \/ Restart
    \/ \E j \in Jobs : JobLapses(j) \/ Stall(j)
    \/ \E w \in Workers :
          \/ PrepareItems(w) \/ ReadShein(w) \/ SaveBatch(w) \/ SaveBatchFails(w)
          \/ SyncFails(w) \/ SaveSuccess(w) \/ SaveFailure(w) \/ SaveFailureFails(w) \/ WorkerDies(w)
          \/ \E j \in Jobs : MarkRunning(w, j)
    \/ \E s \in Skcs, t \in Tokens :
          \/ Check(s, t)
          \/ \E r \in Requests : Submit(r, s, t)
    \/ \E r \in Requests :
          \/ ConsumeToken(r) \/ SaveCertificate(r) \/ Bind(r)
          \/ CallFails(r) \/ StartReadback(r)

Spec == Init /\ [][Next]_vars

-----------------------------------------------------------------------------
(* Properties                                                              *)

PlanType == [skc : Skcs \cup {NoSkc}, state : ReviewStates \cup {"none"}, draft : 0..MaxDrafts]

WorkType == [step : {"none", "prepare", "read", "save", "finish", "fail"}, job : 0..MaxJobs,
             todo : SUBSET Skcs, failed : SUBSET Skcs,
             skc : Skcs \cup {NoSkc}, read : ReviewStates \cup {"none"}]
RequestType == [step : {"none", "consume", "save", "bind", "readback"},
                token : Tokens \cup {NoToken}, plan : PlanType]

TypeOK ==
    /\ shein \in [Skcs -> ReviewStates]
    /\ reviews \in 0..MaxReviews
    /\ local \in [Skcs -> ReviewStates \cup {"none"}]
    /\ job \in [Jobs -> {"none", "queued", "running", "succeeded", "failed"}]
    /\ items \in [Jobs -> [Skcs -> {"none", "queued", "succeeded", "failed"}]]
    /\ quiet \subseteq {j \in Jobs : Active(j)}
    /\ cooling \in BOOLEAN
    /\ launch \in 0..MaxJobs
    /\ entry \in [Jobs -> {"none", "waiting", "active", "completed", "failed"}]
    /\ lock \in [Jobs -> Workers \cup {NoWorker}]
    /\ tries \in [Jobs -> Nat]
    /\ worker \in [Workers -> WorkType]
    /\ draft \in [Skcs -> 0..MaxDrafts]
    /\ token \in [Tokens -> PlanType]
    /\ consumed \cup forgotten \subseteq Tokens
    /\ request \in [Requests -> RequestType]
    /\ writes \in [Tokens -> Nat]
    /\ doubled \subseteq Jobs
    /\ faults \in 0..MaxFaults

\* One confirmation saves one certificate or binds its photos once, however
\* many requests carry its token at once and whatever fails on the way, unless
\* the server restarted and forgot that the token was consumed.
OneWritePerConfirmation ==
    \A t \in Tokens : writes[t] <= 1 \/ t \in forgotten

\* A sync has succeeded only if every SKC got a complete answer that was stored
\* under it, over all attempts, unless two workers were at it at once.
SucceededIsComplete ==
    \A j \in Jobs : job[j] = "succeeded" /\ j \notin doubled =>
        \A s \in Skcs : items[j][s] = "succeeded"

\* The syncs as rows of sync_jobs.
Ledger == INSTANCE SyncJobContract WITH state <- job

\* The syncs keep what the table promises, whoever claims them and whichever
\* attempts, failed adds and timeouts overlap.
JobsKeepContract == Ledger!Spec
=============================================================================
