------------------------ MODULE ComplianceCycleProofs ------------------------
(***************************************************************************)
(* The three invariants of ComplianceCycle, for every set of SKCs,         *)
(* workers, requests and tokens and for all bounds.                        *)
(*                                                                         *)
(* OneWritePerConfirmation.  A request can only be past its token's        *)
(* consumption while the token is remembered, and two requests past it     *)
(* have different tokens, because consumption is one step that asks and    *)
(* remembers.  So a token has one request that may write, and a report is  *)
(* written by one of its calls, photos by the other.  A restart forgets    *)
(* the tokens, but it ends all requests.                                   *)
(*                                                                         *)
(* SucceededIsComplete.  Without a lapsed lock a job has one slot, and     *)
(* none once its entry waits again.  So what a slot knows of its items     *)
(* stays true: each SKC is still to come, is being saved, is counted as    *)
(* failed or is stored as succeeded.                                       *)
(***************************************************************************)
EXTENDS ComplianceCycle, TLAPS

\* A slot that is about to read has an SKC left, one that is about to save has
\* read one.
HasTarget ==
    \A w \in Workers :
        /\ worker[w].step = "read" => worker[w].todo # {}
        /\ worker[w].step = "save" => worker[w].skc \in Skcs

\* A request at work names a token.
HasToken == \A r \in Requests : request[r].step # "none" => request[r].token \in Tokens

TypeInv == TypeOK /\ HasTarget /\ HasToken

\* The values that stand for nothing have their types.
LEMMA NothingTyped ==
    /\ NoPlan \in PlanType
    /\ NoRequest \in RequestType /\ NoRequest.step = "none"
    /\ NoWork \in WorkType /\ NoWork.step = "none"
  BY BoundsAssumption DEF NoPlan, NoRequest, NoWork, PlanType, RequestType, WorkType

\* Which parts of the state the groups of TypeOK speak of.
SheinType == shein \in [Skcs -> ReviewStates] /\ reviews \in 0..MaxReviews
LocalType == local \in [Skcs -> ReviewStates \cup {"none"}]
JobType ==
    /\ job \in [Jobs -> {"none", "queued", "running", "succeeded", "failed"}]
    /\ quiet \subseteq {j \in Jobs : Active(j)}
    /\ cooling \in BOOLEAN
    /\ launch \in 0..MaxJobs
ItemType  == items \in [Jobs -> [Skcs -> {"none", "queued", "succeeded", "failed"}]]
QueueType ==
    /\ entry \in [Jobs -> {"none", "waiting", "active", "completed", "failed"}]
    /\ lock \in [Jobs -> Workers \cup {NoWorker}]
    /\ tries \in [Jobs -> Nat]
    /\ doubled \subseteq Jobs
WorkerType == worker \in [Workers -> WorkType] /\ HasTarget
WriteType ==
    /\ draft \in [Skcs -> 0..MaxDrafts]
    /\ token \in [Tokens -> PlanType]
    /\ consumed \cup forgotten \subseteq Tokens
    /\ request \in [Requests -> RequestType]
    /\ writes \in [Tokens -> Nat]
    /\ HasToken
FaultType == faults \in 0..MaxFaults

\* The types hold if and only if they hold part by part, now and in the next
\* state.
LEMMA TypeParts ==
    /\ TypeInv <=> SheinType /\ LocalType /\ JobType /\ ItemType /\ QueueType /\ WorkerType
                   /\ WriteType /\ FaultType
    /\ TypeInv' <=> SheinType' /\ LocalType' /\ JobType' /\ ItemType' /\ QueueType' /\ WorkerType'
                    /\ WriteType' /\ FaultType'
  BY DEF TypeInv, TypeOK, SheinType, LocalType, JobType, ItemType, QueueType, WorkerType, WriteType,
         FaultType

\* Untouched parts keep their types.
LEMMA UntouchedTypes ==
    TypeInv => /\ UNCHANGED sheinVars => SheinType'
               /\ UNCHANGED local => LocalType'
               /\ UNCHANGED <<job, quiet, cooling, launch>> => JobType'
               /\ UNCHANGED items => ItemType'
               /\ UNCHANGED <<queueVars, doubled>> => QueueType'
               /\ UNCHANGED worker => WorkerType'
               /\ UNCHANGED writeVars => WriteType'
               /\ UNCHANGED faults => FaultType'
  BY DEF TypeInv, TypeOK, HasTarget, HasToken, Active, sheinVars, queueVars, writeVars,
         SheinType, LocalType, JobType, ItemType, QueueType, WorkerType, WriteType, FaultType

\* A fault is counted within its bound.
LEMMA FaultTyped == FaultType /\ Fault => FaultType'
  BY BoundsAssumption DEF FaultType, Fault

\* Ending jobs, whichever they are.
LEMMA JobsEndTyped ==
    ASSUME JobType, NEW ended \in SUBSET Jobs, NEW outcome \in {"succeeded", "failed"},
           JobsEnd(ended, outcome), launch' \in 0..MaxJobs
    PROVE  JobType'
  BY DEF JobType, JobsEnd, Active

\* claimSync keeps the types of the jobs.
LEMMA ClaimTyped == JobType /\ ClaimSync => JobType'
<1> SUFFICES ASSUME JobType, ClaimSync PROVE JobType'
  OBVIOUS
<1>1. CASE quiet # {}
  <2>1. quiet \in SUBSET Jobs /\ launch \in 0..MaxJobs
    BY DEF JobType
  <2>2. JobsEnd(quiet, "failed") /\ launch' = launch
    BY <1>1 DEF ClaimSync
  <2>3. QED
    BY <2>1, <2>2, JobsEndTyped
<1>2. CASE quiet = {} /\ UNCHANGED <<job, quiet, cooling, launch>>
  BY <1>2 DEF JobType, Active
<1>3. CASE quiet = {} /\ ~UNCHANGED <<job, quiet, cooling, launch>>
  <2>1. PICK j \in NextJob : job' = [job EXCEPT ![j] = "queued"] /\ launch' = j
    BY <1>3 DEF ClaimSync
  <2>2. UNCHANGED <<quiet, cooling>>
    BY <1>3 DEF ClaimSync
  <2>3. QED
    BY <1>3, <2>1, <2>2, BoundsAssumption DEF JobType, NextJob, Active, Jobs
<1>4. QED
  BY <1>1, <1>2, <1>3

\* The types hold initially.
LEMMA InitTypes == Init => TypeInv
<1> SUFFICES ASSUME Init PROVE TypeInv
  OBVIOUS
<1>1. SheinType /\ LocalType
  BY BoundsAssumption DEF Init, SheinType, LocalType, ReviewStates
<1>2. JobType
  <2>1. job \in [Jobs -> {"none", "queued", "running", "succeeded", "failed"}]
    BY DEF Init
  <2>2. launch \in 0..MaxJobs
    BY BoundsAssumption DEF Init
  <2>3. quiet \subseteq {j \in Jobs : Active(j)} /\ cooling \in BOOLEAN
    BY DEF Init
  <2>4. QED
    BY <2>1, <2>2, <2>3 DEF JobType
<1>3. ItemType /\ QueueType
  BY DEF Init, ItemType, QueueType
<1>4. WorkerType
  BY NothingTyped DEF Init, WorkerType, HasTarget, NoWork
<1>5. WriteType /\ FaultType
  BY NothingTyped, BoundsAssumption DEF Init, WriteType, HasToken, FaultType
<1>6. QED
  BY <1>1, <1>2, <1>3, <1>4, <1>5, TypeParts

\* The bounds are numbers.
LEMMA BoundsTyped == {MaxReviews, MaxDrafts, MaxFaults} \subseteq Nat /\ 0 \in 0..MaxJobs
  BY BoundsAssumption

\* Counting at one place keeps a function of numbers, also if the place is none
\* of its arguments.
LEMMA CountsUp ==
    ASSUME NEW S, NEW f \in [S -> Nat], NEW x
    PROVE  [f EXCEPT ![x] = @ + 1] \in [S -> Nat]
<1>1. CASE x \in S
  BY <1>1
<1>2. CASE x \notin S
  BY <1>2
<1>3. QED
  BY <1>1, <1>2

\* A failed attempt keeps the types of the queue.
LEMMA RejectedTyped ==
    ASSUME QueueType, NEW w \in Workers, NEW j, Rejected(w, j), UNCHANGED doubled
    PROVE  QueueType'
<1>1. entry' \in [Jobs -> {"none", "waiting", "active", "completed", "failed"}]
  BY DEF QueueType, Rejected, Finished
<1>2. lock' \in [Jobs -> Workers \cup {NoWorker}]
  BY DEF QueueType, Rejected, Finished
<1>3. tries' \in [Jobs -> Nat]
  <2>1. CASE lock[j] = w
    BY <2>1, CountsUp DEF QueueType, Rejected
  <2>2. CASE lock[j] # w
    BY <2>2 DEF QueueType, Rejected
  <2>3. QED
    BY <2>1, <2>2
<1>4. QED
  BY <1>1, <1>2, <1>3 DEF QueueType

\* A slot that goes to a sound state keeps the types of the slots.
LEMMA WorkerTo ==
    ASSUME WorkerType, NEW w \in Workers, NEW x \in WorkType, x.step = "read" => x.todo # {},
           x.step = "save" => x.skc \in Skcs, worker' = [worker EXCEPT ![w] = x]
    PROVE  WorkerType'
  BY DEF WorkerType, HasTarget

\* Every step keeps the types; each case lists the parts that its action touches.
LEMMA StepTypes == TypeInv /\ [Next]_vars => TypeInv'
<1> SUFFICES ASSUME TypeInv, [Next]_vars PROVE TypeInv'
  OBVIOUS
<1> USE TypeParts
<1>0. CASE UNCHANGED vars
  BY <1>0, UntouchedTypes DEF vars, syncVars, writeVars, jobVars
<1>1. ASSUME NEW s \in Skcs, Review(s) PROVE TypeInv'
  <2>1. SheinType'
    BY <1>1, BoundsTyped DEF Review, SheinType, ReviewStates
  <2>2. QED
    BY <1>1, <2>1, UntouchedTypes
    DEF Review, syncVars, jobVars, queueVars, writeVars
<1>2. ASSUME NEW s \in Skcs, SaveDraft(s) PROVE TypeInv'
  <2>1. WriteType'
    BY <1>2, BoundsAssumption DEF SaveDraft, WriteType, HasToken
  <2>2. QED
    BY <1>2, <2>1, UntouchedTypes
    DEF SaveDraft, syncVars, jobVars, queueVars, writeVars
<1>3. ASSUME CooldownEnds PROVE TypeInv'
  <2>1. JobType'
    BY <1>3 DEF CooldownEnds, JobType, Active
  <2>2. QED
    BY <1>3, <2>1, UntouchedTypes
    DEF CooldownEnds, syncVars, jobVars, queueVars, writeVars
<1>4. ASSUME ExpireJobs PROVE TypeInv'
  <2>1. JobType'
    <3>1. JobsEnd(quiet, "failed") /\ UNCHANGED launch
      BY <1>4 DEF ExpireJobs
    <3>2. quiet \in SUBSET Jobs /\ launch \in 0..MaxJobs
      BY DEF JobType
    <3>3. QED
      BY <3>1, <3>2, JobsEndTyped
  <2>2. QED
    BY <1>4, <2>1, UntouchedTypes
    DEF ExpireJobs, syncVars, jobVars, queueVars, writeVars
<1>5. ASSUME StartSync PROVE TypeInv'
  <2>1. JobType'
    BY <1>5, ClaimTyped DEF StartSync, JobType
  <2>2. QED
    BY <1>5, <2>1, UntouchedTypes
    DEF StartSync, syncVars, jobVars, queueVars, writeVars
<1>6. ASSUME AddJob PROVE TypeInv'
  <2>1. JobType'
    BY <1>6, BoundsTyped DEF AddJob, JobType, Active, jobVars
  <2>2. QueueType'
    BY <1>6 DEF AddJob, QueueType
  <2>3. QED
    BY <1>6, <2>1, <2>2, UntouchedTypes
    DEF AddJob, syncVars, jobVars, queueVars, writeVars
<1>7. ASSUME AddFails PROVE TypeInv'
  <2>1. FaultType'
    BY <1>7, FaultTyped DEF AddFails, FaultType
  <2>2. QueueType'
    BY <1>7 DEF AddFails, QueueType
  <2>3. JobType'
    <3>1. launch \in Jobs /\ launch' = 0 /\ 0 \in 0..MaxJobs
      BY <1>7, BoundsAssumption DEF AddFails, JobType, Jobs
    <3>2. CASE JobsEnd({launch}, "failed")
      BY <3>1, <3>2, JobsEndTyped
    <3>3. CASE UNCHANGED <<job, quiet, cooling>>
      BY <3>1, <3>3 DEF JobType, Active
    <3>4. QED
      BY <1>7, <3>2, <3>3 DEF AddFails
  <2>4. QED
    BY <1>7, <2>1, <2>2, <2>3, UntouchedTypes
    DEF AddFails, syncVars, jobVars, queueVars, writeVars
<1>8. ASSUME Restart PROVE TypeInv'
  <2>1. FaultType'
    BY <1>8, FaultTyped DEF Restart, FaultType
  <2>2. JobType'
    BY <1>8, BoundsTyped DEF Restart, JobType, Active, jobVars
  <2>3. WriteType'
    BY <1>8, NothingTyped DEF Restart, WriteType, HasToken
  <2>4. QED
    BY <1>8, <2>1, <2>2, <2>3, UntouchedTypes
    DEF Restart, syncVars, jobVars, queueVars, writeVars
<1>9. ASSUME NEW j \in Jobs, JobLapses(j) PROVE TypeInv'
  <2>1. JobType'
    BY <1>9 DEF JobLapses, JobType, Active
  <2>2. QED
    BY <1>9, <2>1, UntouchedTypes
    DEF JobLapses, syncVars, jobVars, queueVars, writeVars
<1>10. ASSUME NEW j \in Jobs, Stall(j) PROVE TypeInv'
  <2>1. QueueType'
    BY <1>10 DEF Stall, QueueType
  <2>2. FaultType'
    BY <1>10, FaultTyped DEF Stall, FaultType
  <2>3. QED
    BY <1>10, <2>1, <2>2, UntouchedTypes
    DEF Stall, syncVars, jobVars, queueVars, writeVars
<1>11. ASSUME NEW w \in Workers, PrepareItems(w) PROVE TypeInv'
  <2>1. ItemType'
    BY <1>11 DEF PrepareItems, ItemType
  <2>2. JobType'
    BY <1>11 DEF PrepareItems, JobType, Progress, Active
  <2>3. WorkerType'
    <3> DEFINE x == [worker[w] EXCEPT !.step = "read", !.todo = Skcs]
    <3>1. x \in WorkType /\ x.todo # {} /\ x.step = "read"
      BY SkcsAssumption DEF WorkerType, WorkType
    <3>2. worker' = [worker EXCEPT ![w] = x]
      BY <1>11 DEF PrepareItems
    <3>3. QED
      BY <3>1, <3>2, WorkerTo
  <2>4. QED
    BY <1>11, <2>1, <2>2, <2>3, UntouchedTypes
    DEF PrepareItems, syncVars, jobVars, queueVars, writeVars
<1>12. ASSUME NEW w \in Workers, ReadShein(w) PROVE TypeInv'
  <2>1. WorkerType'
    <3> DEFINE s == CHOOSE s \in worker[w].todo : TRUE
    <3>1. s \in Skcs
      <4>1. worker[w].todo # {} /\ worker[w].todo \subseteq Skcs
        BY <1>12 DEF ReadShein, WorkerType, HasTarget, WorkType
      <4>2. s \in worker[w].todo
        BY <4>1
      <4>3. QED
        BY <4>1, <4>2
    <3>2. PICK answer \in {shein[s], "none"} :
            worker' = [worker EXCEPT ![w].step = "save", ![w].todo = @ \ {s},
                                     ![w].skc = s, ![w].read = answer]
      BY <1>12 DEF ReadShein
    <3> HIDE DEF s
    <3>3. answer \in ReviewStates \cup {"none"}
      BY <3>1 DEF SheinType
    <3>4. worker \in [Workers -> WorkType]
      BY DEF WorkerType
    <3> DEFINE x == [worker[w] EXCEPT !.step = "save", !.todo = worker[w].todo \ {s},
                                      !.skc = s, !.read = answer]
    <3>5. worker' = [worker EXCEPT ![w] = x]
      BY <3>2, <3>4 DEF WorkType
    <3>6. x \in WorkType /\ x.step = "save" /\ x.skc = s
      BY <3>4, <3>1, <3>3 DEF WorkType
    <3>7. QED
      BY <3>1, <3>5, <3>6, WorkerTo
  <2>2. QED
    BY <1>12, <2>1, UntouchedTypes
    DEF ReadShein, syncVars, jobVars, queueVars, writeVars
<1>13. ASSUME NEW w \in Workers, SaveBatch(w) PROVE TypeInv'
  <2>1. LocalType'
    BY <1>13 DEF SaveBatch, LocalType, Stored, Answered, WorkerType, WorkType
  <2>2. ItemType'
    BY <1>13 DEF SaveBatch, ItemType, Stored, ItemState
  <2>3. JobType'
    BY <1>13 DEF SaveBatch, JobType, Progress, Active
  <2>4. WorkerType'
    <3> DEFINE next == IF worker[w].todo = {} THEN "finish" ELSE "read"
               missed == IF Answered(w) THEN worker[w].failed
                         ELSE worker[w].failed \cup {worker[w].skc}
               x == [worker[w] EXCEPT !.step = next, !.failed = missed,
                                      !.skc = NoSkc, !.read = "none"]
    <3>1. worker \in [Workers -> WorkType] /\ worker[w].skc \in Skcs
      BY <1>13 DEF SaveBatch, WorkerType, HasTarget
    <3>2. missed \subseteq Skcs
      BY <3>1 DEF WorkType
    <3>3. next \in {"finish", "read"} /\ (next = "read" => worker[w].todo # {})
      OBVIOUS
    <3>4. worker' = [worker EXCEPT ![w] = x]
      BY <1>13, <3>1 DEF SaveBatch, WorkType
    <3> HIDE DEF next, missed
    <3>5. x \in WorkType /\ x.step = next /\ x.todo = worker[w].todo
      BY <3>1, <3>2, <3>3 DEF WorkType
    <3>6. (x.step = "read" => x.todo # {}) /\ x.step # "save"
      BY <3>3, <3>5
    <3> HIDE DEF x
    <3>7. QED
      BY <3>4, <3>5, <3>6, WorkerTo
  <2>5. QED
    BY <1>13, <2>1, <2>2, <2>3, <2>4, UntouchedTypes
    DEF SaveBatch, syncVars, jobVars, queueVars, writeVars
<1>14. ASSUME NEW w \in Workers, SaveBatchFails(w) PROVE TypeInv'
  <2>1. LocalType'
    BY <1>14 DEF SaveBatchFails, LocalType, Stored, Answered, WorkerType, WorkType
  <2>2. ItemType'
    BY <1>14 DEF SaveBatchFails, ItemType, Stored, ItemState
  <2>3. FaultType'
    BY <1>14, FaultTyped DEF SaveBatchFails, FaultType
  <2>4. WorkerType'
    BY <1>14 DEF SaveBatchFails, WorkerType, HasTarget, WorkType
  <2>5. QED
    BY <1>14, <2>1, <2>2, <2>3, <2>4, UntouchedTypes
    DEF SaveBatchFails, syncVars, jobVars, queueVars, writeVars
<1>15. ASSUME NEW w \in Workers, SyncFails(w) PROVE TypeInv'
  <2>1. FaultType'
    BY <1>15, FaultTyped DEF SyncFails, FaultType
  <2>2. WorkerType'
    BY <1>15, NothingTyped DEF SyncFails, WorkerType, HasTarget, WorkType
  <2>3. QED
    BY <1>15, <2>1, <2>2, UntouchedTypes
    DEF SyncFails, syncVars, jobVars, queueVars, writeVars
<1>16. ASSUME NEW w \in Workers, SaveSuccess(w) PROVE TypeInv'
  <2>1. JobType'
    <3>1. CASE worker[w].job \in Jobs
      BY <1>16, <3>1, JobsEndTyped DEF SaveSuccess, JobType
    <3>2. CASE worker[w].job \notin Jobs
      BY <1>16, <3>2 DEF SaveSuccess, JobsEnd, JobType, Active
    <3>3. QED
      BY <3>1, <3>2
  <2>2. QueueType'
    BY <1>16 DEF SaveSuccess, QueueType, Finished
  <2>3. WorkerType'
    BY <1>16, NothingTyped DEF SaveSuccess, WorkerType, Finished, HasTarget
  <2>4. QED
    BY <1>16, <2>1, <2>2, <2>3, UntouchedTypes
    DEF SaveSuccess, syncVars, jobVars, queueVars, writeVars
<1>17. ASSUME NEW w \in Workers, SaveFailure(w) PROVE TypeInv'
  <2>1. JobType'
    <3>1. CASE worker[w].job \in Jobs
      BY <1>17, <3>1, JobsEndTyped DEF SaveFailure, JobType
    <3>2. CASE worker[w].job \notin Jobs
      BY <1>17, <3>2 DEF SaveFailure, JobsEnd, JobType, Active
    <3>3. QED
      BY <3>1, <3>2
  <2>2. QueueType'
    <3>1. Rejected(w, worker[w].job) /\ UNCHANGED doubled
      BY <1>17 DEF SaveFailure
    <3>2. QED
      BY <3>1, RejectedTyped
  <2>3. WorkerType'
    BY <1>17, NothingTyped DEF SaveFailure, WorkerType, Rejected, Finished, HasTarget
  <2>4. QED
    BY <1>17, <2>1, <2>2, <2>3, UntouchedTypes
    DEF SaveFailure, syncVars, jobVars, queueVars, writeVars
<1>18. ASSUME NEW w \in Workers, SaveFailureFails(w) PROVE TypeInv'
  <2>1. FaultType'
    BY <1>18, FaultTyped DEF SaveFailureFails, FaultType
  <2>2. QueueType'
    <3>1. Rejected(w, worker[w].job) /\ UNCHANGED doubled
      BY <1>18 DEF SaveFailureFails
    <3>2. QED
      BY <3>1, RejectedTyped
  <2>3. WorkerType'
    BY <1>18, NothingTyped DEF SaveFailureFails, WorkerType, Rejected, Finished, HasTarget
  <2>4. QED
    BY <1>18, <2>1, <2>2, <2>3, UntouchedTypes
    DEF SaveFailureFails, syncVars, jobVars, queueVars, writeVars
<1>19. ASSUME NEW w \in Workers, WorkerDies(w) PROVE TypeInv'
  <2>1. FaultType'
    BY <1>19, FaultTyped DEF WorkerDies, FaultType
  <2>2. WorkerType'
    BY <1>19, NothingTyped DEF WorkerDies, WorkerType, HasTarget
  <2>3. QED
    BY <1>19, <2>1, <2>2, UntouchedTypes
    DEF WorkerDies, syncVars, jobVars, queueVars, writeVars
<1>20. ASSUME NEW w \in Workers, NEW j \in Jobs, MarkRunning(w, j) PROVE TypeInv'
  <2>1. JobType'
    BY <1>20 DEF MarkRunning, JobType, Active
  <2>2. QueueType'
    BY <1>20 DEF MarkRunning, QueueType
  <2>3. WorkerType'
    BY <1>20 DEF MarkRunning, WorkerType, HasTarget, WorkType, Jobs
  <2>4. QED
    BY <1>20, <2>1, <2>2, <2>3, UntouchedTypes
    DEF MarkRunning, syncVars, jobVars, queueVars, writeVars
<1>21. ASSUME NEW s \in Skcs, NEW t \in Tokens, Check(s, t) PROVE TypeInv'
  <2>1. WriteType'
    BY <1>21 DEF Check, WriteType, HasToken, LocalType, Plan, PlanType
  <2>2. QED
    BY <1>21, <2>1, UntouchedTypes
    DEF Check, syncVars, jobVars, queueVars, writeVars
<1>22. ASSUME NEW r \in Requests, NEW s \in Skcs, NEW t \in Tokens, Submit(r, s, t) PROVE TypeInv'
  <2>1. WriteType'
    BY <1>22 DEF Submit, WriteType, HasToken, LocalType, Plan, PlanType, RequestType
  <2>2. QED
    BY <1>22, <2>1, UntouchedTypes
    DEF Submit, syncVars, jobVars, queueVars, writeVars
<1>23. ASSUME NEW r \in Requests, ConsumeToken(r) PROVE TypeInv'
  <2>1. WriteType'
    <3>1. consumed' \cup forgotten' \subseteq Tokens
      BY <1>23 DEF ConsumeToken, WriteType, HasToken, ConsumedWith
    <3>2. request' \in [Requests -> RequestType]
      BY <1>23, NothingTyped DEF ConsumeToken, WriteType, RequestType
    <3>3. HasToken'
      BY <1>23, NothingTyped DEF ConsumeToken, WriteType, HasToken, RequestType
    <3>4. QED
      BY <1>23, <3>1, <3>2, <3>3 DEF ConsumeToken, WriteType
  <2>2. QED
    BY <1>23, <2>1, UntouchedTypes
    DEF ConsumeToken, syncVars, jobVars, queueVars, writeVars
<1>24. ASSUME NEW r \in Requests, SaveCertificate(r) PROVE TypeInv'
  <2>1. WriteType'
    <3>1. writes' \in [Tokens -> Nat]
      BY <1>24, CountsUp DEF SaveCertificate, WriteType, Written
    <3>2. request' \in [Requests -> RequestType]
      BY <1>24 DEF SaveCertificate, WriteType, RequestType
    <3>3. QED
      BY <1>24, <3>1, <3>2 DEF SaveCertificate, WriteType, HasToken, RequestType
  <2>2. QED
    BY <1>24, <2>1, UntouchedTypes
    DEF SaveCertificate, syncVars, jobVars, queueVars, writeVars
<1>25. ASSUME NEW r \in Requests, Bind(r) PROVE TypeInv'
  <2>1. SheinType'
    BY <1>25 DEF Bind, SheinType, Bound, ReviewStates
  <2>2. WriteType'
    BY <1>25, CountsUp DEF Bind, WriteType, Bound, HasToken, Written, RequestType
  <2>3. QED
    BY <1>25, <2>1, <2>2, UntouchedTypes
    DEF Bind, syncVars, jobVars, queueVars, writeVars
<1>26. ASSUME NEW r \in Requests, CallFails(r) PROVE TypeInv'
  <2>1. FaultType'
    BY <1>26, FaultTyped DEF CallFails, FaultType
  <2>2. SheinType'
    BY <1>26 DEF CallFails, SheinType, Bound, ReviewStates
  <2>3. WriteType'
    BY <1>26, NothingTyped, CountsUp DEF CallFails, WriteType, Bound, HasToken, Written
  <2>4. QED
    BY <1>26, <2>1, <2>2, <2>3, UntouchedTypes
    DEF CallFails, syncVars, jobVars, queueVars, writeVars
<1>27. ASSUME NEW r \in Requests, StartReadback(r) PROVE TypeInv'
  <2>1. JobType'
    BY <1>27, ClaimTyped DEF StartReadback, JobType, Active
  <2>2. WriteType'
    BY <1>27, NothingTyped DEF StartReadback, WriteType, HasToken
  <2>3. QED
    BY <1>27, <2>1, <2>2, UntouchedTypes
    DEF StartReadback, syncVars, jobVars, queueVars, writeVars
<1>28. QED
  BY <1>0, <1>1, <1>2, <1>3, <1>4, <1>5, <1>6, <1>7, <1>8, <1>9, <1>10, <1>11, <1>12, <1>13, <1>14,
     <1>15, <1>16, <1>17, <1>18, <1>19, <1>20, <1>21, <1>22, <1>23, <1>24, <1>25, <1>26, <1>27 DEF Next

\* The state of syncs and submissions keeps its shape, for every set of SKCs,
\* workers, requests and tokens and all bounds.
THEOREM TypeCorrect == Spec => []TypeOK
<1>1. Init => TypeInv
  BY InitTypes
<1>2. TypeInv /\ [Next]_vars => TypeInv'
  BY StepTypes
<1>3. TypeInv => TypeOK
  BY DEF TypeInv
<1>4. QED
  BY <1>1, <1>2, <1>3, PTL DEF Spec

-----------------------------------------------------------------------------
\* A request that has consumed its token.
Past(r) == request[r].step \in {"save", "bind", "readback"}

\* A request whose write is still to come.
Pending(r) == request[r].step = "save" \/ (request[r].step = "bind" /\ ~Report(r))

\* Whoever is past consumption is remembered, and alone with its token.
PastIsConsumed == \A r \in Requests : Past(r) => request[r].token \in consumed
PastIsAlone ==
    \A r, q \in Requests : r # q /\ Past(r) /\ Past(q) => request[r].token # request[q].token

\* Only a report has a certificate to save.
SavesReport == \A r \in Requests : request[r].step = "save" => Report(r)

\* Nothing is written for a token that was never consumed, or whose request has
\* its write still to come.
UnconsumedUnwritten == \A t \in Tokens : t \notin consumed \cup forgotten => writes[t] = 0
PendingUnwritten ==
    \A r \in Requests : Pending(r) => writes[request[r].token] = 0 \/ request[r].token \in forgotten

WriteInv ==
    /\ PastIsConsumed
    /\ PastIsAlone
    /\ SavesReport
    /\ UnconsumedUnwritten
    /\ PendingUnwritten
    /\ OneWritePerConfirmation

\* Initially no request has consumed and nothing is written.
LEMMA InitWriteInv == Init => WriteInv
<1> SUFFICES ASSUME Init PROVE WriteInv
  OBVIOUS
<1>1. \A r \in Requests : request[r].step = "none"
  BY NothingTyped DEF Init
<1>2. \A r \in Requests : ~Past(r) /\ ~Pending(r)
  BY <1>1 DEF Past, Pending
<1>3. \A t \in Tokens : writes[t] = 0
  BY DEF Init
<1>4. QED
  BY <1>1, <1>2, <1>3
  DEF WriteInv, PastIsConsumed, PastIsAlone, SavesReport, UnconsumedUnwritten, PendingUnwritten,
      OneWritePerConfirmation

\* Syncs, reviews, drafts and checks do not touch confirmations.
LEMMA UntouchedWriteInv == WriteInv /\ UNCHANGED <<consumed, request, writes, forgotten>> => WriteInv'
  BY DEF WriteInv, PastIsConsumed, PastIsAlone, SavesReport, UnconsumedUnwritten,
         PendingUnwritten, OneWritePerConfirmation, Past, Pending, Report

\* A request past consumption goes on or ends.  If it writes, its write was
\* still to come, and it is not any more.
LEMMA PastStep ==
    ASSUME TypeInv, WriteInv, NEW r \in Requests, Past(r),
           NEW x \in RequestType, request' = [request EXCEPT ![r] = x],
           UNCHANGED <<consumed, forgotten>>,
           x.step \in {"bind", "readback", "none"},
           x.step # "none" => x.token = request[r].token,
           x.step = "bind" => Asked[x.plan.skc] = "report",
           \/ UNCHANGED writes
           \/ Pending(r) /\ writes' = [writes EXCEPT ![request[r].token] = @ + 1]
    PROVE  WriteInv'
<1> DEFINE t == request[r].token
<1>1. request \in [Requests -> RequestType] /\ writes \in [Tokens -> Nat] /\ t \in Tokens
  BY TypeParts DEF WriteType, HasToken, Past
<1>2. \A q \in Requests : q # r => request'[q] = request[q]
  BY <1>1
<1>3. request'[r] = x
  BY <1>1
<1>4. \A q \in Requests : Past(q)' => Past(q) /\ request'[q].token = request[q].token
  BY <1>2, <1>3 DEF Past
<1>5. \A q \in Requests : Pending(q)' => q # r /\ Pending(q)
  BY <1>2, <1>3 DEF Pending, Report
<1>6. \A u \in Tokens : u # t => writes'[u] = writes[u]
  BY <1>1
<1>7. t \in consumed /\ (writes'[t] <= 1 \/ t \in forgotten)
  <2>1. t \in consumed
    BY DEF WriteInv, PastIsConsumed
  <2>2. CASE UNCHANGED writes
    BY <1>1, <2>1, <2>2 DEF WriteInv, OneWritePerConfirmation
  <2>3. CASE Pending(r) /\ writes' = [writes EXCEPT ![t] = @ + 1]
    BY <1>1, <2>1, <2>3 DEF WriteInv, PendingUnwritten
  <2>4. QED
    BY <2>1, <2>2, <2>3
<1>8. PastIsConsumed' /\ PastIsAlone'
  BY <1>4 DEF WriteInv, PastIsConsumed, PastIsAlone
<1>9. SavesReport'
  BY <1>2, <1>3 DEF WriteInv, SavesReport, Report
<1>10. UnconsumedUnwritten' /\ OneWritePerConfirmation'
  BY <1>6, <1>7 DEF WriteInv, UnconsumedUnwritten, OneWritePerConfirmation
<1>11. PendingUnwritten'
  <2> SUFFICES ASSUME NEW q \in Requests, Pending(q)'
               PROVE  writes'[request'[q].token] = 0 \/ request'[q].token \in forgotten'
    BY DEF PendingUnwritten
  <2>1. q # r /\ Pending(q) /\ Past(q)
    BY <1>5 DEF Pending, Past
  <2>2. request[q].token # t /\ request[q].token \in Tokens
    BY <2>1, TypeParts DEF WriteInv, PastIsAlone, WriteType, HasToken, Past
  <2>3. QED
    BY <1>2, <1>6, <2>1, <2>2 DEF WriteInv, PendingUnwritten
<1>12. QED
  BY <1>8, <1>9, <1>10, <1>11 DEF WriteInv

\* Consumption asks and remembers in one step.
LEMMA ConsumeStep ==
    ASSUME TypeInv, WriteInv, NEW r \in Requests, ConsumeToken(r)
    PROVE  WriteInv'
<1> DEFINE t == request[r].token
<1>1. request \in [Requests -> RequestType] /\ t \in Tokens /\ ~Past(r)
  BY TypeParts DEF ConsumeToken, WriteType, HasToken, Past
<1>2. CASE ~TokenValid(r)
  <2>1. request' = [request EXCEPT ![r] = NoRequest] /\ UNCHANGED <<consumed, writes, forgotten>>
    BY <1>2 DEF ConsumeToken
  <2>2. \A q \in Requests : q # r => request'[q] = request[q]
    BY <1>1, <2>1
  <2>3. request'[r].step = "none"
    BY <1>1, <2>1, NothingTyped
  <2>4. QED
    BY <2>1, <2>2, <2>3
    DEF WriteInv, PastIsConsumed, PastIsAlone, SavesReport, UnconsumedUnwritten, PendingUnwritten,
        OneWritePerConfirmation, Past, Pending, Report
<1>3. CASE TokenValid(r)
  <2>1. /\ t \notin consumed /\ consumed' = consumed \cup {t}
        /\ request' = [request EXCEPT ![r].step = IF Report(r) THEN "save" ELSE "bind"]
        /\ UNCHANGED <<writes, forgotten>>
    BY <1>3 DEF ConsumeToken, TokenValid, ConsumedWith
  <2>2. \A q \in Requests : q # r => request'[q] = request[q]
    BY <1>1, <2>1
  <2>3. /\ request'[r].token = t /\ request'[r].plan = request[r].plan
        /\ request'[r].step = IF Report(r) THEN "save" ELSE "bind"
    BY <1>1, <2>1 DEF RequestType
  <2>4. \A q \in Requests : Past(q) => request[q].token # t
    BY <2>1 DEF WriteInv, PastIsConsumed
  <2>5. writes[t] = 0 \/ t \in forgotten
    BY <1>1, <2>1 DEF WriteInv, UnconsumedUnwritten
  <2>6. PastIsConsumed' /\ PastIsAlone'
    BY <2>1, <2>2, <2>3, <2>4 DEF WriteInv, PastIsConsumed, PastIsAlone, Past
  <2>7. SavesReport' /\ UnconsumedUnwritten' /\ OneWritePerConfirmation'
    BY <2>1, <2>2, <2>3 DEF WriteInv, SavesReport, UnconsumedUnwritten, OneWritePerConfirmation, Report
  <2>8. PendingUnwritten'
    BY <2>1, <2>2, <2>3, <2>5 DEF WriteInv, PendingUnwritten, Pending, Report
  <2>9. QED
    BY <2>6, <2>7, <2>8 DEF WriteInv
<1>4. QED
  BY <1>2, <1>3

\* Every step keeps the invariant.
LEMMA StepWriteInv == TypeInv /\ WriteInv /\ [Next]_vars => WriteInv'
<1> SUFFICES ASSUME TypeInv, WriteInv, [Next]_vars PROVE WriteInv'
  OBVIOUS
<1>0. request \in [Requests -> RequestType] /\ NoRequest \in RequestType /\ NoRequest.step = "none"
  BY TypeParts, NothingTyped DEF WriteType
<1>1. CASE UNCHANGED <<consumed, request, writes, forgotten>>
  BY <1>1, UntouchedWriteInv
<1>2. ASSUME NEW r \in Requests, NEW s \in Skcs, NEW t \in Tokens, Submit(r, s, t) PROVE WriteInv'
  <2>1. ~Past(r) /\ request'[r].step = "consume"
    BY <1>0, <1>2 DEF Submit, Past
  <2>2. \A q \in Requests : q # r => request'[q] = request[q]
    BY <1>0, <1>2 DEF Submit
  <2>3. UNCHANGED <<consumed, writes, forgotten>>
    BY <1>2 DEF Submit
  <2>4. QED
    BY <2>1, <2>2, <2>3
    DEF WriteInv, PastIsConsumed, PastIsAlone, SavesReport, UnconsumedUnwritten, PendingUnwritten,
        OneWritePerConfirmation, Past, Pending, Report
<1>3. ASSUME NEW r \in Requests, ConsumeToken(r) PROVE WriteInv'
  BY <1>3, ConsumeStep
<1>4. ASSUME NEW r \in Requests, SaveCertificate(r) PROVE WriteInv'
  <2> DEFINE x == [request[r] EXCEPT !.step = "bind"]
  <2>1. x \in RequestType /\ x.step = "bind" /\ x.token = request[r].token /\ x.plan = request[r].plan
    BY <1>0 DEF RequestType
  <2>2. request' = [request EXCEPT ![r] = x]
    BY <1>4 DEF SaveCertificate
  <2>3. Past(r) /\ Pending(r) /\ Report(r)
    BY <1>4 DEF SaveCertificate, Past, Pending, WriteInv, SavesReport
  <2>4. writes' = [writes EXCEPT ![request[r].token] = @ + 1] /\ UNCHANGED <<consumed, forgotten>>
    BY <1>4 DEF SaveCertificate, Written
  <2> HIDE DEF x
  <2>5. QED
    BY <2>1, <2>2, <2>3, <2>4, PastStep DEF Report
<1>5. ASSUME NEW r \in Requests, Bind(r) PROVE WriteInv'
  <2> DEFINE x == [request[r] EXCEPT !.step = "readback"]
  <2>1. x \in RequestType /\ x.step = "readback" /\ x.token = request[r].token
    BY <1>0 DEF RequestType
  <2>2. request' = [request EXCEPT ![r] = x]
    BY <1>5 DEF Bind
  <2>3. Past(r) /\ (~Report(r) => Pending(r))
    BY <1>5 DEF Bind, Past, Pending
  <2>4. /\ \/ UNCHANGED writes
           \/ ~Report(r) /\ writes' = [writes EXCEPT ![request[r].token] = @ + 1]
        /\ UNCHANGED <<consumed, forgotten>>
    BY <1>5 DEF Bind, Bound, Written
  <2> HIDE DEF x
  <2>5. QED
    BY <2>1, <2>2, <2>3, <2>4, PastStep
<1>6. ASSUME NEW r \in Requests, CallFails(r) PROVE WriteInv'
  <2>1. Past(r) /\ request' = [request EXCEPT ![r] = NoRequest] /\ UNCHANGED <<consumed, forgotten>>
    BY <1>6 DEF CallFails, Past
  <2>2. \/ UNCHANGED writes
        \/ Pending(r) /\ writes' = [writes EXCEPT ![request[r].token] = @ + 1]
    BY <1>6 DEF CallFails, Bound, Written, Pending
  <2>3. QED
    BY <1>0, <2>1, <2>2, PastStep
<1>7. ASSUME NEW r \in Requests, StartReadback(r) PROVE WriteInv'
  <2>1. /\ Past(r) /\ request' = [request EXCEPT ![r] = NoRequest]
        /\ UNCHANGED <<consumed, writes, forgotten>>
    BY <1>7 DEF StartReadback, Past
  <2>2. QED
    BY <1>0, <2>1, PastStep
<1>8. CASE Restart
  <2>1. \A r \in Requests : ~Past(r)' /\ ~Pending(r)'
    BY <1>0, <1>8 DEF Restart, Past, Pending
  <2>2. consumed' = {} /\ forgotten' = forgotten \cup consumed /\ UNCHANGED writes
    BY <1>8 DEF Restart
  <2>3. SavesReport'
    BY <2>1 DEF SavesReport, Past
  <2>4. QED
    BY <2>1, <2>2, <2>3
    DEF WriteInv, PastIsConsumed, PastIsAlone, UnconsumedUnwritten, PendingUnwritten, OneWritePerConfirmation
<1>9. QED
  BY <1>1, <1>2, <1>3, <1>4, <1>5, <1>6, <1>7, <1>8
  DEF Next, vars, writeVars, Review, SaveDraft, CooldownEnds, ExpireJobs, StartSync, AddJob, AddFails,
      JobLapses, Stall, PrepareItems, ReadShein, SaveBatch, SaveBatchFails, SyncFails, SaveSuccess,
      SaveFailure, SaveFailureFails, WorkerDies, MarkRunning, Check

\* One confirmation writes once, for every number of requests that carry its
\* token and every order of failures, unless the server forgot the token.
THEOREM OnceProven == Spec => []OneWritePerConfirmation
<1>1. Init => TypeInv /\ WriteInv
  BY InitTypes, InitWriteInv
<1>2. TypeInv /\ WriteInv /\ [Next]_vars => (TypeInv /\ WriteInv)'
  BY StepTypes, StepWriteInv
<1>3. WriteInv => OneWritePerConfirmation
  BY DEF WriteInv
<1>4. QED
  BY <1>1, <1>2, <1>3, PTL DEF Spec

-----------------------------------------------------------------------------
\* Two slots are at one job, or a waiting entry has a slot at its job, only
\* after a lock lapsed.
SlotsApart ==
    \A w, v \in Workers : w # v /\ worker[w].job = worker[v].job /\ worker[w].job \in Jobs
        => worker[w].job \in doubled
WaitingIsFree ==
    \A w \in Workers, j \in Jobs : worker[w].job = j /\ entry[j] = "waiting" => j \in doubled

\* A job is in the queue only after it was claimed, and a slot only at a job
\* that was in the queue.
QueuedWasClaimed ==
    /\ \A j \in Jobs : job[j] = "none" => entry[j] = "none"
    /\ launch \in Jobs => job[launch] # "none" /\ entry[launch] = "none"
    /\ \A w \in Workers, j \in Jobs : worker[w].job = j => entry[j] # "none"

\* The SKCs of a slot are still to come, being saved, failed or stored.
Accounted(me, stored) ==
    /\ \A s \in Skcs :
          s \in me.todo \/ s \in me.failed \/ (me.step = "save" /\ s = me.skc) \/ stored[s] = "succeeded"
    /\ me.step = "finish" => me.todo = {}
SlotsAccounted ==
    \A w \in Workers, j \in Jobs :
        worker[w].job = j /\ worker[w].step \in {"read", "save", "finish"} /\ j \notin doubled
            => Accounted(worker[w], items[j])

\* No slot is at a job that has succeeded.
SuccessIsFinal ==
    \A j \in Jobs : job[j] = "succeeded" /\ j \notin doubled => \A w \in Workers : worker[w].job # j

SyncInv ==
    /\ SlotsApart
    /\ WaitingIsFree
    /\ QueuedWasClaimed
    /\ SlotsAccounted
    /\ SuccessIsFinal
    /\ SucceededIsComplete

\* Initially no job is claimed and no slot at work.
LEMMA InitSyncInv == Init => SyncInv
<1> SUFFICES ASSUME Init PROVE SyncInv
  OBVIOUS
<1>1. \A w \in Workers : worker[w].job = 0 /\ worker[w].job \notin Jobs
  BY DEF Init, NoWork, Jobs
<1>2. \A j \in Jobs : job[j] = "none" /\ entry[j] = "none"
  BY DEF Init
<1>3. launch \notin Jobs
  BY DEF Init, Jobs
<1>4. QED
  BY <1>1, <1>2, <1>3
  DEF SyncInv, SlotsApart, WaitingIsFree, QueuedWasClaimed, SlotsAccounted, SuccessIsFinal,
      SucceededIsComplete

\* Submissions, reviews and time do not touch syncs.
LEMMA UntouchedSyncInv ==
    SyncInv /\ UNCHANGED <<job, items, launch, entry, worker, doubled>> => SyncInv'
  BY DEF SyncInv, SlotsApart, WaitingIsFree, QueuedWasClaimed, SlotsAccounted, Accounted, SuccessIsFinal,
         SucceededIsComplete

\* Jobs end without success, are claimed, or their launch goes on.
LEMMA JobsStep ==
    ASSUME SyncInv, UNCHANGED <<items, worker, doubled>>,
           \A j \in Jobs : \/ job'[j] = job[j]
                           \/ job[j] # "none" /\ job'[j] = "failed"
                           \/ job[j] = "none" /\ job'[j] = "queued",
           \A j \in Jobs : \/ entry'[j] = entry[j]
                           \/ entry[j] = "none" /\ job[j] # "none",
           launch' \in Jobs => job'[launch'] # "none" /\ entry'[launch'] = "none"
    PROVE  SyncInv'
<1>1. \A j \in Jobs : job'[j] = "none" => job[j] = "none" /\ entry'[j] = "none"
  BY DEF SyncInv, QueuedWasClaimed
<1>2. \A w \in Workers, j \in Jobs : worker[w].job = j => entry'[j] = entry[j] /\ entry[j] # "none"
  BY DEF SyncInv, QueuedWasClaimed
<1>3. SlotsApart' /\ WaitingIsFree'
  BY <1>2 DEF SyncInv, SlotsApart, WaitingIsFree
<1>4. QueuedWasClaimed'
  BY <1>1, <1>2 DEF QueuedWasClaimed
<1>5. SlotsAccounted' /\ SuccessIsFinal' /\ SucceededIsComplete'
  BY DEF SyncInv, SlotsAccounted, Accounted, SuccessIsFinal, SucceededIsComplete
<1>6. QED
  BY <1>3, <1>4, <1>5 DEF SyncInv

\* A slot goes on with its job.
LEMMA SlotStep ==
    ASSUME TypeInv, SyncInv, NEW w \in Workers, NEW x,
           worker' = [worker EXCEPT ![w] = x], x.job = worker[w].job,
           UNCHANGED <<job, launch, entry, doubled>>,
           \A j \in Jobs : j # worker[w].job => items'[j] = items[j],
           x.step \in {"read", "save", "finish"} /\ worker[w].job \in Jobs \ doubled
               => Accounted(x, items'[worker[w].job])
    PROVE  SyncInv'
<1>1. worker'[w] = x /\ \A v \in Workers : v # w => worker'[v] = worker[v]
  BY TypeParts DEF WorkerType
<1>2. \A v \in Workers : worker'[v].job = worker[v].job
  BY <1>1
<1>3. SlotsApart' /\ WaitingIsFree' /\ QueuedWasClaimed' /\ SuccessIsFinal'
  BY <1>2 DEF SyncInv, SlotsApart, WaitingIsFree, QueuedWasClaimed, SuccessIsFinal
<1>4. SlotsAccounted'
  <2> SUFFICES ASSUME NEW v \in Workers, NEW j \in Jobs, worker'[v].job = j,
                      worker'[v].step \in {"read", "save", "finish"}, j \notin doubled
               PROVE  Accounted(worker'[v], items'[j])
    BY DEF SlotsAccounted, Accounted
  <2>1. CASE v = w
    BY <1>1, <2>1
  <2>2. CASE v # w
    <3>1. worker[w].job # j
      BY <1>2, <2>2 DEF SyncInv, SlotsApart
    <3>2. QED
      BY <1>1, <2>2, <3>1 DEF SyncInv, SlotsAccounted
  <2>3. QED
    BY <2>1, <2>2
<1>5. SucceededIsComplete'
  BY DEF SyncInv, SuccessIsFinal, SucceededIsComplete
<1>6. QED
  BY <1>3, <1>4, <1>5 DEF SyncInv

\* A slot leaves its job, which may end with it.
LEMMA SlotLeaves ==
    ASSUME TypeInv, SyncInv, NEW w \in Workers, worker' = [worker EXCEPT ![w] = NoWork],
           UNCHANGED <<items, launch, doubled>>,
           \A j \in Jobs : \/ job'[j] = job[j]
                           \/ job[j] # "none" /\ job'[j] = "failed"
                           \/ /\ j = worker[w].job /\ job[j] # "none" /\ job'[j] = "succeeded"
                              /\ worker[w].step = "finish" /\ worker[w].failed = {},
           \A j \in Jobs : \/ entry'[j] = entry[j]
                           \/ j = worker[w].job /\ entry'[j] # "none"
    PROVE  SyncInv'
<1>1. worker'[w].job \notin Jobs /\ \A v \in Workers : v # w => worker'[v] = worker[v]
  BY TypeParts DEF WorkerType, NoWork, Jobs
<1>2. \A v \in Workers, j \in Jobs : worker'[v].job = j => v # w /\ worker[v].job = j
  BY <1>1
<1>3. SlotsApart'
  BY <1>2 DEF SyncInv, SlotsApart
<1>4. WaitingIsFree'
  BY <1>2 DEF SyncInv, SlotsApart, WaitingIsFree
<1>5. QueuedWasClaimed'
  BY <1>2 DEF SyncInv, QueuedWasClaimed
<1>6. SlotsAccounted'
  BY <1>1, <1>2 DEF SyncInv, SlotsAccounted, Accounted
<1>7. SuccessIsFinal'
  BY <1>2 DEF SyncInv, SlotsApart, SuccessIsFinal
<1>8. SucceededIsComplete'
  BY DEF SyncInv, SlotsAccounted, Accounted, SucceededIsComplete
<1>9. QED
  BY <1>3, <1>4, <1>5, <1>6, <1>7, <1>8 DEF SyncInv

\* What JobsEnd does to each job.
LEMMA JobsEndEach ==
    ASSUME NEW ended, NEW outcome, JobsEnd(ended, outcome)
    PROVE  \A j \in Jobs : job'[j] = job[j] \/ (j \in ended /\ job[j] # "none" /\ job'[j] = outcome)
  BY DEF JobsEnd, Active

\* claimSync times out jobs or claims one that nobody has seen.
LEMMA ClaimStep ==
    ASSUME TypeInv, SyncInv, ClaimSync, launch = 0, UNCHANGED <<items, entry, worker, doubled>>
    PROVE  SyncInv'
<1>1. launch \notin Jobs
  BY DEF Jobs
<1>2. CASE JobsEnd(quiet, "failed") /\ UNCHANGED launch
  BY <1>1, <1>2, JobsEndEach, JobsStep
<1>3. CASE \E j \in NextJob : job' = [job EXCEPT ![j] = "queued"] /\ launch' = j
  <2>1. PICK j \in NextJob : job' = [job EXCEPT ![j] = "queued"] /\ launch' = j
    BY <1>3
  <2>2. job \in [Jobs -> {"none", "queued", "running", "succeeded", "failed"}]
    BY TypeParts DEF JobType
  <2>3. j \in Jobs /\ job[j] = "none" /\ entry[j] = "none" /\ job'[j] = "queued"
    BY <2>1, <2>2 DEF NextJob, SyncInv, QueuedWasClaimed
  <2>4. \A k \in Jobs : k # j => job'[k] = job[k]
    BY <2>1, <2>2
  <2>5. QED
    BY <2>1, <2>3, <2>4, JobsStep
<1>4. CASE UNCHANGED <<job, launch>>
  BY <1>4, UntouchedSyncInv
<1>5. QED
  BY <1>2, <1>3, <1>4 DEF ClaimSync

\* The entry of a slot that is through changes, if the slot still holds it.
LEMMA FinishedEach ==
    ASSUME TypeInv, NEW w \in Workers, NEW outcome, outcome # "none", Finished(w, worker[w].job, outcome)
    PROVE  /\ worker' = [worker EXCEPT ![w] = NoWork]
           /\ \A j \in Jobs : entry'[j] = entry[j] \/ (j = worker[w].job /\ entry'[j] # "none")
  BY TypeParts DEF Finished, QueueType

\* A free slot takes an entry that no slot is at, unless a lock has lapsed.
LEMMA MarkRunningStep ==
    ASSUME TypeInv, SyncInv, NEW w \in Workers, NEW j \in Jobs, MarkRunning(w, j)
    PROVE  SyncInv'
<1>1. /\ job \in [Jobs -> {"none", "queued", "running", "succeeded", "failed"}]
      /\ entry \in [Jobs -> {"none", "waiting", "active", "completed", "failed"}]
      /\ worker \in [Workers -> WorkType]
  BY TypeParts DEF JobType, QueueType, WorkerType
<1>2. entry[j] = "waiting" /\ worker[w].job \notin Jobs /\ UNCHANGED <<items, launch, doubled>>
  BY DEF MarkRunning, NoWork, Jobs
<1>3. launch # j
  BY <1>2 DEF SyncInv, QueuedWasClaimed
<1>4. CASE ~Active(j)
  <2>1. entry' = [entry EXCEPT ![j] = "completed"] /\ UNCHANGED <<job, worker>>
    BY <1>4 DEF MarkRunning
  <2>2. entry'[j] = "completed" /\ \A k \in Jobs : k # j => entry'[k] = entry[k]
    BY <1>1, <2>1
  <2>3. SlotsApart' /\ WaitingIsFree' /\ SlotsAccounted' /\ SuccessIsFinal' /\ SucceededIsComplete'
    BY <1>2, <2>1, <2>2
    DEF SyncInv, SlotsApart, WaitingIsFree, SlotsAccounted, Accounted, SuccessIsFinal,
        SucceededIsComplete
  <2>4. QueuedWasClaimed'
    BY <1>2, <1>3, <2>1, <2>2 DEF SyncInv, QueuedWasClaimed
  <2>5. QED
    BY <2>3, <2>4 DEF SyncInv
<1>5. CASE Active(j)
  <2>1. /\ job' = [job EXCEPT ![j] = "running"]
        /\ entry' = [entry EXCEPT ![j] = "active"]
        /\ worker' = [worker EXCEPT ![w].step = "prepare", ![w].job = j]
    BY <1>5 DEF MarkRunning
  <2>2. entry'[j] = "active" /\ \A k \in Jobs : k # j => entry'[k] = entry[k]
    BY <1>1, <2>1
  <2>3. job'[j] = "running" /\ \A k \in Jobs : k # j => job'[k] = job[k]
    BY <1>1, <2>1
  <2>4. worker'[w].step = "prepare" /\ worker'[w].job = j
    BY <1>1, <2>1 DEF WorkType
  <2>5. \A v \in Workers : v # w => worker'[v] = worker[v]
    BY <1>1, <2>1
  <2>6. \A v \in Workers : v # w /\ worker[v].job = j => j \in doubled
    BY <1>2 DEF SyncInv, WaitingIsFree
  <2>7. SlotsApart'
    BY <1>2, <2>4, <2>5, <2>6 DEF SyncInv, SlotsApart
  <2>8. WaitingIsFree' /\ QueuedWasClaimed'
    BY <1>2, <1>3, <2>2, <2>3, <2>4, <2>5 DEF SyncInv, WaitingIsFree, QueuedWasClaimed
  <2>9. SlotsAccounted'
    BY <1>2, <2>4, <2>5 DEF SyncInv, SlotsAccounted, Accounted
  <2>10. SuccessIsFinal' /\ SucceededIsComplete'
    BY <1>2, <2>3, <2>4, <2>5 DEF SyncInv, SuccessIsFinal, SucceededIsComplete
  <2>11. QED
    BY <2>7, <2>8, <2>9, <2>10 DEF SyncInv
<1>6. QED
  BY <1>4, <1>5

\* An entry leaves a slot, which is remembered if the slot is still at work.
LEMMA StallStep ==
    ASSUME TypeInv, SyncInv, NEW j \in Jobs, Stall(j)
    PROVE  SyncInv'
<1>1. UNCHANGED <<job, items, launch, worker>> /\ entry[j] = "active"
  BY DEF Stall, jobVars
<1>2. entry'[j] \in {"waiting", "failed"} /\ \A k \in Jobs : k # j => entry'[k] = entry[k]
  BY TypeParts DEF Stall, QueueType
<1>3. doubled \subseteq doubled' /\ \A w \in Workers : worker[w].job = j => j \in doubled'
  BY DEF Stall
<1>4. SlotsApart' /\ SlotsAccounted' /\ SuccessIsFinal' /\ SucceededIsComplete'
  BY <1>1, <1>3
  DEF SyncInv, SlotsApart, SlotsAccounted, Accounted, SuccessIsFinal, SucceededIsComplete
<1>5. WaitingIsFree'
  BY <1>1, <1>2, <1>3 DEF SyncInv, WaitingIsFree
<1>6. QueuedWasClaimed'
  BY <1>1, <1>2 DEF SyncInv, QueuedWasClaimed
<1>7. QED
  BY <1>4, <1>5, <1>6 DEF SyncInv

\* A slot that is at work goes on: each case shows which SKCs it accounts for.
LEMMA SlotGoesOn ==
    ASSUME TypeInv, SyncInv, NEW w \in Workers,
           PrepareItems(w) \/ ReadShein(w) \/ SaveBatch(w) \/ SaveBatchFails(w) \/ SyncFails(w)
    PROVE  SyncInv'
<1> DEFINE j == worker[w].job
<1>1. /\ worker \in [Workers -> WorkType]
      /\ items \in [Jobs -> [Skcs -> {"none", "queued", "succeeded", "failed"}]]
  BY TypeParts DEF WorkerType, ItemType
<1>2. UNCHANGED <<job, launch, entry, doubled>>
  BY DEF PrepareItems, ReadShein, SaveBatch, SaveBatchFails, SyncFails, jobVars, queueVars
<1>3. \A k \in Jobs : k # j => items'[k] = items[k]
  BY <1>1 DEF PrepareItems, ReadShein, SaveBatch, SaveBatchFails, SyncFails, Stored, jobVars
<1>4. CASE PrepareItems(w)
  <2> DEFINE x == [worker[w] EXCEPT !.step = "read", !.todo = Skcs]
  <2>1. worker' = [worker EXCEPT ![w] = x]
    BY <1>4 DEF PrepareItems
  <2>2. x.job = j /\ x.step = "read" /\ x.todo = Skcs
    BY <1>1 DEF WorkType
  <2> HIDE DEF x
  <2>3. QED
    BY <1>2, <1>3, <2>1, <2>2, SlotStep DEF Accounted
<1>5. CASE ReadShein(w)
  <2> DEFINE s == CHOOSE s \in worker[w].todo : TRUE
  <2>1. PICK answer \in {shein[s], "none"} :
          worker' = [worker EXCEPT ![w].step = "save", ![w].todo = @ \ {s},
                                   ![w].skc = s, ![w].read = answer]
    BY <1>5 DEF ReadShein
  <2>2. worker[w].step = "read" /\ UNCHANGED items
    BY <1>5 DEF ReadShein, jobVars
  <2> HIDE DEF s
  <2> DEFINE x == [worker[w] EXCEPT !.step = "save", !.todo = worker[w].todo \ {s},
                                    !.skc = s, !.read = answer]
  <2>3. worker' = [worker EXCEPT ![w] = x]
    BY <1>1, <2>1 DEF WorkType
  <2>4. /\ x.job = j /\ x.step = "save" /\ x.todo = worker[w].todo \ {s}
        /\ x.skc = s /\ x.failed = worker[w].failed
    BY <1>1 DEF WorkType
  <2> HIDE DEF x
  <2>5. j \in Jobs /\ j \notin doubled => Accounted(x, items'[j])
    BY <2>2, <2>4 DEF SyncInv, SlotsAccounted, Accounted
  <2>6. QED
    BY <1>2, <1>3, <2>3, <2>4, <2>5, SlotStep
<1>6. CASE SaveBatch(w)
  <2> DEFINE x == [worker[w] EXCEPT
                     !.step = IF worker[w].todo = {} THEN "finish" ELSE "read",
                     !.failed = IF Answered(w) THEN @ ELSE @ \cup {worker[w].skc},
                     !.skc = NoSkc, !.read = "none"]
  <2>1. worker' = [worker EXCEPT ![w] = x]
    BY <1>6 DEF SaveBatch
  <2>2. /\ x.job = j /\ x.todo = worker[w].todo
        /\ x.step = IF worker[w].todo = {} THEN "finish" ELSE "read"
        /\ x.failed = IF Answered(w) THEN worker[w].failed ELSE worker[w].failed \cup {worker[w].skc}
    BY <1>1 DEF WorkType
  <2> HIDE DEF x
  <2>3. worker[w].step = "save" /\ worker[w].skc \in Skcs
    BY <1>6, TypeParts DEF SaveBatch, WorkerType, HasTarget
  <2>4. j \in Jobs => \A s \in Skcs : /\ s # worker[w].skc => items'[j][s] = items[j][s]
                                      /\ s = worker[w].skc /\ Answered(w) => items'[j][s] = "succeeded"
    BY <1>1, <1>6, <2>3 DEF SaveBatch, Stored, ItemState
  <2>5. ASSUME j \in Jobs, j \notin doubled PROVE Accounted(x, items'[j])
    <3>1. \A s \in Skcs : s \in worker[w].todo \/ s \in worker[w].failed \/ s = worker[w].skc
                         \/ items[j][s] = "succeeded"
      BY <2>3, <2>5 DEF SyncInv, SlotsAccounted, Accounted
    <3>2. \A s \in Skcs : s \in x.todo \/ s \in x.failed \/ items'[j][s] = "succeeded"
      <4> SUFFICES ASSUME NEW s \in Skcs, s \notin worker[w].todo, s \notin worker[w].failed
                   PROVE  s \in x.failed \/ items'[j][s] = "succeeded"
        BY <2>2
      <4>1. CASE s # worker[w].skc
        BY <2>4, <2>5, <3>1, <4>1
      <4>2. CASE s = worker[w].skc
        BY <2>2, <2>4, <2>5, <4>2
      <4>3. QED
        BY <4>1, <4>2
    <3>3. x.step = "finish" => x.todo = {}
      BY <2>2
    <3>4. QED
      BY <3>2, <3>3 DEF Accounted
  <2>6. QED
    BY <1>2, <1>3, <2>1, <2>2, <2>5, SlotStep
<1>7. CASE SaveBatchFails(w)
  <2> DEFINE x == [worker[w] EXCEPT !.read = "none"]
  <2>1. worker' = [worker EXCEPT ![w] = x]
    BY <1>7 DEF SaveBatchFails
  <2>2. /\ x.job = j /\ x.step = "save" /\ x.todo = worker[w].todo
        /\ x.skc = worker[w].skc /\ x.failed = worker[w].failed
    BY <1>1, <1>7 DEF WorkType, SaveBatchFails
  <2> HIDE DEF x
  <2>3. worker[w].step = "save"
    BY <1>7 DEF SaveBatchFails
  <2>4. j \in Jobs => \A s \in Skcs : s # worker[w].skc => items'[j][s] = items[j][s]
    BY <1>1, <1>7 DEF SaveBatchFails, Stored
  <2>5. j \in Jobs /\ j \notin doubled => Accounted(x, items'[j])
    BY <2>2, <2>3, <2>4 DEF SyncInv, SlotsAccounted, Accounted
  <2>6. QED
    BY <1>2, <1>3, <2>1, <2>2, <2>5, SlotStep
<1>8. CASE SyncFails(w)
  <2> DEFINE x == [NoWork EXCEPT !.step = "fail", !.job = worker[w].job]
  <2>1. worker' = [worker EXCEPT ![w] = x]
    BY <1>8 DEF SyncFails
  <2>2. x.job = j /\ x.step = "fail"
    BY DEF NoWork
  <2> HIDE DEF x
  <2>3. QED
    BY <1>2, <1>3, <2>1, <2>2, SlotStep
<1>9. QED
  BY <1>4, <1>5, <1>6, <1>7, <1>8

\* Every step keeps the invariant.
LEMMA StepSyncInv == TypeInv /\ SyncInv /\ [Next]_vars => SyncInv'
<1> SUFFICES ASSUME TypeInv, SyncInv, [Next]_vars PROVE SyncInv'
  OBVIOUS
<1>1. CASE UNCHANGED <<job, items, launch, entry, worker, doubled>>
  BY <1>1, UntouchedSyncInv
<1>2. CASE ExpireJobs
  <2>1. JobsEnd(quiet, "failed") /\ UNCHANGED <<items, launch, entry, worker, doubled>>
    BY <1>2 DEF ExpireJobs, queueVars
  <2>2. launch \in Jobs => job'[launch] # "none" /\ entry[launch] = "none"
    BY <2>1, JobsEndEach DEF SyncInv, QueuedWasClaimed
  <2>3. QED
    BY <2>1, <2>2, JobsEndEach, JobsStep
<1>3. CASE StartSync
  BY <1>3, ClaimStep DEF StartSync, queueVars
<1>4. ASSUME NEW r \in Requests, StartReadback(r) PROVE SyncInv'
  <2>1. CASE launch = 0
    BY <1>4, <2>1, ClaimStep DEF StartReadback, queueVars
  <2>2. CASE launch # 0
    BY <1>4, <2>2, UntouchedSyncInv DEF StartReadback, queueVars
  <2>3. QED
    BY <2>1, <2>2
<1>5. ASSUME AddJob \/ AddFails PROVE SyncInv'
  <2>1. launch \in Jobs /\ launch' = 0 /\ 0 \notin Jobs /\ UNCHANGED <<items, worker, doubled>>
    BY <1>5, TypeParts DEF AddJob, AddFails, JobType, Jobs, jobVars
  <2>2. job[launch] # "none" /\ entry[launch] = "none"
    BY <2>1 DEF SyncInv, QueuedWasClaimed
  <2>3. \A j \in Jobs : entry'[j] = entry[j] \/ (entry[j] = "none" /\ job[j] # "none")
    BY <1>5, <2>1, <2>2, TypeParts DEF AddJob, AddFails, QueueType
  <2>4. \A j \in Jobs : job'[j] = job[j] \/ (job[j] # "none" /\ job'[j] = "failed")
    BY <1>5, JobsEndEach DEF AddJob, AddFails, jobVars
  <2>5. QED
    BY <2>1, <2>3, <2>4, JobsStep
<1>6. CASE Restart
  <2>1. launch' = 0 /\ 0 \notin Jobs /\ UNCHANGED <<job, items, entry, worker, doubled>>
    BY <1>6 DEF Restart, jobVars, queueVars, Jobs
  <2>2. QED
    BY <2>1, JobsStep
<1>7. ASSUME NEW j \in Jobs, Stall(j) PROVE SyncInv'
  BY <1>7, StallStep
<1>8. ASSUME NEW w \in Workers, NEW j \in Jobs, MarkRunning(w, j) PROVE SyncInv'
  BY <1>8, MarkRunningStep
<1>9. ASSUME NEW w \in Workers,
             PrepareItems(w) \/ ReadShein(w) \/ SaveBatch(w) \/ SaveBatchFails(w) \/ SyncFails(w)
      PROVE  SyncInv'
  BY <1>9, SlotGoesOn
<1>10. ASSUME NEW w \in Workers, SaveSuccess(w) PROVE SyncInv'
  <2>1. /\ worker[w].step = "finish" /\ worker[w].failed = {} /\ UNCHANGED <<items, launch, doubled>>
        /\ JobsEnd({worker[w].job}, "succeeded") /\ Finished(w, worker[w].job, "completed")
    BY <1>10 DEF SaveSuccess, AllComplete
  <2>2. /\ worker' = [worker EXCEPT ![w] = NoWork]
        /\ \A j \in Jobs : entry'[j] = entry[j] \/ (j = worker[w].job /\ entry'[j] # "none")
    BY <2>1, FinishedEach
  <2>3. \A j \in Jobs : \/ job'[j] = job[j]
                        \/ j = worker[w].job /\ job[j] # "none" /\ job'[j] = "succeeded"
    BY <2>1, JobsEndEach
  <2>4. QED
    BY <2>1, <2>2, <2>3, SlotLeaves
<1>11. ASSUME NEW w \in Workers, SaveFailure(w) \/ SaveFailureFails(w) PROVE SyncInv'
  <2>1. PICK outcome \in {"waiting", "failed"} : Finished(w, worker[w].job, outcome)
    BY <1>11 DEF SaveFailure, SaveFailureFails, Rejected
  <2>2. UNCHANGED <<items, launch, doubled>>
    BY <1>11 DEF SaveFailure, SaveFailureFails, jobVars
  <2>3. \A j \in Jobs : job'[j] = job[j] \/ (job[j] # "none" /\ job'[j] = "failed")
    BY <1>11, JobsEndEach DEF SaveFailure, SaveFailureFails, jobVars
  <2>4. QED
    BY <2>1, <2>2, <2>3, FinishedEach, SlotLeaves
<1>12. ASSUME NEW w \in Workers, WorkerDies(w) PROVE SyncInv'
  <2>1. worker' = [worker EXCEPT ![w] = NoWork] /\ UNCHANGED <<job, items, launch, entry, doubled>>
    BY <1>12 DEF WorkerDies, jobVars, queueVars
  <2>2. QED
    BY <2>1, SlotLeaves
<1>13. QED
  BY <1>1, <1>2, <1>3, <1>4, <1>5, <1>6, <1>7, <1>8, <1>9, <1>10, <1>11, <1>12
  DEF Next, vars, syncVars, jobVars, queueVars, Review, SaveDraft, CooldownEnds, JobLapses, Check, Submit,
      ConsumeToken, SaveCertificate, Bind, CallFails

\* A sync that succeeded has stored a complete answer for every SKC, whatever
\* failed, was repeated or was timed out, unless two workers overlapped on it.
THEOREM SuccessProven == Spec => []SucceededIsComplete
<1>1. Init => TypeInv /\ SyncInv
  BY InitTypes, InitSyncInv
<1>2. TypeInv /\ SyncInv /\ [Next]_vars => (TypeInv /\ SyncInv)'
  BY StepTypes, StepSyncInv
<1>3. SyncInv => SucceededIsComplete
  BY DEF SyncInv
<1>4. QED
  BY <1>1, <1>2, <1>3, PTL DEF Spec

-----------------------------------------------------------------------------
(* The contract of sync_jobs                                               *)

\* Jobs are claimed in the order of their numbers, one at a time, and a slot at
\* work has started its job.
JobsInOrder == \A j, k \in Jobs : j < k /\ job[k] # "none" => job[j] # "none"
OneActive   == \A j, k \in Jobs : Active(j) /\ Active(k) => j = k
WorkersStarted ==
    \A w \in Workers : worker[w].step # "none" =>
        worker[w].job \in Jobs /\ job[worker[w].job] \notin {"none", "queued"}

LedgerInv == TypeInv /\ JobsInOrder /\ OneActive /\ WorkersStarted

\* Whichever jobs are to end, it is one job at most.
LEMMA EndRefines ==
    ASSUME JobType, OneActive, NEW ended, NEW outcome \in {"succeeded", "failed"},
           JobsEnd(ended, outcome),
           outcome = "succeeded" => \A j \in ended \cap Jobs : job[j] # "queued"
    PROVE  [Ledger!Next]_job
<1>1. job' = [j \in Jobs |-> IF j \in {k \in ended : Active(k)} THEN outcome ELSE job[j]]
  BY DEF JobsEnd
<1>2. CASE \E j \in Jobs : j \in ended /\ Active(j)
  <2>1. PICK j \in Jobs : j \in ended /\ Active(j)
    BY <1>2
  <2>2. \A k \in Jobs : (k \in {i \in ended : Active(i)}) = (k = j)
    BY <2>1 DEF OneActive
  <2>3. job' = [job EXCEPT ![j] = outcome]
    BY <1>1, <2>2 DEF JobType
  <2>4. Ledger!Succeed(j) \/ Ledger!Fail(j)
    BY <2>1, <2>3 DEF Active, Ledger!Succeed, Ledger!Fail, Ledger!Active
  <2>5. QED
    BY <2>4 DEF Ledger!Next, Ledger!Jobs, Jobs
<1>3. CASE ~ \E j \in Jobs : j \in ended /\ Active(j)
  BY <1>1, <1>3 DEF JobType
<1>4. QED
  BY <1>2, <1>3

\* claimSync claims the next job only when none is active.
LEMMA ClaimRefines ==
    ASSUME JobType, JobsInOrder, OneActive, ClaimSync
    PROVE  [Ledger!Next]_job
<1>1. CASE quiet # {}
  BY <1>1, EndRefines DEF ClaimSync
<1>2. CASE quiet = {} /\ job' # job
  <2>1. PICK j \in NextJob : job' = [job EXCEPT ![j] = "queued"]
    BY <1>2 DEF ClaimSync
  <2>2. \A k \in Jobs : ~Active(k)
    BY <1>2 DEF ClaimSync
  <2>3. j \in Jobs /\ job[j] = "none" /\ \A k \in 1..(j - 1) : job[k] # "none"
    BY <2>1 DEF NextJob
  <2>4. MaxJobs \in Nat /\ Jobs = 1..MaxJobs
    BY BoundsAssumption DEF Jobs
  <2>5. ASSUME NEW k \in Jobs PROVE (job[k] = "none") = (k >= j)
    <3>1. CASE k >= j
      BY <2>3, <2>4, <3>1 DEF JobsInOrder
    <3>2. CASE ~(k >= j)
      <4>1. k \in 1..(j - 1)
        BY <2>3, <2>4, <3>2
      <4>2. QED
        BY <2>3, <3>2, <4>1
    <3>3. QED
      BY <3>1, <3>2
  <2>6. job' = [k \in Jobs |-> IF k = j THEN "queued"
                               ELSE IF job[k] \in {"queued", "running"} THEN "failed" ELSE job[k]]
    BY <2>1, <2>2, <2>3 DEF JobType, Active
  <2>7. Ledger!Claim(j)
    BY <2>5, <2>6 DEF Ledger!Claim, Ledger!Jobs, Ledger!Active, Jobs
  <2>8. QED
    BY <2>3, <2>7 DEF Ledger!Next, Ledger!Jobs, Jobs
<1>3. QED
  BY <1>1, <1>2

LEMMA NextRefines == LedgerInv /\ [Next]_vars => [Ledger!Next]_job
<1> SUFFICES ASSUME LedgerInv, [Next]_vars PROVE [Ledger!Next]_job
  OBVIOUS
<1>1. JobType /\ JobsInOrder /\ OneActive /\ WorkersStarted
  BY TypeParts DEF LedgerInv
<1>2. CASE ExpireJobs \/ StartSync \/ AddFails
  BY <1>1, <1>2, EndRefines, ClaimRefines DEF ExpireJobs, StartSync, AddFails
<1>3. ASSUME NEW r \in Requests, StartReadback(r) PROVE [Ledger!Next]_job
  BY <1>1, <1>3, ClaimRefines DEF StartReadback
<1>4. ASSUME NEW w \in Workers, NEW j \in Jobs, MarkRunning(w, j) PROVE [Ledger!Next]_job
  <2>1. CASE Active(j)
    <3>1. Ledger!Start(j)
      BY <1>4, <2>1 DEF MarkRunning, Active, Ledger!Start, Ledger!Active
    <3>2. QED
      BY <3>1 DEF Ledger!Next, Ledger!Jobs, Jobs
  <2>2. CASE ~Active(j)
    BY <1>4, <2>2 DEF MarkRunning
  <2>3. QED
    BY <2>1, <2>2
<1>5. ASSUME NEW w \in Workers, SaveSuccess(w) PROVE [Ledger!Next]_job
  <2>1. job[worker[w].job] # "queued" /\ JobsEnd({worker[w].job}, "succeeded")
    BY <1>1, <1>5 DEF SaveSuccess, WorkersStarted
  <2>2. QED
    BY <1>1, <2>1, EndRefines
<1>6. ASSUME NEW w \in Workers, SaveFailure(w) PROVE [Ledger!Next]_job
  BY <1>1, <1>6, EndRefines DEF SaveFailure
<1>7. QED
  BY <1>2, <1>3, <1>4, <1>5, <1>6
  DEF Next, vars, syncVars, jobVars, Review, SaveDraft, CooldownEnds, JobLapses, AddJob, Restart,
      PrepareItems, ReadShein, SaveBatch, SaveBatchFails, SyncFails, SaveFailureFails, WorkerDies,
      Stall, Check, Submit, ConsumeToken, SaveCertificate, Bind, CallFails

\* What a step of the contract does to a single job.
LEMMA EachJob ==
    ASSUME JobType, [Ledger!Next]_job
    PROVE  \A j \in Jobs :
              \/ job'[j] = job[j]
              \/ /\ job[j] = "none" /\ job'[j] = "queued"
                 /\ \A k \in Jobs : k < j => job[k] # "none"
                 /\ \A k \in Jobs \ {j} : job'[k] \notin {"queued", "running"}
              \/ Active(j) /\ job'[j] \in {"running", "succeeded", "failed"}
<1> SUFFICES ASSUME NEW j \in Jobs, job'[j] # job[j]
             PROVE  \/ /\ job[j] = "none" /\ job'[j] = "queued"
                       /\ \A k \in Jobs : k < j => job[k] # "none"
                       /\ \A k \in Jobs \ {j} : job'[k] \notin {"queued", "running"}
                    \/ Active(j) /\ job'[j] \in {"running", "succeeded", "failed"}
  OBVIOUS
<1>1. PICK k \in Jobs : Ledger!Claim(k) \/ Ledger!Start(k) \/ Ledger!Succeed(k) \/ Ledger!Fail(k)
  BY DEF Ledger!Next, Ledger!Jobs, Jobs
<1>2. MaxJobs \in Nat /\ Jobs = 1..MaxJobs
  BY BoundsAssumption DEF Jobs
<1>3. CASE Ledger!Claim(k)
  <2>1. \A i \in Jobs : (job[i] = "none") = (i >= k)
    BY <1>3 DEF Ledger!Claim, Ledger!Jobs, Jobs
  <2>2. \A i \in Jobs : job'[i] = IF i = k THEN "queued"
                                  ELSE IF job[i] \in {"queued", "running"} THEN "failed" ELSE job[i]
    BY <1>3 DEF Ledger!Claim, Ledger!Jobs, Ledger!Active, Jobs
  <2>3. CASE j = k
    BY <1>2, <2>1, <2>2, <2>3
  <2>4. CASE j # k
    BY <2>2, <2>4 DEF Active
  <2>5. QED
    BY <2>3, <2>4
<1>4. CASE Ledger!Start(k) \/ Ledger!Succeed(k) \/ Ledger!Fail(k)
  BY <1>4 DEF JobType, Active, Ledger!Start, Ledger!Succeed, Ledger!Fail, Ledger!Active
<1>5. QED
  BY <1>1, <1>3, <1>4

LEMMA StepLedgerInv == LedgerInv /\ [Next]_vars => LedgerInv'
<1> SUFFICES ASSUME LedgerInv, [Next]_vars PROVE LedgerInv'
  OBVIOUS
<1>1. TypeInv /\ JobType /\ WorkerType /\ JobsInOrder /\ OneActive /\ WorkersStarted /\ TypeInv'
  BY TypeParts, StepTypes DEF LedgerInv
<1>2. \A j \in Jobs :
         \/ job'[j] = job[j]
         \/ /\ job[j] = "none" /\ job'[j] = "queued"
            /\ \A k \in Jobs : k < j => job[k] # "none"
            /\ \A k \in Jobs \ {j} : job'[k] \notin {"queued", "running"}
         \/ Active(j) /\ job'[j] \in {"running", "succeeded", "failed"}
  BY <1>1, NextRefines, EachJob DEF LedgerInv
<1>3. JobsInOrder'
  BY <1>1, <1>2 DEF JobsInOrder, Active
<1>4. OneActive'
  BY <1>1, <1>2 DEF OneActive, Active
<1>5. WorkersStarted'
  <2> SUFFICES ASSUME NEW w \in Workers, worker'[w].step # "none"
               PROVE  worker'[w].job \in Jobs /\ job'[worker'[w].job] \notin {"none", "queued"}
    BY DEF WorkersStarted
  <2>1. ASSUME worker[w].step # "none", worker'[w].job = worker[w].job
        PROVE  worker'[w].job \in Jobs /\ job'[worker'[w].job] \notin {"none", "queued"}
    BY <1>1, <1>2, <2>1 DEF WorkersStarted
  <2>2. CASE worker'[w] = worker[w]
    BY <2>1, <2>2
  <2>3. ASSUME NEW v \in Workers, worker' = [worker EXCEPT ![v] = NoWork]
        PROVE  worker'[w] = worker[w]
    BY <1>1, <2>3, NothingTyped DEF WorkerType
  <2>4. ASSUME NEW v \in Workers,
               \/ PrepareItems(v) \/ ReadShein(v) \/ SaveBatch(v) \/ SaveBatchFails(v)
               \/ SyncFails(v)
        PROVE  worker'[w].job \in Jobs /\ job'[worker'[w].job] \notin {"none", "queued"}
    <3>1. CASE w = v
      <4>1. worker[w].step # "none"
        BY <2>4, <3>1 DEF PrepareItems, ReadShein, SaveBatch, SaveBatchFails, SyncFails
      <4>2. worker[w] \in WorkType
        BY <1>1 DEF WorkerType
      <4>3. worker'[w].job = worker[w].job
        <5>1. CASE PrepareItems(v)
          BY <1>1, <3>1, <4>2, <5>1 DEF PrepareItems, WorkerType, WorkType
        <5>2. CASE ReadShein(v)
          <6> DEFINE s == CHOOSE s \in worker[v].todo : TRUE
          <6>1. PICK answer \in {shein[s], "none"} :
                  worker' = [worker EXCEPT ![v].step = "save", ![v].todo = @ \ {s},
                                           ![v].skc = s, ![v].read = answer]
            BY <5>2 DEF ReadShein
          <6> HIDE DEF s
          <6>2. QED
            BY <1>1, <3>1, <4>2, <6>1 DEF WorkerType, WorkType
        <5>3. CASE SaveBatch(v)
          BY <1>1, <3>1, <4>2, <5>3 DEF SaveBatch, WorkerType, WorkType
        <5>4. CASE SaveBatchFails(v)
          BY <1>1, <3>1, <4>2, <5>4 DEF SaveBatchFails, WorkerType, WorkType
        <5>5. CASE SyncFails(v)
          <6>1. worker' = [worker EXCEPT ![v] = [NoWork EXCEPT !.step = "fail", !.job = worker[v].job]]
            BY <5>5 DEF SyncFails
          <6>2. [NoWork EXCEPT !.step = "fail", !.job = worker[v].job].job = worker[v].job
            BY DEF NoWork
          <6>3. QED
            BY <1>1, <3>1, <6>1, <6>2 DEF WorkerType
        <5>6. QED
          BY <2>4, <5>1, <5>2, <5>3, <5>4, <5>5
      <4>4. QED
        BY <2>1, <4>1, <4>3
    <3>2. CASE w # v
      <4>1. worker'[w] = worker[w]
        BY <1>1, <2>4, <3>2
        DEF PrepareItems, ReadShein, SaveBatch, SaveBatchFails, SyncFails, WorkerType
      <4>2. QED
        BY <2>2, <4>1
    <3>3. QED
      BY <3>1, <3>2
  <2>5. ASSUME NEW v \in Workers, NEW j \in Jobs, MarkRunning(v, j)
        PROVE  worker'[w].job \in Jobs /\ job'[worker'[w].job] \notin {"none", "queued"}
    <3>1. CASE Active(j) /\ w = v
      <4>1. worker'[w].job = j
        BY <1>1, <2>5, <3>1 DEF MarkRunning, WorkerType, WorkType
      <4>2. job'[j] = "running"
        BY <1>1, <2>5, <3>1 DEF MarkRunning, JobType
      <4>3. QED
        BY <4>1, <4>2
    <3>2. CASE ~(Active(j) /\ w = v)
      <4>1. worker'[w] = worker[w]
        BY <1>1, <2>5, <3>2 DEF MarkRunning, WorkerType
      <4>2. QED
        BY <2>2, <4>1
    <3>3. QED
      BY <3>1, <3>2
  <2>6. QED
    BY <2>2, <2>3, <2>4, <2>5
    DEF Next, vars, syncVars, jobVars, Review, SaveDraft, CooldownEnds, JobLapses, ExpireJobs,
        StartSync, AddJob, AddFails, Restart, SaveSuccess, SaveFailure, SaveFailureFails, Rejected,
        Finished, WorkerDies, Stall, Check, Submit, ConsumeToken, SaveCertificate, Bind, CallFails,
        StartReadback
<1>6. QED
  BY <1>1, <1>3, <1>4, <1>5 DEF LedgerInv

LEMMA InitLedgerInv == Init => LedgerInv
<1>1. Init => JobsInOrder /\ OneActive /\ WorkersStarted
  BY NothingTyped DEF Init, JobsInOrder, OneActive, WorkersStarted, Active
<1>2. QED
  BY <1>1, InitTypes DEF LedgerInv

\* The syncs of a store, claimed by users and by submissions, timed out by
\* whoever looks at them and run by workers that overlap, are one sequence of
\* jobs: one active at a time, successful only after a worker started it, and
\* final in its end.
THEOREM ContractImplemented == Spec => JobsKeepContract
<1>1. Init => Ledger!Init
  BY DEF Init, Ledger!Init, Ledger!Jobs, Jobs
<1>2. QED
  BY <1>1, InitLedgerInv, NextRefines, StepLedgerInv, PTL DEF Spec, JobsKeepContract, Ledger!Spec

\* Of the jobs of the contract, the active one stays the newest.
LEMMA NewestStays ==
    ASSUME JobType, Ledger!NewestIsActive, [Ledger!Next]_job
    PROVE  Ledger!NewestIsActive'
<1>1. ASSUME NEW k \in Jobs, Ledger!Claim(k) PROVE Ledger!NewestIsActive'
  <2>1. \A j \in Jobs : /\ j > k => job'[j] = "none"
                        /\ j # k => job'[j] \notin {"queued", "running"}
    BY <1>1, BoundsAssumption DEF Ledger!Claim, Ledger!Jobs, Ledger!Active, Jobs
  <2>2. QED
    BY <2>1 DEF Ledger!NewestIsActive, Ledger!Jobs, Ledger!Active, Jobs
<1>2. ASSUME NEW k \in Jobs, Ledger!Start(k) \/ Ledger!Succeed(k) \/ Ledger!Fail(k)
      PROVE  Ledger!NewestIsActive'
  <2>1. PICK state \in {"running", "succeeded", "failed"} :
           job[k] \in {"queued", "running"} /\ job' = [job EXCEPT ![k] = state]
    BY <1>2 DEF Ledger!Start, Ledger!Succeed, Ledger!Fail, Ledger!Active
  <2>2. \A j \in Jobs : job'[j] = IF j = k THEN state ELSE job[j]
    BY <2>1 DEF JobType
  <2>3. QED
    BY <2>1, <2>2 DEF Ledger!NewestIsActive, Ledger!Jobs, Ledger!Active, Jobs
<1>3. CASE job' = job
  BY <1>3 DEF Ledger!NewestIsActive
<1>4. QED
  BY <1>1, <1>2, <1>3 DEF Ledger!Next, Ledger!Jobs, Jobs

\* A step of the contract leaves the jobs that have ended alone.
LEMMA EndStays ==
    ASSUME JobType, [Ledger!Next]_job
    PROVE  Ledger!EndsStay
<1>1. ASSUME NEW k \in Jobs, Ledger!Claim(k), NEW j \in Jobs, job[j] \in {"succeeded", "failed"}
      PROVE  job'[j] = job[j]
  <2>1. j # k
    BY <1>1, BoundsAssumption DEF Ledger!Claim, Ledger!Jobs, Jobs
  <2>2. QED
    BY <1>1, <2>1 DEF Ledger!Claim, Ledger!Jobs, Ledger!Active, Jobs
<1>2. ASSUME NEW k \in Jobs, Ledger!Start(k) \/ Ledger!Succeed(k) \/ Ledger!Fail(k),
             NEW j \in Jobs, job[j] \in {"succeeded", "failed"}
      PROVE  job'[j] = job[j]
  BY <1>2 DEF JobType, Ledger!Start, Ledger!Succeed, Ledger!Fail, Ledger!Active
<1>3. QED
  BY <1>1, <1>2 DEF Ledger!EndsStay, Ledger!Next, Ledger!Jobs, Ledger!Ended, Jobs

\* So whoever reads the table may rely on it: the active job of a store is its
\* newest one, and a job that was seen to end keeps its result for good.
THEOREM ReadersMayRely == Spec => []Ledger!NewestIsActive /\ Ledger!EndIsFinal
<1>1. Init => LedgerInv
  BY InitLedgerInv
<1>2. Init => Ledger!NewestIsActive
  BY DEF Init, Ledger!NewestIsActive, Ledger!Jobs, Ledger!Active, Jobs
<1>3. LedgerInv /\ Ledger!NewestIsActive /\ [Next]_vars => Ledger!NewestIsActive'
  BY NextRefines, NewestStays, TypeParts DEF LedgerInv
<1>4. LedgerInv /\ [Next]_vars => [Ledger!EndsStay]_job
  BY NextRefines, EndStays, TypeParts DEF LedgerInv
<1>5. QED
  BY <1>1, <1>2, <1>3, <1>4, StepLedgerInv, PTL DEF Spec, Ledger!EndIsFinal
=============================================================================
