------------------------ MODULE PublishExecutionProofs ------------------------
(***************************************************************************)
(* The invariants of PublishExecution and its refinement of the write      *)
(* contract, for every finite set of jobs, every set of workers and all    *)
(* bounds.                                                                 *)
(*                                                                         *)
(* The inductive invariant has three groups on top of the types.           *)
(*                                                                         *)
(* WriteInv, for NoDoubleWrite: a worker that has claimed a job is alone   *)
(* with its latest attempt, and neither it nor its request outlives the    *)
(* states claimed and result_unknown, from which no claim is granted.      *)
(*                                                                         *)
(* EvidenceInv, for ReceiptsAreTrue: a stored publish response comes from  *)
(* an accepted write, a readback from an approval, and the completion      *)
(* transaction runs on both.                                               *)
(*                                                                         *)
(* ProjectionsAgree, which is inductive with what an open completion       *)
(* transaction has seen (SeenIsCompleted).                                 *)
(***************************************************************************)
EXTENDS PublishExecution, FiniteSetTheorems, TLAPS

\* The worker has a claim and has not given up on it.
Active(w) == worker[w].step \in {"load", "call", "wait", "record"}

\* Nobody but SHEIN knows the outcome: no claim is granted from here.
Pending(j) == state[j] \in {"claimed", "result_unknown"}

\* Nothing of the job has been accepted or is on its way.
Unsent(j) == accepted[j] = 0 /\ \A r \in inflight : r[1] # j

\* The claim on record is that of the latest attempt.
ClaimIsLatest ==
    \A j \in Jobs :
        /\ state[j] = "claimed" => claim[j] = attemptCount[j]
        /\ Pending(j) => attemptCount[j] >= 1

\* A worker is at the latest attempt of a job without outcome, and alone there.
WorkersAreLatest ==
    \A w \in Workers : Active(w) =>
        /\ Pending(worker[w].job)
        /\ worker[w].claim = attemptCount[worker[w].job]
        /\ \A v \in Workers : Active(v) /\ worker[v].job = worker[w].job => v = w

\* What a worker is about to send, or to report, agrees with SHEIN.
WorkersKnow ==
    \A w \in Workers :
        /\ worker[w].step \in {"load", "call"} => Unsent(worker[w].job)
        /\ worker[w].step = "record" /\ worker[w].outcome \in {"retryable", "terminal"}
           => Unsent(worker[w].job)
        /\ worker[w].step = "record" /\ worker[w].outcome = "accepted"
           => accepted[worker[w].job] = 1

\* A request on its way is the latest attempt of a job of which nothing was
\* accepted yet.
RequestsAreLatest ==
    \A r \in inflight :
        /\ Pending(r[1])
        /\ r[2] = attemptCount[r[1]]
        /\ accepted[r[1]] = 0

\* Of a job that may be claimed, or that failed, SHEIN accepted nothing.
FailedIsUnsent ==
    \A j \in Jobs :
        state[j] \in {"authorized", "failed_retryable", "failed_terminal"} => accepted[j] = 0

WriteInv ==
    /\ ClaimIsLatest
    /\ WorkersAreLatest
    /\ WorkersKnow
    /\ RequestsAreLatest
    /\ FailedIsUnsent
    /\ AtMostOneAcceptedWrite

\* Version and receipt are stored with the state submitted, of an accepted write.
StoredIsAccepted ==
    \A j \in Jobs :
        /\ version[j] <=> state[j] \in {"submitted", "completed"}
        /\ version[j] <=> "submitted" \in receipts[j]
        /\ version[j] => accepted[j] = 1

\* A readback follows an approval, a completion a readback.
ReadbackFollows ==
    \A j \in Jobs :
        /\ "readback" \in receipts[j] => version[j] /\ "passed" \in receipts[j]
        /\ closing[j] # "no" => "readback" \in receipts[j]

EvidenceInv == StoredIsAccepted /\ ReadbackFollows /\ ReceiptsAreTrue

\* What a completion transaction saw of the other jobs stays true.
SeenIsCompleted ==
    \A j \in Jobs : closing[j] \in {"run", "both"} => OthersCompleted(j)

IInv == TypeOK /\ WriteInv /\ EvidenceInv /\ ProjectionsAgree /\ SeenIsCompleted
-----------------------------------------------------------------------------
(* Types                                                                   *)

LEMMA InitTyped == Init => TypeOK
  BY BoundsAssumption, SMTT(30) DEF Init, TypeOK, Idle, JobStates, Steps, Outcomes

WorkerType ==
    [step : Steps, job : Jobs \cup {NoJob}, claim : 0..MaxAttempts, outcome : Outcomes]

WorkersTyped ==
    /\ worker \in [Workers -> WorkerType]
    /\ \A w \in Workers : worker[w].step # "idle" => worker[w].job \in Jobs

LEMMA IdleTyped == Idle \in WorkerType /\ Idle.step = "idle"
  BY BoundsAssumption DEF Idle, WorkerType, Steps, Outcomes

LEMMA StepTyped ==
    ASSUME NEW r \in WorkerType, NEW step \in Steps
    PROVE  /\ [r EXCEPT !.step = step] \in WorkerType
           /\ [r EXCEPT !.step = step].job = r.job
  BY DEF WorkerType

LEMMA JobTyped ==
    ASSUME NEW r \in WorkerType, NEW step \in Steps, NEW j \in Jobs
    PROVE  /\ [r EXCEPT !.step = step, !.job = j] \in WorkerType
           /\ [r EXCEPT !.step = step, !.job = j].job = j
  BY DEF WorkerType

LEMMA ClaimTyped ==
    ASSUME NEW r \in WorkerType, NEW step \in Steps, NEW c \in 0..MaxAttempts
    PROVE  /\ [r EXCEPT !.step = step, !.claim = c] \in WorkerType
           /\ [r EXCEPT !.step = step, !.claim = c].job = r.job
  BY DEF WorkerType

LEMMA OutcomeTyped ==
    ASSUME NEW r \in WorkerType, NEW step \in Steps, NEW outcome \in Outcomes
    PROVE  /\ [r EXCEPT !.step = step, !.outcome = outcome] \in WorkerType
           /\ [r EXCEPT !.step = step, !.outcome = outcome].job = r.job
  BY DEF WorkerType

\* One worker goes on.
LEMMA WorkerTo ==
    ASSUME TypeOK, NEW w \in Workers, NEW r \in WorkerType,
           r.step # "idle" => r.job \in Jobs, worker' = [worker EXCEPT ![w] = r]
    PROVE  WorkersTyped'
  BY DEF TypeOK, WorkersTyped, WorkerType

LEMMA WorkersAreTyped == TypeOK => WorkersTyped
  BY DEF TypeOK, WorkersTyped, WorkerType

\* The claim of a request is the number of an attempt, because the worker that
\* sends it has one.
LEMMA TypeStep == TypeOK /\ WriteInv /\ [Next]_vars => TypeOK'
<1> SUFFICES ASSUME TypeOK, WriteInv, [Next]_vars PROVE TypeOK'
  OBVIOUS
<1> USE DEF JobStates, Steps, Outcomes, Replies, ReceiptKinds, NoticeKinds,
            jobVars, batchVars, workerVars, queueVars, sheinVars
<1>1. ASSUME Consume PROVE TypeOK'
  BY <1>1 DEF TypeOK, Consume
<1>2. ASSUME NEW w \in Workers, NEW j \in Jobs, StartCommand(w, j) PROVE TypeOK'
  <2> DEFINE r == [Idle EXCEPT !.step = "claim", !.job = j]
  <2>1. r \in WorkerType /\ r.job \in Jobs
    BY IdleTyped, JobTyped, BoundsAssumption
  <2>2. WorkersTyped'
    BY <1>2, <2>1, WorkerTo DEF TypeOK, StartCommand
  <2>3. /\ state' \in [Jobs -> JobStates]
        /\ claim' \in [Jobs -> 0..MaxAttempts]
        /\ lapsed' \in [Jobs -> BOOLEAN]
    <3>1. 0 \in 0..MaxAttempts
      BY BoundsAssumption
    <3>2. CASE state[j] = "claimed" /\ lapsed[j]
      <4>1. /\ state' = [state EXCEPT ![j] = "result_unknown"]
            /\ claim' = [claim EXCEPT ![j] = 0]
            /\ lapsed' = [lapsed EXCEPT ![j] = FALSE]
        BY <1>2, <3>2 DEF StartCommand, LapsedState
      <4>2. QED
        BY <3>1, <4>1 DEF TypeOK
    <3>3. CASE ~(state[j] = "claimed" /\ lapsed[j])
      BY <1>2, <3>3 DEF TypeOK, StartCommand
    <3>4. QED
      BY <3>2, <3>3
  <2>4. command' \in [Jobs -> {"none", "waiting"} \cup Workers]
    BY <1>2 DEF TypeOK, StartCommand
  <2>5. QED
    BY <1>2, <2>2, <2>3, <2>4 DEF TypeOK, StartCommand, WorkersTyped, WorkerType
<1>3. ASSUME NEW w \in Workers, ClaimNextJob(w) PROVE TypeOK'
  <2> DEFINE r == [worker[w] EXCEPT !.step = "load", !.claim = attemptCount[worker[w].job] + 1]
  <2>1. worker[w].job \in Jobs /\ attemptCount[worker[w].job] + 1 \in 0..MaxAttempts
    BY <1>3, BoundsAssumption DEF TypeOK, ClaimNextJob
  <2>2. r \in WorkerType /\ r.job \in Jobs
    BY <2>1, WorkersAreTyped, ClaimTyped DEF WorkersTyped
  <2>3. worker' = [worker EXCEPT ![w] = r]
    BY <1>3 DEF TypeOK, ClaimNextJob
  <2>4. WorkersTyped'
    BY <2>2, <2>3, WorkerTo
  <2>5. QED
    BY <1>3, <2>1, <2>4, BoundsAssumption DEF TypeOK, ClaimNextJob, WorkersTyped, WorkerType
<1>4. ASSUME NEW w \in Workers, NothingToClaim(w) PROVE TypeOK'
  BY <1>4, BoundsAssumption, SMTT(30) DEF TypeOK, NothingToClaim, Finish, Release, Idle
<1>5. ASSUME NEW w \in Workers, LoadSource(w) PROVE TypeOK'
  <2>1. /\ [worker[w] EXCEPT !.step = "call"] \in WorkerType
        /\ [worker[w] EXCEPT !.step = "record", !.outcome = "terminal"] \in WorkerType
        /\ worker[w].job \in Jobs
    BY <1>5, WorkersAreTyped, StepTyped, OutcomeTyped
    DEF LoadSource, WorkersTyped, Steps, Outcomes, Replies
  <2>2. PICK r \in WorkerType :
           r.job \in Jobs /\ worker' = [worker EXCEPT ![w] = r]
    <3>1. /\ [worker[w] EXCEPT !.step = "call"].job = worker[w].job
          /\ [worker[w] EXCEPT !.step = "record", !.outcome = "terminal"].job = worker[w].job
      BY <1>5, WorkersAreTyped DEF WorkersTyped, WorkerType
    <3>2. QED
      BY <1>5, <2>1, <3>1 DEF LoadSource
  <2>3. WorkersTyped'
    BY <2>2, WorkerTo
  <2>4. QED
    BY <1>5, <2>3 DEF TypeOK, LoadSource, WorkersTyped, WorkerType
<1>6. ASSUME NEW w \in Workers, CallShein(w) PROVE TypeOK'
  <2> DEFINE r == [worker[w] EXCEPT !.step = "wait"]
  <2>1. r \in WorkerType /\ r.job = worker[w].job /\ r.job \in Jobs
    BY <1>6, WorkersAreTyped, StepTyped DEF CallShein, WorkersTyped
  <2>2. WorkersTyped'
    BY <1>6, <2>1, WorkerTo DEF CallShein
  <2>3. Active(w)
    BY <1>6 DEF CallShein, Active
  <2>4. worker[w].claim \in 1..MaxAttempts
    BY <2>1, <2>3, BoundsAssumption DEF TypeOK, WriteInv, WorkersAreLatest, ClaimIsLatest
  <2>5. inflight' \subseteq Jobs \X (1..MaxAttempts)
    BY <1>6, <2>1, <2>4 DEF TypeOK, CallShein
  <2>6. QED
    BY <1>6, <2>2, <2>5 DEF TypeOK, CallShein, WorkersTyped, WorkerType
<1>7. ASSUME NEW w \in Workers, RecordOutcome(w) PROVE TypeOK'
  <2> DEFINE j == worker[w].job
  <2>1. j \in Jobs /\ Idle \in WorkerType /\ Idle.step = "idle"
    BY <1>7, BoundsAssumption DEF TypeOK, RecordOutcome, WorkerType, Idle
  <2>2. WorkersTyped'
    BY <1>7, <2>1, WorkerTo DEF TypeOK, RecordOutcome
  <2>3. command' \in [Jobs -> {"none", "waiting"} \cup Workers]
    BY <1>7 DEF TypeOK, RecordOutcome, Release
  <2>4. overlapped' \subseteq Workers
    BY <1>7 DEF TypeOK, RecordOutcome, OverlapOthers
  <2>5. CASE RecordSubmitted(j)
    <3>1. quota' \in [known : BOOLEAN, consumed : Nat]
      BY <2>5 DEF TypeOK, RecordSubmitted, Counted
    <3>2. QED
      BY <1>7, <2>1, <2>2, <2>3, <2>4, <2>5, <3>1, BoundsAssumption
         DEF TypeOK, RecordOutcome, RecordSubmitted, WorkersTyped, WorkerType
  <2>6. CASE RecordFailure(w, j, worker[w].outcome) /\ worker[w].outcome # "accepted"
    <3>1. /\ state' \in [Jobs -> JobStates]
          /\ item' \in [Jobs -> {"ready", "failed", "completed"}]
      BY <2>1, <2>6 DEF TypeOK, RecordFailure
    <3>2. batch' \in [state : {"ready", "failed", "completed"},
                      protocol : {"issued", "running", "partial_failure", "failed", "completed"}]
      BY <2>6 DEF TypeOK, RecordFailure, FailedBatch, PartialFailure
    <3>3. QED
      BY <1>7, <2>1, <2>2, <2>3, <2>4, <2>6, <3>1, <3>2, BoundsAssumption
         DEF TypeOK, RecordOutcome, RecordFailure, WorkersTyped, WorkerType
  <2>7. QED
    BY <1>7, <2>5, <2>6 DEF TypeOK, RecordOutcome
<1>8. ASSUME NEW w \in Workers, OutcomeTooLate(w) PROVE TypeOK'
  BY <1>8, BoundsAssumption, SMTT(30) DEF TypeOK, OutcomeTooLate, Finish, Release, Idle
<1>9. ASSUME NEW w \in Workers, Crash(w) PROVE TypeOK'
  BY <1>9, BoundsAssumption, SMTT(30) DEF TypeOK, Crash, Idle
<1>10. ASSUME NEW w \in Workers, Throws(w) PROVE TypeOK'
  BY <1>10, BoundsAssumption, SMTT(30) DEF TypeOK, Throws, Finish, Release, Idle
<1>11. ASSUME NEW w \in Workers, AnswerLost(w) PROVE TypeOK'
  <2> DEFINE r == [worker[w] EXCEPT !.step = "record", !.outcome = "unknown"]
  <2>1. r \in WorkerType /\ r.job \in Jobs
    <3>1. worker[w] \in WorkerType /\ worker[w].job \in Jobs
      BY <1>11, WorkersAreTyped DEF AnswerLost, WorkersTyped
    <3>2. QED
      BY <3>1, OutcomeTyped
  <2>2. worker' = [worker EXCEPT ![w] = r]
    BY <1>11 DEF TypeOK, AnswerLost
  <2>3. WorkersTyped'
    BY <2>1, <2>2, WorkerTo
  <2>4. QED
    BY <1>11, <2>3 DEF TypeOK, AnswerLost, WorkersTyped, WorkerType
<1>12. ASSUME NEW j \in Jobs, LeaseLapses(j) PROVE TypeOK'
  BY <1>12 DEF TypeOK, LeaseLapses
<1>13. ASSUME NEW j \in Jobs, Redeliver(j) PROVE TypeOK'
  BY <1>13, BoundsAssumption, SMTT(30) DEF TypeOK, Redeliver
<1>14. ASSUME NEW j \in Jobs, NEW c \in 1..MaxAttempts, Process(j, c) PROVE TypeOK'
  <2>1. PICK reply \in Replies :
          /\ accepted' = [accepted EXCEPT ![j] = IF reply = "accepted" THEN @ + 1 ELSE @]
          /\ worker' = [w \in Workers |->
                IF worker[w].step = "wait" /\ worker[w].job = j /\ worker[w].claim = c
                THEN [worker[w] EXCEPT !.step = "record", !.outcome = reply]
                ELSE worker[w]]
    BY <1>14 DEF TypeOK, Process
  <2>2. \A w \in Workers : worker'[w] \in WorkerType /\ worker'[w].job = worker[w].job
    BY <2>1, WorkersAreTyped, OutcomeTyped DEF WorkersTyped
  <2>3. WorkersTyped'
    BY <2>1, <2>2, WorkersAreTyped DEF WorkersTyped
  <2>4. accepted' \in [Jobs -> Nat]
    <3> HIDE DEF Replies
    <3>1. accepted \in [Jobs -> Nat] /\ (IF reply = "accepted" THEN accepted[j] + 1 ELSE accepted[j]) \in Nat
      BY DEF TypeOK
    <3>2. QED
      BY <2>1, <3>1
  <2>5. QED
    BY <1>14, <2>3, <2>4 DEF TypeOK, Process, WorkersTyped, WorkerType
<1>15. ASSUME NEW j \in Jobs, SendReceived(j) PROVE TypeOK'
  BY <1>15 DEF TypeOK, SendReceived
<1>16. ASSUME NEW j \in Jobs, SendAudit(j) PROVE TypeOK'
  BY <1>16 DEF TypeOK, SendAudit
<1>17. ASSUME NEW j \in Jobs, NEW kind \in NoticeKinds, AppendReceipt(j, kind) PROVE TypeOK'
  BY <1>17 DEF TypeOK, AppendReceipt
<1>18. ASSUME NEW j \in Jobs, NEW kind \in NoticeKinds, UnmatchedReceipt(j, kind) PROVE TypeOK'
  BY <1>18 DEF TypeOK, UnmatchedReceipt
<1>19. ASSUME NEW j \in Jobs, AppendSpuReadback(j) PROVE TypeOK'
  BY <1>19 DEF TypeOK, AppendSpuReadback
<1>20. ASSUME NEW j \in Jobs, BeginCompletion(j) PROVE TypeOK'
  BY <1>20 DEF TypeOK, BeginCompletion
<1>21. ASSUME NEW j \in Jobs, CompletionSeesRest(j) PROVE TypeOK'
  BY <1>21 DEF TypeOK, CompletionSeesRest
<1>22. ASSUME NEW j \in Jobs, CommitCompletion(j) PROVE TypeOK'
  BY <1>22 DEF TypeOK, CommitCompletion
<1>23. CASE UNCHANGED vars
  BY <1>23 DEF TypeOK, vars
<1>24. QED
  BY <1>1, <1>2, <1>3, <1>4, <1>5, <1>6, <1>7, <1>8, <1>9, <1>10, <1>11, <1>12, <1>13, <1>14, <1>15, <1>16, <1>17, <1>18, <1>19, <1>20, <1>21, <1>22, <1>23
     DEF Next, WorkerStep, WorkerFault, SheinStep, ReceiptStep

-----------------------------------------------------------------------------
(* No double write                                                         *)

\* A step that grants, sends and accepts nothing: workers go on as they are or give
\* up, and no job without outcome becomes one that may be claimed.
Quiet ==
    /\ UNCHANGED <<attemptCount, inflight, accepted>>
    /\ \A j \in Jobs :
          /\ \/ state'[j] = state[j]
             \/ state[j] = "claimed" /\ state'[j] = "result_unknown"
             \/ state[j] = "submitted" /\ state'[j] = "completed"
          /\ claim'[j] = claim[j] \/ state'[j] # "claimed"
    /\ \A w \in Workers : worker'[w] = worker[w] \/ worker'[w].step \in {"idle", "claim"}

LEMMA QuietStep == TypeOK /\ WriteInv /\ Quiet => WriteInv'
<1> SUFFICES ASSUME TypeOK, WriteInv, Quiet PROVE WriteInv'
  OBVIOUS
<1>1. \A j \in Jobs : Pending(j)' <=> Pending(j)
  BY DEF Quiet, Pending
<1>2. \A w \in Workers : Active(w)' => Active(w) /\ worker'[w] = worker[w]
  BY DEF Quiet, Active
<1>3. ClaimIsLatest'
  BY <1>1 DEF WriteInv, ClaimIsLatest, Quiet
<1>4. WorkersAreLatest'
  <2> SUFFICES ASSUME NEW w \in Workers, Active(w)'
               PROVE  /\ Pending(worker[w].job)'
                      /\ worker'[w].claim = attemptCount'[worker'[w].job]
                      /\ \A v \in Workers :
                            Active(v)' /\ worker'[v].job = worker'[w].job => v = w
    BY DEF WorkersAreLatest
  <2>1. worker[w].job \in Jobs
    BY <1>2 DEF TypeOK, Active
  <2>2. QED
    BY <2>1, <1>1, <1>2 DEF WriteInv, WorkersAreLatest, Quiet
<1>5. RequestsAreLatest'
  BY <1>1 DEF TypeOK, WriteInv, RequestsAreLatest, Quiet
<1>6. FailedIsUnsent' /\ AtMostOneAcceptedWrite' /\ WorkersKnow'
  BY DEF WriteInv, FailedIsUnsent, AtMostOneAcceptedWrite, WorkersKnow, Unsent, Quiet
<1>7. QED
  BY <1>3, <1>4, <1>5, <1>6 DEF WriteInv

\* A claim is granted: nobody else is at the job, and nothing of it is on its way.
LEMMA ClaimWrites ==
    ASSUME TypeOK, WriteInv, NEW w \in Workers, ClaimNextJob(w)
    PROVE  WriteInv'
<1> DEFINE j == worker[w].job
           r == [worker[w] EXCEPT !.step = "load", !.claim = attemptCount[j] + 1]
<1>1. j \in Jobs /\ ~Pending(j) /\ ~Active(w)
  BY DEF ClaimNextJob, ClaimableJob, TypeOK, Pending, Active
<1>2. worker[w] \in WorkerType /\ attemptCount[j] + 1 \in 0..MaxAttempts
  BY <1>1, WorkersAreTyped, BoundsAssumption DEF WorkersTyped, TypeOK, ClaimNextJob
<1>3. r.step = "load" /\ r.claim = attemptCount[j] + 1 /\ r.job = j
  BY <1>2 DEF WorkerType
<1> HIDE DEF r
<1>4. \A v \in Workers : worker'[v] = IF v = w THEN r ELSE worker[v]
  BY DEF TypeOK, ClaimNextJob, r
<1>5. /\ \A k \in Jobs : state'[k] = IF k = j THEN "claimed" ELSE state[k]
      /\ \A k \in Jobs : attemptCount'[k] = IF k = j THEN attemptCount[k] + 1 ELSE attemptCount[k]
      /\ \A k \in Jobs : claim'[k] = IF k = j THEN attemptCount[k] + 1 ELSE claim[k]
      /\ UNCHANGED <<inflight, accepted>>
  BY <1>1 DEF TypeOK, ClaimNextJob, sheinVars
<1> HIDE DEF j
<1>6. Unsent(j) /\ \A v \in Workers : Active(v) => worker[v].job # j
  BY <1>1 DEF WriteInv, WorkersAreLatest, RequestsAreLatest, FailedIsUnsent, Unsent, j,
              ClaimNextJob, ClaimableJob
<1>7. ClaimIsLatest'
  BY <1>5 DEF WriteInv, ClaimIsLatest, Pending, TypeOK
<1>8. WorkersAreLatest'
  <2>1. \A v \in Workers : Active(v)' <=> v = w \/ Active(v)
    BY <1>3, <1>4 DEF Active
  <2>2. \A v \in Workers : Active(v) => worker[v].job \in Jobs
    BY DEF TypeOK, Active
  <2>3. QED
    BY <1>1, <1>3, <1>4, <1>5, <1>6, <2>1, <2>2 DEF WriteInv, WorkersAreLatest, Pending
<1>9. WorkersKnow'
  BY <1>3, <1>4, <1>5, <1>6 DEF WriteInv, WorkersKnow, Unsent
<1>10. RequestsAreLatest'
  BY <1>5, <1>6 DEF TypeOK, WriteInv, RequestsAreLatest, Pending, Unsent
<1>11. FailedIsUnsent' /\ AtMostOneAcceptedWrite'
  BY <1>5 DEF WriteInv, FailedIsUnsent, AtMostOneAcceptedWrite
<1>12. QED
  BY <1>7, <1>8, <1>9, <1>10, <1>11 DEF WriteInv

\* An active worker goes on with its claim; what it is about to send or report is
\* as SHEIN knows it.
LEMMA WorkerGoesOn ==
    ASSUME TypeOK, WriteInv, NEW w \in Workers, NEW r \in WorkerType, Active(w),
           r.job = worker[w].job, r.claim = worker[w].claim,
           worker' = [worker EXCEPT ![w] = r],
           UNCHANGED <<state, attemptCount, claim, inflight, accepted>>,
           r.step \in {"load", "call"} => Unsent(r.job),
           r.step = "record" /\ r.outcome # "unknown" => r.outcome # "accepted" /\ Unsent(r.job)
    PROVE  WriteInv'
<1>1. \A v \in Workers : worker'[v] = IF v = w THEN r ELSE worker[v]
  BY DEF TypeOK
<1>2. \A v \in Workers : Active(v)' => Active(v)
  BY <1>1 DEF Active
<1>3. ClaimIsLatest' /\ RequestsAreLatest' /\ FailedIsUnsent' /\ AtMostOneAcceptedWrite'
  BY DEF WriteInv, ClaimIsLatest, RequestsAreLatest, FailedIsUnsent,
         AtMostOneAcceptedWrite, Pending
<1>4. WorkersAreLatest'
  BY <1>1, <1>2 DEF WriteInv, WorkersAreLatest, Pending
<1>5. WorkersKnow'
  BY <1>1 DEF WriteInv, WorkersKnow, Unsent
<1>6. QED
  BY <1>3, <1>4, <1>5 DEF WriteInv

\* The one request of a job: nothing of it was accepted or on its way before.
LEMMA CallWrites ==
    ASSUME TypeOK, WriteInv, NEW w \in Workers, CallShein(w)
    PROVE  WriteInv'
<1> DEFINE r == [worker[w] EXCEPT !.step = "wait"]
           j == worker[w].job
<1>1. worker[w] \in WorkerType /\ j \in Jobs /\ Active(w)
  BY WorkersAreTyped DEF WorkersTyped, CallShein, Active
<1>2. r.step = "wait" /\ r.job = j /\ r.claim = worker[w].claim
  BY <1>1 DEF WorkerType
<1>3. \A v \in Workers : worker'[v] = IF v = w THEN r ELSE worker[v]
  BY DEF TypeOK, CallShein
<1> HIDE DEF r
<1>4. Unsent(j) /\ Pending(j) /\ worker[w].claim = attemptCount[j]
      /\ \A v \in Workers : Active(v) /\ worker[v].job = j => v = w
  BY <1>1 DEF WriteInv, WorkersKnow, WorkersAreLatest, CallShein
<1>5. inflight' = inflight \cup {<<j, attemptCount[j]>>}
      /\ UNCHANGED <<state, attemptCount, claim, accepted>>
  BY <1>4 DEF CallShein, jobVars
<1>6. \A v \in Workers : Active(v)' <=> Active(v)
  BY <1>1, <1>2, <1>3 DEF Active
<1>7. ClaimIsLatest' /\ FailedIsUnsent' /\ AtMostOneAcceptedWrite'
  BY <1>5 DEF WriteInv, ClaimIsLatest, FailedIsUnsent, AtMostOneAcceptedWrite, Pending
<1>8. WorkersAreLatest'
  BY <1>2, <1>3, <1>5, <1>6 DEF WriteInv, WorkersAreLatest, Pending
<1>9. RequestsAreLatest'
  BY <1>4, <1>5 DEF WriteInv, RequestsAreLatest, Pending, Unsent
<1>10. WorkersKnow'
  <2> SUFFICES ASSUME NEW v \in Workers,
                      \/ worker'[v].step \in {"load", "call"}
                      \/ worker'[v].step = "record" /\ worker'[v].outcome # "unknown"
               PROVE  /\ v # w /\ worker'[v] = worker[v]
                      /\ Unsent(worker[v].job) => Unsent(worker[v].job)'
    BY <1>5 DEF WriteInv, WorkersKnow
  <2>1. v # w /\ worker'[v] = worker[v] /\ Active(v)
    BY <1>2, <1>3 DEF Active
  <2>2. worker[v].job # j
    BY <1>4, <2>1
  <2>3. QED
    BY <1>5, <2>1, <2>2 DEF Unsent
<1>11. QED
  BY <1>7, <1>8, <1>9, <1>10 DEF WriteInv

\* SHEIN decides the only request of a job.
LEMMA ProcessWrites ==
    ASSUME TypeOK, WriteInv, NEW j \in Jobs, NEW c \in 1..MaxAttempts, Process(j, c)
    PROVE  WriteInv'
<1>1. PICK reply \in Replies :
        /\ accepted' = [accepted EXCEPT ![j] = IF reply = "accepted" THEN @ + 1 ELSE @]
        /\ worker' = [w \in Workers |->
              IF worker[w].step = "wait" /\ worker[w].job = j /\ worker[w].claim = c
              THEN [worker[w] EXCEPT !.step = "record", !.outcome = reply]
              ELSE worker[w]]
  BY DEF Process
<1>2. <<j, c>> \in inflight /\ inflight' = inflight \ {<<j, c>>}
      /\ UNCHANGED <<state, attemptCount, claim>>
  BY DEF Process, jobVars
<1>3. Pending(j) /\ c = attemptCount[j] /\ accepted[j] = 0
      /\ \A q \in inflight : q[1] = j => q = <<j, c>>
  <2>1. Pending(j) /\ c = attemptCount[j] /\ accepted[j] = 0
    BY <1>2 DEF WriteInv, RequestsAreLatest
  <2>2. ASSUME NEW q \in inflight, q[1] = j PROVE q = <<j, c>>
    <3>1. q[2] = attemptCount[q[1]] /\ q \in Jobs \X (1..MaxAttempts)
      BY DEF WriteInv, RequestsAreLatest, TypeOK
    <3>2. QED
      BY <2>1, <2>2, <3>1
  <2>3. QED
    BY <2>1, <2>2
<1>4. \A q \in inflight' : q \in inflight /\ q[1] # j
  BY <1>2, <1>3
<1>5. /\ accepted'[j] = IF reply = "accepted" THEN 1 ELSE 0
      /\ \A k \in Jobs \ {j} : accepted'[k] = accepted[k]
  <2>1. accepted \in [Jobs -> Nat]
    BY DEF TypeOK
  <2>2. accepted' = [accepted EXCEPT ![j] = IF reply = "accepted" THEN @ + 1 ELSE @]
    BY <1>1
  <2>3. QED
    BY <2>1, <2>2, <1>3
<1>6. \A w \in Workers :
        \/ worker'[w] = worker[w]
        \/ /\ worker[w].step = "wait" /\ worker[w].job = j
           /\ worker'[w].step = "record" /\ worker'[w].outcome = reply
           /\ worker'[w].job = worker[w].job /\ worker'[w].claim = worker[w].claim
  BY <1>1, WorkersAreTyped DEF WorkersTyped, WorkerType
<1>7. \A w \in Workers : (Active(w)' <=> Active(w)) /\ worker'[w].job = worker[w].job
                         /\ worker'[w].claim = worker[w].claim
  BY <1>6 DEF Active
<1>8. ClaimIsLatest'
  BY <1>2 DEF WriteInv, ClaimIsLatest, Pending
<1>9. WorkersAreLatest'
  BY <1>2, <1>7 DEF WriteInv, WorkersAreLatest, Pending
<1>10. RequestsAreLatest'
  BY <1>2, <1>4, <1>5 DEF TypeOK, WriteInv, RequestsAreLatest, Pending
<1>11. FailedIsUnsent' /\ AtMostOneAcceptedWrite'
  BY <1>2, <1>3, <1>5 DEF WriteInv, FailedIsUnsent, AtMostOneAcceptedWrite, Pending
<1>12. WorkersKnow'
  <2> SUFFICES ASSUME NEW w \in Workers
               PROVE  /\ worker'[w].step \in {"load", "call"} => Unsent(worker[w].job)'
                      /\ worker'[w].step = "record" /\ worker'[w].outcome \in {"retryable", "terminal"}
                         => Unsent(worker[w].job)'
                      /\ worker'[w].step = "record" /\ worker'[w].outcome = "accepted"
                         => accepted'[worker'[w].job] = 1
    BY DEF WorkersKnow
  <2>1. CASE worker[w].job = j
    <3>1. ~Unsent(j) /\ (reply # "accepted" => Unsent(j)')
      BY <1>2, <1>4, <1>5 DEF Unsent
    <3>2. QED
      BY <2>1, <3>1, <1>3, <1>5, <1>6 DEF WriteInv, WorkersKnow
  <2>2. CASE worker[w].job # j
    <3>1. worker'[w] = worker[w]
      BY <2>2, <1>6
    <3>2. worker[w].step \in {"load", "call", "record"} => worker[w].job \in Jobs
      BY DEF TypeOK
    <3>3. QED
      BY <2>2, <3>1, <3>2, <1>4, <1>5 DEF WriteInv, WorkersKnow, Unsent
  <2>3. QED
    BY <2>1, <2>2
<1>13. QED
  BY <1>8, <1>9, <1>10, <1>11, <1>12 DEF WriteInv

\* The outcome is stored by the worker that holds the claim: a job that may be
\* claimed again has nothing accepted or on its way, and nobody is left at it.
LEMMA RecordWrites ==
    ASSUME TypeOK, WriteInv, NEW w \in Workers, RecordOutcome(w)
    PROVE  WriteInv'
<1> DEFINE j == worker[w].job
<1>1. j \in Jobs /\ Active(w) /\ state[j] = "claimed"
  BY DEF TypeOK, RecordOutcome, HoldsClaim, Active
<1>2. PICK s : /\ state' = [state EXCEPT ![j] = s]
               /\ \/ worker[w].outcome = "accepted" /\ s = "submitted"
                  \/ worker[w].outcome = "unknown" /\ s = "result_unknown"
                  \/ worker[w].outcome = "retryable" /\ s = "failed_retryable"
                  \/ worker[w].outcome = "terminal" /\ s = "failed_terminal"
  BY DEF TypeOK, Outcomes, Replies, RecordOutcome, RecordSubmitted, RecordFailure
<1>3. /\ \A k \in Jobs : state'[k] = IF k = j THEN s ELSE state[k]
      /\ \A k \in Jobs : claim'[k] = IF k = j THEN 0 ELSE claim[k]
      /\ UNCHANGED <<attemptCount, inflight, accepted>>
      /\ \A v \in Workers : worker'[v] = IF v = w THEN Idle ELSE worker[v]
  BY <1>1, <1>2 DEF TypeOK, RecordOutcome, sheinVars
<1>4. CASE s = "result_unknown"
  <2>1. Quiet
    BY <1>1, <1>3, <1>4, IdleTyped DEF Quiet
  <2>2. QED
    BY <2>1, QuietStep
<1>5. CASE s # "result_unknown"
  <2>1. s \in {"failed_retryable", "failed_terminal"} => Unsent(j)
    BY <1>2, <1>5 DEF WriteInv, WorkersKnow, RecordOutcome
  <2>2. s = "submitted" => accepted[j] = 1
    BY <1>2, <1>5 DEF WriteInv, WorkersKnow, RecordOutcome
  <2>3. s \in {"submitted", "failed_retryable", "failed_terminal"}
    BY <1>2, <1>5
  <2>4. \A q \in inflight : q[1] # j
    BY <2>1, <2>2, <2>3 DEF WriteInv, RequestsAreLatest, Unsent
  <2>5. \A v \in Workers : Active(v)' => Active(v) /\ worker'[v] = worker[v] /\ worker[v].job # j
                                         /\ worker[v].job \in Jobs
    BY <1>1, <1>3, IdleTyped DEF WriteInv, WorkersAreLatest, Active, TypeOK
  <2> HIDE DEF j
  <2>6. ClaimIsLatest'
    BY <1>3, <2>3 DEF WriteInv, ClaimIsLatest, Pending
  <2>7. WorkersAreLatest'
    BY <1>3, <2>5 DEF WriteInv, WorkersAreLatest, Pending
  <2>8. RequestsAreLatest'
    BY <1>3, <2>4 DEF TypeOK, WriteInv, RequestsAreLatest, Pending
  <2>9. FailedIsUnsent' /\ AtMostOneAcceptedWrite'
    BY <1>3, <2>1, <2>3 DEF WriteInv, FailedIsUnsent, AtMostOneAcceptedWrite, Unsent
  <2>10. WorkersKnow'
    BY <1>3, <2>5, IdleTyped DEF WriteInv, WorkersKnow, Unsent, Active
  <2>11. QED
    BY <2>6, <2>7, <2>8, <2>9, <2>10 DEF WriteInv
<1>6. QED
  BY <1>4, <1>5

-----------------------------------------------------------------------------
(* Receipts are true                                                       *)

Submitted == {j \in Jobs : "submitted" \in receipts[j]}

LEMMA QuotaParts ==
    /\ QuotaCountsReceipts <=>
          /\ quota.consumed = IF quota.known THEN Cardinality(Submitted) ELSE 0
          /\ \A j \in Submitted : accepted[j] = 1
    /\ QuotaCountsReceipts' <=>
          /\ quota'.consumed = IF quota'.known THEN Cardinality(Submitted') ELSE 0
          /\ \A j \in Submitted' : accepted'[j] = 1
  BY DEF QuotaCountsReceipts, Submitted

LEMMA SubmittedFinite == IsFiniteSet(Submitted) /\ Cardinality(Submitted) \in Nat
<1>1. Submitted \subseteq Jobs
  BY DEF Submitted
<1>2. QED
  BY <1>1, JobsAssumption, FS_Subset, FS_CardinalityType

\* A step that stores no receipt and completes nothing: SHEIN may accept a job
\* whose response is not stored, and other jobs may change their state.
StoresNothing ==
    /\ UNCHANGED <<version, receipts, quota>>
    /\ \A j \in Jobs :
          /\ closing'[j] = closing[j] \/ closing[j] # "no"
          /\ \/ state'[j] = state[j]
             \/ {state[j], state'[j]} \cap {"submitted", "completed"} = {}
          /\ accepted'[j] = accepted[j] \/ ~version[j]
          /\ item'[j] = item[j] \/ state[j] # "completed"

LEMMA StoresNothingStep == TypeOK /\ EvidenceInv /\ StoresNothing => EvidenceInv'
<1> SUFFICES ASSUME TypeOK, EvidenceInv, StoresNothing PROVE EvidenceInv'
  OBVIOUS
<1>1. StoredIsAccepted'
  BY DEF EvidenceInv, StoredIsAccepted, StoresNothing
<1>2. ReadbackFollows'
  BY DEF EvidenceInv, ReadbackFollows, StoresNothing
<1>3. CompletedHasEvidence'
  BY DEF EvidenceInv, ReceiptsAreTrue, CompletedHasEvidence, StoredIsAccepted, StoresNothing
<1>4. Submitted' = Submitted /\ \A j \in Submitted : accepted'[j] = accepted[j] \/ ~version[j]
  BY DEF Submitted, StoresNothing
<1>5. QuotaCountsReceipts'
  BY <1>1, <1>4, QuotaParts DEF EvidenceInv, ReceiptsAreTrue, StoredIsAccepted, Submitted,
     StoresNothing
<1>6. QED
  BY <1>1, <1>2, <1>3, <1>5 DEF EvidenceInv, ReceiptsAreTrue

\* recordSubmitted: the worker that holds the claim has SHEIN's answer in hand.
LEMMA RecordSubmittedEvidence ==
    ASSUME TypeOK, WriteInv, EvidenceInv, NEW w \in Workers, RecordOutcome(w),
           worker[w].outcome = "accepted"
    PROVE  EvidenceInv'
<1> DEFINE j == worker[w].job
<1>1. j \in Jobs /\ state[j] = "claimed" /\ accepted[j] = 1
  BY DEF TypeOK, RecordOutcome, HoldsClaim, WriteInv, WorkersKnow
<1>2. /\ \A k \in Jobs : state'[k] = IF k = j THEN "submitted" ELSE state[k]
      /\ \A k \in Jobs : version'[k] = IF k = j THEN TRUE ELSE version[k]
      /\ \A k \in Jobs : receipts'[k] = IF k = j THEN receipts[k] \cup {"submitted"} ELSE receipts[k]
      /\ UNCHANGED <<item, closing, accepted>>
  <2>1. /\ state' = [state EXCEPT ![j] = "submitted"]
        /\ version' = [version EXCEPT ![j] = TRUE]
        /\ receipts' = [receipts EXCEPT ![j] = @ \cup {"submitted"}]
        /\ UNCHANGED <<item, closing, accepted>>
    BY DEF RecordOutcome, RecordSubmitted, sheinVars
  <2> HIDE DEF j
  <2>2. DOMAIN state = Jobs /\ DOMAIN version = Jobs /\ DOMAIN receipts = Jobs
    BY DEF TypeOK
  <2>3. QED
    BY <1>1, <2>1, <2>2
<1> HIDE DEF j
<1>3. StoredIsAccepted'
  BY <1>1, <1>2 DEF EvidenceInv, StoredIsAccepted
<1>4. ReadbackFollows'
  BY <1>2 DEF EvidenceInv, ReadbackFollows
<1>5. CompletedHasEvidence'
  BY <1>2 DEF EvidenceInv, ReceiptsAreTrue, CompletedHasEvidence
<1>6. j \notin Submitted /\ Submitted' = Submitted \cup {j}
  BY <1>1, <1>2 DEF EvidenceInv, StoredIsAccepted, Submitted
<1>7. Cardinality(Submitted') = Cardinality(Submitted) + 1
  BY <1>6, SubmittedFinite, FS_AddElement
<1>8. /\ quota'.known = quota.known
      /\ quota'.consumed = IF quota.known THEN quota.consumed + 1 ELSE quota.consumed
  BY DEF RecordOutcome, RecordSubmitted, Counted, TypeOK
<1>9. QuotaCountsReceipts'
  BY <1>1, <1>2, <1>6, <1>7, <1>8, SubmittedFinite, QuotaParts DEF EvidenceInv, ReceiptsAreTrue
<1>10. QED
  BY <1>3, <1>4, <1>5, <1>9 DEF EvidenceInv, ReceiptsAreTrue

\* A receipt other than the publish response, and a completion transaction, of a
\* job whose response is stored; what it rests on is stored before.
LEMMA ReceiptEvidence ==
    ASSUME TypeOK, EvidenceInv, NEW j \in Jobs, NEW kinds, version[j],
           \A k \in Jobs : receipts'[k] = IF k = j THEN receipts[k] \cup kinds ELSE receipts[k],
           "submitted" \notin kinds,
           "readback" \in kinds => "passed" \in receipts[j],
           \A k \in Jobs \ {j} : closing'[k] = closing[k] /\ state'[k] = state[k]
                                 /\ item'[k] = item[k],
           closing'[j] # "no" => "readback" \in receipts[j],
           \/ state'[j] = state[j] /\ item'[j] = item[j]
           \/ /\ state'[j] = "completed" /\ item'[j] = "completed"
              /\ "readback" \in receipts[j] /\ "compliance" \in kinds,
           UNCHANGED <<version, quota, accepted>>
    PROVE  EvidenceInv'
<1>1. state[j] \in {"submitted", "completed"} /\ "submitted" \in receipts[j] /\ accepted[j] = 1
  BY DEF EvidenceInv, StoredIsAccepted
<1>2. StoredIsAccepted'
  BY <1>1 DEF EvidenceInv, StoredIsAccepted
<1>3. ReadbackFollows'
  BY DEF EvidenceInv, ReadbackFollows
<1>4. CompletedHasEvidence'
  BY <1>1 DEF EvidenceInv, ReceiptsAreTrue, CompletedHasEvidence, ReadbackFollows
<1>5. Submitted' = Submitted
  BY DEF Submitted
<1>6. QuotaCountsReceipts'
  BY <1>5, QuotaParts DEF EvidenceInv, ReceiptsAreTrue
<1>7. QED
  BY <1>2, <1>3, <1>4, <1>6 DEF EvidenceInv, ReceiptsAreTrue

-----------------------------------------------------------------------------
(* Projections agree                                                       *)

\* A step in which no job completes.  A run that is over has no job that could
\* move, and a running one is not closed.
CompletesNothing ==
    /\ UNCHANGED run
    /\ batch' # batch => run.state = "running" /\ batch'.state # "completed"
    /\ batch'.state = "failed" => batch' = batch \/ \A j \in Jobs : item'[j] # "ready"
    /\ \A j \in Jobs :
          /\ state'[j] # state[j] => run.state = "running"
          /\ state'[j] = "completed" <=> state[j] = "completed"
          /\ item'[j] = item[j] \/ (item[j] # "completed" /\ item'[j] = "failed")
          /\ state'[j] \in {"failed_retryable", "failed_terminal"} =>
                state'[j] = state[j] \/ item'[j] = "failed"
          /\ \/ closing'[j] = closing[j] \/ closing'[j] \in {"no", "neither"}
             \/ OthersCompleted(j)

LEMMA CompletesNothingStep ==
    TypeOK /\ ProjectionsAgree /\ SeenIsCompleted /\ CompletesNothing
    => ProjectionsAgree' /\ SeenIsCompleted'
<1> SUFFICES ASSUME TypeOK, ProjectionsAgree, SeenIsCompleted, CompletesNothing
             PROVE  ProjectionsAgree' /\ SeenIsCompleted'
  OBVIOUS
<1>1. RunClosedByCompletionOnly'
  BY DEF ProjectionsAgree, RunClosedByCompletionOnly, CompletesNothing
<1>2. BatchFollowsJobs'
  BY DEF ProjectionsAgree, BatchFollowsJobs, RunClosedByCompletionOnly, CompletesNothing
<1>3. \A j \in Jobs : OthersCompleted(j)' <=> OthersCompleted(j)
  BY DEF OthersCompleted, CompletesNothing
<1>4. SeenIsCompleted'
  BY <1>3 DEF SeenIsCompleted, CompletesNothing
<1>5. QED
  BY <1>1, <1>2, <1>4 DEF ProjectionsAgree

LEMMA ProjectionUntouched ==
    ProjectionsAgree /\ SeenIsCompleted /\ UNCHANGED <<run, state, item, batch, closing>>
    => ProjectionsAgree' /\ SeenIsCompleted'
  BY DEF ProjectionsAgree, RunClosedByCompletionOnly, BatchFollowsJobs, SeenIsCompleted,
         OthersCompleted

\* A job that has begun and not ended has an open run.
LEMMA RunIsOpen ==
    ASSUME TypeOK, ProjectionsAgree, NEW j \in Jobs, state[j] \notin {"authorized", "completed"}
    PROVE  run.state = "running"
  BY DEF TypeOK, ProjectionsAgree, RunClosedByCompletionOnly

\* COMMIT of a completion: it closes the run when all other jobs were completed,
\* and the batch only with the run.
LEMMA CommitProjection ==
    ASSUME IInv, NEW j \in Jobs, CommitCompletion(j)
    PROVE  ProjectionsAgree' /\ SeenIsCompleted'
<1> USE DEF IInv
<1>1. /\ \A k \in Jobs : state'[k] = IF k = j THEN "completed" ELSE state[k]
      /\ \A k \in Jobs : item'[k] = IF k = j THEN "completed" ELSE item[k]
      /\ \A k \in Jobs : closing'[k] = IF k = j THEN "no" ELSE closing[k]
  BY DEF TypeOK, CommitCompletion
<1>2. state[j] \in {"submitted", "completed"}
  BY DEF CommitCompletion, EvidenceInv, ReadbackFollows, StoredIsAccepted
<1>3. closing[j] \in {"run", "both"} => \A k \in Jobs : state'[k] = "completed"
  BY <1>1 DEF SeenIsCompleted, OthersCompleted
<1>4. run.state # "issued"
  BY <1>2 DEF ProjectionsAgree, RunClosedByCompletionOnly
<1>5. run' = IF closing[j] \in {"run", "both"} /\ run.state = "running"
             THEN [state |-> "completed", enabled |-> FALSE]
             ELSE run
  BY DEF CommitCompletion
<1>6. RunClosedByCompletionOnly'
  BY <1>1, <1>3, <1>4, <1>5 DEF ProjectionsAgree, RunClosedByCompletionOnly
<1>7. batch' = IF closing[j] = "both"
               THEN [state |-> "completed", protocol |-> "completed"]
               ELSE batch
  BY DEF CommitCompletion
<1>8. run.state \in {"running", "completed"}
  BY <1>4 DEF TypeOK
<1>9. BatchFollowsJobs'
  BY <1>1, <1>5, <1>7, <1>8 DEF ProjectionsAgree, BatchFollowsJobs
<1>10. SeenIsCompleted'
  BY <1>1 DEF SeenIsCompleted, OthersCompleted
<1>11. QED
  BY <1>6, <1>9, <1>10 DEF ProjectionsAgree

\* A definite failure, whatever it saw of the other items.
LEMMA RecordProjection ==
    ASSUME IInv, NEW w \in Workers, RecordOutcome(w)
    PROVE  ProjectionsAgree' /\ SeenIsCompleted'
<1> DEFINE j == worker[w].job
<1>1. TypeOK /\ ProjectionsAgree /\ SeenIsCompleted /\ j \in Jobs /\ state[j] = "claimed"
  BY DEF IInv, TypeOK, RecordOutcome, HoldsClaim
<1>2. run.state = "running" /\ item[j] # "completed" /\ UNCHANGED <<run, closing>>
  BY <1>1, RunIsOpen DEF ProjectionsAgree, BatchFollowsJobs, RecordOutcome
<1>3. CASE worker[w].outcome = "accepted"
  <2>1. /\ \A k \in Jobs : state'[k] = IF k = j THEN "submitted" ELSE state[k]
        /\ UNCHANGED <<item, batch>>
    BY <1>1, <1>3 DEF TypeOK, RecordOutcome, RecordSubmitted
  <2>2. CompletesNothing
    BY <1>1, <1>2, <2>1 DEF CompletesNothing
  <2>3. QED
    BY <1>1, <2>2, CompletesNothingStep
<1>4. CASE worker[w].outcome = "unknown"
  <2>1. /\ \A k \in Jobs : state'[k] = IF k = j THEN "result_unknown" ELSE state[k]
        /\ UNCHANGED <<item, batch>>
    BY <1>1, <1>4 DEF TypeOK, RecordOutcome, RecordFailure
  <2>2. CompletesNothing
    BY <1>1, <1>2, <2>1 DEF CompletesNothing
  <2>3. QED
    BY <1>1, <2>2, CompletesNothingStep
<1>5. CASE worker[w].outcome \in {"retryable", "terminal"}
  <2>1. /\ state'[j] \in {"failed_retryable", "failed_terminal"}
        /\ \A k \in Jobs \ {j} : state'[k] = state[k]
    BY <1>1, <1>5 DEF TypeOK, RecordOutcome, RecordFailure
  <2>2. \A k \in Jobs : item'[k] = IF k = j THEN "failed" ELSE item[k]
    BY <1>1, <1>2, <1>5 DEF TypeOK, RecordOutcome, RecordFailure
  <2>3. batch' = FailedBatch(item') \/ batch' = PartialFailure
    BY <1>5 DEF RecordOutcome, RecordFailure
  <2>4. /\ batch'.state # "completed"
        /\ batch'.state = "failed" => \A k \in Jobs : item'[k] # "ready"
    BY <2>3 DEF FailedBatch, PartialFailure
  <2> HIDE DEF j
  <2>5. CompletesNothing
    BY <1>1, <1>2, <2>1, <2>2, <2>4 DEF CompletesNothing
  <2>6. QED
    BY <1>1, <2>5, CompletesNothingStep
<1>6. QED
  BY <1>1, <1>3, <1>4, <1>5 DEF TypeOK, Outcomes, Replies

-----------------------------------------------------------------------------
(* The inductive invariant                                                 *)

LEMMA InitInv == Init => IInv
<1> SUFFICES ASSUME Init PROVE IInv
  OBVIOUS
<1>1. WriteInv
  BY DEF Init, WriteInv, ClaimIsLatest, WorkersAreLatest, WorkersKnow, RequestsAreLatest,
         FailedIsUnsent, AtMostOneAcceptedWrite, Active, Pending, Idle
<1>2. Submitted = {}
  BY DEF Init, Submitted
<1>3. EvidenceInv
  BY <1>2, FS_EmptySet, QuotaParts DEF Init, EvidenceInv, StoredIsAccepted, ReadbackFollows,
     ReceiptsAreTrue, CompletedHasEvidence
<1>4. ProjectionsAgree /\ SeenIsCompleted
  BY DEF Init, ProjectionsAgree, RunClosedByCompletionOnly, BatchFollowsJobs, SeenIsCompleted
<1>5. QED
  BY <1>1, <1>3, <1>4, InitTyped DEF IInv

\* The three groups, of a step that only moves a worker.
LEMMA OnlyWorkers ==
    ASSUME IInv, UNCHANGED <<run, jobVars, batchVars, inflight, accepted>>
    PROVE  /\ EvidenceInv' /\ ProjectionsAgree' /\ SeenIsCompleted'
           /\ (\A w \in Workers : worker'[w] = worker[w] \/ worker'[w].step \in {"idle", "claim"})
              => WriteInv'
<1>1. StoresNothing
  BY DEF StoresNothing, jobVars, batchVars
<1>2. EvidenceInv'
  BY <1>1, StoresNothingStep DEF IInv
<1>3. ProjectionsAgree' /\ SeenIsCompleted'
  BY ProjectionUntouched DEF IInv, jobVars, batchVars
<1>4. ASSUME \A w \in Workers : worker'[w] = worker[w] \/ worker'[w].step \in {"idle", "claim"}
      PROVE  WriteInv'
  BY <1>4, QuietStep DEF Quiet, IInv, jobVars
<1>5. QED
  BY <1>2, <1>3, <1>4

LEMMA InvStep == IInv /\ [Next]_vars => IInv'
<1> SUFFICES ASSUME IInv, [Next]_vars PROVE WriteInv' /\ EvidenceInv' /\ ProjectionsAgree' /\ SeenIsCompleted'
  BY TypeStep DEF IInv
<1> USE DEF IInv, jobVars, batchVars, workerVars, queueVars, sheinVars
<1> DEFINE Kept == WriteInv' /\ EvidenceInv' /\ ProjectionsAgree' /\ SeenIsCompleted'
<1>1. ASSUME Consume PROVE Kept
  <2>1. Quiet /\ StoresNothing
    BY <1>1 DEF Consume, Quiet, StoresNothing
  <2>2. ProjectionsAgree' /\ SeenIsCompleted'
    BY <1>1 DEF Consume, ProjectionsAgree, RunClosedByCompletionOnly, BatchFollowsJobs,
                SeenIsCompleted, OthersCompleted
  <2>3. QED
    BY <2>1, <2>2, QuietStep, StoresNothingStep
<1>2. ASSUME NEW w \in Workers, NEW j \in Jobs, StartCommand(w, j) PROVE Kept
  <2>1. \A v \in Workers : worker'[v] = worker[v] \/ worker'[v].step = "claim"
    BY <1>2 DEF StartCommand, TypeOK, Idle
  <2>2. \A k \in Jobs : \/ state'[k] = state[k] /\ claim'[k] = claim[k]
                        \/ state[k] = "claimed" /\ state'[k] = "result_unknown"
    BY <1>2 DEF StartCommand, LapsedState, TypeOK
  <2>3. \A k \in Jobs : state[k] = "claimed" => run.state = "running"
    BY RunIsOpen
  <2>4. UNCHANGED <<run, attemptCount, version, receipts, closing, item, batch, quota, sheinVars>>
    BY <1>2 DEF StartCommand
  <2>5. Quiet
    BY <2>1, <2>2, <2>4 DEF Quiet
  <2>6. StoresNothing
    BY <2>2, <2>4 DEF StoresNothing
  <2>7. CompletesNothing
    BY <2>2, <2>3, <2>4 DEF CompletesNothing
  <2>8. QED
    BY <2>5, <2>6, <2>7, QuietStep, StoresNothingStep, CompletesNothingStep
<1>3. ASSUME NEW w \in Workers, ClaimNextJob(w) PROVE Kept
  <2> DEFINE j == worker[w].job
  <2>1. run.state = "running" /\ state[j] \in {"authorized", "failed_retryable"}
    BY <1>3 DEF ClaimNextJob, ClaimableJob
  <2>2. \A k \in Jobs : state'[k] = IF k = j THEN "claimed" ELSE state[k]
    BY <1>3 DEF ClaimNextJob, TypeOK
  <2>3. UNCHANGED <<run, version, receipts, closing, item, batch, quota, accepted>>
    BY <1>3 DEF ClaimNextJob
  <2> HIDE DEF j
  <2>4. StoresNothing
    BY <2>1, <2>2, <2>3 DEF StoresNothing
  <2>5. CompletesNothing
    BY <2>1, <2>2, <2>3 DEF CompletesNothing
  <2>6. QED
    BY <1>3, <2>4, <2>5, ClaimWrites, StoresNothingStep, CompletesNothingStep
<1>4. ASSUME NEW w \in Workers, NothingToClaim(w) \/ OutcomeTooLate(w) \/ Throws(w) \/ Crash(w)
      PROVE  Kept
  <2>1. UNCHANGED <<run, jobVars, batchVars, sheinVars>>
    BY <1>4 DEF NothingToClaim, OutcomeTooLate, Throws, Crash
  <2>2. worker' = [worker EXCEPT ![w] = Idle]
    BY <1>4 DEF NothingToClaim, OutcomeTooLate, Throws, Crash, Finish
  <2>3. \A v \in Workers : worker'[v] = worker[v] \/ worker'[v].step = "idle"
    BY <2>2, IdleTyped DEF TypeOK
  <2>4. QED
    BY <2>1, <2>3, OnlyWorkers
<1>5. ASSUME NEW w \in Workers, LoadSource(w) PROVE Kept
  <2>1. worker[w] \in WorkerType /\ Active(w) /\ Unsent(worker[w].job)
    BY <1>5, WorkersAreTyped DEF LoadSource, WorkersTyped, Active, WriteInv, WorkersKnow
  <2>2. UNCHANGED <<run, jobVars, batchVars, sheinVars>>
    BY <1>5 DEF LoadSource
  <2>3. PICK r : /\ worker' = [worker EXCEPT ![w] = r]
                 /\ \/ r = [worker[w] EXCEPT !.step = "call"]
                    \/ r = [worker[w] EXCEPT !.step = "record", !.outcome = "terminal"]
    BY <1>5 DEF LoadSource
  <2>4. /\ r \in WorkerType /\ r.job = worker[w].job /\ r.claim = worker[w].claim
        /\ r.step = "call" \/ (r.step = "record" /\ r.outcome = "terminal")
    <3>1. CASE r = [worker[w] EXCEPT !.step = "call"]
      BY <2>1, <3>1 DEF WorkerType, Steps
    <3>2. CASE r = [worker[w] EXCEPT !.step = "record", !.outcome = "terminal"]
      BY <2>1, <3>2 DEF WorkerType, Steps, Outcomes, Replies
    <3>3. QED
      BY <2>3, <3>1, <3>2
  <2>5. WriteInv'
    BY <2>1, <2>2, <2>3, <2>4, WorkerGoesOn
  <2>6. QED
    BY <2>2, <2>5, OnlyWorkers
<1>6. ASSUME NEW w \in Workers, CallShein(w) PROVE Kept
  <2>1. UNCHANGED <<run, jobVars, batchVars, accepted>>
    BY <1>6 DEF CallShein
  <2>2. StoresNothing
    BY <2>1 DEF StoresNothing
  <2>3. QED
    BY <1>6, <2>1, <2>2, CallWrites, StoresNothingStep, ProjectionUntouched
<1>7. ASSUME NEW w \in Workers, RecordOutcome(w) PROVE Kept
  <2>1. WriteInv' /\ ProjectionsAgree' /\ SeenIsCompleted'
    BY <1>7, RecordWrites, RecordProjection
  <2>2. CASE worker[w].outcome = "accepted"
    BY <1>7, <2>1, <2>2, RecordSubmittedEvidence
  <2>3. CASE worker[w].outcome # "accepted"
    <3> DEFINE j == worker[w].job
    <3>1. RecordFailure(w, j, worker[w].outcome) /\ j \in Jobs /\ state[j] = "claimed"
      BY <1>7, <2>3 DEF RecordOutcome, HoldsClaim, TypeOK
    <3>2. \A k \in Jobs \ {j} : state'[k] = state[k] /\ item'[k] = item[k]
      BY <3>1 DEF RecordFailure, TypeOK
    <3>3. state'[j] \in {"result_unknown", "failed_retryable", "failed_terminal"}
      BY <2>3, <3>1 DEF RecordFailure, TypeOK, Outcomes, Replies
    <3>4. UNCHANGED <<version, receipts, quota, closing, accepted>>
      BY <1>7, <3>1 DEF RecordOutcome, RecordFailure
    <3> HIDE DEF j
    <3>5. StoresNothing
      BY <3>1, <3>2, <3>3, <3>4 DEF StoresNothing
    <3>6. QED
      BY <2>1, <3>5, StoresNothingStep
  <2>4. QED
    BY <2>2, <2>3
<1>8. ASSUME NEW w \in Workers, AnswerLost(w) PROVE Kept
  <2> DEFINE r == [worker[w] EXCEPT !.step = "record", !.outcome = "unknown"]
  <2>1. worker[w] \in WorkerType /\ Active(w)
    BY <1>8, WorkersAreTyped DEF AnswerLost, WorkersTyped, Active
  <2>2. /\ r \in WorkerType /\ r.job = worker[w].job /\ r.claim = worker[w].claim
        /\ r.step = "record" /\ r.outcome = "unknown"
    BY <2>1 DEF WorkerType, Steps, Outcomes
  <2>3. UNCHANGED <<run, jobVars, batchVars, sheinVars>> /\ worker' = [worker EXCEPT ![w] = r]
    BY <1>8 DEF AnswerLost
  <2> HIDE DEF r
  <2>4. WriteInv'
    BY <2>1, <2>2, <2>3, WorkerGoesOn
  <2>5. QED
    BY <2>3, <2>4, OnlyWorkers
<1>9. ASSUME NEW j \in Jobs, LeaseLapses(j) PROVE Kept
  <2>1. Quiet /\ StoresNothing
    BY <1>9 DEF LeaseLapses, Quiet, StoresNothing
  <2>2. QED
    BY <1>9, <2>1, QuietStep, StoresNothingStep, ProjectionUntouched DEF LeaseLapses
<1>10. ASSUME NEW j \in Jobs, NEW c \in 1..MaxAttempts, Process(j, c) PROVE Kept
  <2>1. \A k \in Jobs : accepted'[k] = accepted[k] \/ k = j
    BY <1>10 DEF Process, TypeOK
  <2>2. ~version[j]
    <3>1. <<j, c>> \in inflight /\ <<j, c>>[1] = j
      BY <1>10 DEF Process
    <3>2. accepted[j] = 0
      BY <3>1 DEF WriteInv, RequestsAreLatest
    <3>3. QED
      BY <3>2 DEF EvidenceInv, StoredIsAccepted
  <2>3. UNCHANGED <<run, jobVars, batchVars>>
    BY <1>10 DEF Process
  <2>4. StoresNothing
    BY <2>1, <2>2, <2>3 DEF StoresNothing
  <2>5. QED
    BY <1>10, <2>3, <2>4, ProcessWrites, StoresNothingStep, ProjectionUntouched
<1>11. ASSUME UNCHANGED <<run, jobVars, batchVars, worker, inflight, accepted>> PROVE Kept
  BY <1>11, OnlyWorkers
<1>12. ASSUME NEW j \in Jobs, NEW kind \in NoticeKinds, AppendReceipt(j, kind) PROVE Kept
  <2>1. version[j] /\ closing[j] = "no"
    BY <1>12 DEF AppendReceipt, Matches
  <2>2. state' = state
    BY <1>12, <2>1 DEF AppendReceipt, EvidenceInv, StoredIsAccepted, TypeOK
  <2>3. /\ UNCHANGED <<run, attemptCount, claim, version, closing, batchVars, worker, inflight, accepted>>
        /\ \A k \in Jobs : receipts'[k] = IF k = j THEN receipts[k] \cup {kind} ELSE receipts[k]
    BY <1>12 DEF AppendReceipt, TypeOK
  <2>4. {"submitted", "readback"} \cap {kind} = {}
    BY DEF NoticeKinds
  <2>5. EvidenceInv'
    BY <2>1, <2>2, <2>3, <2>4, ReceiptEvidence
  <2>6. Quiet
    BY <2>2, <2>3 DEF Quiet
  <2>7. QED
    BY <2>2, <2>3, <2>5, <2>6, QuietStep, ProjectionUntouched
<1>13. ASSUME NEW j \in Jobs, AppendSpuReadback(j) PROVE Kept
  <2>1. version[j] /\ "passed" \in receipts[j] /\ closing[j] = "no"
    BY <1>13 DEF AppendSpuReadback, Approved
  <2>2. /\ UNCHANGED <<run, state, attemptCount, claim, version, closing, batchVars, worker, sheinVars>>
        /\ \A k \in Jobs : receipts'[k] = IF k = j THEN receipts[k] \cup {"readback"} ELSE receipts[k]
    BY <1>13 DEF AppendSpuReadback, TypeOK
  <2>3. EvidenceInv'
    BY <2>1, <2>2, ReceiptEvidence
  <2>4. Quiet
    BY <2>2 DEF Quiet
  <2>5. QED
    BY <2>2, <2>3, <2>4, QuietStep, ProjectionUntouched
<1>14. ASSUME NEW j \in Jobs, BeginCompletion(j) \/ CompletionSeesRest(j) PROVE Kept
  <2>1. version[j] /\ "readback" \in receipts[j]
    BY <1>14 DEF BeginCompletion, CompletionSeesRest, EvidenceInv, ReadbackFollows
  <2>2. UNCHANGED <<run, state, attemptCount, claim, version, receipts, batchVars, worker, sheinVars>>
    BY <1>14 DEF BeginCompletion, CompletionSeesRest
  <2>3. /\ \A k \in Jobs \ {j} : closing'[k] = closing[k]
        /\ closing'[j] = "neither" \/ OthersCompleted(j)
    BY <1>14 DEF BeginCompletion, CompletionSeesRest, TypeOK
  <2>4. \A k \in Jobs : receipts'[k] = IF k = j THEN receipts[k] \cup {} ELSE receipts[k]
    BY <2>2
  <2>5. EvidenceInv'
    BY <2>1, <2>2, <2>3, <2>4, ReceiptEvidence
  <2>6. Quiet /\ CompletesNothing
    BY <2>2, <2>3 DEF Quiet, CompletesNothing
  <2>7. QED
    BY <2>5, <2>6, QuietStep, CompletesNothingStep
<1>15. ASSUME NEW j \in Jobs, CommitCompletion(j) PROVE Kept
  <2>1. version[j] /\ "readback" \in receipts[j] /\ state[j] \in {"submitted", "completed"}
    BY <1>15 DEF CommitCompletion, EvidenceInv, ReadbackFollows, StoredIsAccepted
  <2>2. UNCHANGED <<attemptCount, claim, version, quota, worker, sheinVars>>
    BY <1>15 DEF CommitCompletion
  <2>3. \A k \in Jobs :
          /\ state'[k] = IF k = j THEN "completed" ELSE state[k]
          /\ item'[k] = IF k = j THEN "completed" ELSE item[k]
          /\ closing'[k] = IF k = j THEN "no" ELSE closing[k]
          /\ receipts'[k] = IF k = j THEN receipts[k] \cup {"compliance"} ELSE receipts[k]
    BY <1>15 DEF CommitCompletion, TypeOK
  <2>4. EvidenceInv'
    BY <2>1, <2>2, <2>3, ReceiptEvidence
  <2>5. Quiet
    BY <2>1, <2>2, <2>3 DEF Quiet
  <2>6. QED
    BY <1>15, <2>4, <2>5, QuietStep, CommitProjection
<1>16. ASSUME NEW j \in Jobs,
              \/ Redeliver(j) \/ SendReceived(j) \/ SendAudit(j)
              \/ \E kind \in NoticeKinds : UnmatchedReceipt(j, kind)
       PROVE  Kept
  BY <1>11, <1>16 DEF Redeliver, SendReceived, SendAudit, UnmatchedReceipt
<1>17. CASE UNCHANGED vars
  BY <1>11, <1>17 DEF vars
<1>18. QED
  BY <1>1, <1>2, <1>3, <1>4, <1>5, <1>6, <1>7, <1>8, <1>9, <1>10, <1>12, <1>13, <1>14, <1>15,
     <1>16, <1>17
     DEF Next, WorkerStep, WorkerFault, SheinStep, ReceiptStep

-----------------------------------------------------------------------------
(* Theorems                                                                *)

LEMMA InvHolds == Spec => []IInv
  BY InitInv, InvStep, PTL DEF Spec

\* The rows of run, jobs, batch and receipts, the workers' progress, the queue
\* and SHEIN keep their shape; a request carries the number of an attempt.
THEOREM TypeCorrect == Spec => []TypeOK
<1>1. IInv => TypeOK
  BY DEF IInv
<1>2. QED
  BY <1>1, InvHolds, PTL

\* SHEIN accepts no job twice, and no two publishOrEdit requests of a job are
\* under way at once, for any number of jobs, workers, attempts and deliveries.
THEOREM NoDoubleWriteProven == Spec => []NoDoubleWrite
<1>1. IInv => NoDoubleWrite
  <2> SUFFICES ASSUME IInv PROVE NoDoubleWrite
    OBVIOUS
  <2>1. ASSUME NEW j \in Jobs, NEW r \in inflight, NEW q \in inflight, r[1] = j, q[1] = j
        PROVE  r = q
    BY <2>1 DEF IInv, TypeOK, WriteInv, RequestsAreLatest
  <2>2. ASSUME NEW w \in Workers, NEW v \in Workers, Active(w), Active(v),
               worker[w].job = worker[v].job
        PROVE  w = v
    BY <2>2 DEF IInv, WriteInv, WorkersAreLatest
  <2>3. OneWriteInFlight
    BY <2>1, <2>2 DEF OneWriteInFlight, Active
  <2>4. QED
    BY <2>3 DEF NoDoubleWrite, IInv, WriteInv
<1>2. QED
  BY <1>1, InvHolds, PTL

\* A completed job was accepted, approved and read back; and the quota projection
\* counts every stored publish response once where the store's quota has a limit, and
\* nothing where it has none.
THEOREM ReceiptsProven == Spec => []ReceiptsAreTrue
<1>1. IInv => ReceiptsAreTrue
  BY DEF IInv, EvidenceInv
<1>2. QED
  BY <1>1, InvHolds, PTL

\* Run, batch and items never claim more than the jobs have done, although the
\* transactions that write them do not lock each other's rows.
THEOREM ProjectionsProven == Spec => []ProjectionsAgree
<1>1. IInv => ProjectionsAgree
  BY DEF IInv
<1>2. QED
  BY <1>1, InvHolds, PTL

-----------------------------------------------------------------------------
(* The write contract                                                      *)

\* The rows that the contract sees stay as they are.
WritesStay == UNCHANGED <<run, state, attemptCount>>

LEMMA StutterRefines == WritesStay => [Contract!Next]_Contract!vars
  BY DEF WritesStay, Contract!vars

\* One job's claim ends in an outcome.
LEMMA SettleRefines ==
    ASSUME NEW j \in Jobs, NEW outcome \in Contract!Settled, run.state = "running",
           state[j] = "claimed", state' = [state EXCEPT ![j] = outcome],
           UNCHANGED <<run, attemptCount>>
    PROVE  [Contract!Next]_Contract!vars
<1>1. Contract!Settle(j)
  BY DEF Contract!Settle
<1>2. QED
  BY <1>1 DEF Contract!Next

\* A completion transaction commits: the last readback of its job, and, where it
\* saw every other job completed, the end of the run.
LEMMA CompletionRefines ==
    ASSUME IInv, NEW j \in Jobs, CommitCompletion(j)
    PROVE  [Contract!Next]_Contract!vars
<1>1. state[j] \in {"submitted", "completed"}
  BY DEF CommitCompletion, IInv, EvidenceInv, ReadbackFollows, StoredIsAccepted
<1>2. /\ state' = [state EXCEPT ![j] = "completed"]
      /\ attemptCount' = attemptCount
      /\ \/ run' = run
         \/ run.state = "running" /\ run'.state = "completed" /\ OthersCompleted(j)
  BY DEF CommitCompletion, IInv, SeenIsCompleted
<1>3. state \in [Jobs -> JobStates]
  BY DEF IInv, TypeOK
<1>4. CASE state[j] = "submitted"
  <2>1. run.state = "running"
    BY <1>4, RunIsOpen DEF IInv
  <2>2. (run'.state = "running") \in BOOLEAN
    OBVIOUS
  <2>3. run'.state # "running" => \A k \in Jobs : state'[k] = "completed"
    BY <1>2, <1>3, <2>1 DEF OthersCompleted
  <2>4. Contract!Finish(j)
    BY <1>2, <1>4, <2>1, <2>2, <2>3 DEF Contract!Finish
  <2>5. QED
    BY <2>4 DEF Contract!Next
<1>5. CASE state[j] = "completed"
  <2>1. state' = state
    BY <1>2, <1>3, <1>5
  <2>2. CASE run' = run
    BY <1>2, <2>1, <2>2, StutterRefines DEF WritesStay
  <2>3. CASE run.state = "running" /\ run'.state = "completed" /\ OthersCompleted(j)
    <3>1. \A k \in Jobs : state[k] = "completed"
      BY <1>5, <2>3 DEF OthersCompleted
    <3>2. Contract!Close
      BY <1>2, <2>1, <2>3, <3>1 DEF Contract!Close
    <3>3. QED
      BY <3>2 DEF Contract!Next
  <2>4. QED
    BY <1>2, <2>2, <2>3
<1>6. QED
  BY <1>1, <1>4, <1>5

\* Every step maps to a step of the contract or to a stutter.
LEMMA NextRefines == IInv /\ [Next]_vars => [Contract!Next]_Contract!vars
<1> SUFFICES ASSUME IInv, [Next]_vars PROVE [Contract!Next]_Contract!vars
  OBVIOUS
<1>1. CASE Consume
  <2>1. \A j \in Jobs : state[j] = "authorized"
    BY <1>1 DEF Consume, IInv, ProjectionsAgree, RunClosedByCompletionOnly
  <2>2. run.state # "running" /\ run'.state = "running" /\ UNCHANGED <<state, attemptCount>>
    BY <1>1 DEF Consume, jobVars
  <2>3. Contract!Open
    BY <2>1, <2>2 DEF Contract!Open
  <2>4. QED
    BY <2>3 DEF Contract!Next
<1>2. ASSUME NEW w \in Workers, NEW j \in Jobs, StartCommand(w, j)
      PROVE  [Contract!Next]_Contract!vars
  <2>1. CASE state[j] = "claimed" /\ lapsed[j]
    <3>1. run.state = "running"
      BY <2>1, RunIsOpen DEF IInv
    <3>2. state' = [state EXCEPT ![j] = "result_unknown"] /\ UNCHANGED <<run, attemptCount>>
      BY <1>2, <2>1 DEF StartCommand, LapsedState
    <3>3. "result_unknown" \in Contract!Settled
      BY DEF Contract!Settled
    <3>4. QED
      BY <2>1, <3>1, <3>2, <3>3, SettleRefines
  <2>2. CASE ~(state[j] = "claimed" /\ lapsed[j])
    BY <1>2, <2>2, StutterRefines DEF StartCommand, WritesStay
  <2>3. QED
    BY <2>1, <2>2
<1>3. ASSUME NEW w \in Workers, ClaimNextJob(w) PROVE [Contract!Next]_Contract!vars
  <2>1. worker[w].job \in Jobs
    BY <1>3 DEF ClaimNextJob, IInv, TypeOK
  <2>2. Contract!Grant(worker[w].job)
    BY <1>3 DEF ClaimNextJob, ClaimableJob, Contract!Grant, Contract!Claimable
  <2>3. QED
    BY <2>1, <2>2 DEF Contract!Next
<1>4. ASSUME NEW w \in Workers, RecordOutcome(w) PROVE [Contract!Next]_Contract!vars
  <2> DEFINE j == worker[w].job
  <2>1. j \in Jobs /\ worker[w].outcome \in Outcomes
    BY <1>4 DEF RecordOutcome, IInv, TypeOK
  <2>2. state[j] = "claimed" /\ UNCHANGED <<run, attemptCount>>
    BY <1>4 DEF RecordOutcome, HoldsClaim
  <2>3. run.state = "running"
    BY <2>1, <2>2, RunIsOpen DEF IInv
  <2>4. PICK outcome \in Contract!Settled : state' = [state EXCEPT ![j] = outcome]
    BY <1>4, <2>1 DEF RecordOutcome, RecordSubmitted, RecordFailure, Outcomes, Replies,
       Contract!Settled
  <2> HIDE DEF j
  <2>5. QED
    BY <2>1, <2>2, <2>3, <2>4, SettleRefines
<1>5. ASSUME NEW j \in Jobs, NEW kind \in NoticeKinds, AppendReceipt(j, kind)
      PROVE  [Contract!Next]_Contract!vars
  <2>1. state[j] \in {"submitted", "completed"} /\ state \in [Jobs -> JobStates]
    BY <1>5 DEF AppendReceipt, Matches, IInv, TypeOK, EvidenceInv, StoredIsAccepted
  <2>2. WritesStay
    BY <1>5, <2>1 DEF AppendReceipt, WritesStay
  <2>3. QED
    BY <2>2, StutterRefines
<1>6. ASSUME NEW j \in Jobs, CommitCompletion(j) PROVE [Contract!Next]_Contract!vars
  BY <1>6, CompletionRefines
<1>7. ASSUME NEW w \in Workers,
             \/ NothingToClaim(w) \/ LoadSource(w) \/ CallShein(w) \/ OutcomeTooLate(w)
             \/ Crash(w) \/ Throws(w) \/ AnswerLost(w)
      PROVE  WritesStay
  BY <1>7 DEF WritesStay, jobVars, NothingToClaim, LoadSource, CallShein, OutcomeTooLate,
     Crash, Throws, AnswerLost
<1>8. ASSUME NEW j \in Jobs,
             \/ LeaseLapses(j) \/ Redeliver(j) \/ SheinStep(j)
             \/ AppendSpuReadback(j) \/ BeginCompletion(j) \/ CompletionSeesRest(j)
             \/ \E kind \in NoticeKinds : UnmatchedReceipt(j, kind)
      PROVE  WritesStay
  BY <1>8 DEF WritesStay, jobVars, LeaseLapses, Redeliver, SheinStep, Process, SendReceived,
     SendAudit, AppendSpuReadback, BeginCompletion, CompletionSeesRest, UnmatchedReceipt
<1>9. CASE UNCHANGED vars
  BY <1>9 DEF vars, jobVars, Contract!vars
<1>10. QED
  BY <1>1, <1>2, <1>3, <1>4, <1>5, <1>6, <1>7, <1>8, <1>9, StutterRefines
     DEF Next, WorkerStep, WorkerFault, ReceiptStep

\* The SQL repository, the worker and the queue implement the write contract:
\* whatever is redelivered, lapses, crashes or gets lost, a job's write is
\* granted again only after an explicit retryable failure.
THEOREM ContractImplemented == Spec => ImplementsContract
<1>1. Init => Contract!Init
  BY DEF Init, Contract!Init
<1>2. QED
  BY <1>1, NextRefines, InvHolds, PTL DEF Spec, ImplementsContract, Contract!Spec

\* A step of the contract leaves what is over alone, closes whole plans only and
\* opens none that was worked on.
LEMMA ContractStepKeeps ==
    ASSUME TypeOK, [Contract!Next]_Contract!vars
    PROVE  Contract!OverStays /\ Contract!ClosedStays /\ (Contract!ClosedIsWhole => Contract!ClosedIsWhole')
<1>1. CASE Contract!Open
  BY <1>1 DEF Contract!Open, Contract!OverStays, Contract!ClosedStays, Contract!ClosedIsWhole
<1>2. CASE Contract!Close
  BY <1>2 DEF Contract!Close, Contract!OverStays, Contract!ClosedStays, Contract!ClosedIsWhole
<1>3. ASSUME NEW r \in Jobs, Contract!Grant(r) \/ Contract!Settle(r) \/ Contract!Recover(r)
      PROVE  Contract!OverStays /\ Contract!ClosedStays /\ Contract!ClosedIsWhole'
  BY <1>3 DEF TypeOK, Contract!Grant, Contract!Settle, Contract!Recover, Contract!Settled,
     Contract!Claimable, Contract!Over, Contract!OverStays, Contract!ClosedStays,
     Contract!ClosedIsWhole
<1>4. ASSUME NEW r \in Jobs, Contract!Finish(r)
      PROVE  Contract!OverStays /\ Contract!ClosedStays /\ Contract!ClosedIsWhole'
  BY <1>4 DEF TypeOK, Contract!Finish, Contract!Over, Contract!OverStays,
     Contract!ClosedStays, Contract!ClosedIsWhole
<1>5. CASE UNCHANGED Contract!vars
  BY <1>5 DEF Contract!vars, Contract!OverStays, Contract!ClosedStays, Contract!ClosedIsWhole
<1>6. QED
  BY <1>1, <1>2, <1>3, <1>4, <1>5 DEF Contract!Next

\* The same holds in SQL, with overlapping transactions, late workers and
\* repeated commands: no claim follows a write that was accepted, failed for good or
\* is unknown, and a run ends with all of its jobs completed and starts once.
THEOREM OwnersMayRely ==
    Spec => Contract!WritesEnd /\ []Contract!ClosedIsWhole /\ Contract!ClosedForGood
<1>1. Init => Contract!ClosedIsWhole
  BY DEF Init, Contract!ClosedIsWhole
<1>2. IInv /\ Contract!ClosedIsWhole /\ [Next]_vars => Contract!ClosedIsWhole'
  BY NextRefines, ContractStepKeeps DEF IInv
<1>3. IInv /\ [Next]_vars => [Contract!OverStays]_Contract!vars /\ [Contract!ClosedStays]_Contract!vars
  BY NextRefines, ContractStepKeeps DEF IInv
<1>4. QED
  BY <1>1, <1>2, <1>3, InvHolds, PTL DEF Spec, Contract!WritesEnd, Contract!ClosedForGood
=============================================================================
