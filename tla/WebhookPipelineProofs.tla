------------------------ MODULE WebhookPipelineProofs ------------------------
(***************************************************************************)
(* The safety properties of WebhookPipeline, for all notices, requests,    *)
(* carriages, worker slots and bounds.                                     *)
(*                                                                         *)
(* The state of an event protects nothing: markQueued and markQueueFailed  *)
(* write over it while a handler is at work.  What keeps two handlers      *)
(* apart is the job of the queue (JobsAreHeld, HoldersHandle), and what    *)
(* makes a processed event an applied one is the order of the handler's    *)
(* own transactions together with a review that only moves forward         *)
(* (DoneIsApplied).                                                        *)
(***************************************************************************)
EXTENDS WebhookPipeline, TLAPS

BusySteps == HandlerSteps \ {"none"}

\* A slot is idle or at work on one notice.
SlotsAreWhole ==
    \A w \in Workers :
        handler[w] = Idle \/ \E step \in BusySteps, n \in Notices : At(w, step, n)

\* Only an active job is held, and a job that may be attempted has attempts left.
JobsAreHeld ==
    \A n \in Notices :
        /\ lock[n] # NoWorker => job[n] = "active"
        /\ job[n] \in {"waiting", "active"} => attempts[n] < MaxAttempts

\* Unless its handling was interrupted, a notice is handled by the slot that
\* holds its active job.
HoldersHandle ==
    \A w \in Workers, n \in Notices :
        n \in handler[w].notice /\ n \notin interrupted => job[n] = "active" /\ lock[n] = w

\* The notice's handler did all it has to do, and the review of a known store is not
\* behind the notice.
IsApplied(n) ==
    /\ Due(n) \subseteq effects[n]
    /\ n \in Audits \cap Scoped /\ ~archived => review >= OccurredAt[n]

\* The second step of a handler comes after its first write, the last one after all.
Follows(step, n) ==
    /\ step = "second" => Due(n) \cap {"first"} \subseteq effects[n]
    /\ step = "processed" => IsApplied(n)

DoneIsApplied ==
    \A w \in Workers, n \in Notices, step \in BusySteps : At(w, step, n) => Follows(step, n)

IInv ==
    /\ TypeOK
    /\ SlotsAreWhole
    /\ JobsAreHeld
    /\ HoldersHandle
    /\ DoneIsApplied
    /\ ProcessedWasApplied

-----------------------------------------------------------------------------
(* Types                                                                   *)

Slot(step, n) == [step |-> step, notice |-> {n}]
SlotType      == [step : HandlerSteps, notice : SUBSET Notices]

LEMMA SlotTyped ==
    /\ Idle \in SlotType
    /\ \A step \in HandlerSteps, n \in Notices : Slot(step, n) \in SlotType
  BY DEF Idle, Slot, SlotType, HandlerSteps

\* A handler goes on to its next step.
LEMMA HandlerGoesOn ==
    ASSUME TypeOK, NEW w \in Workers, NEW n \in Notices, NEW step \in HandlerSteps,
           NEW next \in HandlerSteps, At(w, step, n), HandlerTo(w, next)
    PROVE  handler' = [handler EXCEPT ![w] = Slot(next, n)]
<1>1. [handler[w] EXCEPT !.step = next] = Slot(next, n)
  BY DEF At, Slot
<1>2. handler' = [handler EXCEPT ![w] = [handler[w] EXCEPT !.step = next]]
  BY DEF HandlerTo
<1>3. QED
  BY <1>1, <1>2

LEMMA SlotGoesOn ==
    ASSUME TypeOK, NEW w \in Workers, NEW r \in SlotType, handler' = [handler EXCEPT ![w] = r]
    PROVE  handler' \in [Workers -> SlotType]
  BY DEF TypeOK, SlotType

\* Only active jobs are rejected, with attempts left.
LEMMA RejectTyped ==
    ASSUME TypeOK, JobsAreHeld, NEW w \in Workers, NEW n \in Notices, Reject(w, n)
    PROVE  /\ attempts' \in [Notices -> 0..MaxAttempts]
           /\ job' \in [Notices -> JobStates]
           /\ lock' \in [Notices -> Workers \cup {NoWorker}]
           /\ exhausted' \subseteq Notices
           /\ handler' = [handler EXCEPT ![w] = Idle]
<1>1. CASE lock[n] # w
  BY <1>1 DEF Reject, TypeOK, queueVars
<1>2. CASE lock[n] = w
  <2>1. attempts[n] \in 0..MaxAttempts /\ attempts[n] + 1 <= MaxAttempts
    BY <1>2, WorkerAssumption, BoundsAssumption DEF TypeOK, JobsAreHeld
  <2>2. attempts' = [attempts EXCEPT ![n] = @ + 1]
    BY <1>2 DEF Reject
  <2>3. attempts' \in [Notices -> 0..MaxAttempts]
    BY <2>1, <2>2, BoundsAssumption DEF TypeOK
  <2>4. QED
    BY <1>2, <2>3 DEF Reject, TypeOK, JobStates
<1>3. QED
  BY <1>1, <1>2

\* A handler adds to what it did, nothing else.
LEMMA EffectsTyped ==
    ASSUME TypeOK, NEW n \in Notices, NEW done, Applied(n, done)
    PROVE  /\ effects' \in [Notices -> SUBSET Effects]
           /\ effects'[n] = effects[n] \cup (done \cap Due(n))
           /\ \A m \in Notices : effects[m] \subseteq effects'[m]
<1>1. Due(n) \subseteq Effects
  BY DEF Due, Effects
<1>2. effects \in [Notices -> SUBSET Effects] /\ effects' = [effects EXCEPT ![n] = @ \cup (done \cap Due(n))]
  BY DEF TypeOK, Applied
<1>3. effects[n] \cup (done \cap Due(n)) \in SUBSET Effects
  BY <1>1, <1>2
<1>4. QED
  BY <1>2, <1>3

LEMMA TypeStep == TypeOK /\ JobsAreHeld /\ [Next]_vars => TypeOK'
<1> SUFFICES ASSUME TypeOK, JobsAreHeld, [Next]_vars PROVE TypeOK'
  OBVIOUS
<1> USE DEF ingressVars, queueVars, reviewVars, historyVars
<1>1. \A n \in Notices : 0 \in 0..MaxAttempts /\ (attempts[n] \in 0..MaxAttempts)
  BY BoundsAssumption DEF TypeOK
<1>2. ASSUME Fault PROVE faults' \in 0..MaxFaults
  BY <1>2, BoundsAssumption DEF Fault, TypeOK
<1>3. ASSUME NEW r \in Requests PROVE carries[r] \in Notices
  BY NoticeAssumption DEF TypeOK
<1>4. ASSUME NEW r \in Requests, NEW step \in CallSteps, Go(r, step)
      PROVE  call' \in [Requests -> CallSteps]
  BY <1>4 DEF Go, TypeOK
<1>5. ASSUME NEW n \in Notices, Answered(n) PROVE acked' \subseteq Notices
  BY <1>5 DEF Answered, TypeOK
<1>6. ASSUME NEW n \in Notices, Added(n)
      PROVE  /\ job' \in [Notices -> JobStates]
             /\ attempts' \in [Notices -> 0..MaxAttempts]
             /\ lock' = lock
  BY <1>1, <1>6 DEF Added, TypeOK, JobStates
<1>7. ASSUME NEW w \in Workers, NEW n \in Notices,
             NEW step \in HandlerSteps, NEW next \in HandlerSteps,
             At(w, step, n), HandlerTo(w, next)
      PROVE  handler' \in [Workers -> SlotType]
  BY <1>7, HandlerGoesOn, SlotTyped, SlotGoesOn
<1>8. ASSUME NEW w \in Workers, handler' = [handler EXCEPT ![w] = Idle]
      PROVE  handler' \in [Workers -> SlotType]
  BY <1>8, SlotTyped, SlotGoesOn
<1>9. ASSUME NEW r \in Requests,
             ClaimReplay(r) \/ DuplicateRequest(r) \/ Insert(r) \/ AddJob(r) \/ MarkQueued(r)
             \/ MarkQueueFailed(r)
      PROVE  TypeOK'
  <2>1. CASE ClaimReplay(r)
    BY <1>4, <2>1 DEF ClaimReplay, TypeOK, CallSteps
  <2>2. CASE DuplicateRequest(r)
    BY <1>3, <1>5, <2>2 DEF DuplicateRequest, TypeOK
  <2>3. CASE Insert(r)
    <3>1. CASE IsDuplicate(carries[r])
      BY <1>3, <1>4, <1>5, <2>3, <3>1 DEF Insert, TypeOK, CallSteps
    <3>2. CASE ~IsDuplicate(carries[r])
      BY <1>3, <1>4, <2>3, <3>2 DEF Insert, TypeOK, CallSteps, EventStates
    <3>3. QED
      BY <3>1, <3>2
  <2>4. CASE AddJob(r)
    BY <1>3, <1>4, <1>6, <2>4 DEF AddJob, TypeOK, CallSteps
  <2>5. CASE MarkQueued(r)
    BY <1>3, <1>4, <1>5, <2>5 DEF MarkQueued, TypeOK, CallSteps, EventStates
  <2>6. CASE MarkQueueFailed(r)
    BY <1>3, <1>4, <2>6 DEF MarkQueueFailed, TypeOK, CallSteps, EventStates
  <2>7. QED
    BY <1>9, <2>1, <2>2, <2>3, <2>4, <2>5, <2>6
<1>10. ASSUME NEW r \in Requests, CallFails(r) \/ CallDies(r) PROVE TypeOK'
  <2>1. CASE CallDies(r)
    BY <1>2, <1>4, <2>1 DEF CallDies, TypeOK, CallSteps
  <2>2. CASE CallFails(r)
    <3>1. call' \in [Requests -> CallSteps] /\ faults' \in 0..MaxFaults /\ replay' \subseteq Requests
      BY <1>2, <1>4, <2>2 DEF CallFails, CallSteps, TypeOK
    <3>2. /\ job' \in [Notices -> JobStates]
          /\ attempts' \in [Notices -> 0..MaxAttempts]
          /\ lock' = lock
      BY <1>3, <1>6, <2>2 DEF CallFails, TypeOK
    <3>3. QED
      BY <2>2, <3>1, <3>2 DEF CallFails, TypeOK
  <2>3. QED
    BY <1>10, <2>1, <2>2
<1>11. ASSUME NEW w \in Workers, NEW n \in Notices, Claim(w, n) PROVE TypeOK'
  <2>1. CASE Claimable(n)
    <3>1. handler' = [handler EXCEPT ![w] = Slot("first", n)]
      BY <1>11, <2>1 DEF Claim, Slot
    <3>2. handler' \in [Workers -> SlotType]
      BY <3>1, SlotTyped, SlotGoesOn DEF HandlerSteps
    <3>3. /\ event' \in [Notices -> EventStates] /\ job' \in [Notices -> JobStates]
          /\ lock' \in [Notices -> Workers \cup {NoWorker}]
      BY <1>11, <2>1 DEF Claim, TypeOK, EventStates, JobStates
    <3>4. UNCHANGED <<ingressVars, attempts, effects, reviewVars, historyVars>>
      BY <1>11 DEF Claim
    <3>5. QED
      BY <3>2, <3>3, <3>4 DEF TypeOK, SlotType
  <2>2. CASE ~Claimable(n)
    BY <1>11, <2>2 DEF Claim, TypeOK, JobStates
  <2>3. QED
    BY <2>1, <2>2
<1>12. ASSUME NEW w \in Workers, NEW n \in Notices, ApplyFirst(w, n) PROVE TypeOK'
  <2>1. handler' \in [Workers -> SlotType]
    BY <1>7, <1>12 DEF ApplyFirst, HandlerSteps
  <2>2. effects' \in [Notices -> SUBSET Effects]
    BY <1>12, EffectsTyped DEF ApplyFirst
  <2>3. QED
    BY <1>12, <2>1, <2>2 DEF ApplyFirst, TypeOK, SlotType
<1>13. ASSUME NEW w \in Workers, NEW n \in Notices, ApplySecond(w, n) PROVE TypeOK'
  <2>1. handler' \in [Workers -> SlotType]
    BY <1>7, <1>13 DEF ApplySecond, HandlerSteps
  <2>2. effects' \in [Notices -> SUBSET Effects]
    BY <1>13, EffectsTyped DEF ApplySecond
  <2>3. review' \in {0} \cup {OccurredAt[m] : m \in Audits}
    BY <1>13 DEF ApplySecond, TypeOK
  <2>4. QED
    BY <1>13, <2>1, <2>2, <2>3 DEF ApplySecond, TypeOK, SlotType
<1>14. ASSUME NEW w \in Workers, NEW n \in Notices, MarkProcessed(w, n) PROVE TypeOK'
  <2>1. handler' \in [Workers -> SlotType]
    BY <1>8, <1>14 DEF MarkProcessed, Complete
  <2>2. QED
    BY <1>14, <2>1 DEF MarkProcessed, Complete, TypeOK, SlotType, EventStates, JobStates
<1>15. ASSUME NEW w \in Workers, NEW n \in Notices, MarkFailed(w, n) \/ MarkFailedFails(w, n)
       PROVE  TypeOK'
  <2>1. /\ attempts' \in [Notices -> 0..MaxAttempts]
        /\ job' \in [Notices -> JobStates]
        /\ lock' \in [Notices -> Workers \cup {NoWorker}]
        /\ exhausted' \subseteq Notices
        /\ handler' = [handler EXCEPT ![w] = Idle]
    BY <1>15, RejectTyped DEF MarkFailed, MarkFailedFails
  <2>2. handler' \in [Workers -> SlotType]
    BY <1>8, <2>1
  <2>3. event' \in [Notices -> EventStates] /\ interrupted' \subseteq Notices
    BY <1>15 DEF MarkFailed, MarkFailedFails, TypeOK, EventStates
  <2>4. UNCHANGED <<ingressVars, effects, reviewVars, faults>>
    BY <1>15 DEF MarkFailed, MarkFailedFails
  <2>5. QED
    BY <2>1, <2>2, <2>3, <2>4 DEF TypeOK, SlotType
<1>16. ASSUME NEW w \in Workers, NEW n \in Notices, HandlerFails(w, n) PROVE TypeOK'
  <2>1. handler' \in [Workers -> SlotType]
    BY <1>7, <1>16 DEF HandlerFails, HandlerSteps
  <2>2. QED
    BY <1>2, <1>16, <2>1 DEF HandlerFails, TypeOK, SlotType
<1>17. ASSUME NEW w \in Workers, NEW n \in Notices, WorkerDies(w, n) PROVE TypeOK'
  <2>1. handler' \in [Workers -> SlotType]
    BY <1>8, <1>17 DEF WorkerDies
  <2>2. QED
    BY <1>2, <1>17, <2>1 DEF WorkerDies, TypeOK, SlotType
<1>18. ASSUME NEW n \in Notices, Stall(n) PROVE TypeOK'
  <2>1. faults' \in 0..MaxFaults /\ interrupted' \subseteq Notices
    BY <1>2, <1>18 DEF Stall, TypeOK
  <2>2. /\ job' \in [Notices -> JobStates] /\ exhausted' \subseteq Notices
        /\ lock' \in [Notices -> Workers \cup {NoWorker}]
    BY <1>18 DEF Stall, TypeOK, JobStates
  <2>3. QED
    BY <1>18, <2>1, <2>2 DEF Stall, TypeOK
<1>19. ASSUME NEW n \in Notices, Evict(n) PROVE TypeOK'
  BY <1>19 DEF Evict, TypeOK, JobStates
<1>20. CASE Archive
  BY <1>20 DEF Archive, TypeOK
<1>21. CASE UNCHANGED vars
  BY <1>21 DEF vars, TypeOK
<1>22. QED
  BY <1>9, <1>10, <1>11, <1>12, <1>13, <1>14, <1>15, <1>16, <1>17, <1>18, <1>19, <1>20, <1>21
     DEF Next, CallStep, HandlerStep

-----------------------------------------------------------------------------
(* Effects and the review only move forward                                *)

Forward ==
    /\ review <= review'
    /\ archived => archived' /\ review' = review
    /\ \A n \in Notices : effects[n] \subseteq effects'[n]

LEMMA OccurredTyped ==
    TypeOK => /\ \A n \in Audits : OccurredAt[n] \in Nat
              /\ review \in Nat
  BY NoticeAssumption DEF TypeOK

LEMMA ForwardStep == TypeOK /\ [Next]_vars => Forward
<1> SUFFICES ASSUME TypeOK, [Next]_vars PROVE Forward
  OBVIOUS
<1> USE DEF ingressVars, queueVars, reviewVars, historyVars
<1>1. ASSUME UNCHANGED <<effects, reviewVars>> PROVE Forward
  BY <1>1, OccurredTyped DEF Forward
<1>2. ASSUME NEW r \in Requests,
             ClaimReplay(r) \/ DuplicateRequest(r) \/ CallStep(r) \/ CallFails(r) \/ CallDies(r)
      PROVE  Forward
  BY <1>1, <1>2 DEF ClaimReplay, DuplicateRequest, CallStep, Insert, AddJob, MarkQueued,
     MarkQueueFailed, CallFails, CallDies
<1>3. ASSUME NEW w \in Workers, NEW n \in Notices,
             \/ Claim(w, n) \/ HandlerFails(w, n) \/ MarkFailedFails(w, n) \/ WorkerDies(w, n)
             \/ MarkProcessed(w, n) \/ MarkFailed(w, n)
      PROVE  Forward
  BY <1>1, <1>3 DEF Claim, HandlerFails, MarkFailedFails, WorkerDies, MarkProcessed, MarkFailed
<1>4. ASSUME NEW n \in Notices, Stall(n) \/ Evict(n) PROVE Forward
  BY <1>1, <1>4 DEF Stall, Evict
<1>5. ASSUME NEW w \in Workers, NEW n \in Notices, ApplyFirst(w, n) PROVE Forward
  BY <1>5, OccurredTyped, EffectsTyped DEF ApplyFirst, Forward
<1>6. ASSUME NEW w \in Workers, NEW n \in Notices, ApplySecond(w, n) PROVE Forward
  <2>1. /\ review' = IF n \in Audits /\ WritesSecond(n) /\ UpdatesReview(n) THEN OccurredAt[n]
                                                                          ELSE review
        /\ archived' = archived
    BY <1>6 DEF ApplySecond
  <2>2. \A m \in Notices : effects[m] \subseteq effects'[m]
    BY <1>6, EffectsTyped DEF ApplySecond
  <2>3. review <= review' /\ (archived => review' = review)
    BY <2>1, OccurredTyped DEF UpdatesReview
  <2>4. QED
    BY <2>1, <2>2, <2>3 DEF Forward
<1>7. CASE Archive
  BY <1>7, OccurredTyped DEF Archive, Forward
<1>8. CASE UNCHANGED vars
  BY <1>1, <1>8 DEF vars
<1>9. QED
  BY <1>2, <1>3, <1>4, <1>5, <1>6, <1>7, <1>8 DEF Next, HandlerStep

LEMMA AppliedStays ==
    ASSUME TypeOK, Forward, TypeOK', NEW n \in Notices, IsApplied(n)
    PROVE  IsApplied(n)'
<1>1. /\ n \in Audits => OccurredAt[n] \in Nat
      /\ review \in Nat /\ review' \in Nat
  BY OccurredTyped DEF TypeOK
<1>2. QED
  BY <1>1 DEF IsApplied, Forward

LEMMA FollowsStays ==
    ASSUME TypeOK, Forward, TypeOK', NEW n \in Notices, NEW step \in BusySteps, Follows(step, n)
    PROVE  Follows(step, n)'
  BY AppliedStays DEF Follows, Forward

-----------------------------------------------------------------------------
(* The invariant                                                           *)

\* A slot becomes idle, or comes to a step of one notice.
LEMMA SlotMoves ==
    ASSUME IInv, TypeOK', Forward, NEW w \in Workers, NEW r,
           handler' = [handler EXCEPT ![w] = r],
           \/ r = Idle
           \/ \E step \in BusySteps, n \in Notices :
                 r = Slot(step, n) /\ Follows(step, n)'
    PROVE  /\ SlotsAreWhole'
           /\ DoneIsApplied'
           /\ \A v \in Workers : handler'[v] = IF v = w THEN r ELSE handler[v]
<1>1. \A v \in Workers : handler'[v] = IF v = w THEN r ELSE handler[v]
  BY DEF IInv, TypeOK
<1>2. SlotsAreWhole'
  BY <1>1 DEF IInv, SlotsAreWhole, At, Slot
<1>3. ASSUME NEW v \in Workers, NEW m \in Notices, NEW step \in BusySteps, At(v, step, m)'
      PROVE  Follows(step, m)'
  <2>1. CASE v # w
    <3>1. At(v, step, m)
      BY <1>1, <1>3, <2>1 DEF At
    <3>2. QED
      BY <3>1, FollowsStays DEF IInv, DoneIsApplied
  <2>2. CASE v = w
    <3>1. r = Slot(step, m)
      BY <1>1, <1>3, <2>2 DEF At, Slot
    <3>2. r # Idle
      BY <3>1 DEF Slot, Idle
    <3>3. QED
      BY <3>1, <3>2 DEF Slot
  <2>3. QED
    BY <2>1, <2>2
<1>4. QED
  BY <1>1, <1>2, <1>3 DEF DoneIsApplied

\* What is processed stays applied, and what becomes processed is applied.
LEMMA ProcessedStays ==
    ASSUME IInv, TypeOK', Forward,
           \A n \in Notices : event'[n] = "processed" => event[n] = "processed" \/ IsApplied(n)
    PROVE  ProcessedWasApplied'
<1>1. ASSUME NEW n \in Notices, event'[n] = "processed" PROVE IsApplied(n)'
  BY <1>1, AppliedStays DEF IInv, ProcessedWasApplied, IsApplied
<1>2. QED
  BY <1>1 DEF ProcessedWasApplied, IsApplied

\* The handlers and what they hold stay as they are; jobs that are not active
\* may change.
SlotsStay ==
    /\ UNCHANGED <<handler, lock, interrupted>>
    /\ \A n \in Notices :
          /\ event'[n] = "processed" => event[n] = "processed"
          /\ \/ job'[n] = job[n] /\ attempts'[n] = attempts[n]
             \/ /\ job[n] # "active"
                /\ job'[n] # "active"
                /\ job'[n] = "waiting" => attempts'[n] < MaxAttempts

LEMMA SlotsStayStep == IInv /\ TypeOK' /\ Forward /\ SlotsStay => IInv'
<1> SUFFICES ASSUME IInv, TypeOK', Forward, SlotsStay PROVE IInv'
  OBVIOUS
<1>1. SlotsAreWhole'
  BY DEF IInv, SlotsStay, SlotsAreWhole, At
<1>2. JobsAreHeld'
  BY DEF IInv, SlotsStay, JobsAreHeld
<1>3. HoldersHandle'
  BY DEF IInv, SlotsStay, HoldersHandle
<1>4. ASSUME NEW w \in Workers, NEW n \in Notices, NEW step \in BusySteps, At(w, step, n)'
      PROVE  Follows(step, n)'
  BY <1>4, FollowsStays DEF IInv, SlotsStay, DoneIsApplied, At
<1>5. ProcessedWasApplied'
  BY ProcessedStays DEF SlotsStay
<1>6. QED
  BY <1>1, <1>2, <1>3, <1>4, <1>5 DEF IInv, DoneIsApplied

LEMMA IngressStep ==
    ASSUME IInv, NEW r \in Requests,
           \/ ClaimReplay(r) \/ DuplicateRequest(r) \/ CallStep(r) \/ CallFails(r) \/ CallDies(r)
    PROVE  SlotsStay
<1> USE DEF ingressVars, queueVars, reviewVars, historyVars
<1>1. carries[r] \in Notices
  BY NoticeAssumption DEF IInv, TypeOK
<1>2. ASSUME NEW n \in Notices, Added(n), UNCHANGED <<handler, event, interrupted>> PROVE SlotsStay
  BY <1>2, BoundsAssumption DEF Added, SlotsStay, IInv, TypeOK
<1>3. ASSUME UNCHANGED <<queueVars, handler, interrupted>>,
             \/ event' = event
             \/ \E n \in Notices, s \in {"received", "queued"} : event' = [event EXCEPT ![n] = s]
      PROVE  SlotsStay
  BY <1>3 DEF SlotsStay, IInv, TypeOK
<1>4. CASE ClaimReplay(r) \/ DuplicateRequest(r) \/ CallDies(r)
  BY <1>3, <1>4 DEF ClaimReplay, DuplicateRequest, CallDies
<1>5. CASE Insert(r)
  BY <1>1, <1>3, <1>5 DEF Insert
<1>6. CASE AddJob(r)
  BY <1>1, <1>2, <1>6 DEF AddJob
<1>7. CASE MarkQueued(r) \/ MarkQueueFailed(r)
  BY <1>1, <1>3, <1>7 DEF MarkQueued, MarkQueueFailed
<1>8. CASE CallFails(r)
  BY <1>1, <1>2, <1>3, <1>8 DEF CallFails
<1>9. QED
  BY <1>4, <1>5, <1>6, <1>7, <1>8 DEF CallStep

\* The slot's work on the notice ends with its job, or is thrown back, or has
\* been taken from it before.
JobEnds(w, n) ==
    /\ \A m \in Notices \ {n} :
          job'[m] = job[m] /\ lock'[m] = lock[m] /\ attempts'[m] = attempts[m]
    /\ IF lock[n] = w
       THEN /\ lock'[n] = NoWorker
            /\ job'[n] # "active"
            /\ job'[n] = "waiting" => attempts'[n] < MaxAttempts
       ELSE job'[n] = job[n] /\ lock'[n] = lock[n] /\ attempts'[n] = attempts[n]

LEMMA CompleteEnds ==
    ASSUME TypeOK, NEW w \in Workers, NEW n \in Notices, Complete(w, n), attempts' = attempts
    PROVE  JobEnds(w, n)
  BY DEF Complete, JobEnds, TypeOK

LEMMA RejectEnds ==
    ASSUME TypeOK, JobsAreHeld, NEW w \in Workers, NEW n \in Notices, Reject(w, n)
    PROVE  JobEnds(w, n)
<1>1. CASE lock[n] # w
  BY <1>1 DEF Reject, JobEnds, queueVars
<1>2. CASE lock[n] = w
  <2>1. attempts[n] \in Nat /\ attempts[n] < MaxAttempts
    BY <1>2, WorkerAssumption DEF TypeOK, JobsAreHeld
  <2>2. /\ attempts' = [attempts EXCEPT ![n] = @ + 1]
        /\ job' = [job EXCEPT ![n] = IF attempts[n] + 1 = MaxAttempts THEN "failed" ELSE "waiting"]
        /\ lock' = [lock EXCEPT ![n] = NoWorker]
    BY <1>2 DEF Reject
  <2>3. /\ \A m \in Notices \ {n} :
              job'[m] = job[m] /\ lock'[m] = lock[m] /\ attempts'[m] = attempts[m]
        /\ lock'[n] = NoWorker /\ attempts'[n] = attempts[n] + 1
        /\ job'[n] = IF attempts[n] + 1 = MaxAttempts THEN "failed" ELSE "waiting"
    BY <2>2 DEF TypeOK
  <2>4. QED
    BY <1>2, <2>1, <2>3, BoundsAssumption DEF JobEnds
<1>3. QED
  BY <1>1, <1>2

\* A slot whose job ended this way is idle; whoever handles the notice still is
\* interrupted or the holder.
LEMMA EndsKeeps ==
    ASSUME IInv, TypeOK', Forward, NEW w \in Workers, NEW n \in Notices,
           JobEnds(w, n), handler' = [handler EXCEPT ![w] = Idle],
           interrupted \subseteq interrupted',
           \A m \in Notices : event'[m] = "processed" => event[m] = "processed" \/ IsApplied(m)
    PROVE  IInv'
<1>1. /\ SlotsAreWhole' /\ DoneIsApplied'
      /\ \A v \in Workers : handler'[v] = IF v = w THEN Idle ELSE handler[v]
  BY SlotMoves
<1>2. JobsAreHeld'
  BY DEF IInv, JobsAreHeld, JobEnds
<1>3. HoldersHandle'
  <2> SUFFICES ASSUME NEW v \in Workers, NEW m \in Notices,
                      m \in handler'[v].notice, m \notin interrupted'
               PROVE  job'[m] = "active" /\ lock'[m] = v
    BY DEF HoldersHandle
  <2>1. v # w /\ m \in handler[v].notice
    BY <1>1 DEF Idle
  <2>2. job[m] = "active" /\ lock[m] = v
    BY <2>1 DEF IInv, HoldersHandle
  <2>3. QED
    BY <2>1, <2>2 DEF JobEnds
<1>4. ProcessedWasApplied'
  BY ProcessedStays
<1>5. QED
  BY <1>1, <1>2, <1>3, <1>4 DEF IInv

LEMMA InitInv == Init => IInv
<1> SUFFICES ASSUME Init PROVE IInv
  OBVIOUS
<1>1. handler = [w \in Workers |-> Idle] /\ Idle \in SlotType
  BY SlotTyped DEF Init
<1>2. 0 \in 0..MaxAttempts /\ 0 \in 0..MaxFaults /\ 0 < MaxAttempts
  BY BoundsAssumption
<1>3. TypeOK
  <2>1. handler \in [Workers -> SlotType]
    BY <1>1
  <2>2. /\ call \in [Requests -> CallSteps] /\ event \in [Notices -> EventStates]
        /\ job \in [Notices -> JobStates] /\ lock \in [Notices -> Workers \cup {NoWorker}]
    BY DEF Init, CallSteps, EventStates, JobStates
  <2>3. attempts \in [Notices -> 0..MaxAttempts] /\ effects \in [Notices -> SUBSET Effects]
    BY <1>2 DEF Init
  <2>4. QED
    BY <1>2, <2>1, <2>2, <2>3 DEF Init, TypeOK, SlotType
<1>4. SlotsAreWhole /\ JobsAreHeld /\ ProcessedWasApplied
  BY <1>1, <1>2 DEF Init, SlotsAreWhole, JobsAreHeld, ProcessedWasApplied
<1>5. HoldersHandle /\ DoneIsApplied
  BY <1>1 DEF HoldersHandle, DoneIsApplied, At, Idle
<1>6. QED
  BY <1>3, <1>4, <1>5 DEF IInv

LEMMA InvStep == IInv /\ [Next]_vars => IInv'
<1> SUFFICES ASSUME IInv, [Next]_vars PROVE IInv'
  OBVIOUS
<1> USE DEF ingressVars, queueVars, reviewVars, historyVars
<1>1. TypeOK' /\ Forward /\ TypeOK /\ JobsAreHeld
  BY TypeStep, ForwardStep DEF IInv
<1>2. ASSUME SlotsStay PROVE IInv'
  BY <1>1, <1>2, SlotsStayStep
<1>3. ASSUME NEW r \in Requests,
             ClaimReplay(r) \/ DuplicateRequest(r) \/ CallStep(r) \/ CallFails(r) \/ CallDies(r)
      PROVE  IInv'
  BY <1>2, <1>3, IngressStep
<1>4. ASSUME NEW w \in Workers, NEW n \in Notices, Claim(w, n) PROVE IInv'
  <2>1. job[n] = "waiting" /\ handler[w] = Idle /\ attempts[n] < MaxAttempts
    BY <1>1, <1>4 DEF Claim, JobsAreHeld
  <2>2. CASE ~Claimable(n)
    BY <1>1, <1>2, <1>4, <2>1, <2>2 DEF Claim, SlotsStay, TypeOK
  <2>3. CASE Claimable(n)
    <3>1. /\ event' = [event EXCEPT ![n] = "processing"]
          /\ job' = [job EXCEPT ![n] = "active"]
          /\ lock' = [lock EXCEPT ![n] = w]
          /\ handler' = [handler EXCEPT ![w] = Slot("first", n)]
          /\ UNCHANGED <<attempts, interrupted>>
      BY <1>4, <2>3 DEF Claim, Slot
    <3>2. /\ SlotsAreWhole' /\ DoneIsApplied'
          /\ \A v \in Workers : handler'[v] = IF v = w THEN Slot("first", n) ELSE handler[v]
      <4>1. "first" \in BusySteps
        BY DEF BusySteps, HandlerSteps
      <4>2. Follows("first", n)'
        BY DEF Follows
      <4>3. QED
        BY <1>1, <3>1, <4>1, <4>2, SlotMoves
    <3>3. \A m \in Notices :
             /\ event'[m] = IF m = n THEN "processing" ELSE event[m]
             /\ job'[m] = IF m = n THEN "active" ELSE job[m]
             /\ lock'[m] = IF m = n THEN w ELSE lock[m]
      BY <1>1, <3>1 DEF TypeOK
    <3>4. JobsAreHeld'
      BY <1>1, <2>1, <3>1, <3>3 DEF JobsAreHeld
    <3>5. HoldersHandle'
      <4>1. \A v \in Workers : n \in handler[v].notice => n \in interrupted
        BY <2>1 DEF IInv, HoldersHandle
      <4>2. QED
        BY <3>1, <3>2, <3>3, <4>1 DEF IInv, HoldersHandle, Slot
    <3>6. ProcessedWasApplied'
      BY <1>1, <3>3, ProcessedStays
    <3>7. QED
      BY <1>1, <3>2, <3>4, <3>5, <3>6 DEF IInv
  <2>4. QED
    BY <2>2, <2>3
<1>5. ASSUME NEW w \in Workers, NEW n \in Notices,
             NEW step \in BusySteps, NEW next \in BusySteps,
             At(w, step, n), HandlerTo(w, next), Follows(next, n)',
             UNCHANGED <<event, queueVars, interrupted>>
      PROVE  IInv'
  <2>1. handler' = [handler EXCEPT ![w] = Slot(next, n)]
    BY <1>1, <1>5, HandlerGoesOn DEF BusySteps
  <2>2. /\ SlotsAreWhole' /\ DoneIsApplied'
        /\ \A v \in Workers : handler'[v] = IF v = w THEN Slot(next, n) ELSE handler[v]
    BY <1>1, <1>5, <2>1, SlotMoves
  <2>3. JobsAreHeld'
    BY <1>1, <1>5 DEF JobsAreHeld
  <2>4. HoldersHandle'
    BY <1>5, <2>2 DEF IInv, HoldersHandle, Slot, At
  <2>5. ProcessedWasApplied'
    BY <1>1, <1>5, ProcessedStays
  <2>6. QED
    BY <1>1, <2>2, <2>3, <2>4, <2>5 DEF IInv
<1>6. ASSUME NEW w \in Workers, NEW n \in Notices, ApplyFirst(w, n) PROVE IInv'
  <2>1. effects'[n] = effects[n] \cup ({"first"} \cap Due(n))
    BY <1>1, <1>6, EffectsTyped DEF ApplyFirst
  <2>2. Follows("second", n)'
    BY <2>1 DEF Follows
  <2>3. QED
    BY <1>5, <1>6, <2>2 DEF ApplyFirst, BusySteps, HandlerSteps
<1>7. ASSUME NEW w \in Workers, NEW n \in Notices, ApplySecond(w, n) PROVE IInv'
  <2>1. Due(n) \subseteq effects'[n]
    <3>1. effects'[n] = effects[n] \cup ({"second", "returned"} \cap Due(n))
      BY <1>1, <1>7, EffectsTyped DEF ApplySecond
    <3>2. Due(n) \cap {"first"} \subseteq effects[n]
      BY <1>7 DEF ApplySecond, IInv, DoneIsApplied, Follows, BusySteps, HandlerSteps
    <3>3. Due(n) \subseteq {"first", "second", "returned"}
      BY DEF Due
    <3>4. QED
      BY <3>1, <3>2, <3>3
  <2>2. n \in Audits \cap Scoped /\ ~archived' => review' >= OccurredAt[n]
    <3>1. /\ archived' = archived
          /\ review' = IF n \in Audits /\ WritesSecond(n) /\ UpdatesReview(n) THEN OccurredAt[n]
                                                                             ELSE review
      BY <1>7 DEF ApplySecond
    <3>2. n \in Audits \cap Scoped => WritesSecond(n)
      BY NoticeAssumption DEF WritesSecond
    <3>3. QED
      BY <1>1, <3>1, <3>2, OccurredTyped DEF UpdatesReview
  <2>3. Follows("processed", n)'
    BY <2>1, <2>2 DEF Follows, IsApplied
  <2>4. QED
    BY <1>5, <1>7, <2>3 DEF ApplySecond, BusySteps, HandlerSteps
<1>8. ASSUME NEW w \in Workers, NEW n \in Notices, HandlerFails(w, n) PROVE IInv'
  <2>1. Follows("fail", n)'
    BY DEF Follows
  <2>2. QED
    BY <1>5, <1>8, <2>1 DEF HandlerFails, BusySteps, HandlerSteps
<1>9. ASSUME NEW w \in Workers, NEW n \in Notices, MarkProcessed(w, n) PROVE IInv'
  <2>1. IsApplied(n) /\ JobEnds(w, n)
    BY <1>1, <1>9, CompleteEnds DEF MarkProcessed, IInv, DoneIsApplied, Follows, BusySteps,
                                    HandlerSteps
  <2>2. \A m \in Notices : event'[m] = "processed" => event[m] = "processed" \/ m = n
    BY <1>1, <1>9 DEF MarkProcessed, TypeOK
  <2>3. handler' = [handler EXCEPT ![w] = Idle] /\ interrupted' = interrupted
    BY <1>9 DEF MarkProcessed, Complete
  <2>4. QED
    BY <1>1, <2>1, <2>2, <2>3, EndsKeeps
<1>10. ASSUME NEW w \in Workers, NEW n \in Notices, MarkFailed(w, n) \/ MarkFailedFails(w, n)
       PROVE  IInv'
  <2>1. JobEnds(w, n) /\ handler' = [handler EXCEPT ![w] = Idle]
    BY <1>1, <1>10, RejectEnds, RejectTyped DEF MarkFailed, MarkFailedFails
  <2>2. \A m \in Notices : event'[m] = "processed" => event[m] = "processed"
    BY <1>1, <1>10 DEF MarkFailed, MarkFailedFails, TypeOK
  <2>3. interrupted \subseteq interrupted'
    BY <1>10 DEF MarkFailed, MarkFailedFails
  <2>4. QED
    BY <1>1, <2>1, <2>2, <2>3, EndsKeeps
<1>11. ASSUME NEW w \in Workers, NEW n \in Notices, WorkerDies(w, n) PROVE IInv'
  <2>1. /\ SlotsAreWhole' /\ DoneIsApplied'
        /\ \A v \in Workers : handler'[v] = IF v = w THEN Idle ELSE handler[v]
    BY <1>1, <1>11, SlotMoves DEF WorkerDies
  <2>2. UNCHANGED <<event, queueVars>> /\ interrupted' = interrupted \cup {n}
    BY <1>11 DEF WorkerDies
  <2>3. JobsAreHeld' /\ HoldersHandle'
    BY <2>1, <2>2 DEF IInv, JobsAreHeld, HoldersHandle, Idle
  <2>4. ProcessedWasApplied'
    BY <1>1, <2>2, ProcessedStays
  <2>5. QED
    BY <1>1, <2>1, <2>3, <2>4 DEF IInv
<1>12. ASSUME NEW n \in Notices, Stall(n) PROVE IInv'
  <2>1. /\ UNCHANGED <<event, handler, attempts>>
        /\ \A m \in Notices \ {n} : job'[m] = job[m] /\ lock'[m] = lock[m]
        /\ job[n] = "active" /\ job'[n] \in {"waiting", "failed"} /\ lock'[n] = NoWorker
    BY <1>1, <1>12 DEF Stall, TypeOK
  <2>2. interrupted \subseteq interrupted' /\ (Busy(n) => n \in interrupted')
    BY <1>12 DEF Stall
  <2>3. JobsAreHeld' /\ HoldersHandle'
    BY <2>1, <2>2 DEF IInv, JobsAreHeld, HoldersHandle, Busy
  <2>4. SlotsAreWhole'
    BY <2>1 DEF IInv, SlotsAreWhole, At
  <2>5. ASSUME NEW w \in Workers, NEW m \in Notices, NEW step \in BusySteps, At(w, step, m)'
        PROVE  Follows(step, m)'
    BY <1>1, <2>1, <2>5, FollowsStays DEF IInv, DoneIsApplied, At
  <2>6. ProcessedWasApplied'
    BY <1>1, <2>1, ProcessedStays
  <2>7. QED
    BY <1>1, <2>3, <2>4, <2>5, <2>6 DEF IInv, DoneIsApplied
<1>13. ASSUME NEW n \in Notices, Evict(n) PROVE IInv'
  BY <1>1, <1>2, <1>13 DEF Evict, SlotsStay, TypeOK
<1>14. CASE Archive \/ UNCHANGED vars
  BY <1>2, <1>14 DEF Archive, vars, SlotsStay
<1>15. QED
  BY <1>3, <1>4, <1>6, <1>7, <1>8, <1>9, <1>10, <1>11, <1>12, <1>13, <1>14
     DEF Next, HandlerStep

-----------------------------------------------------------------------------
(* Theorems                                                                *)

LEMMA InvHolds == Spec => []IInv
  BY InitInv, InvStep, PTL DEF Spec

\* Calls, events, jobs, locks, handlers and the review keep their shape; no job
\* fails more often than it may be attempted.
THEOREM TypeCorrect == Spec => []TypeOK
<1>1. IInv => TypeOK
  BY DEF IInv
<1>2. QED
  BY <1>1, InvHolds, PTL

\* A processed event's handler did all it has to do, and the review is not behind an
\* audit notice of a known store, whatever the order of notices, retries, lapsed
\* locks and repeated requests.
THEOREM ProcessedProven == Spec => []ProcessedWasApplied
<1>1. IInv => ProcessedWasApplied
  BY DEF IInv
<1>2. QED
  BY <1>1, InvHolds, PTL

\* Two slots work on one event only after its handling was interrupted, although
\* the event's state is written over under them.
THEOREM HandledProven == Spec => []HandledOneAtATime
<1>1. IInv => HandledOneAtATime
  BY DEF IInv, HoldersHandle, HandledOneAtATime
<1>2. QED
  BY <1>1, InvHolds, PTL

\* No notice takes the review back in time, or changes it once it is archived.
THEOREM ReviewProven == Spec => ReviewNeverRegresses
<1>1. IInv /\ [Next]_vars =>
        [review <= review' /\ (archived => review' = review)]_reviewVars
  BY ForwardStep DEF IInv, Forward
<1>2. QED
  BY <1>1, InvHolds, PTL DEF Spec, ReviewNeverRegresses
=============================================================================
