--------------------------- MODULE WebhookPipeline ---------------------------
(***************************************************************************)
(* The path of a SHEIN notice: the signed request and its replay key       *)
(* (shein-webhook.js, webhook-replay-store.js), the stored event and its   *)
(* job (webhook-ingress.js, webhook-event-store.js), the worker and the    *)
(* production handlers (webhook-worker.js, webhook-production-             *)
(* projections.js), down to the review state of a document.  Requests are  *)
(* repeated, calls and workers die or fail between any two steps.          *)
(*                                                                         *)
(* External: SHEIN, which sends a notice again until it reads a 200, in    *)
(* the same signed request or in a fresh one; BullMQ, whose job keeps its  *)
(* id until it is evicted, whose failed attempts are repeated and whose    *)
(* stalled jobs are delivered again.                                       *)
(*                                                                         *)
(* Abstractions.  A notice is its dedupe key: app, type, store and         *)
(* canonical payload, with one record.  All audit notices are about one    *)
(* review key; what is in neither Audits nor Receives is about the         *)
(* business data of a store (the type that is only stored is left out).  A *)
(* replay key expires when its request's timestamp has become too old to   *)
(* pass, so expiry is left out.  saveProjection is part of markProcessed.  *)
(* A handler's last database call and the end of its job are one step: if  *)
(* they are torn apart, the job is delivered again, as after a lapse.      *)
(***************************************************************************)
EXTENDS Naturals

CONSTANTS
    Notices,        \* webhook notices, equal payloads being one notice
    Requests,       \* signed requests
    Carriages,      \* the ways the notices may be spread over the requests
    Audits,         \* notices on the review of the document
    Receives,       \* notices on the reception of the document
    Scoped,         \* notices that were stored with tenant and store
    OccurredAt,     \* auditTime of those, 0 when it cannot be read
    Workers,        \* handler slots of the webhook workers
    NoWorker,       \* a job nobody holds
    MaxAttempts,    \* attempts of a job
    MaxFaults       \* bound on failures, deaths and lapsed locks

ASSUME NoticeAssumption ==
    /\ Carriages \subseteq [Requests -> Notices]
    /\ Audits \subseteq Notices /\ Receives \subseteq Notices /\ Audits \cap Receives = {}
    /\ Scoped \subseteq Notices
    /\ OccurredAt \in [Audits -> Nat]
ASSUME WorkerAssumption == NoWorker \notin Workers
ASSUME BoundsAssumption == MaxAttempts \in Nat \ {0} /\ MaxFaults \in Nat

VARIABLES
    carries,        \* the notice a signed request carries
    replay,         \* replay keys claimed in Redis
    call,           \* how far the call that serves a request is
    acked,          \* notices SHEIN has read a 200 for
    accepted,       \* notices ingest has reported as accepted
    event,          \* webhook_events.state, "absent" without a row
    job,            \* BullMQ: the state of the job of the event
    lock,           \* BullMQ: the slot that holds the job
    attempts,       \* BullMQ: failed attempts of the job
    handler,        \* what each slot works on and how far it is
    effects,        \* what the handler did at least once, see Due
    review,         \* product_review_states.occurred_at, 0 for none
    archived,       \* product_review_states.archived_at is set
    interrupted,    \* notices whose handling died, lost its lock or its state update
    exhausted,      \* notices whose job failed for good
    faults          \* failures, deaths and lapsed locks so far

ingressVars == <<carries, replay, call, acked, accepted>>
queueVars   == <<job, lock, attempts>>
reviewVars  == <<review, archived>>
historyVars == <<interrupted, exhausted, faults>>
vars == <<ingressVars, event, queueVars, handler, effects, reviewVars, historyVars>>

EventStates == {"absent", "received", "queued", "processing", "processed", "failed"}
JobStates   == {"none", "waiting", "active", "completed", "failed"}
CallSteps   == {"none", "insert", "add", "mark", "unmark"}
Idle        == [step |-> "none", notice |-> {}]
HandlerSteps == {"none", "first", "second", "processed", "fail"}
Effects      == {"first", "second", "returned"}

Init ==
    /\ carries \in Carriages
    /\ replay = {}
    /\ call = [r \in Requests |-> "none"]
    /\ acked = {}
    /\ accepted = {}
    /\ event = [n \in Notices |-> "absent"]
    /\ job = [n \in Notices |-> "none"]
    /\ lock = [n \in Notices |-> NoWorker]
    /\ attempts = [n \in Notices |-> 0]
    /\ handler = [w \in Workers |-> Idle]
    /\ effects = [n \in Notices |-> {}]
    /\ review = 0
    /\ archived = FALSE
    /\ interrupted = {}
    /\ exhausted = {}
    /\ faults = 0

Fault == faults < MaxFaults /\ faults' = faults + 1

-----------------------------------------------------------------------------
(* The webhook server                                                      *)

Go(r, step) == call' = [call EXCEPT ![r] = step]

\* The 200 reaches SHEIN, or is lost on its way.
Answered(n) == acked' \in {acked, acked \cup {n}}

\* A request passes the adapter: its replay key was free and is claimed.
ClaimReplay(r) ==
    /\ carries[r] \notin acked
    /\ r \notin replay
    /\ call[r] = "none"
    /\ replay' = replay \cup {r}
    /\ Go(r, "insert")
    /\ UNCHANGED <<carries, acked, accepted, event, queueVars, handler, effects, reviewVars, historyVars>>

\* A repeated request is answered 200 at once, however its first copy fares.
DuplicateRequest(r) ==
    /\ carries[r] \notin acked
    /\ r \in replay
    /\ Answered(carries[r])
    /\ UNCHANGED <<carries, replay, call, accepted, event, queueVars, handler, effects, reviewVars, historyVars>>

\* Mutant: any stored notice is a duplicate, also one that was never queued.
AlreadyStored(n) == event[n] # "absent"

\* insert found a row that is past "received": nothing is left to do.
IsDuplicate(n) == event[n] \notin {"absent", "received"}

\* ingest: the event is stored, or its stored state is read.
Insert(r) ==
    LET n == carries[r] IN
    /\ call[r] = "insert"
    /\ IF IsDuplicate(n)
       THEN /\ accepted' = accepted \cup {n}
            /\ Answered(n)
            /\ Go(r, "none")
            /\ UNCHANGED event
       ELSE /\ event' = [event EXCEPT ![n] = "received"]
            /\ Go(r, "add")
            /\ UNCHANGED <<acked, accepted>>
    /\ UNCHANGED <<carries, replay, queueVars, handler, effects, reviewVars, historyVars>>

\* Mutants: the job is added delayed; every add makes a job, as without the
\* event id for job id.
AddDelayed(n) ==
    /\ job' = [job EXCEPT ![n] = IF @ = "none" THEN "delayed" ELSE @]
    /\ UNCHANGED <<lock, attempts>>
AddAgain(n) ==
    /\ job' = [job EXCEPT ![n] = "waiting"]
    /\ attempts' = [attempts EXCEPT ![n] = 0]
    /\ lock' = [lock EXCEPT ![n] = NoWorker]

\* queue.add with the event id as job id: nothing changes while the job is kept.
Added(n) ==
    /\ job' = [job EXCEPT ![n] = IF @ = "none" THEN "waiting" ELSE @]
    /\ attempts' = [attempts EXCEPT ![n] = IF job[n] = "none" THEN 0 ELSE @]
    /\ UNCHANGED lock

AddJob(r) ==
    /\ call[r] = "add"
    /\ Added(carries[r])
    /\ Go(r, "mark")
    /\ UNCHANGED <<carries, replay, acked, accepted, event, handler, effects, reviewVars, historyVars>>

\* markQueued, whatever has become of the event since.
MarkQueued(r) ==
    LET n == carries[r] IN
    /\ call[r] = "mark"
    /\ event' = [event EXCEPT ![n] = "queued"]
    /\ accepted' = accepted \cup {n}
    /\ Answered(n)
    /\ Go(r, "none")
    /\ UNCHANGED <<carries, replay, queueVars, handler, effects, reviewVars, historyVars>>

\* markQueueFailed, whatever has become of the event since; the server then
\* releases the replay key and answers 500.
MarkQueueFailed(r) ==
    /\ call[r] = "unmark"
    /\ event' = [event EXCEPT ![carries[r]] = "received"]
    /\ replay' = replay \ {r}
    /\ Go(r, "none")
    /\ UNCHANGED <<carries, acked, accepted, queueVars, handler, effects, reviewVars, historyVars>>

\* A step of the call fails.  A failed add, with or without effect on the
\* queue, and a failed markQueued are recorded first; the replay key is
\* released, if that does not fail as well.
CallFails(r) ==
    /\ Fault
    /\ \/ /\ call[r] \in {"insert", "unmark"}
          /\ Go(r, "none")
          /\ replay' \in {replay, replay \ {r}}
          /\ UNCHANGED queueVars
       \/ /\ call[r] \in {"add", "mark"}
          /\ Go(r, "unmark")
          /\ UNCHANGED queueVars \/ (call[r] = "add" /\ Added(carries[r]))
          /\ UNCHANGED replay
    /\ UNCHANGED <<carries, acked, accepted, event, handler, effects, reviewVars, interrupted, exhausted>>

\* The server dies: SHEIN reads no answer, the replay key stays.
CallDies(r) ==
    /\ call[r] # "none"
    /\ Fault
    /\ Go(r, "none")
    /\ UNCHANGED <<carries, replay, acked, accepted, event, queueVars, handler, effects, reviewVars, interrupted, exhausted>>

-----------------------------------------------------------------------------
(* The webhook worker: processWebhookJob                                   *)

At(w, step, n) == handler[w] = [step |-> step, notice |-> {n}]
HandlerTo(w, step) == handler' = [handler EXCEPT ![w].step = step]
Busy(n) == \E w \in Workers : n \in handler[w].notice

\* States from which claim takes the event.
Claimable(n) == event[n] \in {"received", "queued", "failed"}

\* BullMQ hands a waiting job to a free slot, which claims the event; an event
\* it does not get completes the job as skipped.
Claim(w, n) ==
    /\ handler[w] = Idle
    /\ job[n] = "waiting"
    /\ IF Claimable(n)
       THEN /\ event' = [event EXCEPT ![n] = "processing"]
            /\ job' = [job EXCEPT ![n] = "active"]
            /\ lock' = [lock EXCEPT ![n] = w]
            /\ handler' = [handler EXCEPT ![w] = [step |-> "first", notice |-> {n}]]
       ELSE /\ job' = [job EXCEPT ![n] = "completed"]
            /\ UNCHANGED <<event, lock, handler>>
    /\ UNCHANGED <<ingressVars, attempts, effects, reviewVars, historyVars>>

\* The handlers of the document notices append their receipts, with or without the
\* store of the event; those of business notices project only into a known store.
WritesFirst(n) == n \in Audits \cup Receives \cup Scoped

\* Only audit and business notices have a second write, and only with tenant and
\* store: a trusted proxy names none, and an open key may be unknown.
WritesSecond(n) == n \in Scoped \ Receives

\* All that the handler of a notice does: its writes, and to return.
Due(n) ==
    {"returned"} \cup (IF WritesFirst(n) THEN {"first"} ELSE {})
                 \cup (IF WritesSecond(n) THEN {"second"} ELSE {})

Applied(n, done) == effects' = [effects EXCEPT ![n] = @ \cup (done \cap Due(n))]

\* Receipts of a document notice, or the projection of a business notice.
ApplyFirst(w, n) ==
    /\ At(w, "first", n)
    /\ Applied(n, {"first"})
    /\ HandlerTo(w, "second")
    /\ UNCHANGED <<ingressVars, event, queueVars, reviewVars, historyVars>>

\* Mutants: the last notice to come wins; an archived review is updated.
AnyNotice(n)   == ~archived
ArchivedToo(n) == review = 0 \/ OccurredAt[n] >= review

\* The WHERE of saveDocumentStates: not archived, and not older than the row.
UpdatesReview(n) ==
    /\ ~archived
    /\ \/ review = 0
       \/ OccurredAt[n] # 0 /\ OccurredAt[n] >= review

\* saveDocumentStates of an audit notice, or markBusinessInvalidated; without a
\* second write the handler just returns.
ApplySecond(w, n) ==
    /\ At(w, "second", n)
    /\ Applied(n, {"second", "returned"})
    /\ review' = IF n \in Audits /\ WritesSecond(n) /\ UpdatesReview(n) THEN OccurredAt[n]
                                                                       ELSE review
    /\ HandlerTo(w, "processed")
    /\ UNCHANGED <<ingressVars, event, queueVars, archived, historyVars>>

\* The job completes, if the slot still holds it.
Complete(w, n) ==
    /\ job' = [job EXCEPT ![n] = IF lock[n] = w THEN "completed" ELSE @]
    /\ lock' = [lock EXCEPT ![n] = IF @ = w THEN NoWorker ELSE @]
    /\ handler' = [handler EXCEPT ![w] = Idle]

\* The attempt fails: the job goes back to its queue, or fails for good.
Reject(w, n) ==
    /\ handler' = [handler EXCEPT ![w] = Idle]
    /\ IF lock[n] # w
       THEN UNCHANGED <<queueVars, exhausted>>
       ELSE LET last == attempts[n] + 1 = MaxAttempts IN
            /\ attempts' = [attempts EXCEPT ![n] = @ + 1]
            /\ job' = [job EXCEPT ![n] = IF last THEN "failed" ELSE "waiting"]
            /\ exhausted' = IF last THEN exhausted \cup {n} ELSE exhausted
            /\ lock' = [lock EXCEPT ![n] = NoWorker]

MarkProcessed(w, n) ==
    /\ At(w, "processed", n)
    /\ event' = [event EXCEPT ![n] = "processed"]
    /\ Complete(w, n)
    /\ UNCHANGED <<ingressVars, attempts, effects, reviewVars, historyVars>>

MarkFailed(w, n) ==
    /\ At(w, "fail", n)
    /\ event' = [event EXCEPT ![n] = "failed"]
    /\ Reject(w, n)
    /\ UNCHANGED <<ingressVars, effects, reviewVars, interrupted, faults>>

\* The handler or markProcessed throws.
HandlerFails(w, n) ==
    /\ \E step \in {"first", "second", "processed"} : At(w, step, n)
    /\ HandlerTo(w, "fail")
    /\ Fault
    /\ UNCHANGED <<ingressVars, event, queueVars, effects, reviewVars, interrupted, exhausted>>

\* markFailed throws, as whatever stopped the handler goes on: the event stays
\* in processing.
MarkFailedFails(w, n) ==
    /\ At(w, "fail", n)
    /\ Reject(w, n)
    /\ interrupted' = interrupted \cup {n}
    /\ UNCHANGED <<ingressVars, event, effects, reviewVars, faults>>

\* The worker dies and leaves job and event as they are.
WorkerDies(w, n) ==
    /\ n \in handler[w].notice
    /\ handler' = [handler EXCEPT ![w] = Idle]
    /\ interrupted' = interrupted \cup {n}
    /\ Fault
    /\ UNCHANGED <<ingressVars, event, queueVars, effects, reviewVars, exhausted>>

\* BullMQ takes a job whose lock has lapsed for stalled and queues it again,
\* or fails it.  That its slot is still at work is a fault.
Stall(n) ==
    /\ job[n] = "active"
    /\ IF Busy(n)
       THEN Fault /\ interrupted' = interrupted \cup {n}
       ELSE UNCHANGED <<interrupted, faults>>
    /\ \/ job' = [job EXCEPT ![n] = "waiting"] /\ UNCHANGED exhausted
       \/ job' = [job EXCEPT ![n] = "failed"] /\ exhausted' = exhausted \cup {n}
    /\ lock' = [lock EXCEPT ![n] = NoWorker]
    /\ UNCHANGED <<ingressVars, event, attempts, handler, effects, reviewVars>>

\* Finished jobs beyond the newest thousands are removed.
Evict(n) ==
    /\ job[n] \in {"completed", "failed"}
    /\ job' = [job EXCEPT ![n] = "none"]
    /\ UNCHANGED <<ingressVars, event, lock, attempts, handler, effects, reviewVars, historyVars>>

\* A user archives the review.
Archive ==
    /\ ~archived
    /\ archived' = TRUE
    /\ UNCHANGED <<ingressVars, event, queueVars, handler, effects, review, historyVars>>

-----------------------------------------------------------------------------
CallStep(r) ==
    \/ Insert(r)
    \/ AddJob(r)
    \/ MarkQueued(r)
    \/ MarkQueueFailed(r)

HandlerStep(w) ==
    \E n \in Notices :
        \/ ApplyFirst(w, n)
        \/ ApplySecond(w, n)
        \/ MarkProcessed(w, n)
        \/ MarkFailed(w, n)

Next ==
    \/ \E r \in Requests :
          ClaimReplay(r) \/ DuplicateRequest(r) \/ CallStep(r) \/ CallFails(r) \/ CallDies(r)
    \/ \E w \in Workers :
          \/ HandlerStep(w)
          \/ \E n \in Notices :
                Claim(w, n) \/ HandlerFails(w, n) \/ MarkFailedFails(w, n) \/ WorkerDies(w, n)
    \/ \E n \in Notices : Stall(n) \/ Evict(n)
    \/ Archive

Spec == Init /\ [][Next]_vars

\* Running calls and handlers proceed, the queue serves its jobs and notices
\* the stalled ones.  Nothing is assumed of SHEIN and of faults.
Fairness ==
    /\ \A r \in Requests : WF_vars(CallStep(r))
    /\ \A w \in Workers : WF_vars(HandlerStep(w))
    /\ \A n \in Notices :
          /\ WF_vars(\E w \in Workers : Claim(w, n))
          /\ WF_vars(~Busy(n) /\ Stall(n))

FairSpec == Spec /\ Fairness

-----------------------------------------------------------------------------
(* Properties                                                              *)

TypeOK ==
    /\ carries \in Carriages
    /\ replay \subseteq Requests
    /\ call \in [Requests -> CallSteps]
    /\ acked \subseteq Notices
    /\ accepted \subseteq Notices
    /\ event \in [Notices -> EventStates]
    /\ job \in [Notices -> JobStates]
    /\ lock \in [Notices -> Workers \cup {NoWorker}]
    /\ attempts \in [Notices -> 0..MaxAttempts]
    /\ handler \in [Workers -> [step : HandlerSteps, notice : SUBSET Notices]]
    /\ effects \in [Notices -> SUBSET Effects]
    /\ review \in {0} \cup {OccurredAt[n] : n \in Audits}
    /\ archived \in BOOLEAN
    /\ interrupted \subseteq Notices
    /\ exhausted \subseteq Notices
    /\ faults \in 0..MaxFaults

\* An event is processed only once its handler did all it has to do, and for an
\* audit notice of a known store the review then is at least as recent as the
\* notice, whatever order, retries and repeated deliveries the notices came in.  An
\* event without tenant or store is processed without its review or business write,
\* and nothing makes up for it later.
ProcessedWasApplied ==
    \A n \in Notices : event[n] = "processed" =>
        /\ Due(n) \subseteq effects[n]
        /\ n \in Audits \cap Scoped /\ ~archived => review >= OccurredAt[n]

\* Two handlers are at work on one event only after a lock lapsed, although
\* markQueued and markQueueFailed write over the state that claim relies on.
HandledOneAtATime ==
    \A w1, w2 \in Workers, n \in Notices :
        /\ w1 # w2
        /\ \A w \in {w1, w2} : handler[w] \in [step : {"first", "second", "processed", "fail"}, notice : {{n}}]
        => n \in interrupted

\* A late notice never takes a review back in time, and no notice changes an
\* archived review.
ReviewNeverRegresses ==
    [][review <= review' /\ (archived => review' = review)]_reviewVars

\* A notice that ingest reported as accepted is handled to the end, with all writes
\* its handler has for it, unless its job ran out of attempts or its handling was
\* interrupted: no combination of failed adds, failed updates and repeated requests
\* loses it silently.  (The handler itself leaves out the review or business write of
\* an event without tenant or store.)
AcceptedNoticeHandled ==
    \A n \in Notices :
        n \in accepted ~> Due(n) \subseteq effects[n] \/ n \in exhausted \cup interrupted
=============================================================================
