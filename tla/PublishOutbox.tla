---------------------------- MODULE PublishOutbox ----------------------------
(***************************************************************************)
(* The transactional outbox between the consumed authorization and the    *)
(* publish queue: outbox-dispatcher.js with job-queue.js.  The commands of *)
(* a run are committed with the run; dispatchers lease them in batches,    *)
(* add them to BullMQ under the command's id and mark them dispatched;     *)
(* leases lapse, adds and database calls fail, dispatchers die between any *)
(* two steps.                                                              *)
(*                                                                         *)
(* External: BullMQ (add does nothing while a job of that id exists; a     *)
(* finished or failed job is removed, so its id can be added again) and    *)
(* the consumer.                                                           *)
(*                                                                         *)
(* Abstractions.  Time is two facts: available (available_at has passed)   *)
(* and leaseLapsed (lease_expires_at has passed).  lease_id is             *)
(* dispatcherId and event id, so an event's lease is named by its          *)
(* dispatcherId, and two dispatchers of one pid share it.                  *)
(* dispatch_attempts only lengthens the back-off and is left out.          *)
(*                                                                         *)
(* The names of the specification begin with Outbox, so that a module can  *)
(* extend this one together with PublishProtocol.                          *)
(***************************************************************************)
EXTENDS Naturals, FiniteSets

CONSTANTS
    Commands,       \* publish jobs of the run; one outbox event each
    Dispatchers,    \* dispatcher processes
    DispatcherIds,  \* dispatcherIds; processes of one pid share theirs
    NoLease,        \* lease_id = NULL
    BatchSize,      \* events claimed per tick
    MaxFaults       \* bound on crashes, failed calls and overrun leases

ASSUME IdsAssumption == DispatcherIds # {} /\ NoLease \notin DispatcherIds
ASSUME BoundsAssumption == BatchSize \in Nat \ {0} /\ MaxFaults \in Nat

VARIABLES
    idOf,           \* dispatcherId of each dispatcher process
    committed,      \* the consuming transaction has committed
    event,          \* publish_outbox_events.state, "absent" before commit
    lease,          \* publish_outbox_events.lease_id
    leaseLapsed,    \* publish_outbox_events.lease_expires_at has passed
    available,      \* publish_outbox_events.available_at has passed
    todo,           \* claimed events a dispatcher still has to work on
    current,        \* the event a dispatcher works on and how far it is
    queue,          \* BullMQ: the job of the command
    deliveries,     \* the command has reached a worker
    faults          \* crashes, failed calls and overrun leases so far

tableVars == <<committed, event, lease, leaseLapsed, available>>
outboxVars == <<idOf, tableVars, todo, current, queue, deliveries, faults>>

EventStates == {"absent", "pending", "dispatching", "dispatched"}
None == [step |-> "none", events |-> {}]

OutboxInit ==
    /\ idOf \in [Dispatchers -> DispatcherIds]
    /\ committed = FALSE
    /\ event = [c \in Commands |-> "absent"]
    /\ lease = [c \in Commands |-> NoLease]
    /\ leaseLapsed = [c \in Commands |-> FALSE]
    /\ available = [c \in Commands |-> FALSE]
    /\ todo = [d \in Dispatchers |-> {}]
    /\ current = [d \in Dispatchers |-> None]
    /\ queue = [c \in Commands |-> "none"]
    /\ deliveries = [c \in Commands |-> FALSE]
    /\ faults = 0

\* createPublishOutboxEvents inside the transaction that consumes the
\* authorization: all events appear with the running run, or none.
CommitRun ==
    /\ ~committed
    /\ committed' = TRUE
    /\ event' = [c \in Commands |-> "pending"]
    /\ available' = [c \in Commands |-> TRUE]
    /\ UNCHANGED <<idOf, lease, leaseLapsed, todo, current, queue, deliveries, faults>>

\* available_at passes.
BackoffEnds(c) ==
    /\ event[c] = "pending"
    /\ ~available[c]
    /\ available' = [available EXCEPT ![c] = TRUE]
    /\ UNCHANGED <<idOf, committed, event, lease, leaseLapsed, todo, current, queue, deliveries, faults>>

\* Some dispatcher that the lease names still has the event in its batch.
HolderAtWork(c) ==
    \E d \in Dispatchers :
        /\ idOf[d] = lease[c]
        /\ c \in todo[d] \cup current[d].events

\* lease_expires_at passes.  That the holder is still at work is a fault: its
\* batch took longer than the lease.
LeaseLapses(c) ==
    /\ event[c] = "dispatching"
    /\ ~leaseLapsed[c]
    /\ IF HolderAtWork(c)
       THEN faults < MaxFaults /\ faults' = faults + 1
       ELSE UNCHANGED faults
    /\ leaseLapsed' = [leaseLapsed EXCEPT ![c] = TRUE]
    /\ UNCHANGED <<idOf, committed, event, lease, available, todo, current, queue, deliveries>>

-----------------------------------------------------------------------------
(* One tick of a dispatcher: dispatchOutboxOnce                            *)

\* Mutant: lapsed leases are not looked for.
DueOnly(c) == event[c] = "pending" /\ available[c]

\* A due event, or one whose lease has lapsed with its dispatcher.
Claimable(c) ==
    \/ event[c] = "pending" /\ available[c]
    \/ event[c] = "dispatching" /\ leaseLapsed[c]

\* tick() does nothing while a tick runs.
Ticking(d) == todo[d] # {} \/ current[d].step # "none"

\* claimPending: up to BatchSize claimable events, in one transaction.
ClaimPending(d) ==
    /\ ~Ticking(d)
    /\ \E batch \in SUBSET {c \in Commands : Claimable(c)} :
        /\ batch # {}
        /\ \/ Cardinality(batch) = BatchSize
           \/ batch = {c \in Commands : Claimable(c)} /\ Cardinality(batch) < BatchSize
        /\ event' = [c \in Commands |-> IF c \in batch THEN "dispatching" ELSE event[c]]
        /\ lease' = [c \in Commands |-> IF c \in batch THEN idOf[d] ELSE lease[c]]
        /\ leaseLapsed' = [c \in Commands |-> IF c \in batch THEN FALSE ELSE leaseLapsed[c]]
        /\ todo' = [todo EXCEPT ![d] = batch]
    /\ UNCHANGED <<idOf, committed, available, current, queue, deliveries, faults>>

\* Mutants: the add is not awaited and gets lost; the job is added delayed.
AddLost(c)    == queue
AddDelayed(c) == [queue EXCEPT ![c] = IF @ = "none" THEN "delayed" ELSE @]

\* queue.add under the command's id: nothing changes while the job exists.
Added(c) == [queue EXCEPT ![c] = IF @ = "none" THEN "waiting" ELSE @]

\* The next claimed event is added to the queue.
AddToQueue(d) ==
    /\ current[d].step = "none"
    /\ \E c \in todo[d] :
        /\ queue' = Added(c)
        /\ todo' = [todo EXCEPT ![d] = @ \ {c}]
        /\ current' = [current EXCEPT ![d] = [step |-> "mark", events |-> {c}]]
    /\ UNCHANGED <<idOf, tableVars, deliveries, faults>>

\* The add fails, with or without effect.
AddFails(d) ==
    /\ current[d].step = "none"
    /\ faults < MaxFaults
    /\ \E c \in todo[d] :
        /\ queue' \in {queue, Added(c)}
        /\ todo' = [todo EXCEPT ![d] = @ \ {c}]
        /\ current' = [current EXCEPT ![d] = [step |-> "fail", events |-> {c}]]
    /\ faults' = faults + 1
    /\ UNCHANGED <<idOf, tableVars, deliveries>>

\* The lease on record is this dispatcher's, as far as its id tells.
HoldsLease(d, c) == event[c] = "dispatching" /\ lease[c] = idOf[d]

\* Mutant: the event always becomes due again.
NeverDone(c, next) ==
    /\ event' = [event EXCEPT ![c] = "pending"]
    /\ leaseLapsed' = [leaseLapsed EXCEPT ![c] = FALSE]
    /\ lease' = [lease EXCEPT ![c] = NoLease]

\* The event leaves its lease for its next state.
Settle(c, next) ==
    /\ event' = [event EXCEPT ![c] = next]
    /\ leaseLapsed' = [leaseLapsed EXCEPT ![c] = FALSE]
    /\ lease' = [lease EXCEPT ![c] = NoLease]

\* markDispatched; a lost lease is an error and goes to the failure path.
MarkDispatched(d, c) ==
    /\ current[d] = [step |-> "mark", events |-> {c}]
    /\ IF HoldsLease(d, c)
       THEN /\ Settle(c, "dispatched")
            /\ current' = [current EXCEPT ![d] = None]
       ELSE /\ current' = [current EXCEPT ![d].step = "fail"]
            /\ UNCHANGED <<event, lease, leaseLapsed>>
    /\ UNCHANGED <<idOf, committed, available, todo, queue, deliveries, faults>>

\* The database call of markDispatched fails and changes nothing.
MarkFails(d, c) ==
    /\ current[d] = [step |-> "mark", events |-> {c}]
    /\ faults < MaxFaults
    /\ current' = [current EXCEPT ![d].step = "fail"]
    /\ faults' = faults + 1
    /\ UNCHANGED <<idOf, tableVars, todo, queue, deliveries>>

\* markDispatchFailure: back to pending after a back-off, if the lease holds.
MarkDispatchFailure(d, c) ==
    /\ current[d] = [step |-> "fail", events |-> {c}]
    /\ IF HoldsLease(d, c)
       THEN /\ Settle(c, "pending")
            /\ available' = [available EXCEPT ![c] = FALSE]
       ELSE UNCHANGED <<event, lease, leaseLapsed, available>>
    /\ current' = [current EXCEPT ![d] = None]
    /\ UNCHANGED <<idOf, committed, todo, queue, deliveries, faults>>

\* The dispatcher dies, or markDispatchFailure throws and ends the tick: the
\* rest of the batch is left to the leases.
TickDies(d) ==
    /\ Ticking(d)
    /\ faults < MaxFaults
    /\ todo' = [todo EXCEPT ![d] = {}]
    /\ current' = [current EXCEPT ![d] = None]
    /\ faults' = faults + 1
    /\ UNCHANGED <<idOf, tableVars, queue, deliveries>>

-----------------------------------------------------------------------------
(* BullMQ and its consumer                                                 *)

Deliver(c) ==
    /\ queue[c] = "waiting"
    /\ queue' = [queue EXCEPT ![c] = "active"]
    /\ deliveries' = [deliveries EXCEPT ![c] = TRUE]
    /\ UNCHANGED <<idOf, tableVars, todo, current, faults>>

\* The job ends, well or badly, and is removed.
Remove(c) ==
    /\ queue[c] = "active"
    /\ queue' = [queue EXCEPT ![c] = "none"]
    /\ UNCHANGED <<idOf, tableVars, todo, current, deliveries, faults>>

-----------------------------------------------------------------------------
DispatcherStep(d) ==
    \/ ClaimPending(d)
    \/ AddToQueue(d)
    \/ \E c \in Commands : MarkDispatched(d, c) \/ MarkDispatchFailure(d, c)

Fault(d) ==
    \/ AddFails(d)
    \/ \E c \in Commands : MarkFails(d, c)
    \/ TickDies(d)

OutboxNext ==
    \/ CommitRun
    \/ \E d \in Dispatchers : DispatcherStep(d) \/ Fault(d)
    \/ \E c \in Commands : BackoffEnds(c) \/ LeaseLapses(c) \/ Deliver(c) \/ Remove(c)

OutboxSpec == OutboxInit /\ [][OutboxNext]_outboxVars

\* The interval timer keeps ticking, a running tick proceeds, time passes and
\* the queue serves its consumers.  Nothing is assumed of faults.
OutboxFairness ==
    /\ \A d \in Dispatchers : WF_outboxVars(DispatcherStep(d))
    /\ \A c \in Commands :
          /\ WF_outboxVars(BackoffEnds(c))
          /\ WF_outboxVars(~HolderAtWork(c) /\ LeaseLapses(c))
          /\ WF_outboxVars(Deliver(c))
          /\ WF_outboxVars(Remove(c))

OutboxFairSpec == OutboxSpec /\ OutboxFairness

-----------------------------------------------------------------------------
(* Properties                                                              *)

OutboxTypeOK ==
    /\ idOf \in [Dispatchers -> DispatcherIds]
    /\ committed \in BOOLEAN
    /\ event \in [Commands -> EventStates]
    /\ lease \in [Commands -> DispatcherIds \cup {NoLease}]
    /\ leaseLapsed \in [Commands -> BOOLEAN]
    /\ available \in [Commands -> BOOLEAN]
    /\ todo \in [Dispatchers -> SUBSET Commands]
    /\ current \in [Dispatchers -> [step : {"none", "mark", "fail"}, events : SUBSET Commands]]
    /\ queue \in [Commands -> {"none", "waiting", "active"}]
    /\ deliveries \in [Commands -> BOOLEAN]
    /\ faults \in 0..MaxFaults

\* Every committed command reaches a worker, despite failed adds, lost leases
\* and dispatchers that die in the middle of a batch.
EveryCommandDelivered == \A c \in Commands : committed ~> deliveries[c]

\* Dispatchers that can tell their leases apart come to rest: every event is
\* eventually dispatched for good.  Dispatchers of one pid need not: each may
\* go on giving up the lease that the other one has just taken.
DistinctIds == \A d, e \in Dispatchers : idOf[d] = idOf[e] => d = e
EventuallyAllDispatched ==
    DistinctIds /\ committed ~> [](\A c \in Commands : event[c] = "dispatched")
=============================================================================
