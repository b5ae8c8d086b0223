------------------------ MODULE PublishWriteContract ------------------------
(***************************************************************************)
(* What the publish pipeline promises about remote writes, and nothing     *)
(* else: which request may be handed to a worker, how often, and what each *)
(* outcome allows next.  It is the skeleton of the request states of       *)
(* publish-execution-protocol.js without readbacks, leases, workers and    *)
(* storage.  PublishProtocol (the in-memory protocol) and PublishExecution *)
(* (the SQL repository and the worker) both implement it.                  *)
(***************************************************************************)
EXTENDS Naturals

CONSTANTS
    Requests,       \* the requests of one frozen execution plan
    MaxAttempts     \* bound on the claims of a request, for the model only

VARIABLES
    open,       \* the one-shot authorization is consumed and not yet finished
    phase,      \* state of each request
    attempts    \* number of claims of each request

vars == <<open, phase, attempts>>

Claimable == {"authorized", "failed_retryable"}
Settled   == {"submitted", "result_unknown", "failed_retryable", "failed_terminal"}
Phases    == Claimable \cup Settled \cup {"claimed", "completed"}

TypeOK ==
    /\ open \in BOOLEAN
    /\ phase \in [Requests -> Phases]
    /\ attempts \in [Requests -> 0..MaxAttempts]

Init ==
    /\ open = FALSE
    /\ phase = [r \in Requests |-> "authorized"]
    /\ attempts = [r \in Requests |-> 0]

\* The authorization is consumed, once: nothing reopens it.
Open ==
    /\ ~open
    /\ \A r \in Requests : phase[r] = "authorized"
    /\ open' = TRUE
    /\ UNCHANGED <<phase, attempts>>

\* A worker receives the right to perform one remote write.
Grant(r) ==
    /\ open
    /\ phase[r] \in Claimable
    /\ attempts[r] < MaxAttempts
    /\ phase' = [phase EXCEPT ![r] = "claimed"]
    /\ attempts' = [attempts EXCEPT ![r] = @ + 1]
    /\ UNCHANGED open

\* The right is given back with an outcome, or taken back as result_unknown.
Settle(r) ==
    /\ open
    /\ phase[r] = "claimed"
    /\ \E outcome \in Settled : phase' = [phase EXCEPT ![r] = outcome]
    /\ UNCHANGED <<open, attempts>>

\* Remote evidence shows that an unknown write was accepted.
Recover(r) ==
    /\ open
    /\ phase[r] = "result_unknown"
    /\ phase' = [phase EXCEPT ![r] = "submitted"]
    /\ UNCHANGED <<open, attempts>>

\* The last readback of a request.  The authorization stays open at least until
\* every request is completed.
Finish(r) ==
    /\ open
    /\ phase[r] = "submitted"
    /\ phase' = [phase EXCEPT ![r] = "completed"]
    /\ open' \in BOOLEAN
    /\ ~open' => \A q \in Requests : phase'[q] = "completed"
    /\ UNCHANGED attempts

\* A completed plan is closed.
Close ==
    /\ open
    /\ \A r \in Requests : phase[r] = "completed"
    /\ open' = FALSE
    /\ UNCHANGED <<phase, attempts>>

Next ==
    \/ Open
    \/ Close
    \/ \E r \in Requests : Grant(r) \/ Settle(r) \/ Recover(r) \/ Finish(r)

Spec == Init /\ [][Next]_vars

-----------------------------------------------------------------------------
(* What the owner of a plan may rely on                                    *)

\* A request that was accepted, failed for good or whose result is unknown is
\* never handed to a worker again.
Over      == {"submitted", "result_unknown", "failed_terminal", "completed"}
OverStays  == \A r \in Requests : phase[r] \in Over => phase'[r] \in Over /\ attempts'[r] = attempts[r]
WritesEnd == [][OverStays]_vars

\* A plan that is not open was never written from, or all of it is completed.
ClosedIsWhole ==
    \/ open
    \/ \A r \in Requests : phase[r] = "authorized" /\ attempts[r] = 0
    \/ \A r \in Requests : phase[r] = "completed"

\* A plan that was worked on and is closed is not opened again.
ClosedStays   == ~open /\ (\E r \in Requests : phase[r] # "authorized") => ~open' /\ phase' = phase
ClosedForGood == [][ClosedStays]_vars
=============================================================================
