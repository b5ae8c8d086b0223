--------------------------- MODULE PublishProtocol ---------------------------
(***************************************************************************)
(* The one-shot execution authorization of a publish batch, as            *)
(* src/server/cloud/publish-execution-protocol.js defines it: a pure state *)
(* machine over one protocol object.  An action is a call of an exported   *)
(* function that returns a changed protocol; a call that throws or returns *)
(* its argument is a stuttering step.                                      *)
(*                                                                         *)
(* Abstractions.  Time is two facts that only become true: the             *)
(* authorization's ten minutes are over (authorization.live = FALSE), a    *)
(* claim's two minutes are over (lapsed).  Every claim carries a fresh     *)
(* claimId, so the id of the n-th claim of a request is n and 0 is null.   *)
(* The documentStateQuery stage is written and never read by the protocol  *)
(* and is left out, like the receipt and error payloads.                   *)
(*                                                                         *)
(* sinceAudit is a history variable: the code has no such field, no guard  *)
(* reads it, and CompletedIsProven is stated with it.                      *)
(***************************************************************************)
EXTENDS Naturals

CONSTANTS
    Requests,       \* the requests of the frozen execution plan
    Runs,           \* execution runs that may try to use the authorization
    NoRun,          \* executionRunId = null
    MaxAttempts     \* bound on the claims of a request, for the model only

ASSUME RequestsAssumption == Requests # {}
ASSUME NoRunAssumption == NoRun \notin Runs
ASSUME MaxAttemptsAssumption == MaxAttempts \in Nat

VARIABLES
    authorization,  \* state, executionRunId and liveness of the authorization
    state,          \* request.state
    attemptCount,   \* request.attemptCount
    claim,          \* request.claim.claimId, 0 when null
    lapsed,         \* claim.expiresAt has passed
    readback,       \* request.readback
    sinceAudit      \* history: the stages read back since the last notice of audit

vars == <<authorization, state, attemptCount, claim, lapsed, readback, sinceAudit>>

-----------------------------------------------------------------------------
(* States                                                                  *)

RequestStates == {"authorized", "claimed", "submitted", "result_unknown",
                  "failed_retryable", "failed_terminal", "completed"}
Authorizations == [state : {"issued", "running", "completed"},
                   run   : Runs \cup {NoRun},
                   live  : BOOLEAN]
ReceiveStates    == {"pending", "succeeded", "failed"}
AuditStates      == {"pending", "approved", "rejected", "revoked"}
SpuStates        == {"blocked", "pending", "completed"}
ComplianceStates == {"blocked", "pending", "completed"}
Readbacks == [receive    : ReceiveStates,
              audit      : AuditStates,
              spu        : SpuStates,
              compliance : ComplianceStates]

\* No stage has been read back; spu and compliance wait for their predecessor.
InitialReadback == [receive |-> "pending", audit |-> "pending",
                    spu |-> "blocked", compliance |-> "blocked"]

\* The body of buildPublishExecutionProtocol's result.
Init ==
    /\ authorization = [state |-> "issued", run |-> NoRun, live |-> TRUE]
    /\ state = [r \in Requests |-> "authorized"]
    /\ attemptCount = [r \in Requests |-> 0]
    /\ claim = [r \in Requests |-> 0]
    /\ lapsed = [r \in Requests |-> FALSE]
    /\ readback = [r \in Requests |-> InitialReadback]
    /\ sinceAudit = [r \in Requests |-> {}]

\* The caller names the run that consumed the authorization.
RunActive(run) ==
    /\ authorization.state = "running"
    /\ authorization.run = run

-----------------------------------------------------------------------------
(* Authorization and claims                                                *)

\* isPublishExecutionAuthorizationActive
AuthorizationActive == authorization.state = "issued" /\ authorization.live

\* expiresAt passes.
AuthorizationDeadline ==
    /\ authorization.live
    /\ authorization' = [authorization EXCEPT !.live = FALSE]
    /\ UNCHANGED <<state, attemptCount, claim, lapsed, readback, sinceAudit>>

\* consumePublishExecutionAuthorization
Consume(run) ==
    /\ AuthorizationActive
    /\ authorization' = [authorization EXCEPT !.state = "running", !.run = run]
    /\ UNCHANGED <<state, attemptCount, claim, lapsed, readback, sinceAudit>>

\* Mutant: an unknown result may be tried again.
RetriesUnknown == {"authorized", "failed_retryable", "result_unknown"}

\* States in which a request may be claimed.
ClaimableStates == {"authorized", "failed_retryable"}

\* claimPublishExecutionRequest
Claim(run, r) ==
    /\ RunActive(run)
    /\ state[r] \in ClaimableStates
    /\ attemptCount[r] < MaxAttempts
    /\ state' = [state EXCEPT ![r] = "claimed"]
    /\ attemptCount' = [attemptCount EXCEPT ![r] = @ + 1]
    /\ claim' = [claim EXCEPT ![r] = attemptCount[r] + 1]
    /\ lapsed' = [lapsed EXCEPT ![r] = FALSE]
    /\ UNCHANGED <<authorization, readback, sinceAudit>>

\* claim.expiresAt passes.
ClaimDeadline(r) ==
    /\ claim[r] # 0
    /\ ~lapsed[r]
    /\ lapsed' = [lapsed EXCEPT ![r] = TRUE]
    /\ UNCHANGED <<authorization, state, attemptCount, claim, readback, sinceAudit>>

\* Mutant: an accepted write counts as completed.
AcceptedCompletes(outcome, retryable) ==
    CASE outcome = "accepted" -> "completed"
      [] outcome = "unknown"  -> "result_unknown"
      [] outcome = "failed"   -> IF retryable THEN "failed_retryable"
                                              ELSE "failed_terminal"

\* Mutant: a failure has a name that the state table does not know.
UnnamedFailure(outcome, retryable) ==
    CASE outcome = "accepted" -> "submitted"
      [] outcome = "unknown"  -> "result_unknown"
      [] outcome = "failed"   -> "failed"

\* The state an outcome leads to.
OutcomeState(outcome, retryable) ==
    CASE outcome = "accepted" -> "submitted"
      [] outcome = "unknown"  -> "result_unknown"
      [] outcome = "failed"   -> IF retryable THEN "failed_retryable"
                                              ELSE "failed_terminal"

\* recordPublishExecutionResult: the claim, lapsed or not, is the only fence.
RecordResult(run, r, c, outcome, retryable) ==
    /\ RunActive(run)
    /\ state[r] = "claimed"
    /\ claim[r] = c
    /\ state' = [state EXCEPT ![r] = OutcomeState(outcome, retryable)]
    /\ claim' = [claim EXCEPT ![r] = 0]
    /\ lapsed' = [lapsed EXCEPT ![r] = FALSE]
    /\ UNCHANGED <<authorization, attemptCount, readback, sinceAudit>>

\* expirePublishExecutionClaim
ExpireClaim(run, r) ==
    /\ RunActive(run)
    /\ state[r] = "claimed"
    /\ lapsed[r]
    /\ state' = [state EXCEPT ![r] = "result_unknown"]
    /\ claim' = [claim EXCEPT ![r] = 0]
    /\ lapsed' = [lapsed EXCEPT ![r] = FALSE]
    /\ UNCHANGED <<authorization, attemptCount, readback, sinceAudit>>

-----------------------------------------------------------------------------
(* Readbacks                                                               *)

\* A notice of reception or audit shows that an unknown write arrived.
Recovered(r, stage) ==
    IF state[r] = "result_unknown" /\ stage \in {"receive", "audit"}
    THEN "submitted"
    ELSE state[r]

AllStagesDone(rb) ==
    /\ rb.receive = "succeeded"
    /\ rb.audit = "approved"
    /\ rb.spu = "completed"
    /\ rb.compliance = "completed"

\* Mutant: readbacks of a request that is still being written.
ReadsClaimed == {"submitted", "result_unknown", "claimed"}

\* States in which evidence about a request is taken.
ReadableStates == {"submitted", "result_unknown"}

\* History: a notice of audit starts anew, and what counts of the compliance is
\* what was read after the relations of the SPU.
SinceAudit(r, stage) ==
    CASE stage = "receive"    -> sinceAudit[r]
      [] stage = "audit"      -> {}
      [] stage = "spu"        -> {"spu"}
      [] stage = "compliance" -> sinceAudit[r] \cup {"compliance"}

\* The common tail of recordPublishExecutionReadback, with refreshCompletion.
StoreReadback(run, r, stage, rb) ==
    /\ RunActive(run)
    /\ state[r] \in ReadableStates
    /\ readback' = [readback EXCEPT ![r] = rb]
    /\ sinceAudit' = [sinceAudit EXCEPT ![r] = SinceAudit(r, stage)]
    /\ state' = [state EXCEPT ![r] =
                    IF Recovered(r, stage) = "submitted" /\ AllStagesDone(rb)
                    THEN "completed"
                    ELSE Recovered(r, stage)]
    /\ authorization' = IF \A q \in Requests : state'[q] = "completed"
                        THEN [authorization EXCEPT !.state = "completed"]
                        ELSE authorization
    /\ UNCHANGED <<attemptCount, claim, lapsed>>

ReadReceive(run, r, status) ==
    StoreReadback(run, r, "receive", [readback[r] EXCEPT !.receive = status])

\* Mutant: a renewed approval keeps what was read for an earlier one.
KeepsSpu(rb, status) == [rb EXCEPT !.audit = status]

\* Approval, first or repeated, asks for a new readback of the SPU.
AuditedReadback(rb, status) ==
    IF status = "approved"
    THEN [rb EXCEPT !.audit = status, !.spu = "pending"]
    ELSE [rb EXCEPT !.audit = status]

ReadAudit(run, r, status) ==
    StoreReadback(run, r, "audit", AuditedReadback(readback[r], status))

\* SPU relations count only while the product is approved.
ReadSpu(run, r) ==
    /\ readback[r].audit = "approved"
    /\ StoreReadback(run, r, "spu",
           [readback[r] EXCEPT !.spu = "completed", !.compliance = "pending"])

ReadCompliance(run, r) ==
    /\ readback[r].spu = "completed"
    /\ StoreReadback(run, r, "compliance",
           [readback[r] EXCEPT !.compliance = "completed"])

-----------------------------------------------------------------------------
RequestStep(run, r) ==
    \/ Claim(run, r)
    \/ \E c \in 1..MaxAttempts, retryable \in BOOLEAN,
          outcome \in {"accepted", "unknown", "failed"} :
              RecordResult(run, r, c, outcome, retryable)
    \/ ExpireClaim(run, r)
    \/ \E status \in {"succeeded", "failed"} : ReadReceive(run, r, status)
    \/ \E status \in AuditStates : ReadAudit(run, r, status)
    \/ ReadSpu(run, r)
    \/ ReadCompliance(run, r)

Next ==
    \/ AuthorizationDeadline
    \/ \E run \in Runs : Consume(run)
    \/ \E r \in Requests : ClaimDeadline(r)
    \/ \E run \in Runs, r \in Requests : RequestStep(run, r)

Spec == Init /\ [][Next]_vars

-----------------------------------------------------------------------------
(* Properties                                                              *)

TypeOK ==
    /\ authorization \in Authorizations
    /\ state \in [Requests -> RequestStates]
    /\ attemptCount \in [Requests -> 0..MaxAttempts]
    /\ claim \in [Requests -> 0..MaxAttempts]
    /\ lapsed \in [Requests -> BOOLEAN]
    /\ readback \in [Requests -> Readbacks]
    /\ sinceAudit \in [Requests -> SUBSET {"spu", "compliance"}]

\* An issued authorization names no run, a consumed one names the run that won.
AuthorizationNamesRun ==
    authorization.state = "issued" <=> authorization.run = NoRun

\* No request leaves "authorized", and no claim exists, before one run has
\* consumed the authorization: claiming, recording, expiring and reading back
\* all check the run first.
NothingBeforeConsumption ==
    \A r \in Requests :
        \/ authorization.run # NoRun
        \/ /\ state[r] = "authorized"
           /\ attemptCount[r] = 0
           /\ claim[r] = 0

\* The claim on record is the one of the latest attempt, and only a claimed
\* request has one, so a worker that lost its claim cannot record a result.
ClaimFencesLatestAttempt ==
    \A r \in Requests :
        IF state[r] = "claimed" THEN claim[r] = attemptCount[r] /\ claim[r] > 0
                                ELSE claim[r] = 0 /\ ~lapsed[r]

\* Whatever order stages, re-approvals and revocations came in, a completed
\* request was received and is approved, and since that notice of approval, not an
\* earlier one, its SPU relations were read back and after them its compliance.
CompletedIsProven ==
    \A r \in Requests :
        state[r] = "completed" =>
            /\ AllStagesDone(readback[r])
            /\ sinceAudit[r] = {"spu", "compliance"}

\* What a stage counts as read back was read since the last notice of audit, as
\* long as that notice is an approval.
FreshStages(rb, since) ==
    rb.audit = "approved" /\ rb.spu = "completed" =>
        /\ "spu" \in since
        /\ rb.compliance = "completed" => "compliance" \in since

StagesAreFresh == \A r \in Requests : FreshStages(readback[r], sinceAudit[r])

\* A request whose write is not known to have been accepted carries no remote
\* evidence: none of its stages has moved.
EvidenceOnlyAfterAcceptance ==
    \A r \in Requests :
        state[r] \notin {"submitted", "completed"} => readback[r] = InitialReadback

\* The authorization is completed exactly when its last request is: the
\* completion refresh runs in the same call as the readback that finishes it.
CompletionIsComplete ==
    authorization.state = "completed" <=> \A r \in Requests : state[r] = "completed"

-----------------------------------------------------------------------------
\* The protocol seen through the write contract: an unknown result is never
\* executed again, a second attempt follows an explicit retryable failure only,
\* one consumption opens the writes and the last completion closes them.
Contract == INSTANCE PublishWriteContract
    WITH open <- authorization.state = "running",
         phase <- state,
         attempts <- attemptCount

ImplementsContract == Contract!Spec
=============================================================================
