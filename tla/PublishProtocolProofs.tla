----------------------- MODULE PublishProtocolProofs -----------------------
(***************************************************************************)
(* For every set of requests and runs and every bound on attempts:         *)
(* PublishProtocol keeps its type, completes only what is proven, and      *)
(* implements PublishWriteContract.  The argument is one inductive         *)
(* invariant; its least obvious parts are StagesAreFresh, without which    *)
(* the last readback could complete a request on relations read for an     *)
(* earlier approval, and EvidenceOnlyAfterAcceptance, without which a      *)
(* readback of an unknown request could recover and complete it in one     *)
(* step, a step the contract does not have.                                *)
(*                                                                         *)
(* And for the outbox between that protocol's consumed authorization and   *)
(* its workers, for every set of commands and dispatchers, whether they    *)
(* can tell their leases apart or not: no command reaches the queue before *)
(* the run is committed, and none counts as dispatched that never did.     *)
(***************************************************************************)
EXTENDS PublishProtocol, PublishOutbox, TLAPS

\* The inductive invariant.
IInv ==
    /\ TypeOK
    /\ AuthorizationNamesRun
    /\ NothingBeforeConsumption
    /\ ClaimFencesLatestAttempt
    /\ CompletedIsProven
    /\ StagesAreFresh
    /\ EvidenceOnlyAfterAcceptance
    /\ CompletionIsComplete

\* The stages of recordPublishExecutionReadback.
Stages == {"receive", "audit", "spu", "compliance"}

-----------------------------------------------------------------------------
(* Typing                                                                  *)

\* The initial protocol object is well typed.
LEMMA InitTyped == Init => TypeOK
  BY MaxAttemptsAssumption
  DEF Init, TypeOK, Authorizations, RequestStates, Readbacks, InitialReadback,
      ReceiveStates, AuditStates, SpuStates, ComplianceStates

\* Storing a well-typed readback keeps every type.
LEMMA StoreReadbackTyped ==
  ASSUME TypeOK, NEW run \in Runs, NEW r \in Requests, NEW stage \in Stages,
         NEW rb \in Readbacks, StoreReadback(run, r, stage, rb)
  PROVE  TypeOK'
<1>1. state' \in [Requests -> RequestStates]
  BY DEF TypeOK, StoreReadback, ReadableStates, Recovered, RequestStates
<1>2. readback' \in [Requests -> Readbacks]
  BY DEF TypeOK, StoreReadback, ReadableStates
<1>3. authorization' \in Authorizations
  BY DEF TypeOK, StoreReadback, ReadableStates, Authorizations
<1>4. sinceAudit' \in [Requests -> SUBSET {"spu", "compliance"}]
  <2>1. SinceAudit(r, stage) \in SUBSET {"spu", "compliance"}
    BY DEF TypeOK, SinceAudit, Stages
  <2> QED
    BY <2>1 DEF TypeOK, StoreReadback
<1> QED
  BY <1>1, <1>2, <1>3, <1>4 DEF TypeOK, StoreReadback, ReadableStates

\* Each readback stage stores a well-typed readback.
LEMMA StagesTyped ==
  ASSUME TypeOK, NEW r \in Requests
  PROVE  /\ \A s \in {"succeeded", "failed"} : [readback[r] EXCEPT !.receive = s] \in Readbacks
         /\ \A s \in AuditStates : AuditedReadback(readback[r], s) \in Readbacks
         /\ [readback[r] EXCEPT !.spu = "completed", !.compliance = "pending"] \in Readbacks
         /\ [readback[r] EXCEPT !.compliance = "completed"] \in Readbacks
<1>1. readback[r] \in Readbacks
  BY DEF TypeOK
<1> QED
  BY <1>1 DEF Readbacks, AuditedReadback, ReceiveStates, AuditStates, SpuStates,
              ComplianceStates

\* Every call keeps every type.
LEMMA NextTyped == TypeOK /\ [Next]_vars => TypeOK'
<1> SUFFICES ASSUME TypeOK, [Next]_vars
             PROVE  TypeOK'
  OBVIOUS
<1>1. CASE AuthorizationDeadline
  BY <1>1 DEF TypeOK, AuthorizationDeadline, Authorizations
<1>2. ASSUME NEW run \in Runs, Consume(run)
      PROVE  TypeOK'
  BY <1>2 DEF TypeOK, Consume, Authorizations
<1>3. ASSUME NEW r \in Requests, ClaimDeadline(r)
      PROVE  TypeOK'
  BY <1>3 DEF TypeOK, ClaimDeadline
<1>4. ASSUME NEW run \in Runs, NEW r \in Requests, Claim(run, r)
      PROVE  TypeOK'
  BY <1>4, MaxAttemptsAssumption DEF TypeOK, Claim, ClaimableStates, RequestStates
<1>5. ASSUME NEW run \in Runs, NEW r \in Requests, NEW c \in 1..MaxAttempts,
             NEW retryable \in BOOLEAN, NEW outcome \in {"accepted", "unknown", "failed"},
             RecordResult(run, r, c, outcome, retryable)
      PROVE  TypeOK'
  <2>1. OutcomeState(outcome, retryable) \in RequestStates
    BY DEF OutcomeState, RequestStates
  <2> QED
    BY <1>5, <2>1, MaxAttemptsAssumption DEF TypeOK, RecordResult
<1>6. ASSUME NEW run \in Runs, NEW r \in Requests, ExpireClaim(run, r)
      PROVE  TypeOK'
  BY <1>6, MaxAttemptsAssumption DEF TypeOK, ExpireClaim, RequestStates
<1>7. ASSUME NEW run \in Runs, NEW r \in Requests,
             NEW s \in {"succeeded", "failed"}, ReadReceive(run, r, s)
      PROVE  TypeOK'
  BY <1>7, StagesTyped, StoreReadbackTyped DEF ReadReceive, Stages
<1>8. ASSUME NEW run \in Runs, NEW r \in Requests, NEW s \in AuditStates,
             ReadAudit(run, r, s)
      PROVE  TypeOK'
  BY <1>8, StagesTyped, StoreReadbackTyped DEF ReadAudit, Stages
<1>9. ASSUME NEW run \in Runs, NEW r \in Requests, ReadSpu(run, r)
      PROVE  TypeOK'
  BY <1>9, StagesTyped, StoreReadbackTyped DEF ReadSpu, Stages
<1>10. ASSUME NEW run \in Runs, NEW r \in Requests, ReadCompliance(run, r)
       PROVE  TypeOK'
  BY <1>10, StagesTyped, StoreReadbackTyped DEF ReadCompliance, Stages
<1>11. CASE UNCHANGED vars
  BY <1>11 DEF TypeOK, vars
<1> QED
  BY <1>1, <1>2, <1>3, <1>4, <1>5, <1>6, <1>7, <1>8, <1>9, <1>10, <1>11
  DEF Next, RequestStep

\* The protocol object is well typed in every reachable state.
THEOREM TypeCorrect == Spec => []TypeOK
<1>1. Init => TypeOK
  BY InitTyped
<1>2. TypeOK /\ [Next]_vars => TypeOK'
  BY NextTyped
<1> QED
  BY <1>1, <1>2, PTL DEF Spec
-----------------------------------------------------------------------------
(* The inductive invariant                                                 *)

\* A readback of an unknown request is a notice of reception or audit, and one
\* notice cannot finish it: its other stages have not moved.
LEMMA UnknownReadback ==
  ASSUME IInv, NEW r \in Requests, state[r] = "result_unknown"
  PROVE  /\ readback[r].audit # "approved"
         /\ readback[r].spu # "completed"
         /\ \A s \in ReceiveStates : ~AllStagesDone([readback[r] EXCEPT !.receive = s])
         /\ \A s \in AuditStates : ~AllStagesDone(AuditedReadback(readback[r], s))
<1>1. readback[r] = InitialReadback
  BY DEF IInv, EvidenceOnlyAfterAcceptance
<1> QED
  BY <1>1 DEF InitialReadback, AllStagesDone, AuditedReadback, ReceiveStates, AuditStates

\* What StoreReadback needs of its caller in order to keep the invariant.
Sound(r, stage, rb) ==
    /\ rb \in Readbacks
    /\ stage \in Stages
    /\ FreshStages(rb, SinceAudit(r, stage))
    /\ state[r] = "result_unknown" => stage \in {"receive", "audit"} /\ ~AllStagesDone(rb)

\* The tail shared by the four readback stages keeps the invariant.
LEMMA StoreReadbackInv ==
  ASSUME IInv, NEW run \in Runs, NEW r \in Requests, NEW stage, NEW rb,
         Sound(r, stage, rb), StoreReadback(run, r, stage, rb)
  PROVE  IInv'
<1> USE DEF IInv
<1>1. TypeOK'
  BY StoreReadbackTyped DEF Sound
<1>2. /\ authorization.state = "running"
      /\ state[r] \in {"submitted", "result_unknown"}
      /\ state' = [state EXCEPT ![r] = state'[r]]
      /\ readback' = [readback EXCEPT ![r] = rb]
      /\ state'[r] \in {"submitted", "completed"}
      /\ state'[r] = "completed" => AllStagesDone(rb)
      /\ UNCHANGED <<attemptCount, claim, lapsed>>
  BY DEF StoreReadback, ReadableStates, RunActive, Recovered, Sound, TypeOK
<1>3. IF \A q \in Requests : state'[q] = "completed"
      THEN authorization'.state = "completed" /\ authorization'.run = authorization.run
      ELSE authorization' = authorization
  BY DEF StoreReadback, ReadableStates, TypeOK, Authorizations
<1>4. AuthorizationNamesRun'
  BY <1>2, <1>3 DEF AuthorizationNamesRun
<1>5. NothingBeforeConsumption'
  BY <1>2, <1>3, NoRunAssumption DEF NothingBeforeConsumption, AuthorizationNamesRun
<1>6. ClaimFencesLatestAttempt'
  BY <1>2 DEF ClaimFencesLatestAttempt, TypeOK
<1>7. CompletedIsProven' /\ StagesAreFresh'
  <2>1. sinceAudit' = [sinceAudit EXCEPT ![r] = SinceAudit(r, stage)]
    BY DEF StoreReadback
  <2>2. StagesAreFresh'
    BY <1>2, <2>1 DEF StagesAreFresh, Sound, TypeOK
  <2>3. state'[r] = "completed" => SinceAudit(r, stage) = {"spu", "compliance"}
    <3>1. SinceAudit(r, stage) \in SUBSET {"spu", "compliance"}
      BY <1>1, <2>1 DEF TypeOK
    <3>2. AllStagesDone(rb) => "spu" \in SinceAudit(r, stage) /\ "compliance" \in SinceAudit(r, stage)
      BY DEF Sound, FreshStages, AllStagesDone
    <3> QED
      BY <1>2, <3>1, <3>2
  <2> QED
    BY <1>2, <2>1, <2>2, <2>3 DEF CompletedIsProven, TypeOK
<1>8. EvidenceOnlyAfterAcceptance'
  BY <1>2 DEF EvidenceOnlyAfterAcceptance, TypeOK
<1>9. CompletionIsComplete'
  BY <1>2, <1>3 DEF CompletionIsComplete
<1> QED
  BY <1>1, <1>4, <1>5, <1>6, <1>7, <1>8, <1>9

\* The four stages call it soundly.
LEMMA StagesSound ==
  ASSUME IInv, NEW run \in Runs, NEW r \in Requests
  PROVE  /\ \A s \in {"succeeded", "failed"} :
              Sound(r, "receive", [readback[r] EXCEPT !.receive = s])
         /\ \A s \in AuditStates : Sound(r, "audit", AuditedReadback(readback[r], s))
         /\ ReadSpu(run, r) => Sound(r, "spu",
              [readback[r] EXCEPT !.spu = "completed", !.compliance = "pending"])
         /\ ReadCompliance(run, r) => Sound(r, "compliance",
              [readback[r] EXCEPT !.compliance = "completed"])
<1>1. /\ readback[r] \in Readbacks
      /\ FreshStages(readback[r], sinceAudit[r])
  BY DEF IInv, TypeOK, StagesAreFresh
<1>2. /\ \A s \in {"succeeded", "failed"} :
           FreshStages([readback[r] EXCEPT !.receive = s], SinceAudit(r, "receive"))
      /\ \A s \in AuditStates :
           FreshStages(AuditedReadback(readback[r], s), SinceAudit(r, "audit"))
      /\ FreshStages([readback[r] EXCEPT !.spu = "completed", !.compliance = "pending"],
                     SinceAudit(r, "spu"))
      /\ readback[r].spu = "completed" =>
           FreshStages([readback[r] EXCEPT !.compliance = "completed"],
                       SinceAudit(r, "compliance"))
  BY <1>1 DEF FreshStages, SinceAudit, AuditedReadback, Readbacks
<1> QED
  BY <1>2, StagesTyped, UnknownReadback
  DEF IInv, Sound, Stages, ReadSpu, ReadCompliance, ReceiveStates

\* A change of the state of one request that is not a readback keeps the
\* invariant when it stays among the states before acceptance, or is the
\* acceptance itself, and clears or renews the claim.
LEMMA RequestStateInv ==
  ASSUME IInv, TypeOK', NEW r \in Requests,
         authorization.state = "running",
         state[r] \in {"authorized", "failed_retryable", "claimed"},
         NEW s \in RequestStates \ {"completed"},
         state' = [state EXCEPT ![r] = s],
         claim' = [claim EXCEPT ![r] = IF s = "claimed" THEN attemptCount'[r] ELSE 0],
         lapsed' = [lapsed EXCEPT ![r] = FALSE],
         s = "claimed" => attemptCount'[r] > 0,
         \A q \in Requests : q # r => attemptCount'[q] = attemptCount[q],
         UNCHANGED <<authorization, readback, sinceAudit>>
  PROVE  IInv'
<1> USE DEF IInv
<1>1. AuthorizationNamesRun'
  BY DEF AuthorizationNamesRun
<1>2. NothingBeforeConsumption'
  BY DEF NothingBeforeConsumption, AuthorizationNamesRun
<1>3. ClaimFencesLatestAttempt'
  BY DEF ClaimFencesLatestAttempt, TypeOK
<1>4. CompletedIsProven' /\ StagesAreFresh'
  BY DEF CompletedIsProven, StagesAreFresh, TypeOK
<1>5. EvidenceOnlyAfterAcceptance'
  BY DEF EvidenceOnlyAfterAcceptance, TypeOK
<1>6. CompletionIsComplete'
  BY DEF CompletionIsComplete, TypeOK
<1> QED
  BY <1>1, <1>2, <1>3, <1>4, <1>5, <1>6

\* The initial protocol object satisfies the invariant.
LEMMA InitInv == Init => IInv
<1> SUFFICES ASSUME Init
             PROVE  IInv
  OBVIOUS
<1>1. TypeOK
  BY InitTyped
<1>2. \E r \in Requests : TRUE
  BY RequestsAssumption
<1> QED
  BY <1>1, <1>2
  DEF Init, IInv, AuthorizationNamesRun, NothingBeforeConsumption,
      ClaimFencesLatestAttempt, CompletedIsProven, StagesAreFresh, FreshStages,
      InitialReadback, EvidenceOnlyAfterAcceptance, CompletionIsComplete

\* Every call keeps the invariant.
LEMMA NextInv == IInv /\ [Next]_vars => IInv'
<1> SUFFICES ASSUME IInv, [Next]_vars
             PROVE  IInv'
  OBVIOUS
<1> USE DEF IInv
<1>0. TypeOK'
  BY NextTyped
<1>1. CASE AuthorizationDeadline
  BY <1>0, <1>1
  DEF AuthorizationDeadline, TypeOK, Authorizations, AuthorizationNamesRun,
      NothingBeforeConsumption, ClaimFencesLatestAttempt, CompletedIsProven,
      StagesAreFresh, EvidenceOnlyAfterAcceptance, CompletionIsComplete
<1>2. ASSUME NEW run \in Runs, Consume(run)
      PROVE  IInv'
  <2>1. /\ authorization.state = "issued"
        /\ authorization'.state = "running"
        /\ authorization'.run # NoRun
        /\ UNCHANGED <<state, attemptCount, claim, lapsed, readback, sinceAudit>>
    BY <1>2, NoRunAssumption DEF Consume, AuthorizationActive, TypeOK, Authorizations
  <2>2. AuthorizationNamesRun' /\ NothingBeforeConsumption'
    BY <2>1 DEF AuthorizationNamesRun, NothingBeforeConsumption
  <2>3. /\ ClaimFencesLatestAttempt' /\ CompletedIsProven' /\ StagesAreFresh'
        /\ EvidenceOnlyAfterAcceptance'
    BY <2>1
    DEF ClaimFencesLatestAttempt, CompletedIsProven, StagesAreFresh, EvidenceOnlyAfterAcceptance
  <2>4. CompletionIsComplete'
    BY <2>1 DEF CompletionIsComplete
  <2> QED
    BY <1>0, <2>2, <2>3, <2>4
<1>3. ASSUME NEW r \in Requests, ClaimDeadline(r)
      PROVE  IInv'
  BY <1>0, <1>3
  DEF ClaimDeadline, TypeOK, AuthorizationNamesRun, NothingBeforeConsumption,
      ClaimFencesLatestAttempt, CompletedIsProven, StagesAreFresh,
      EvidenceOnlyAfterAcceptance, CompletionIsComplete
<1>4. ASSUME NEW run \in Runs, NEW r \in Requests, Claim(run, r)
      PROVE  IInv'
  <2>1. /\ authorization.state = "running"
        /\ state[r] \in {"authorized", "failed_retryable", "claimed"}
        /\ state' = [state EXCEPT ![r] = "claimed"]
        /\ lapsed' = [lapsed EXCEPT ![r] = FALSE]
        /\ UNCHANGED <<authorization, readback, sinceAudit>>
    BY <1>4 DEF Claim, ClaimableStates, RunActive
  <2>2. /\ attemptCount'[r] = attemptCount[r] + 1
        /\ attemptCount'[r] > 0
        /\ \A q \in Requests : q # r => attemptCount'[q] = attemptCount[q]
        /\ claim' = [claim EXCEPT ![r] = attemptCount'[r]]
    BY <1>4, MaxAttemptsAssumption DEF Claim, ClaimableStates, TypeOK
  <2>3. "claimed" \in RequestStates \ {"completed"}
    BY DEF RequestStates
  <2> QED
    BY <1>0, <2>1, <2>2, <2>3, RequestStateInv
<1>5. ASSUME NEW run \in Runs, NEW r \in Requests, NEW c \in 1..MaxAttempts,
             NEW retryable \in BOOLEAN, NEW outcome \in {"accepted", "unknown", "failed"},
             RecordResult(run, r, c, outcome, retryable)
      PROVE  IInv'
  <2>1. OutcomeState(outcome, retryable) \in RequestStates \ {"claimed", "completed"}
    BY DEF OutcomeState, RequestStates
  <2> QED
    BY <1>0, <1>5, <2>1, RequestStateInv DEF RecordResult, RunActive, TypeOK
<1>6. ASSUME NEW run \in Runs, NEW r \in Requests, ExpireClaim(run, r)
      PROVE  IInv'
  BY <1>0, <1>6, RequestStateInv DEF ExpireClaim, RunActive, TypeOK, RequestStates
<1>7. ASSUME NEW run \in Runs, NEW r \in Requests,
             NEW s \in {"succeeded", "failed"}, ReadReceive(run, r, s)
      PROVE  IInv'
  BY <1>7, StagesSound, StoreReadbackInv DEF ReadReceive
<1>8. ASSUME NEW run \in Runs, NEW r \in Requests, NEW s \in AuditStates,
             ReadAudit(run, r, s)
      PROVE  IInv'
  BY <1>8, StagesSound, StoreReadbackInv DEF ReadAudit
<1>9. ASSUME NEW run \in Runs, NEW r \in Requests, ReadSpu(run, r)
      PROVE  IInv'
  BY <1>9, StagesSound, StoreReadbackInv DEF ReadSpu
<1>10. ASSUME NEW run \in Runs, NEW r \in Requests, ReadCompliance(run, r)
       PROVE  IInv'
  BY <1>10, StagesSound, StoreReadbackInv DEF ReadCompliance
<1>11. CASE UNCHANGED vars
  BY <1>0, <1>11
  DEF vars, AuthorizationNamesRun, NothingBeforeConsumption, ClaimFencesLatestAttempt,
      CompletedIsProven, StagesAreFresh, EvidenceOnlyAfterAcceptance, CompletionIsComplete
<1> QED
  BY <1>1, <1>2, <1>3, <1>4, <1>5, <1>6, <1>7, <1>8, <1>9, <1>10, <1>11
  DEF Next, RequestStep

\* The inductive invariant holds in every reachable state.
THEOREM InvariantHolds == Spec => []IInv
  BY InitInv, NextInv, PTL DEF Spec

\* A completed request was received and is approved, and its relations and then its
\* compliance were read back since that notice of approval: for every order and
\* repetition of notices, approvals and revocations.
THEOREM CompletedProven == Spec => []CompletedIsProven
<1>1. IInv => CompletedIsProven
  BY DEF IInv
<1> QED
  BY <1>1, InvariantHolds, PTL

\* A request not known to be accepted carries no remote evidence.
THEOREM EvidenceProven == Spec => []EvidenceOnlyAfterAcceptance
<1>1. IInv => EvidenceOnlyAfterAcceptance
  BY DEF IInv
<1> QED
  BY <1>1, InvariantHolds, PTL

\* The authorization is completed exactly when all its requests are.
THEOREM CompletionProven == Spec => []CompletionIsComplete
<1>1. IInv => CompletionIsComplete
  BY DEF IInv
<1> QED
  BY <1>1, InvariantHolds, PTL

-----------------------------------------------------------------------------
(* The refinement                                                          *)

\* A readback is a recovery, a completion or a stuttering step of the contract.
LEMMA StoreReadbackRefines ==
  ASSUME IInv, NEW run \in Runs, NEW r \in Requests, NEW stage, NEW rb,
         Sound(r, stage, rb), StoreReadback(run, r, stage, rb)
  PROVE  [Contract!Next]_Contract!vars
<1> USE DEF IInv
<1>1. /\ authorization.state = "running"
      /\ state[r] \in {"submitted", "result_unknown"}
      /\ UNCHANGED attemptCount
  BY DEF StoreReadback, ReadableStates, RunActive
<1>2. IF \A q \in Requests : state'[q] = "completed"
      THEN authorization'.state = "completed"
      ELSE authorization' = authorization
  BY DEF StoreReadback, ReadableStates, TypeOK, Authorizations
<1>3. CASE state[r] = "result_unknown"
  <2>1. state' = [state EXCEPT ![r] = "submitted"]
    BY <1>3 DEF Sound, StoreReadback, ReadableStates, Recovered, TypeOK
  <2>2. ~(\A q \in Requests : state'[q] = "completed")
    BY <2>1 DEF TypeOK
  <2>3. Contract!Recover(r)
    BY <1>1, <1>2, <1>3, <2>1, <2>2 DEF Contract!Recover
  <2> QED
    BY <2>3 DEF Contract!Next
<1>4. CASE state[r] = "submitted" /\ AllStagesDone(rb)
  <2>1. state' = [state EXCEPT ![r] = "completed"]
    BY <1>4 DEF StoreReadback, ReadableStates, Recovered, TypeOK
  <2>2. Contract!Finish(r)
    BY <1>1, <1>2, <1>4, <2>1 DEF Contract!Finish
  <2> QED
    BY <2>2 DEF Contract!Next
<1>5. CASE state[r] = "submitted" /\ ~AllStagesDone(rb)
  <2>1. state' = state
    BY <1>5 DEF StoreReadback, ReadableStates, Recovered, TypeOK
  <2>2. authorization' = authorization
    BY <1>2, <1>5, <2>1
  <2> QED
    BY <1>1, <2>1, <2>2 DEF Contract!vars
<1> QED
  BY <1>1, <1>3, <1>4, <1>5

\* Every call is a step of the contract or leaves it alone.
LEMMA NextRefines == IInv /\ [Next]_vars => [Contract!Next]_Contract!vars
<1> SUFFICES ASSUME IInv, [Next]_vars
             PROVE  [Contract!Next]_Contract!vars
  OBVIOUS
<1> USE DEF IInv
<1>1. CASE AuthorizationDeadline
  BY <1>1 DEF AuthorizationDeadline, TypeOK, Authorizations, Contract!vars
<1>2. ASSUME NEW run \in Runs, Consume(run)
      PROVE  [Contract!Next]_Contract!vars
  <2>1. /\ authorization.state = "issued"
        /\ authorization'.state = "running"
        /\ UNCHANGED <<state, attemptCount>>
    BY <1>2 DEF Consume, AuthorizationActive, TypeOK, Authorizations
  <2>2. \A r \in Requests : state[r] = "authorized"
    BY <2>1 DEF NothingBeforeConsumption, AuthorizationNamesRun
  <2>3. Contract!Open
    BY <2>1, <2>2 DEF Contract!Open
  <2> QED
    BY <2>3 DEF Contract!Next
<1>3. ASSUME NEW r \in Requests, ClaimDeadline(r)
      PROVE  [Contract!Next]_Contract!vars
  BY <1>3 DEF ClaimDeadline, Contract!vars
<1>4. ASSUME NEW run \in Runs, NEW r \in Requests, Claim(run, r)
      PROVE  [Contract!Next]_Contract!vars
  <2>1. Contract!Grant(r)
    BY <1>4 DEF Claim, ClaimableStates, RunActive, Contract!Grant, Contract!Claimable
  <2> QED
    BY <2>1 DEF Contract!Next
<1>5. ASSUME NEW run \in Runs, NEW r \in Requests, NEW c \in 1..MaxAttempts,
             NEW retryable \in BOOLEAN, NEW outcome \in {"accepted", "unknown", "failed"},
             RecordResult(run, r, c, outcome, retryable)
      PROVE  [Contract!Next]_Contract!vars
  <2>1. OutcomeState(outcome, retryable) \in Contract!Settled
    BY DEF OutcomeState, Contract!Settled
  <2>2. Contract!Settle(r)
    BY <1>5, <2>1 DEF RecordResult, RunActive, Contract!Settle
  <2> QED
    BY <2>2 DEF Contract!Next
<1>6. ASSUME NEW run \in Runs, NEW r \in Requests, ExpireClaim(run, r)
      PROVE  [Contract!Next]_Contract!vars
  <2>1. Contract!Settle(r)
    BY <1>6 DEF ExpireClaim, RunActive, Contract!Settle, Contract!Settled
  <2> QED
    BY <2>1 DEF Contract!Next
<1>7. ASSUME NEW run \in Runs, NEW r \in Requests,
             NEW s \in {"succeeded", "failed"}, ReadReceive(run, r, s)
      PROVE  [Contract!Next]_Contract!vars
  BY <1>7, StagesSound, StoreReadbackRefines DEF ReadReceive
<1>8. ASSUME NEW run \in Runs, NEW r \in Requests, NEW s \in AuditStates,
             ReadAudit(run, r, s)
      PROVE  [Contract!Next]_Contract!vars
  BY <1>8, StagesSound, StoreReadbackRefines DEF ReadAudit
<1>9. ASSUME NEW run \in Runs, NEW r \in Requests, ReadSpu(run, r)
      PROVE  [Contract!Next]_Contract!vars
  BY <1>9, StagesSound, StoreReadbackRefines DEF ReadSpu
<1>10. ASSUME NEW run \in Runs, NEW r \in Requests, ReadCompliance(run, r)
       PROVE  [Contract!Next]_Contract!vars
  BY <1>10, StagesSound, StoreReadbackRefines DEF ReadCompliance
<1>11. CASE UNCHANGED vars
  BY <1>11 DEF vars, Contract!vars
<1> QED
  BY <1>1, <1>2, <1>3, <1>4, <1>5, <1>6, <1>7, <1>8, <1>9, <1>10, <1>11
  DEF Next, RequestStep

\* The protocol implements the write contract: no unknown result is executed
\* again, no attempt follows anything but an explicit retryable failure.
THEOREM ContractImplemented == Spec => ImplementsContract
<1>1. Init => Contract!Init
  BY DEF Init, Contract!Init
<1> QED
  BY <1>1, NextRefines, InvariantHolds, PTL DEF Spec, ImplementsContract, Contract!Spec

\* A step of the contract leaves what is over alone, closes whole plans only and
\* opens none that was worked on.
LEMMA ContractStepKeeps ==
    ASSUME TypeOK, [Contract!Next]_Contract!vars
    PROVE  Contract!OverStays /\ Contract!ClosedStays /\ (Contract!ClosedIsWhole => Contract!ClosedIsWhole')
<1>1. CASE Contract!Open
  BY <1>1 DEF Contract!Open, Contract!OverStays, Contract!ClosedStays, Contract!ClosedIsWhole
<1>2. CASE Contract!Close
  BY <1>2 DEF Contract!Close, Contract!OverStays, Contract!ClosedStays, Contract!ClosedIsWhole
<1>3. ASSUME NEW r \in Requests, Contract!Grant(r) \/ Contract!Settle(r) \/ Contract!Recover(r)
      PROVE  Contract!OverStays /\ Contract!ClosedStays /\ Contract!ClosedIsWhole'
  BY <1>3 DEF TypeOK, Contract!Grant, Contract!Settle, Contract!Recover, Contract!Settled,
     Contract!Claimable, Contract!Over, Contract!OverStays, Contract!ClosedStays,
     Contract!ClosedIsWhole
<1>4. ASSUME NEW r \in Requests, Contract!Finish(r)
      PROVE  Contract!OverStays /\ Contract!ClosedStays /\ Contract!ClosedIsWhole'
  BY <1>4 DEF TypeOK, Contract!Finish, Contract!Over, Contract!OverStays,
     Contract!ClosedStays, Contract!ClosedIsWhole
<1>5. CASE UNCHANGED Contract!vars
  BY <1>5 DEF Contract!vars, Contract!OverStays, Contract!ClosedStays, Contract!ClosedIsWhole
<1>6. QED
  BY <1>1, <1>2, <1>3, <1>4, <1>5 DEF Contract!Next

\* The owner of a plan may rely on it: a request that was accepted, failed for
\* good or whose result is unknown is never claimed again, the authorization is done
\* when all requests are completed and not before, and no call revives it.
THEOREM OwnersMayRely ==
    Spec => Contract!WritesEnd /\ []Contract!ClosedIsWhole /\ Contract!ClosedForGood
<1>1. Init => Contract!ClosedIsWhole
  BY DEF Init, Contract!ClosedIsWhole
<1>2. IInv /\ Contract!ClosedIsWhole /\ [Next]_vars => Contract!ClosedIsWhole'
  BY NextRefines, ContractStepKeeps DEF IInv
<1>3. IInv /\ [Next]_vars => [Contract!OverStays]_Contract!vars /\ [Contract!ClosedStays]_Contract!vars
  BY NextRefines, ContractStepKeeps DEF IInv
<1>4. QED
  BY <1>1, <1>2, <1>3, InvariantHolds, PTL DEF Spec, Contract!WritesEnd, Contract!ClosedForGood

-----------------------------------------------------------------------------
(* The outbox                                                              *)

\* The command has reached the queue at least once; its job may be over.
Queued(c) == queue[c] # "none" \/ deliveries[c]

\* The outbox is transactional: no command is added to the queue before the
\* transaction that consumed the authorization has committed.
NothingBeforeCommit == \A c \in Commands : Queued(c) => committed

\* markDispatched comes after queue.add has returned, for every event and
\* whichever dispatcher holds its lease by then: what is dispatched was queued.
DispatchedWasQueued == \A c \in Commands : event[c] = "dispatched" => Queued(c)

\* No failure path, late dispatcher or lapsed lease makes a dispatched event due
\* again, also where dispatchers share an id.
DispatchedStays    == \A c \in Commands : event[c] = "dispatched" => event'[c] = "dispatched"
DispatchedForGood  == [][DispatchedStays]_outboxVars

\* The events are there when the run is, and leases are on the events in work.
EventsFollowRun   == \A c \in Commands : (event[c] = "absent") = ~committed
LeasesFollowEvents ==
    \A c \in Commands :
        /\ (lease[c] = NoLease) = (event[c] # "dispatching")
        /\ leaseLapsed[c] => event[c] = "dispatching"

\* A batch is of committed events, and a dispatcher about to mark one has added it.
BatchesCommitted == \A d \in Dispatchers : todo[d] # {} => committed
AddedIsQueued ==
    \A d \in Dispatchers : current[d].step = "mark" => \A c \in current[d].events : Queued(c)
ActiveWasDelivered == \A c \in Commands : queue[c] = "active" => deliveries[c]

OutboxInv ==
    /\ OutboxTypeOK
    /\ EventsFollowRun
    /\ LeasesFollowEvents
    /\ BatchesCommitted
    /\ AddedIsQueued
    /\ ActiveWasDelivered
    /\ NothingBeforeCommit
    /\ DispatchedWasQueued

\* A dispatcher with this event in work.
Working(step, c) == [step |-> step, events |-> {c}]

LEMMA InitOutbox == OutboxInit => OutboxInv
<1> SUFFICES ASSUME OutboxInit PROVE OutboxInv
  OBVIOUS
<1>1. None.step = "none" /\ None \in [step : {"none", "mark", "fail"}, events : SUBSET Commands]
  BY DEF None
<1>2. OutboxTypeOK
  <2>1. current \in [Dispatchers -> [step : {"none", "mark", "fail"}, events : SUBSET Commands]]
    BY <1>1 DEF OutboxInit
  <2>2. todo \in [Dispatchers -> SUBSET Commands] /\ 0 \in 0..MaxFaults
    BY BoundsAssumption DEF OutboxInit
  <2>3. QED
    BY <2>1, <2>2 DEF OutboxInit, OutboxTypeOK, EventStates
<1>3. /\ EventsFollowRun /\ LeasesFollowEvents /\ BatchesCommitted /\ AddedIsQueued
      /\ ActiveWasDelivered /\ NothingBeforeCommit /\ DispatchedWasQueued
  BY <1>1 DEF OutboxInit, EventsFollowRun, LeasesFollowEvents, BatchesCommitted, AddedIsQueued,
              ActiveWasDelivered, NothingBeforeCommit, DispatchedWasQueued, Queued
<1>4. QED
  BY <1>2, <1>3 DEF OutboxInv

\* queue.add keeps what is there, and the command is there afterwards.
LEMMA AddedIs ==
    ASSUME OutboxInv, NEW c \in Commands
    PROVE  /\ Added(c) \in [Commands -> {"none", "waiting", "active"}]
           /\ Added(c)[c] # "none"
           /\ \A k \in Commands : k # c \/ queue[k] # "none" => Added(c)[k] = queue[k]
  BY DEF OutboxInv, OutboxTypeOK, Added

\* The run is committed, or time passes: the dispatchers and the queue stay.
LEMMA TableStep ==
    ASSUME OutboxInv,
           CommitRun \/ \E c \in Commands : BackoffEnds(c) \/ LeaseLapses(c)
    PROVE  OutboxInv' /\ DispatchedStays
<1>1. OutboxTypeOK'
  <2>1. CASE CommitRun
    BY <2>1 DEF OutboxInv, OutboxTypeOK, EventStates, CommitRun
  <2>2. ASSUME NEW c \in Commands, BackoffEnds(c) PROVE OutboxTypeOK'
    BY <2>2 DEF OutboxInv, OutboxTypeOK, BackoffEnds
  <2>3. ASSUME NEW c \in Commands, LeaseLapses(c) PROVE OutboxTypeOK'
    <3>1. faults' \in 0..MaxFaults
      BY <2>3, BoundsAssumption DEF OutboxInv, OutboxTypeOK, LeaseLapses
    <3>2. QED
      BY <2>3, <3>1 DEF OutboxInv, OutboxTypeOK, LeaseLapses
  <2>4. QED
    BY <2>1, <2>2, <2>3
<1>2. CASE CommitRun
  <2>1. /\ ~committed /\ committed' = TRUE /\ event' = [c \in Commands |-> "pending"]
        /\ UNCHANGED <<lease, leaseLapsed, todo, current, queue, deliveries>>
    BY <1>2 DEF CommitRun
  <2>2. \A c \in Commands : event[c] = "absent"
    BY <2>1 DEF OutboxInv, EventsFollowRun
  <2>3. QED
    BY <1>1, <2>1, <2>2
    DEF OutboxInv, EventsFollowRun, LeasesFollowEvents, BatchesCommitted, AddedIsQueued,
        ActiveWasDelivered, NothingBeforeCommit, DispatchedWasQueued, Queued, DispatchedStays
<1>3. ASSUME NEW c \in Commands, BackoffEnds(c) \/ LeaseLapses(c)
      PROVE  OutboxInv' /\ DispatchedStays
  <2>1. UNCHANGED <<committed, event, lease, todo, current, queue, deliveries>>
    BY <1>3 DEF BackoffEnds, LeaseLapses
  <2>2. \A k \in Commands : leaseLapsed'[k] => leaseLapsed[k] \/ event[k] = "dispatching"
    BY <1>3 DEF BackoffEnds, LeaseLapses, OutboxInv, OutboxTypeOK
  <2>3. QED
    BY <1>1, <2>1, <2>2
    DEF OutboxInv, EventsFollowRun, LeasesFollowEvents, BatchesCommitted, AddedIsQueued,
        ActiveWasDelivered, NothingBeforeCommit, DispatchedWasQueued, Queued, DispatchedStays
<1>4. QED
  BY <1>2, <1>3

\* A batch is leased: of due events, and of those whose lease has lapsed.
LEMMA ClaimPendingStep ==
    ASSUME OutboxInv, NEW d \in Dispatchers, ClaimPending(d)
    PROVE  OutboxInv' /\ DispatchedStays
<1>1. PICK batch \in SUBSET {c \in Commands : Claimable(c)} :
         /\ event' = [c \in Commands |-> IF c \in batch THEN "dispatching" ELSE event[c]]
         /\ lease' = [c \in Commands |-> IF c \in batch THEN idOf[d] ELSE lease[c]]
         /\ leaseLapsed' = [c \in Commands |-> IF c \in batch THEN FALSE ELSE leaseLapsed[c]]
         /\ todo' = [todo EXCEPT ![d] = batch]
  BY DEF ClaimPending
<1>2. UNCHANGED <<idOf, committed, available, current, queue, deliveries, faults>>
  BY DEF ClaimPending
<1>3. \A c \in batch : c \in Commands /\ event[c] \in {"pending", "dispatching"}
  BY DEF Claimable
<1>4. idOf[d] \in DispatcherIds /\ idOf[d] # NoLease
  BY IdsAssumption DEF OutboxInv, OutboxTypeOK
<1>5. OutboxTypeOK'
  BY <1>1, <1>2, <1>3, <1>4 DEF OutboxInv, OutboxTypeOK, EventStates
<1>6. EventsFollowRun' /\ LeasesFollowEvents' /\ DispatchedWasQueued' /\ DispatchedStays
  BY <1>1, <1>2, <1>3, <1>4
  DEF OutboxInv, EventsFollowRun, LeasesFollowEvents, DispatchedWasQueued, DispatchedStays, Queued
<1>7. BatchesCommitted'
  <2>1. batch # {} => committed
    BY <1>3 DEF OutboxInv, EventsFollowRun
  <2>2. \A e \in Dispatchers : todo'[e] = IF e = d THEN batch ELSE todo[e]
    BY <1>1 DEF OutboxInv, OutboxTypeOK
  <2>3. QED
    BY <1>2, <2>1, <2>2 DEF OutboxInv, BatchesCommitted
<1>8. AddedIsQueued' /\ ActiveWasDelivered' /\ NothingBeforeCommit'
  BY <1>2 DEF OutboxInv, AddedIsQueued, ActiveWasDelivered, NothingBeforeCommit, Queued
<1>9. QED
  BY <1>5, <1>6, <1>7, <1>8 DEF OutboxInv

\* An event leaves the batch, and its command may have reached the queue.
LEMMA AddStep ==
    ASSUME OutboxInv, NEW d \in Dispatchers, AddToQueue(d) \/ AddFails(d)
    PROVE  OutboxInv' /\ DispatchedStays
<1>1. PICK c \in todo[d], step \in {"mark", "fail"} :
         /\ queue' \in {queue, Added(c)} /\ (step = "mark" => queue' = Added(c))
         /\ todo' = [todo EXCEPT ![d] = @ \ {c}]
         /\ current' = [current EXCEPT ![d] = Working(step, c)]
  BY DEF AddToQueue, AddFails, Working
<1>2. /\ UNCHANGED <<idOf, committed, event, lease, leaseLapsed, available, deliveries>>
      /\ faults' \in 0..MaxFaults
  BY BoundsAssumption DEF AddToQueue, AddFails, tableVars, OutboxInv, OutboxTypeOK
<1>3. c \in Commands /\ committed
  BY DEF OutboxInv, OutboxTypeOK, BatchesCommitted
<1>4. /\ Working(step, c) \in [step : {"none", "mark", "fail"}, events : SUBSET Commands]
      /\ Working(step, c).step = step /\ Working(step, c).events = {c}
  BY <1>3 DEF Working
<1>5. /\ queue' \in [Commands -> {"none", "waiting", "active"}]
      /\ \A k \in Commands : queue[k] # "none" => queue'[k] = queue[k]
      /\ \A k \in Commands : queue'[k] = "active" => queue[k] = "active"
      /\ step = "mark" => queue'[c] # "none"
  <2>1. queue \in [Commands -> {"none", "waiting", "active"}]
    BY DEF OutboxInv, OutboxTypeOK
  <2>2. Added(c) = [queue EXCEPT ![c] = IF queue[c] = "none" THEN "waiting" ELSE queue[c]]
    BY DEF Added
  <2>3. QED
    BY <1>1, <1>3, <2>1, <2>2
<1>6. /\ \A e \in Dispatchers : todo'[e] \subseteq todo[e]
      /\ \A e \in Dispatchers : current'[e] = IF e = d THEN Working(step, c) ELSE current[e]
  BY <1>1 DEF OutboxInv, OutboxTypeOK
<1>7. OutboxTypeOK'
  <2>1. todo' \in [Dispatchers -> SUBSET Commands]
    BY <1>1 DEF OutboxInv, OutboxTypeOK
  <2>2. current' \in [Dispatchers -> [step : {"none", "mark", "fail"}, events : SUBSET Commands]]
    BY <1>1, <1>4 DEF OutboxInv, OutboxTypeOK
  <2>3. QED
    BY <1>2, <1>5, <2>1, <2>2 DEF OutboxInv, OutboxTypeOK
<1>8. EventsFollowRun' /\ LeasesFollowEvents' /\ DispatchedStays
  BY <1>2 DEF OutboxInv, EventsFollowRun, LeasesFollowEvents, DispatchedStays
<1>9. BatchesCommitted' /\ ActiveWasDelivered' /\ NothingBeforeCommit'
  BY <1>2, <1>3, <1>5, <1>6
  DEF OutboxInv, BatchesCommitted, ActiveWasDelivered, NothingBeforeCommit
<1>10. \A k \in Commands : Queued(k) => Queued(k)'
  BY <1>2, <1>5 DEF Queued
<1>11. DispatchedWasQueued'
  BY <1>2, <1>10 DEF OutboxInv, DispatchedWasQueued
<1>12. AddedIsQueued'
  <2> SUFFICES ASSUME NEW e \in Dispatchers, current'[e].step = "mark", NEW k \in current'[e].events
               PROVE  Queued(k)'
    BY DEF AddedIsQueued
  <2>1. CASE e = d
    BY <1>4, <1>5, <1>6, <2>1 DEF Queued
  <2>2. CASE e # d
    <3>1. Queued(k) /\ k \in Commands
      BY <1>6, <2>2 DEF OutboxInv, OutboxTypeOK, AddedIsQueued
    <3>2. QED
      BY <1>10, <3>1
  <2>3. QED
    BY <2>1, <2>2
<1>13. QED
  BY <1>7, <1>8, <1>9, <1>11, <1>12 DEF OutboxInv

\* A dispatcher is through with an event, or its database call failed.
LEMMA DispatcherTo ==
    ASSUME OutboxInv, NEW d \in Dispatchers,
           \/ current' = [current EXCEPT ![d] = None]
           \/ current' = [current EXCEPT ![d].step = "fail"]
    PROVE  /\ current' \in [Dispatchers -> [step : {"none", "mark", "fail"}, events : SUBSET Commands]]
           /\ \A e \in Dispatchers : current'[e].step = "mark" => current'[e] = current[e]
<1> DEFINE Type == [step : {"none", "mark", "fail"}, events : SUBSET Commands]
<1>1. current \in [Dispatchers -> Type]
  BY DEF OutboxInv, OutboxTypeOK
<1>2. PICK r \in Type : current' = [current EXCEPT ![d] = r] /\ r.step # "mark"
  <2>1. CASE current' = [current EXCEPT ![d] = None]
    <3>1. None \in Type /\ None.step = "none"
      BY DEF None
    <3>2. QED
      BY <2>1, <3>1
  <2>2. CASE current' = [current EXCEPT ![d].step = "fail"]
    <3> DEFINE r == [current[d] EXCEPT !.step = "fail"]
    <3>1. r \in Type /\ r.step = "fail"
      BY <1>1
    <3>2. current' = [current EXCEPT ![d] = r]
      BY <2>2
    <3> HIDE DEF r
    <3>3. QED
      BY <3>1, <3>2
  <2>3. QED
    BY <2>1, <2>2
<1>3. QED
  BY <1>1, <1>2

\* The event leaves its lease for its next state, if the dispatcher holds it.
LEMMA SettleStep ==
    ASSUME OutboxInv, NEW d \in Dispatchers, NEW c \in Commands,
           MarkDispatched(d, c) \/ MarkDispatchFailure(d, c)
    PROVE  OutboxInv' /\ DispatchedStays
<1>1. PICK next \in {"dispatched", "pending"} :
         /\ next = "dispatched" => current[d] = Working("mark", c)
         /\ \/ HoldsLease(d, c) /\ Settle(c, next)
            \/ UNCHANGED <<event, lease, leaseLapsed>>
  BY DEF MarkDispatched, MarkDispatchFailure, Working
<1>2. /\ \/ current' = [current EXCEPT ![d] = None]
         \/ current' = [current EXCEPT ![d].step = "fail"]
      /\ UNCHANGED <<idOf, committed, todo, queue, deliveries, faults>>
  BY DEF MarkDispatched, MarkDispatchFailure
<1>3. /\ current' \in [Dispatchers -> [step : {"none", "mark", "fail"}, events : SUBSET Commands]]
      /\ \A e \in Dispatchers : current'[e].step = "mark" => current'[e] = current[e]
  BY <1>2, DispatcherTo
<1>4. available' \in [Commands -> BOOLEAN]
  BY DEF MarkDispatched, MarkDispatchFailure, OutboxInv, OutboxTypeOK
<1>5. /\ event \in [Commands -> EventStates] /\ lease \in [Commands -> DispatcherIds \cup {NoLease}]
      /\ leaseLapsed \in [Commands -> BOOLEAN]
  BY DEF OutboxInv, OutboxTypeOK
<1>6. next = "dispatched" => Queued(c)
  <2>1. Working("mark", c).step = "mark" /\ Working("mark", c).events = {c}
    BY DEF Working
  <2>2. QED
    BY <1>1, <2>1 DEF OutboxInv, AddedIsQueued
<1>7. /\ event' \in [Commands -> EventStates] /\ lease' \in [Commands -> DispatcherIds \cup {NoLease}]
      /\ leaseLapsed' \in [Commands -> BOOLEAN]
      /\ \A k \in Commands :
            \/ event'[k] = event[k] /\ lease'[k] = lease[k] /\ leaseLapsed'[k] = leaseLapsed[k]
            \/ /\ k = c /\ event[k] = "dispatching" /\ event'[k] = next
               /\ lease'[k] = NoLease /\ leaseLapsed'[k] = FALSE
  <2>1. CASE HoldsLease(d, c) /\ Settle(c, next)
    BY <1>5, <2>1 DEF HoldsLease, Settle, EventStates
  <2>2. CASE UNCHANGED <<event, lease, leaseLapsed>>
    BY <1>5, <2>2
  <2>3. QED
    BY <1>1, <2>1, <2>2
<1>8. OutboxTypeOK'
  BY <1>2, <1>3, <1>4, <1>7 DEF OutboxInv, OutboxTypeOK
<1>9. EventsFollowRun' /\ LeasesFollowEvents' /\ DispatchedStays
  BY <1>2, <1>7 DEF OutboxInv, EventsFollowRun, LeasesFollowEvents, DispatchedStays
<1>10. DispatchedWasQueued'
  BY <1>2, <1>6, <1>7 DEF OutboxInv, DispatchedWasQueued, Queued
<1>11. BatchesCommitted' /\ ActiveWasDelivered' /\ NothingBeforeCommit' /\ AddedIsQueued'
  BY <1>2, <1>3
  DEF OutboxInv, BatchesCommitted, ActiveWasDelivered, NothingBeforeCommit, AddedIsQueued, Queued
<1>12. QED
  BY <1>8, <1>9, <1>10, <1>11 DEF OutboxInv

\* A dispatcher fails or dies: the events and the queue stay as they are.
LEMMA DispatcherFailsStep ==
    ASSUME OutboxInv, NEW d \in Dispatchers, TickDies(d) \/ \E c \in Commands : MarkFails(d, c)
    PROVE  OutboxInv' /\ DispatchedStays
<1>1. /\ \/ current' = [current EXCEPT ![d] = None]
         \/ current' = [current EXCEPT ![d].step = "fail"]
      /\ UNCHANGED <<idOf, committed, event, lease, leaseLapsed, available, queue, deliveries>>
      /\ todo' = todo \/ todo' = [todo EXCEPT ![d] = {}]
  BY DEF TickDies, MarkFails, tableVars
<1>2. /\ current' \in [Dispatchers -> [step : {"none", "mark", "fail"}, events : SUBSET Commands]]
      /\ \A e \in Dispatchers : current'[e].step = "mark" => current'[e] = current[e]
  BY <1>1, DispatcherTo
<1>3. /\ todo' \in [Dispatchers -> SUBSET Commands]
      /\ \A e \in Dispatchers : todo'[e] \subseteq todo[e]
  BY <1>1 DEF OutboxInv, OutboxTypeOK
<1>4. faults' \in 0..MaxFaults
  BY BoundsAssumption DEF TickDies, MarkFails, OutboxInv, OutboxTypeOK
<1>5. OutboxTypeOK'
  BY <1>1, <1>2, <1>3, <1>4 DEF OutboxInv, OutboxTypeOK
<1>6. /\ EventsFollowRun' /\ LeasesFollowEvents' /\ DispatchedStays /\ BatchesCommitted'
      /\ ActiveWasDelivered' /\ NothingBeforeCommit' /\ DispatchedWasQueued'
  BY <1>1, <1>3
  DEF OutboxInv, EventsFollowRun, LeasesFollowEvents, DispatchedStays, BatchesCommitted,
      ActiveWasDelivered, NothingBeforeCommit, DispatchedWasQueued, Queued
<1>7. AddedIsQueued'
  BY <1>1, <1>2 DEF OutboxInv, AddedIsQueued, Queued
<1>8. QED
  BY <1>5, <1>6, <1>7 DEF OutboxInv

\* The queue delivers a job, and removes it once it is over.
LEMMA QueueStep ==
    ASSUME OutboxInv, NEW c \in Commands, Deliver(c) \/ Remove(c)
    PROVE  OutboxInv' /\ DispatchedStays
<1>1. UNCHANGED <<idOf, committed, event, lease, leaseLapsed, available, todo, current, faults>>
  BY DEF Deliver, Remove, tableVars
<1>2. queue \in [Commands -> {"none", "waiting", "active"}] /\ deliveries \in [Commands -> BOOLEAN]
  BY DEF OutboxInv, OutboxTypeOK
<1>3. queue[c] = "active" => deliveries[c]
  BY DEF OutboxInv, ActiveWasDelivered
<1>4. /\ queue' \in [Commands -> {"none", "waiting", "active"}] /\ deliveries' \in [Commands -> BOOLEAN]
      /\ \A k \in Commands : k # c => queue'[k] = queue[k] /\ deliveries'[k] = deliveries[k]
      /\ queue[c] # "none" /\ deliveries'[c]
  BY <1>2, <1>3 DEF Deliver, Remove
<1>5. \A k \in Commands : Queued(k)' = Queued(k)
  BY <1>4 DEF Queued
<1>6. ActiveWasDelivered'
  BY <1>4 DEF OutboxInv, ActiveWasDelivered
<1>7. OutboxTypeOK'
  BY <1>1, <1>4 DEF OutboxInv, OutboxTypeOK
<1>8. /\ EventsFollowRun' /\ LeasesFollowEvents' /\ BatchesCommitted' /\ DispatchedStays
      /\ NothingBeforeCommit' /\ DispatchedWasQueued'
  BY <1>1, <1>5
  DEF OutboxInv, EventsFollowRun, LeasesFollowEvents, BatchesCommitted, DispatchedStays,
      NothingBeforeCommit, DispatchedWasQueued
<1>9. AddedIsQueued'
  BY <1>1, <1>5 DEF OutboxInv, OutboxTypeOK, AddedIsQueued
<1>10. QED
  BY <1>6, <1>7, <1>8, <1>9 DEF OutboxInv

LEMMA OutboxStep == OutboxInv /\ [OutboxNext]_outboxVars => OutboxInv' /\ [DispatchedStays]_outboxVars
<1> SUFFICES ASSUME OutboxInv, [OutboxNext]_outboxVars
             PROVE  OutboxInv' /\ [DispatchedStays]_outboxVars
  OBVIOUS
<1>1. CASE UNCHANGED outboxVars
  BY <1>1
  DEF outboxVars, tableVars, OutboxInv, OutboxTypeOK, EventsFollowRun, LeasesFollowEvents,
      BatchesCommitted, AddedIsQueued, ActiveWasDelivered, NothingBeforeCommit, DispatchedWasQueued,
      Queued
<1>2. CASE OutboxNext
  BY <1>2, TableStep, ClaimPendingStep, AddStep, SettleStep, DispatcherFailsStep, QueueStep
  DEF OutboxNext, DispatcherStep, Fault
<1>3. QED
  BY <1>1, <1>2

LEMMA OutboxHolds == OutboxSpec => []OutboxInv
  BY InitOutbox, OutboxStep, PTL DEF OutboxSpec

\* Every variable of the outbox has its type, for any number of commands and
\* dispatchers, batches of any size and any number of faults.
THEOREM OutboxTypeCorrect == OutboxSpec => []OutboxTypeOK
<1>1. OutboxInv => OutboxTypeOK
  BY DEF OutboxInv
<1>2. QED
  BY <1>1, OutboxHolds, PTL

\* No command gets to the queue before the transaction that consumed its
\* authorization has committed, and no event is marked as dispatched whose command
\* did not get there, whichever adds and database calls fail and whoever holds the
\* lease by then.
THEOREM OutboxSafe == OutboxSpec => []NothingBeforeCommit /\ []DispatchedWasQueued
<1>1. OutboxInv => NothingBeforeCommit /\ DispatchedWasQueued
  BY DEF OutboxInv
<1>2. QED
  BY <1>1, OutboxHolds, PTL

\* An event that was dispatched is never due or leased again: a late dispatcher may
\* add its command once more, but the table keeps what was reached.
THEOREM DispatchedProven == OutboxSpec => DispatchedForGood
  BY OutboxHolds, OutboxStep, PTL DEF OutboxSpec, DispatchedForGood
=============================================================================
