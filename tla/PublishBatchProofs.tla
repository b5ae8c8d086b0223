-------------------------- MODULE PublishBatchProofs --------------------------
(***************************************************************************)
(* The safety properties of PublishBatch, for every set of items, calls    *)
(* and drafts and all bounds.                                              *)
(*                                                                         *)
(* A recorded preflight gives every candidate a new number, so that a      *)
(* number and an item name one candidate (CandidatesAreNumbered,           *)
(* ApprovedAreNumbered).  The preflight document keeps to these            *)
(* candidates because every write compares it with the one that was read,  *)
(* and because of what the read decided (DocumentInv, CallsKnow).  Runs    *)
(* and jobs point at each other (RunsAreApproved, JobsNameRuns), and a     *)
(* worker knows its claim or the body it has in hand (WorkersKnow).        *)
(***************************************************************************)
EXTENDS PublishBatch, TLAPS

\* The candidate of an item comes from a recorded preflight.
CandidatesAreNumbered ==
    \A i \in Items : candidate[i] = NoCandidate \/ candidate[i].gen \in 1..generation

\* So does what was confirmed, and its number says which candidate it is.
ApprovedAreNumbered ==
    \A i \in Items, c \in Candidate : <<i, c>> \in approved =>
        /\ c.gen \in 1..generation
        /\ candidate[i].gen = c.gen => candidate[i] = c

\* All candidates of a snapshot were confirmed.
Approved(snapshot) == \A i \in Items : <<i, snapshot[i]>> \in approved

\* The document was confirmed before it was planned, planned before it was
\* authorized, and authorized before it has a protocol.
DocumentInv ==
    /\ DocumentIsCurrent
    /\ pf.confirmed # NoSnapshot => Approved(pf.confirmed)
    /\ pf.runId # 0 => pf.plan # NoSnapshot
    /\ pf.protocol # "none" => pf.runId # 0

\* A run was authorized for candidates that were confirmed.
RunsAreApproved == \A r \in RunIds : run[r].state # "none" => Approved(run[r].plan)

\* A job belongs to a run that plans it.
JobsNameRuns ==
    \A i \in Items, g \in Generations :
        /\ job[i][g].state = "none" => job[i][g].runId = 0
        /\ job[i][g].state # "none" =>
              /\ job[i][g].runId \in RunIds
              /\ run[job[i][g].runId].state # "none"
              /\ run[job[i][g].runId].plan[i].gen = g

\* No item of a snapshot is without candidate.
Whole(snapshot) == \A i \in Items : snapshot[i] # NoCandidate

\* What a call found when it decided to write.
CallKnows(c) ==
    /\ c.step = "mark" => c.action = "preflight"
    /\ c.step = "write" =>
        /\ c.action = "confirm" => Whole(c.candidate) /\ c.pf.confirmed # c.candidate
        /\ c.action = "plan-execution" =>
              Whole(c.candidate) /\ c.pf.confirmed = c.candidate /\ c.pf.plan # c.candidate
        /\ c.action = "authorize-execution" => Whole(c.pf.plan)
        /\ c.action = "execute" => c.pf.protocol = "issued"

CallsKnow == \A s \in Sessions : CallKnows(session[s])

\* A worker that waits for its turn or for SHEIN has its claim; one with a body in
\* hand may have lost it, but the body was confirmed, and the job's run planned it.
WorkerKnows(i, g) ==
    /\ call[i][g].step \in {"load", "wait"} => job[i][g].state = "claimed"
    /\ call[i][g].step = "post" =>
          /\ job[i][g].state # "none"
          /\ <<i, call[i][g].body>> \in approved
          /\ run[job[i][g].runId].plan[i] = call[i][g].body

WorkersKnow == \A i \in Items, g \in Generations : WorkerKnows(i, g)

IInv ==
    /\ TypeOK
    /\ CandidatesAreNumbered
    /\ ApprovedAreNumbered
    /\ DocumentInv
    /\ RunsAreApproved
    /\ JobsNameRuns
    /\ CallsKnow
    /\ RunsStandApart
    /\ WorkersKnow

-----------------------------------------------------------------------------
(* Types                                                                   *)

RunType  == [state : {"none", "issued", "running", "completed"}, plan : Snapshots, live : BOOLEAN]
JobType  == [state : JobStates, runId : 0..MaxRuns]
CallType == [step : {"idle", "call", "mark", "write"}, action : Actions, direct : BOOLEAN,
             pf : Documents, candidate : Snapshots, draft : [Items -> Sources]]

LEMMA Bounds ==
    /\ MaxGen \in Nat /\ MaxRuns \in Nat
    /\ Generations = 1..MaxGen /\ RunIds = 1..MaxRuns
    /\ 0 \in 0..MaxGen /\ 0 \in 0..MaxRuns
  BY BoundsAssumption DEF Generations, RunIds

LEMMA NoCandidateTyped ==
    /\ NoCandidate \in Candidate /\ NoCandidate.gen = 0
    /\ NoSnapshot \in Snapshots
  BY Bounds DEF NoCandidate, Candidate, NoSnapshot, Snapshots, Sources

\* A document with these fields.
DocumentIs(d, confirmed, plan, runId, protocol) ==
    /\ d \in Documents
    /\ d.confirmed = confirmed /\ d.plan = plan /\ d.runId = runId /\ d.protocol = protocol

LEMMA EmptyTyped ==
    /\ Empty \in Documents
    /\ \A b \in BOOLEAN : DocumentIs([Empty EXCEPT !.direct = b], NoSnapshot, NoSnapshot, 0, "none")
  BY NoCandidateTyped, Bounds DEF Empty, Documents, DocumentIs, ProtocolStates

LEMMA ConfirmedTyped ==
    ASSUME NEW d \in Documents, NEW c \in Snapshots
    PROVE  DocumentIs([d EXCEPT !.confirmed = c], c, d.plan, d.runId, d.protocol)
  BY DEF Documents, DocumentIs

LEMMA PlannedTyped ==
    ASSUME NEW d \in Documents, NEW c \in Snapshots
    PROVE  DocumentIs([d EXCEPT !.plan = c], d.confirmed, c, d.runId, d.protocol)
  BY DEF Documents, DocumentIs

LEMMA ProtocolTyped ==
    ASSUME NEW d \in Documents, NEW state \in ProtocolStates
    PROVE  DocumentIs([d EXCEPT !.protocol = state], d.confirmed, d.plan, d.runId, state)
  BY DEF Documents, DocumentIs

LEMMA AuthorizedTyped ==
    ASSUME NEW d \in Documents, NEW r \in RunIds
    PROVE  DocumentIs([d EXCEPT !.protocol = "issued", !.runId = r], d.confirmed, d.plan, r, "issued")
<1>1. "issued" \in ProtocolStates /\ r \in 0..MaxRuns
  BY Bounds DEF ProtocolStates
<1> DEFINE e == [d EXCEPT !.protocol = "issued"]
<1>2. DocumentIs(e, d.confirmed, d.plan, d.runId, "issued")
  BY <1>1, ProtocolTyped
<1>3. DocumentIs([e EXCEPT !.runId = r], e.confirmed, e.plan, r, e.protocol)
  <2> HIDE DEF e
  <2>1. QED
    BY <1>1, <1>2 DEF Documents, DocumentIs
<1>4. [d EXCEPT !.protocol = "issued", !.runId = r] = [e EXCEPT !.runId = r]
  OBVIOUS
<1> HIDE DEF e
<1>5. QED
  BY <1>2, <1>3, <1>4 DEF DocumentIs

LEMMA IdleTyped == Idle \in CallType /\ Idle.step = "idle"
  BY EmptyTyped, NoCandidateTyped DEF Idle, CallType, Actions, Sources

LEMMA StepTyped ==
    ASSUME NEW c \in CallType
    PROVE  [c EXCEPT !.step = "call"] \in CallType /\ [c EXCEPT !.step = "call"].step = "call"
  BY DEF CallType

LEMMA ActionTyped ==
    ASSUME NEW c \in CallType, NEW action \in Actions
    PROVE  /\ [c EXCEPT !.action = action] \in CallType
           /\ [c EXCEPT !.action = action].step = c.step
  BY DEF CallType

LEMMA DirectTyped ==
    ASSUME NEW c \in CallType
    PROVE  [c EXCEPT !.direct = TRUE] \in CallType /\ [c EXCEPT !.direct = TRUE].step = c.step
  BY DEF CallType

\* The call that publishNow makes after another one.
LEMMA CalledTyped ==
    ASSUME NEW c \in CallType, NEW action \in Actions
    PROVE  /\ [c EXCEPT !.step = "call", !.action = action, !.direct = TRUE] \in CallType
           /\ [c EXCEPT !.step = "call", !.action = action, !.direct = TRUE].step = "call"
           /\ [c EXCEPT !.step = "call", !.direct = TRUE] \in CallType
           /\ [c EXCEPT !.step = "call", !.direct = TRUE].step = "call"
<1> DEFINE called == [c EXCEPT !.step = "call"]
           acts   == [called EXCEPT !.action = action]
<1>1. /\ [c EXCEPT !.step = "call", !.action = action, !.direct = TRUE] = [acts EXCEPT !.direct = TRUE]
      /\ [c EXCEPT !.step = "call", !.direct = TRUE] = [called EXCEPT !.direct = TRUE]
  OBVIOUS
<1>2. called \in CallType /\ called.step = "call"
  BY StepTyped
<1> HIDE DEF called
<1>3. acts \in CallType /\ acts.step = "call"
  BY <1>2, ActionTyped
<1> HIDE DEF acts
<1>4. QED
  BY <1>1, <1>2, <1>3, DirectTyped

LEMMA WriteTyped ==
    ASSUME NEW c \in CallType
    PROVE  /\ [c EXCEPT !.step = "write"] \in CallType
           /\ [c EXCEPT !.step = "write"].action = c.action
  BY DEF CallType

LEMMA ReadingTyped ==
    ASSUME TypeOK, NEW action \in Actions, NEW direct \in BOOLEAN
    PROVE  Reading(action, direct) \in CallType
<1>1. /\ pf \in Documents /\ Empty \in Documents
      /\ candidate \in Snapshots /\ NoSnapshot \in Snapshots
      /\ draft \in [Items -> Sources] /\ Idle.draft \in [Items -> Sources]
  BY EmptyTyped, NoCandidateTyped, IdleTyped DEF TypeOK, CallType
<1>2. QED
  BY <1>1 DEF Reading, CallType

LEMMA SetJobTyped ==
    ASSUME TypeOK, NEW i \in Items, NEW g \in Generations, NEW state \in JobStates,
           SetJob(i, g, state)
    PROVE  /\ job' \in [Items -> [Generations -> JobType]]
           /\ job'[i][g].state = state /\ job'[i][g].runId = job[i][g].runId
           /\ \A k \in Items, h \in Generations : k # i \/ h # g => job'[k][h] = job[k][h]
<1> DEFINE row == [job[i][g] EXCEPT !.state = state]
<1>1. job \in [Items -> [Generations -> JobType]]
  BY DEF TypeOK, JobType
<1>2. row \in JobType /\ row.state = state /\ row.runId = job[i][g].runId
  BY <1>1 DEF JobType
<1>3. job' = [job EXCEPT ![i] = [job[i] EXCEPT ![g] = row]]
  BY DEF SetJob
<1> HIDE DEF row
<1>4. [job[i] EXCEPT ![g] = row] \in [Generations -> JobType]
  BY <1>1, <1>2
<1>5. \A k \in Items, h \in Generations : job'[k][h] = IF k = i /\ h = g THEN row ELSE job[k][h]
  BY <1>1, <1>3
<1>6. job' \in [Items -> [Generations -> JobType]]
  BY <1>1, <1>3, <1>4
<1>7. QED
  BY <1>2, <1>5, <1>6

\* The types, group by group.
RowsTyped  == draft \in [Items -> Sources] /\ batch \in States /\ item \in [Items -> States]
CandsTyped == candidate \in Snapshots /\ generation \in 0..MaxGen /\ approved \subseteq Items \X Candidate
RunsTyped  == run \in [RunIds -> RunType]
JobsTyped  == job \in [Items -> [Generations -> JobType]]
CallsTyped == session \in [Sessions -> CallType]

\* All types but those of the workers' calls, which are at the end of the module.
StateTyped ==
    /\ RowsTyped /\ CandsTyped /\ pf \in Documents
    /\ RunsTyped /\ JobsTyped /\ CallsTyped

WorkType  == [step : CallSteps, body : Candidate]
WorkTyped == call \in [Items -> [Generations -> WorkType]]

LEMMA TypesAre ==
    TypeOK <=> RowsTyped /\ CandsTyped /\ pf \in Documents /\ RunsTyped /\ JobsTyped /\ CallsTyped
               /\ WorkTyped
  BY DEF TypeOK, RowsTyped, CandsTyped, RunsTyped, JobsTyped, CallsTyped, WorkTyped, RunType,
         JobType, CallType, WorkType

LEMMA TypesArePrimed ==
    /\ TypeOK' <=> StateTyped' /\ WorkTyped'
    /\ StateTyped' <=> RowsTyped' /\ CandsTyped' /\ pf' \in Documents /\ RunsTyped' /\ JobsTyped'
                       /\ CallsTyped'
  BY DEF TypeOK, StateTyped, RowsTyped, CandsTyped, RunsTyped, JobsTyped, CallsTyped, WorkTyped,
         RunType, JobType, CallType, WorkType

-----------------------------------------------------------------------------
(* Calls                                                                   *)

\* One call goes on.
LEMMA CallTo ==
    ASSUME TypeOK, CallsKnow, NEW s \in Sessions, NEW c \in CallType, CallKnows(c),
           session' = [session EXCEPT ![s] = c]
    PROVE  CallsTyped' /\ CallsKnow'
<1>1. session \in [Sessions -> CallType]
  BY DEF TypeOK, CallType
<1>2. CallsTyped'
  BY <1>1 DEF CallsTyped
<1>3. \A t \in Sessions : session'[t] = IF t = s THEN c ELSE session[t]
  BY <1>1
<1>4. CallsKnow'
  BY <1>3 DEF CallsKnow, CallKnows
<1>5. QED
  BY <1>2, <1>4

LEMMA CallsStay ==
    ASSUME TypeOK, CallsKnow, session' = session
    PROVE  CallsTyped' /\ CallsKnow'
  BY DEF TypeOK, CallsTyped, CallType, CallsKnow, CallKnows

LEMMA StopStep ==
    ASSUME TypeOK, CallsKnow, NEW s \in Sessions, Stop(s)
    PROVE  CallsTyped' /\ CallsKnow'
  BY IdleTyped, CallTo DEF Stop, CallKnows

LEMMA ReturnStep ==
    ASSUME TypeOK, CallsKnow, NEW s \in Sessions, Return(s)
    PROVE  CallsTyped' /\ CallsKnow'
<1>1. session[s].action \in Actions
  BY DEF TypeOK
<1>2. CASE session[s].direct /\ session[s].action # "execute"
  <2>1. After(session[s].action) \in Actions
    BY <1>1, <1>2 DEF After, Actions
  <2> DEFINE c == [Idle EXCEPT !.step = "call", !.action = After(session[s].action), !.direct = TRUE]
  <2>2. c \in CallType /\ c.step = "call"
    BY <2>1, CalledTyped, IdleTyped
  <2>3. session' = [session EXCEPT ![s] = c]
    BY <1>2 DEF Return
  <2> HIDE DEF c
  <2>4. CallKnows(c)
    BY <2>2 DEF CallKnows
  <2>5. QED
    BY <2>2, <2>3, <2>4, CallTo
<1>3. CASE ~(session[s].direct /\ session[s].action # "execute")
  BY <1>3, StopStep DEF Return
<1>4. QED
  BY <1>2, <1>3

\* A call that proceeds knows why.
LEMMA ReadingKnows ==
    ASSUME NEW action \in Actions, NEW direct \in BOOLEAN, Proceeds(action, direct)
    PROVE  CallKnows(Reading(action, direct))
<1>1. /\ Reading(action, direct).action = action
      /\ Reading(action, direct).step = "mark" => action = "preflight"
      /\ action # "preflight" => Reading(action, direct).pf = pf
      /\ action \in {"confirm", "plan-execution"} => Reading(action, direct).candidate = candidate
  BY DEF Reading
<1>2. CASE action = "preflight"
  BY <1>1, <1>2 DEF CallKnows
<1>3. CASE action = "confirm"
  <2>1. Frozen /\ ~Confirmed
    BY <1>3 DEF Proceeds
  <2>2. QED
    BY <1>1, <1>3, <2>1 DEF CallKnows, Frozen, Confirmed, Whole
<1>4. CASE action = "plan-execution"
  <2>1. Confirmed /\ ~Planned
    BY <1>4 DEF Proceeds
  <2>2. QED
    BY <1>1, <1>4, <2>1 DEF CallKnows, Frozen, Confirmed, Planned, Whole
<1>5. CASE action = "authorize-execution"
  <2>1. Planned
    BY <1>5 DEF Proceeds
  <2>2. QED
    BY <1>1, <1>5, <2>1 DEF CallKnows, Frozen, Confirmed, Planned, Whole
<1>6. CASE action = "execute"
  <2>1. pf.protocol = "issued"
    BY <1>6 DEF Proceeds
  <2>2. QED
    BY <1>1, <1>6, <2>1 DEF CallKnows
<1>7. QED
  BY <1>2, <1>3, <1>4, <1>5, <1>6 DEF Actions

LEMMA ReadingStep ==
    ASSUME TypeOK, CallsKnow, NEW s \in Sessions, NEW action \in Actions, NEW direct \in BOOLEAN,
           Proceeds(action, direct), session' = [session EXCEPT ![s] = Reading(action, direct)]
    PROVE  CallsTyped' /\ CallsKnow'
  BY ReadingTyped, ReadingKnows, CallTo

-----------------------------------------------------------------------------
(* What a step does to candidates, document, runs and jobs                 *)

CoreInv ==
    /\ CandidatesAreNumbered
    /\ ApprovedAreNumbered
    /\ DocumentInv
    /\ RunsAreApproved
    /\ JobsNameRuns
    /\ RunsStandApart

LEMMA IInvIs == IInv <=> TypeOK /\ CallsKnow /\ CoreInv /\ WorkersKnow
  BY DEF IInv, CoreInv

LEMMA IInvIsPrimed == IInv' <=> TypeOK' /\ CallsKnow' /\ CoreInv' /\ WorkersKnow'
  BY DEF IInv, CoreInv

CoreStays == UNCHANGED <<candidate, pf, generation, run, job, approved>>

LEMMA StayStep == ASSUME CoreInv, CoreStays PROVE CoreInv'
  BY DEF CoreInv, CoreStays, CandidatesAreNumbered, ApprovedAreNumbered, DocumentInv,
         DocumentIsCurrent, Approved, RunsAreApproved, JobsNameRuns, RunsStandApart,
         RunOwnsItsRequests, ProtocolTellsRun

Consumed == {"running", "completed"}
Waiting  == {"none", "authorized"}

\* No run begins, none is taken back, and their plans stay.
RunsKeepPlans ==
    \A r \in RunIds :
        /\ run'[r].plan = run[r].plan
        /\ run'[r].state = "none" <=> run[r].state = "none"
        /\ run[r].state \in Consumed => run'[r].state \in Consumed

\* No job begins, and only those of a consumed run move.
JobsKeepRuns ==
    \A i \in Items, g \in Generations :
        /\ job'[i][g].runId = job[i][g].runId
        /\ job'[i][g].state = "none" <=> job[i][g].state = "none"
        /\ job'[i][g].state \notin Waiting =>
              job[i][g].state \notin Waiting \/ run[job[i][g].runId].state \in Consumed

\* Only the protocol in the document changes.
DocumentKeeps ==
    /\ pf'.confirmed = pf.confirmed /\ pf'.plan = pf.plan /\ pf'.runId = pf.runId
    /\ pf'.protocol # "none" => pf.runId # 0

DocumentTells ==
    /\ pf.protocol = "issued" => run[pf.runId].state = "issued"
    /\ pf.protocol = "running" => run[pf.runId].state \in Consumed

LEMMA ProgressStep ==
    ASSUME TypeOK, CoreInv, RunsKeepPlans, JobsKeepRuns, DocumentKeeps, DocumentTells',
           UNCHANGED <<candidate, generation, approved>>
    PROVE  CoreInv'
<1> USE DEF CoreInv
<1>1. CandidatesAreNumbered' /\ ApprovedAreNumbered'
  BY DEF CandidatesAreNumbered, ApprovedAreNumbered
<1>2. pf.runId # 0 => pf.runId \in RunIds
  BY Bounds DEF TypeOK, Documents
<1>3. DocumentInv'
  BY <1>2 DEF DocumentInv, DocumentIsCurrent, Approved, DocumentKeeps, RunsKeepPlans
<1>4. RunsAreApproved'
  BY DEF RunsAreApproved, Approved, RunsKeepPlans
<1>5. JobsNameRuns'
  BY DEF JobsNameRuns, JobsKeepRuns, RunsKeepPlans
<1>6. RunOwnsItsRequests'
  <2> SUFFICES ASSUME NEW r \in RunIds, run'[r].state # "none", NEW i \in Items
               PROVE  job'[i][run'[r].plan[i].gen].runId = r
    BY DEF RunOwnsItsRequests
  <2>1. run[r].state # "none" /\ run'[r].plan = run[r].plan
    BY DEF RunsKeepPlans
  <2>2. <<i, run[r].plan[i]>> \in approved
    BY <2>1 DEF RunsAreApproved, Approved
  <2>3. run[r].plan[i].gen \in Generations
    <3>1. run[r].plan[i] \in Candidate /\ generation \in 0..MaxGen
      BY DEF TypeOK, Snapshots
    <3>2. run[r].plan[i].gen \in 1..generation
      BY <2>2, <3>1 DEF ApprovedAreNumbered
    <3>3. QED
      BY <3>1, <3>2, Bounds
  <2>4. job[i][run[r].plan[i].gen].runId = r
    BY <2>1 DEF RunsStandApart, RunOwnsItsRequests
  <2>5. QED
    BY <2>1, <2>3, <2>4 DEF JobsKeepRuns
<1>7. ProtocolTellsRun'
  <2> SUFFICES ASSUME NEW i \in Items, NEW g \in Generations, job'[i][g].state \notin Waiting
               PROVE  run'[job'[i][g].runId].state \in Consumed
    BY DEF ProtocolTellsRun, DocumentTells, Waiting, Consumed
  <2>1. job'[i][g].runId = job[i][g].runId /\ job[i][g].state # "none"
    BY DEF JobsKeepRuns, Waiting
  <2>2. job[i][g].runId \in RunIds
    BY <2>1 DEF JobsNameRuns
  <2>3. run[job[i][g].runId].state \in Consumed
    BY DEF JobsKeepRuns, RunsStandApart, ProtocolTellsRun, Waiting, Consumed
  <2>4. QED
    BY <2>1, <2>2, <2>3 DEF RunsKeepPlans
<1>8. QED
  BY <1>1, <1>3, <1>4, <1>5, <1>6, <1>7 DEF RunsStandApart

-----------------------------------------------------------------------------
(* The workers                                                             *)

LEMMA JobMoves ==
    ASSUME TypeOK, CoreInv, NEW i \in Items, NEW g \in Generations, NEW state \in JobStates,
           state # "none", job[i][g].state # "none",
           job[i][g].state \notin Waiting \/ run[job[i][g].runId].state \in Consumed,
           SetJob(i, g, state)
    PROVE  JobsTyped' /\ JobsKeepRuns
<1>1. /\ job' \in [Items -> [Generations -> JobType]]
      /\ job'[i][g].state = state /\ job'[i][g].runId = job[i][g].runId
      /\ \A k \in Items, h \in Generations : k # i \/ h # g => job'[k][h] = job[k][h]
  BY SetJobTyped
<1>2. ASSUME NEW k \in Items, NEW h \in Generations
      PROVE  /\ job'[k][h].runId = job[k][h].runId
             /\ job'[k][h].state = "none" <=> job[k][h].state = "none"
             /\ job'[k][h].state \notin Waiting =>
                   job[k][h].state \notin Waiting \/ run[job[k][h].runId].state \in Consumed
  <2>1. CASE k = i /\ h = g
    BY <1>1, <2>1
  <2>2. CASE k # i \/ h # g
    BY <1>1, <2>2
  <2>3. QED
    BY <2>1, <2>2
<1>3. QED
  BY <1>1, <1>2 DEF JobsTyped, JobsKeepRuns

\* A job that left its queue belongs to a consumed run.
LEMMA MovedJobs ==
    ASSUME CoreInv, NEW i \in Items, NEW g \in Generations, job[i][g].state \notin Waiting
    PROVE  job[i][g].runId \in RunIds /\ run[job[i][g].runId].state \in Consumed
  BY DEF CoreInv, JobsNameRuns, RunsStandApart, ProtocolTellsRun, Waiting, Consumed

LEMMA ClaimableJobs ==
    ASSUME CoreInv, NEW i \in Items, NEW g \in Generations, Claimable(i, g)
    PROVE  /\ job[i][g].state # "none" /\ job[i][g].state # "claimed"
           /\ job[i][g].runId \in RunIds /\ run[job[i][g].runId].state \in Consumed
  BY DEF CoreInv, JobsNameRuns, Claimable, Consumed

\* The runs keep their state, but a consumed one may complete.
RunsKeepState ==
    \A r \in RunIds :
        /\ run'[r].plan = run[r].plan
        /\ run'[r].state = run[r].state \/ (run[r].state = "running" /\ run'[r].state = "completed")

Ended == {"partial_failure", "failed", "completed"}

DocumentEnds ==
    \/ pf' = pf
    \/ /\ pf.runId # 0
       /\ \E state \in Ended : pf' = [pf EXCEPT !.protocol = state]

\* A step that moves jobs and runs on, and perhaps ends the protocol.
LEMMA WorkStep ==
    ASSUME TypeOK, CoreInv, RunsKeepState, JobsKeepRuns, DocumentEnds,
           UNCHANGED <<candidate, generation, approved>>
    PROVE  pf' \in Documents /\ CoreInv'
<1>1. RunsKeepPlans
  BY DEF RunsKeepState, RunsKeepPlans, Consumed
<1>2. pf \in Documents
  BY DEF TypeOK
<1>3. /\ pf' \in Documents /\ DocumentKeeps
      /\ pf'.protocol \in Ended \/ pf'.protocol = pf.protocol
  <2>1. CASE pf' = pf
    BY <1>2, <2>1 DEF DocumentKeeps, CoreInv, DocumentInv
  <2>2. ASSUME pf.runId # 0, NEW state \in Ended, pf' = [pf EXCEPT !.protocol = state]
        PROVE  pf' \in Documents /\ DocumentKeeps /\ pf'.protocol \in Ended
    <3>1. state \in ProtocolStates
      BY DEF Ended, ProtocolStates
    <3>2. DocumentIs(pf', pf.confirmed, pf.plan, pf.runId, state)
      BY <1>2, <2>2, <3>1, ProtocolTyped
    <3>3. QED
      BY <2>2, <3>2 DEF DocumentIs, DocumentKeeps
  <2>3. QED
    BY <2>1, <2>2 DEF DocumentEnds
<1>4. pf.protocol # "none" => pf.runId \in RunIds
  BY <1>2, Bounds DEF Documents, CoreInv, DocumentInv
<1>5. DocumentTells
  BY DEF DocumentTells, CoreInv, RunsStandApart, ProtocolTellsRun, Consumed
<1>6. DocumentTells'
  <2> SUFFICES ASSUME pf'.protocol \in {"issued", "running"}
               PROVE  /\ pf'.protocol = "issued" => run'[pf'.runId].state = "issued"
                      /\ pf'.protocol = "running" => run'[pf'.runId].state \in Consumed
    BY DEF DocumentTells
  <2>1. pf'.protocol = pf.protocol /\ pf'.runId = pf.runId /\ pf.runId \in RunIds
    BY <1>3, <1>4 DEF Ended, DocumentKeeps
  <2>2. QED
    BY <1>5, <2>1 DEF DocumentTells, RunsKeepState, Consumed
<1>7. QED
  BY <1>1, <1>3, <1>6, ProgressStep

LEMMA FailStep ==
    ASSUME TypeOK, CoreInv, NEW i \in Items, NEW g \in Generations,
           NEW state \in {"failed_retryable", "failed_terminal"},
           job[i][g].state # "none", job[i][g].runId \in RunIds,
           run[job[i][g].runId].state \in Consumed, FailJob(i, g, state)
    PROVE  StateTyped' /\ CoreInv' /\ session' = session
<1>1. JobsTyped' /\ JobsKeepRuns
  BY JobMoves DEF FailJob, JobStates
<1>2. UNCHANGED <<draft, candidate, generation, run, session, approved>>
  BY DEF FailJob
<1>3. RunsKeepState
  BY <1>2 DEF RunsKeepState
<1>4. DocumentEnds
  BY DEF FailJob, DocumentEnds, Ended
<1>5. pf' \in Documents /\ CoreInv'
  BY <1>1, <1>2, <1>3, <1>4, WorkStep
<1>6. RowsTyped'
  BY DEF TypeOK, RowsTyped, FailJob, States, OpenStates
<1>7. CandsTyped' /\ RunsTyped' /\ CallsTyped'
  BY <1>2, TypesAre DEF CandsTyped, RunsTyped, CallsTyped
<1>8. QED
  BY <1>1, <1>2, <1>5, <1>6, <1>7, TypesArePrimed

\* A step of a worker that moves its job and nothing else of the batch.
LEMMA MoveStep ==
    ASSUME TypeOK, CoreInv, NEW i \in Items, NEW g \in Generations,
           NEW state \in {"claimed", "submitted"}, job[i][g].state # "none",
           job[i][g].state \notin Waiting \/ run[job[i][g].runId].state \in Consumed,
           SetJob(i, g, state), UNCHANGED <<draft, batchVars, run, session, approved>>
    PROVE  StateTyped' /\ CoreInv'
<1>1. UNCHANGED <<draft, batch, item, candidate, pf, generation, run, session, approved>>
  BY DEF batchVars
<1>2. JobsTyped' /\ JobsKeepRuns
  BY JobMoves DEF JobStates
<1>3. RunsKeepState /\ DocumentEnds
  BY <1>1 DEF RunsKeepState, DocumentEnds
<1>4. pf' \in Documents /\ CoreInv'
  BY <1>1, <1>2, <1>3, WorkStep
<1>5. RowsTyped' /\ CandsTyped' /\ RunsTyped' /\ CallsTyped'
  BY <1>1, TypesAre DEF RowsTyped, CandsTyped, RunsTyped, CallsTyped
<1>6. QED
  BY <1>1, <1>2, <1>4, <1>5, TypesArePrimed

LEMMA CompleteStep ==
    ASSUME TypeOK, CoreInv, NEW i \in Items, NEW g \in Generations, CompleteJob(i, g)
    PROVE  StateTyped' /\ CoreInv' /\ session' = session /\ RunsKeepState
<1> DEFINE r == job[i][g].runId
           allOfBatch == \A k \in Items, h \in Generations :
                            job[k][h].state # "none" => job'[k][h].state = "completed"
           allOfRun == \A k \in Items, h \in Generations :
                            job[k][h].runId = r => job'[k][h].state = "completed"
<1>1. /\ job[i][g].state \notin Waiting /\ SetJob(i, g, "completed")
      /\ item' = [item EXCEPT ![i] = "completed"]
      /\ IF allOfBatch
         THEN batch' = "completed" /\ pf' = IF pf.runId = 0 THEN pf ELSE [pf EXCEPT !.protocol = "completed"]
         ELSE UNCHANGED <<batch, pf>>
      /\ run' = IF run[r].state = "running" /\ allOfRun THEN [run EXCEPT ![r].state = "completed"] ELSE run
      /\ UNCHANGED <<draft, candidate, generation, session, approved>>
  BY DEF CompleteJob, Waiting
<1>2. r \in RunIds
  BY <1>1, MovedJobs
<1> HIDE DEF allOfBatch, allOfRun
<1>3. JobsTyped' /\ JobsKeepRuns
  BY <1>1, JobMoves DEF JobStates, Waiting
<1> HIDE DEF r
<1>4. RunsTyped' /\ RunsKeepState
  <2>1. run \in [RunIds -> RunType]
    BY DEF TypeOK, RunType
  <2>2. CASE run[r].state = "running" /\ allOfRun
    <3> DEFINE row == [run[r] EXCEPT !.state = "completed"]
    <3>1. row \in RunType /\ row.state = "completed" /\ row.plan = run[r].plan
      BY <1>2, <2>1 DEF RunType
    <3>2. run' = [run EXCEPT ![r] = row]
      BY <1>1, <2>2
    <3> HIDE DEF row
    <3>3. \A q \in RunIds : run'[q] = IF q = r THEN row ELSE run[q]
      BY <2>1, <3>2
    <3>4. RunsTyped'
      BY <2>1, <3>1, <3>2 DEF RunsTyped
    <3>5. QED
      BY <2>2, <3>1, <3>3, <3>4 DEF RunsKeepState
  <2>3. CASE run' = run
    BY <2>1, <2>3 DEF RunsTyped, RunsKeepState
  <2>4. QED
    BY <1>1, <2>2, <2>3
<1>5. DocumentEnds
  BY <1>1 DEF DocumentEnds, Ended
<1>6. pf' \in Documents /\ CoreInv'
  BY <1>1, <1>3, <1>4, <1>5, WorkStep
<1>7. RowsTyped'
  BY <1>1 DEF TypeOK, RowsTyped, States, OpenStates
<1>8. CandsTyped' /\ CallsTyped'
  BY <1>1, TypesAre DEF CandsTyped, CallsTyped
<1>9. QED
  BY <1>1, <1>3, <1>4, <1>6, <1>7, <1>8, TypesArePrimed

-----------------------------------------------------------------------------
(* Drafts, deadlines and the calls that only change states                 *)

LEMMA EditStep ==
    ASSUME TypeOK, CoreInv, NEW i \in Items, EditDraft(i)
    PROVE  StateTyped' /\ CoreInv' /\ session' = session
<1>1. /\ UNCHANGED <<batch, item, candidate, pf, generation, run, job, session, approved>>
      /\ \E source \in Sources \ {draft[i]} : draft' = [draft EXCEPT ![i] = source]
  BY DEF EditDraft, batchVars, runVars
<1>2. RowsTyped'
  BY <1>1 DEF TypeOK, RowsTyped
<1>3. CandsTyped' /\ pf' \in Documents /\ RunsTyped' /\ JobsTyped' /\ CallsTyped'
  BY <1>1, TypesAre DEF CandsTyped, RunsTyped, JobsTyped, CallsTyped
<1>4. QED
  BY <1>1, <1>2, <1>3, TypesArePrimed, StayStep DEF CoreStays

LEMMA DeadlineStep ==
    ASSUME TypeOK, CoreInv, NEW r \in RunIds, AuthorizationDeadline(r)
    PROVE  StateTyped' /\ CoreInv' /\ session' = session /\ RunsKeepState
<1> DEFINE row == [run[r] EXCEPT !.live = FALSE]
<1>1. /\ UNCHANGED <<draft, batch, item, candidate, pf, generation, job, session, approved>>
      /\ run' = [run EXCEPT ![r] = row]
  BY DEF AuthorizationDeadline, batchVars
<1>2. run \in [RunIds -> RunType]
  BY DEF TypeOK, RunType
<1>3. row \in RunType /\ row.state = run[r].state /\ row.plan = run[r].plan
  BY <1>2 DEF RunType
<1> HIDE DEF row
<1>4. \A q \in RunIds : run'[q] = IF q = r THEN row ELSE run[q]
  BY <1>1, <1>2
<1>5. RunsTyped' /\ RunsKeepState
  BY <1>1, <1>2, <1>3, <1>4 DEF RunsTyped, RunsKeepState
<1>6. JobsKeepRuns /\ DocumentEnds
  BY <1>1 DEF JobsKeepRuns, DocumentEnds
<1>7. pf' \in Documents /\ CoreInv'
  BY <1>1, <1>5, <1>6, WorkStep
<1>8. RowsTyped' /\ CandsTyped' /\ JobsTyped' /\ CallsTyped'
  BY <1>1, TypesAre DEF RowsTyped, CandsTyped, JobsTyped, CallsTyped
<1>9. QED
  BY <1>1, <1>5, <1>7, <1>8, TypesArePrimed

\* The state of the batch and of its items.
LEMMA SetStateStep ==
    ASSUME TypeOK, CoreInv, NEW state \in States, SetState(state),
           UNCHANGED <<draft, run, job, approved>>
    PROVE  RowsTyped' /\ CandsTyped' /\ pf' \in Documents /\ RunsTyped' /\ JobsTyped' /\ CoreInv'
<1>1. UNCHANGED <<candidate, pf, generation>>
  BY DEF SetState
<1>2. RowsTyped'
  BY DEF TypeOK, RowsTyped, SetState, States
<1>3. QED
  BY <1>1, <1>2, TypesAre, StayStep DEF CandsTyped, RunsTyped, JobsTyped, CoreStays

LEMMA SessionsStay ==
    ASSUME TypeOK, session' = session
    PROVE  CallsTyped'
  BY TypesAre DEF CallsTyped

LEMMA PauseStep ==
    ASSUME TypeOK, CoreInv, Pause \/ Requeue
    PROVE  StateTyped' /\ CoreInv' /\ session' = session
<1>1. /\ SetState("paused") \/ SetState("queued")
      /\ UNCHANGED <<draft, run, job, session, approved>>
  BY DEF Pause, Requeue, runVars
<1>2. "paused" \in States /\ "queued" \in States
  BY DEF States, OpenStates
<1>3. QED
  BY <1>1, <1>2, SetStateStep, SessionsStay, TypesArePrimed

LEMMA MarkStep ==
    ASSUME TypeOK, CallsKnow, CoreInv, NEW s \in Sessions, MarkPreflighting(s)
    PROVE  StateTyped' /\ CallsKnow' /\ CoreInv'
<1> DEFINE c == [session[s] EXCEPT !.step = "write"]
<1>1. /\ SetState("preflighting") /\ UNCHANGED <<draft, run, job, approved>>
      /\ session' = [session EXCEPT ![s] = c]
  BY DEF MarkPreflighting, runVars
<1>2. session[s] \in CallType
  BY DEF TypeOK, CallType
<1>3. session[s].action = "preflight"
  BY DEF MarkPreflighting, CallsKnow, CallKnows
<1>4. c \in CallType /\ c.action = "preflight"
  BY <1>2, <1>3, WriteTyped
<1> HIDE DEF c
<1>5. CallKnows(c)
  BY <1>4 DEF CallKnows
<1>6. CallsTyped' /\ CallsKnow'
  BY <1>1, <1>4, <1>5, CallTo
<1>7. "preflighting" \in States
  BY DEF States, OpenStates
<1>8. QED
  BY <1>1, <1>6, <1>7, SetStateStep, TypesArePrimed

\* Steps of a call that only remember something.
LEMMA RememberStep ==
    ASSUME TypeOK, CoreInv, CallsTyped', UNCHANGED <<draft, batchVars, run, job, approved>>
    PROVE  StateTyped' /\ CoreInv'
<1>1. UNCHANGED <<draft, batch, item, candidate, pf, generation, run, job, approved>>
  BY DEF batchVars
<1>2. RowsTyped' /\ CandsTyped' /\ pf' \in Documents /\ RunsTyped' /\ JobsTyped'
  BY <1>1, TypesAre DEF RowsTyped, CandsTyped, RunsTyped, JobsTyped
<1>3. QED
  BY <1>1, <1>2, TypesArePrimed, StayStep DEF CoreStays

LEMMA BeginStep ==
    ASSUME TypeOK, CallsKnow, CoreInv, NEW s \in Sessions, BeginPublishNow(s)
    PROVE  StateTyped' /\ CallsKnow' /\ CoreInv'
<1> DEFINE c == [Idle EXCEPT !.step = "call", !.direct = TRUE]
<1>1. session' = [session EXCEPT ![s] = c] /\ UNCHANGED <<draft, batchVars, runVars, approved>>
  BY DEF BeginPublishNow
<1>2. c \in CallType /\ c.step = "call"
  BY CalledTyped, IdleTyped DEF Actions
<1> HIDE DEF c
<1>3. CallKnows(c)
  BY <1>2 DEF CallKnows
<1>4. QED
  BY <1>1, <1>2, <1>3, CallTo, RememberStep DEF runVars

LEMMA ActStep ==
    ASSUME TypeOK, CallsKnow, CoreInv, NEW s \in Sessions, NEW action \in Actions, Act(s, action)
    PROVE  StateTyped' /\ CallsKnow' /\ CoreInv'
<1>1. /\ Proceeds(action, FALSE) /\ session' = [session EXCEPT ![s] = Reading(action, FALSE)]
      /\ UNCHANGED <<draft, batchVars, runVars, approved>>
  BY DEF Act
<1>2. QED
  BY <1>1, ReadingStep, RememberStep DEF runVars

LEMMA ReadStep ==
    ASSUME TypeOK, CallsKnow, CoreInv, NEW s \in Sessions, Read(s)
    PROVE  StateTyped' /\ CallsKnow' /\ CoreInv'
<1> DEFINE action == session[s].action
<1>1. action \in Actions
  BY DEF TypeOK
<1>2. /\ \/ Proceeds(action, TRUE) /\ session' = [session EXCEPT ![s] = Reading(action, TRUE)]
         \/ Return(s)
         \/ Stop(s)
      /\ UNCHANGED <<draft, batchVars, runVars, approved>>
  BY DEF Read
<1> HIDE DEF action
<1>3. CallsTyped' /\ CallsKnow'
  BY <1>1, <1>2, ReadingStep, ReturnStep, StopStep
<1>4. QED
  BY <1>2, <1>3, RememberStep DEF runVars

LEMMA StopsStep ==
    ASSUME TypeOK, CallsKnow, CoreInv, NEW s \in Sessions, Stale(s) \/ Abort(s)
    PROVE  StateTyped' /\ CallsKnow' /\ CoreInv'
<1>1. Stop(s) /\ UNCHANGED <<draft, batchVars, runVars, approved>>
  BY DEF Stale, Abort
<1>2. QED
  BY <1>1, StopStep, RememberStep DEF runVars

-----------------------------------------------------------------------------
(* Writing                                                                 *)

\* A snapshot without gaps is not the empty one.
LEMMA WholeIsNotEmpty == \A c : Whole(c) => c # NoSnapshot
  BY ItemsAssumption DEF Whole, NoSnapshot

\* The numbers of an approved candidate and of a candidate of the batch.
LEMMA ApprovedGen ==
    ASSUME TypeOK, CoreInv, NEW i \in Items, NEW c \in Candidate, <<i, c>> \in approved
    PROVE  c.gen \in 1..generation /\ c.gen \in Generations
<1>1. c.gen \in 1..generation /\ generation \in 0..MaxGen
  BY DEF TypeOK, CoreInv, ApprovedAreNumbered
<1>2. QED
  BY <1>1, Bounds

LEMMA CandidateGen ==
    ASSUME TypeOK, CoreInv, Whole(candidate), NEW i \in Items
    PROVE  /\ candidate[i] \in Candidate
           /\ candidate[i].gen \in 1..generation /\ candidate[i].gen \in Generations
<1>1. candidate[i].gen \in 1..generation /\ generation \in 0..MaxGen /\ candidate \in Snapshots
  BY DEF TypeOK, CoreInv, CandidatesAreNumbered, Whole
<1>2. QED
  BY <1>1, Bounds DEF Snapshots

\* A step that changes candidates or the document; runs and jobs stay.
LEMMA DocumentStep ==
    ASSUME TypeOK, CoreInv, UNCHANGED <<run, job>>, approved \subseteq approved',
           CandidatesAreNumbered', ApprovedAreNumbered', DocumentInv',
           pf'.protocol = "none" \/ (pf'.protocol = pf.protocol /\ pf'.runId = pf.runId)
    PROVE  CoreInv'
<1> USE DEF CoreInv
<1>1. RunsAreApproved'
  BY DEF RunsAreApproved, Approved
<1>2. JobsNameRuns'
  BY DEF JobsNameRuns
<1>3. RunsStandApart'
  BY DEF RunsStandApart, RunOwnsItsRequests, ProtocolTellsRun
<1>4. QED
  BY <1>1, <1>2, <1>3

LEMMA PreflightStep ==
    ASSUME TypeOK, CallsKnow, CoreInv, NEW s \in Sessions, RecordPreflight(s)
    PROVE  StateTyped' /\ CallsKnow' /\ CoreInv'
<1>1. PICK passed \in SUBSET Items :
        /\ candidate' = [i \in Items |-> IF i \in passed
                                         THEN [gen |-> generation + 1, source |-> session[s].draft[i]]
                                         ELSE NoCandidate]
        /\ item' = [i \in Items |-> CheckedItem(s, i, passed)]
        /\ batch' \in {"ready", "failed"}
        /\ Return(s) \/ Stop(s)
  BY DEF RecordPreflight
<1>2. /\ generation < MaxGen /\ generation' = generation + 1
      /\ pf' = [Empty EXCEPT !.direct = session[s].direct]
      /\ UNCHANGED <<draft, run, job, approved>>
  BY DEF RecordPreflight, NewDocument, runVars
<1>3. generation \in Nat /\ generation' \in 1..MaxGen /\ generation' \in 0..MaxGen
  BY <1>2, Bounds DEF TypeOK
<1>4. session[s].direct \in BOOLEAN /\ session[s].draft \in [Items -> Sources]
  BY DEF TypeOK
<1>5. DocumentIs(pf', NoSnapshot, NoSnapshot, 0, "none")
  BY <1>2, <1>4, EmptyTyped
<1>6. \A i \in Items : /\ candidate'[i] \in Candidate
                       /\ candidate'[i] = NoCandidate \/ candidate'[i].gen = generation + 1
                       /\ candidate'[i].gen \in {0, generation + 1}
  <2> SUFFICES ASSUME NEW i \in Items
               PROVE  /\ candidate'[i] \in Candidate
                      /\ candidate'[i] = NoCandidate \/ candidate'[i].gen = generation + 1
                      /\ candidate'[i].gen \in {0, generation + 1}
    OBVIOUS
  <2>1. CASE i \in passed
    <3>1. candidate'[i] = [gen |-> generation + 1, source |-> session[s].draft[i]]
      BY <1>1, <2>1
    <3>2. generation + 1 \in 0..MaxGen /\ session[s].draft[i] \in Sources
      BY <1>2, <1>3, <1>4
    <3>3. QED
      BY <3>1, <3>2 DEF Candidate
  <2>2. CASE i \notin passed
    <3>1. candidate'[i] = NoCandidate
      BY <1>1, <2>2
    <3>2. QED
      BY <3>1, NoCandidateTyped
  <2>3. QED
    BY <2>1, <2>2
<1>7. CallsTyped' /\ CallsKnow'
  BY <1>1, ReturnStep, StopStep
<1>8. CandsTyped'
  <2>1. candidate' \in Snapshots
    BY <1>1, <1>6 DEF Snapshots
  <2>2. QED
    BY <1>2, <1>3, <2>1, TypesAre DEF CandsTyped
<1>9. RowsTyped'
  BY <1>1, <1>2 DEF TypeOK, RowsTyped, CheckedItem, States, OpenStates
<1>10. CandidatesAreNumbered'
  BY <1>2, <1>3, <1>6 DEF CandidatesAreNumbered
<1>11. ApprovedAreNumbered'
  <2> SUFFICES ASSUME NEW i \in Items, NEW c \in Candidate, <<i, c>> \in approved
               PROVE  c.gen \in 1..(generation + 1) /\ candidate'[i].gen # c.gen
    BY <1>2 DEF ApprovedAreNumbered
  <2>1. c.gen \in 1..generation
    BY ApprovedGen
  <2>2. candidate'[i].gen \in {0, generation + 1}
    BY <1>6
  <2>3. QED
    BY <1>3, <2>1, <2>2
<1>12. DocumentInv'
  BY <1>5 DEF DocumentIs, DocumentInv, DocumentIsCurrent
<1>13. CoreInv'
  BY <1>2, <1>5, <1>10, <1>11, <1>12, DocumentStep DEF DocumentIs
<1>14. RunsTyped' /\ JobsTyped' /\ pf' \in Documents
  BY <1>2, <1>5, TypesAre DEF RunsTyped, JobsTyped, DocumentIs
<1>15. QED
  BY <1>7, <1>8, <1>9, <1>13, <1>14, TypesArePrimed

\* What a call read and what the batch holds when it writes.
LEMMA CallHolds ==
    ASSUME TypeOK, NEW s \in Sessions
    PROVE  session[s].pf \in Documents /\ session[s].candidate \in Snapshots
  BY DEF TypeOK

LEMMA ConfirmStep ==
    ASSUME TypeOK, CallsKnow, CoreInv, NEW s \in Sessions, Confirm(s)
    PROVE  StateTyped' /\ CallsKnow' /\ CoreInv'
<1>1. /\ session[s].step = "write" /\ session[s].action = "confirm" /\ pf = session[s].pf
      /\ \A i \in Items : candidate[i] = session[s].candidate[i]
      /\ pf' = [pf EXCEPT !.confirmed = session[s].candidate]
      /\ approved' = approved \cup {<<i, session[s].candidate[i]>> : i \in Items}
      /\ Return(s)
      /\ UNCHANGED <<draft, batch, item, candidate, generation, run, job>>
  BY DEF Confirm, Writes, Unchanged, ItemsUnchanged, runVars
<1>2. candidate \in Snapshots /\ pf \in Documents
  BY DEF TypeOK
<1>3. session[s].candidate = candidate
  BY <1>1, <1>2, CallHolds DEF Snapshots
<1>4. Whole(candidate) /\ pf.confirmed # candidate
  BY <1>1, <1>3 DEF CallsKnow, CallKnows
<1>5. pf.plan = NoSnapshot /\ pf.runId = 0 /\ pf.protocol = "none"
  BY <1>4 DEF CoreInv, DocumentInv, DocumentIsCurrent
<1>6. DocumentIs(pf', candidate, NoSnapshot, 0, "none")
  BY <1>1, <1>2, <1>3, <1>5, ConfirmedTyped
<1>7. approved' = approved \cup {<<i, candidate[i]>> : i \in Items}
  BY <1>1, <1>3
<1>8. CandidatesAreNumbered'
  BY <1>1 DEF CoreInv, CandidatesAreNumbered
<1>9. ApprovedAreNumbered'
  <2> SUFFICES ASSUME NEW i \in Items, NEW c \in Candidate, <<i, c>> \in approved'
               PROVE  c.gen \in 1..generation /\ (candidate[i].gen = c.gen => candidate[i] = c)
    BY <1>1 DEF ApprovedAreNumbered
  <2>1. CASE <<i, c>> \in approved
    BY <2>1 DEF CoreInv, ApprovedAreNumbered
  <2>2. CASE c = candidate[i]
    BY <1>4, <2>2, CandidateGen
  <2>3. QED
    BY <1>7, <2>1, <2>2
<1>10. DocumentInv'
  <2>1. Approved(candidate)'
    BY <1>1, <1>7 DEF Approved
  <2>2. QED
    BY <1>1, <1>6, <2>1 DEF DocumentIs, DocumentInv, DocumentIsCurrent, Approved
<1>11. CoreInv'
  BY <1>1, <1>6, <1>7, <1>8, <1>9, <1>10, DocumentStep DEF DocumentIs
<1>12. CandsTyped'
  <2>1. {<<i, candidate[i]>> : i \in Items} \subseteq Items \X Candidate
    BY <1>2 DEF Snapshots
  <2>2. QED
    BY <1>1, <1>7, <2>1, TypesAre DEF CandsTyped
<1>13. RowsTyped' /\ RunsTyped' /\ JobsTyped' /\ pf' \in Documents
  BY <1>1, <1>6, TypesAre DEF RowsTyped, RunsTyped, JobsTyped, DocumentIs
<1>14. QED
  BY <1>1, <1>11, <1>12, <1>13, ReturnStep, TypesArePrimed

LEMMA PlanStep ==
    ASSUME TypeOK, CallsKnow, CoreInv, NEW s \in Sessions, RecordExecutionPlan(s)
    PROVE  StateTyped' /\ CallsKnow' /\ CoreInv'
<1> DEFINE plan == session[s].candidate
<1>1. /\ session[s].step = "write" /\ session[s].action = "plan-execution" /\ pf = session[s].pf
      /\ pf' = [pf EXCEPT !.plan = plan]
      /\ Return(s)
      /\ UNCHANGED <<draft, batch, item, candidate, generation, run, job, approved>>
  BY DEF RecordExecutionPlan, Writes, Unchanged, runVars
<1>2. pf \in Documents /\ plan \in Snapshots
  BY CallHolds DEF TypeOK
<1>3. Whole(plan) /\ pf.confirmed = plan /\ pf.plan # plan
  BY <1>1 DEF CallsKnow, CallKnows
<1> HIDE DEF plan
<1>4. pf.plan = NoSnapshot /\ pf.runId = 0 /\ pf.protocol = "none" /\ pf.confirmed # NoSnapshot
  BY <1>3, WholeIsNotEmpty DEF CoreInv, DocumentInv, DocumentIsCurrent
<1>5. DocumentIs(pf', plan, plan, 0, "none")
  BY <1>1, <1>2, <1>3, <1>4, PlannedTyped
<1>6. CandidatesAreNumbered' /\ ApprovedAreNumbered'
  BY <1>1 DEF CoreInv, CandidatesAreNumbered, ApprovedAreNumbered
<1>7. DocumentInv'
  BY <1>1, <1>3, <1>4, <1>5 DEF CoreInv, DocumentIs, DocumentInv, DocumentIsCurrent, Approved
<1>8. CoreInv'
  BY <1>1, <1>5, <1>6, <1>7, DocumentStep DEF DocumentIs
<1>9. RowsTyped' /\ CandsTyped' /\ RunsTyped' /\ JobsTyped' /\ pf' \in Documents
  BY <1>1, <1>5, TypesAre DEF RowsTyped, CandsTyped, RunsTyped, JobsTyped, DocumentIs
<1>10. QED
  BY <1>1, <1>8, <1>9, ReturnStep, TypesArePrimed

\* A planned document holds the candidates of the items.
LEMMA PlanIsCurrent ==
    ASSUME CoreInv, pf.plan # NoSnapshot
    PROVE  pf.plan = candidate /\ pf.confirmed = candidate /\ Approved(candidate)
  BY DEF CoreInv, DocumentInv, DocumentIsCurrent

LEMMA AuthorizeStep ==
    ASSUME TypeOK, CallsKnow, CoreInv, NEW s \in Sessions, RecordExecutionProtocol(s)
    PROVE  /\ StateTyped' /\ CallsKnow' /\ CoreInv'
           /\ \A r \in RunIds : run'[r].state = "running" => run[r].state = "running"
           /\ \A i \in Items, g \in Generations :
                 job[i][g].state # "none" => job'[i][g] = job[i][g]
           /\ \A r \in RunIds : run[r].state # "none" => run'[r] = run[r]
<1>1. /\ session[s].step = "write" /\ session[s].action = "authorize-execution"
      /\ pf = session[s].pf /\ Insertable(pf.plan) /\ Return(s)
      /\ UNCHANGED <<draft, batch, item, candidate, generation, approved>>
  BY DEF RecordExecutionProtocol, Writes, Unchanged
<1>2. Whole(pf.plan)
  BY <1>1 DEF CallsKnow, CallKnows
<1>3. pf.plan = candidate /\ pf.confirmed = candidate /\ Approved(candidate) /\ Whole(candidate)
  BY <1>2, WholeIsNotEmpty, PlanIsCurrent
<1>4. PICK r \in RunIds :
        /\ run[r].state = "none"
        /\ run' = [run EXCEPT ![r] = [state |-> "issued", plan |-> candidate, live |-> TRUE]]
        /\ job' = [i \in Items |-> [job[i] EXCEPT
                      ![candidate[i].gen] = [state |-> "authorized", runId |-> r]]]
        /\ pf' = [pf EXCEPT !.protocol = "issued", !.runId = r]
  <2>1. PICK r \in NextRun :
          /\ run' = [run EXCEPT ![r] = [state |-> "issued", plan |-> session[s].pf.plan, live |-> TRUE]]
          /\ job' = [i \in Items |-> [job[i] EXCEPT
                        ![session[s].pf.plan[i].gen] = [state |-> "authorized", runId |-> r]]]
          /\ pf' = [session[s].pf EXCEPT !.protocol = "issued", !.runId = r]
    BY DEF RecordExecutionProtocol
  <2>2. r \in RunIds /\ run[r].state = "none"
    BY DEF NextRun
  <2>3. QED
    BY <1>1, <1>3, <2>1, <2>2
<1>5. /\ pf \in Documents /\ candidate \in Snapshots
      /\ run \in [RunIds -> RunType] /\ job \in [Items -> [Generations -> JobType]]
  BY DEF TypeOK, RunType, JobType
<1>6. \A i \in Items : candidate[i].gen \in Generations /\ job[i][candidate[i].gen].state = "none"
  BY <1>1, <1>3, CandidateGen DEF Insertable
<1>7. r \in 1..MaxRuns /\ r \in 0..MaxRuns /\ r # 0
  BY Bounds
<1> DEFINE newRun == [state |-> "issued", plan |-> candidate, live |-> TRUE]
           newJob == [state |-> "authorized", runId |-> r]
<1>8. newRun \in RunType /\ newRun.state = "issued" /\ newRun.plan = candidate
  BY <1>5 DEF RunType
<1>9. newJob \in JobType /\ newJob.state = "authorized" /\ newJob.runId = r
  BY <1>7 DEF JobType, JobStates
<1>10. run' = [run EXCEPT ![r] = newRun]
  BY <1>4
<1>11. job' = [i \in Items |-> [job[i] EXCEPT ![candidate[i].gen] = newJob]]
  BY <1>4
<1> HIDE DEF newRun, newJob
<1>12. RunsTyped' /\ \A q \in RunIds : run'[q] = IF q = r THEN newRun ELSE run[q]
  BY <1>5, <1>8, <1>10 DEF RunsTyped
<1>13. \A i \in Items, g \in Generations :
          job'[i][g] = IF g = candidate[i].gen THEN newJob ELSE job[i][g]
  BY <1>5, <1>6, <1>11
<1>14. JobsTyped'
  <2>1. \A i \in Items : [job[i] EXCEPT ![candidate[i].gen] = newJob] \in [Generations -> JobType]
    BY <1>5, <1>9
  <2>2. QED
    BY <1>11, <2>1 DEF JobsTyped
<1>15. DocumentIs(pf', candidate, candidate, r, "issued")
  BY <1>3, <1>4, <1>5, AuthorizedTyped
<1>16. CandidatesAreNumbered' /\ ApprovedAreNumbered'
  BY <1>1 DEF CoreInv, CandidatesAreNumbered, ApprovedAreNumbered
<1>17. candidate # NoSnapshot
  BY <1>3, WholeIsNotEmpty
<1>18. DocumentInv'
  <2>1. run'[r].plan = candidate
    BY <1>8, <1>12
  <2>2. pf'.confirmed = candidate /\ pf'.plan = candidate /\ pf'.runId = r /\ candidate' = candidate
    BY <1>1, <1>15 DEF DocumentIs
  <2>3. DocumentIsCurrent'
    BY <2>1, <2>2 DEF DocumentIsCurrent
  <2>4. Approved(candidate)'
    BY <1>1, <1>3 DEF Approved
  <2>5. NoSnapshot' = NoSnapshot
    BY DEF NoSnapshot
  <2>6. QED
    BY <1>7, <1>17, <2>2, <2>3, <2>4, <2>5 DEF DocumentInv, Approved
<1>19. RunsAreApproved'
  <2>1. \A q \in RunIds : run'[q].state # "none" => Approved(run'[q].plan)
    BY <1>3, <1>8, <1>12 DEF CoreInv, RunsAreApproved
  <2>2. QED
    BY <1>1, <2>1 DEF RunsAreApproved, Approved
<1>20. JobsNameRuns'
  <2> SUFFICES ASSUME NEW i \in Items, NEW g \in Generations
               PROVE  /\ job'[i][g].state = "none" => job'[i][g].runId = 0
                      /\ job'[i][g].state # "none" =>
                            /\ job'[i][g].runId \in RunIds
                            /\ run'[job'[i][g].runId].state # "none"
                            /\ run'[job'[i][g].runId].plan[i].gen = g
    BY DEF JobsNameRuns
  <2>1. CASE g = candidate[i].gen
    <3>1. job'[i][g].state = "authorized" /\ job'[i][g].runId = r
      BY <1>9, <1>13, <2>1
    <3>2. run'[r].state = "issued" /\ run'[r].plan = candidate
      BY <1>8, <1>12
    <3>3. QED
      BY <2>1, <3>1, <3>2
  <2>2. CASE g # candidate[i].gen
    <3>1. job'[i][g] = job[i][g]
      BY <1>13, <2>2
    <3>2. CASE job[i][g].state = "none"
      BY <3>1, <3>2 DEF CoreInv, JobsNameRuns
    <3>3. CASE job[i][g].state # "none"
      <4>1. /\ job[i][g].runId \in RunIds /\ run[job[i][g].runId].state # "none"
            /\ run[job[i][g].runId].plan[i].gen = g
        BY <3>3 DEF CoreInv, JobsNameRuns
      <4>2. run'[job[i][g].runId] = run[job[i][g].runId]
        BY <1>4, <1>12, <4>1
      <4>3. QED
        BY <3>1, <3>3, <4>1, <4>2
    <3>4. QED
      BY <3>2, <3>3
  <2>3. QED
    BY <2>1, <2>2
<1>21. RunOwnsItsRequests'
  <2> SUFFICES ASSUME NEW q \in RunIds, run'[q].state # "none", NEW i \in Items
               PROVE  job'[i][run'[q].plan[i].gen].runId = q
    BY DEF RunOwnsItsRequests
  <2>1. CASE q = r
    <3>1. run'[q].plan = candidate
      BY <1>8, <1>12, <2>1
    <3>2. QED
      BY <1>6, <1>9, <1>13, <2>1, <3>1
  <2>2. CASE q # r
    <3>1. run'[q] = run[q] /\ run[q].state # "none"
      BY <1>12, <2>2
    <3>2. <<i, run[q].plan[i]>> \in approved /\ run[q].plan[i] \in Candidate
      BY <1>5, <3>1 DEF CoreInv, RunsAreApproved, Approved, RunType, Snapshots
    <3>3. run[q].plan[i].gen \in Generations
      BY <3>2, ApprovedGen
    <3>4. job[i][run[q].plan[i].gen].runId = q /\ q # 0
      BY <3>1, Bounds DEF CoreInv, RunsStandApart, RunOwnsItsRequests
    <3>5. job[i][candidate[i].gen].runId = 0
      BY <1>6 DEF CoreInv, JobsNameRuns
    <3>6. run[q].plan[i].gen # candidate[i].gen
      BY <3>4, <3>5
    <3>7. QED
      BY <1>13, <3>1, <3>3, <3>4, <3>6
  <2>3. QED
    BY <2>1, <2>2
<1>22. ProtocolTellsRun'
  <2>1. run'[r].state = "issued" /\ pf'.protocol = "issued" /\ pf'.runId = r
    BY <1>8, <1>12, <1>15 DEF DocumentIs
  <2>2. ASSUME NEW i \in Items, NEW g \in Generations, job'[i][g].state \notin Waiting
        PROVE  run'[job'[i][g].runId].state \in Consumed
    <3>1. job'[i][g] = job[i][g]
      BY <1>9, <1>13, <2>2 DEF Waiting
    <3>2. job[i][g].runId \in RunIds /\ run[job[i][g].runId].state \in Consumed
      BY <2>2, <3>1, MovedJobs
    <3>3. job[i][g].runId # r
      BY <1>4, <3>2 DEF Consumed
    <3>4. QED
      BY <1>12, <3>1, <3>2, <3>3
  <2>3. QED
    BY <2>1, <2>2 DEF ProtocolTellsRun, Waiting, Consumed
<1>23. CoreInv'
  BY <1>16, <1>18, <1>19, <1>20, <1>21, <1>22 DEF CoreInv, RunsStandApart
<1>24. RowsTyped' /\ CandsTyped' /\ pf' \in Documents
  BY <1>1, <1>15, TypesAre DEF RowsTyped, CandsTyped, DocumentIs
<1>25. StateTyped' /\ CallsKnow'
  BY <1>1, <1>12, <1>14, <1>24, ReturnStep, TypesArePrimed
<1>26. \A q \in RunIds : run'[q].state = "running" => run[q].state = "running"
  BY <1>8, <1>12
<1>27. \A i \in Items, g \in Generations : job[i][g].state # "none" => job'[i][g] = job[i][g]
  BY <1>6, <1>13
<1>28. \A q \in RunIds : run[q].state # "none" => run'[q] = run[q]
  BY <1>4, <1>12
<1>29. QED
  BY <1>23, <1>25, <1>26, <1>27, <1>28

LEMMA ConsumeStep ==
    ASSUME TypeOK, CallsKnow, CoreInv, NEW s \in Sessions, ConsumeExecutionProtocol(s)
    PROVE  /\ StateTyped' /\ CallsKnow' /\ CoreInv'
           /\ batch = "ready" /\ RunsKeepPlans
           /\ \A r \in RunIds : run[r].state = "issued" /\ run'[r].state = "running" =>
                                  run[r].plan = candidate
<1> DEFINE r == pf.runId
<1>1. /\ session[s].step = "write" /\ session[s].action = "execute" /\ pf = session[s].pf
      /\ batch = "ready" /\ run[r].state = "issued" /\ Return(s)
      /\ run' = [run EXCEPT ![r].state = "running", ![r].live = FALSE]
      /\ pf' = [pf EXCEPT !.protocol = "running"]
      /\ UNCHANGED <<draft, batch, item, candidate, generation, job, approved>>
  BY DEF ConsumeExecutionProtocol, Writes, Unchanged
<1>2. pf.protocol = "issued" /\ pf \in Documents
  BY <1>1 DEF CallsKnow, CallKnows, TypeOK
<1>3. r # 0 /\ r \in RunIds /\ pf.plan # NoSnapshot
  BY <1>2, Bounds DEF CoreInv, DocumentInv, Documents
<1>4. run[r].plan = pf.plan /\ pf.plan = candidate
  BY <1>3, PlanIsCurrent DEF CoreInv, DocumentInv, DocumentIsCurrent
<1>5. DocumentIs(pf', pf.confirmed, pf.plan, pf.runId, "running")
  BY <1>1, <1>2, ProtocolTyped DEF ProtocolStates
<1> HIDE DEF r
<1> DEFINE begun == [run[r] EXCEPT !.state = "running"]
           row   == [begun EXCEPT !.live = FALSE]
<1>6. run \in [RunIds -> RunType]
  BY DEF TypeOK, RunType
<1>7. begun \in RunType /\ begun.state = "running" /\ begun.plan = run[r].plan
  BY <1>3, <1>6 DEF RunType
<1>8. run' = [run EXCEPT ![r] = row]
  BY <1>1
<1> HIDE DEF begun
<1>9. row \in RunType /\ row.state = "running" /\ row.plan = run[r].plan
  BY <1>7 DEF RunType
<1> HIDE DEF row
<1>10. RunsTyped' /\ \A q \in RunIds : run'[q] = IF q = r THEN row ELSE run[q]
  BY <1>3, <1>6, <1>8, <1>9 DEF RunsTyped
<1>11. RunsKeepPlans
  <2> SUFFICES ASSUME NEW q \in RunIds
               PROVE  /\ run'[q].plan = run[q].plan
                      /\ run'[q].state = "none" <=> run[q].state = "none"
                      /\ run[q].state \in Consumed => run'[q].state \in Consumed
    BY DEF RunsKeepPlans
  <2>1. CASE q = r
    BY <1>1, <1>9, <1>10, <2>1 DEF Consumed, r
  <2>2. CASE q # r
    BY <1>10, <2>2
  <2>3. QED
    BY <2>1, <2>2
<1>12. JobsKeepRuns
  BY <1>1 DEF JobsKeepRuns
<1>13. DocumentKeeps /\ DocumentTells'
  <2>1. run'[pf'.runId].state = "running"
    BY <1>3, <1>5, <1>9, <1>10 DEF DocumentIs, r
  <2>2. QED
    BY <1>3, <1>5, <2>1 DEF DocumentIs, DocumentKeeps, DocumentTells, Consumed, r
<1>14. CoreInv'
  BY <1>1, <1>11, <1>12, <1>13, ProgressStep
<1>15. RowsTyped' /\ CandsTyped' /\ JobsTyped' /\ pf' \in Documents
  BY <1>1, <1>5, TypesAre DEF RowsTyped, CandsTyped, JobsTyped, DocumentIs
<1>16. StateTyped' /\ CallsKnow'
  BY <1>1, <1>10, <1>15, ReturnStep, TypesArePrimed
<1>17. \A q \in RunIds : run[q].state = "issued" /\ run'[q].state = "running" =>
                          run[q].plan = candidate
  BY <1>4, <1>10 DEF r
<1>18. QED
  BY <1>1, <1>11, <1>14, <1>16, <1>17

-----------------------------------------------------------------------------
(* The invariant                                                           *)

LEMMA InitIInv == Init => IInv
<1> SUFFICES ASSUME Init PROVE IInv
  OBVIOUS
<1>1. /\ draft \in [Items -> Versions] /\ batch = "queued"
      /\ item = [i \in Items |-> "queued"] /\ candidate = NoSnapshot /\ pf = Empty
      /\ generation = 0 /\ run = [r \in RunIds |-> NoRun]
      /\ job = [i \in Items |-> [g \in Generations |-> NoJob]]
      /\ call = [i \in Items |-> [g \in Generations |-> NoCall]]
      /\ session = [s \in Sessions |-> Idle] /\ approved = {}
  BY DEF Init
<1>2. DocumentIs(pf, NoSnapshot, NoSnapshot, 0, "none")
  <2>1. pf.confirmed = NoSnapshot /\ pf.plan = NoSnapshot /\ pf.runId = 0 /\ pf.protocol = "none"
    BY <1>1 DEF Empty
  <2>2. QED
    BY <1>1, <2>1, EmptyTyped DEF DocumentIs
<1>3. NoRun \in RunType /\ NoRun.state = "none"
  BY NoCandidateTyped DEF NoRun, RunType
<1>4. NoJob \in JobType /\ NoJob.state = "none" /\ NoJob.runId = 0
  BY Bounds DEF NoJob, JobType, JobStates
<1>5. TypeOK
  <2>1. RowsTyped
    BY <1>1 DEF RowsTyped, Sources, States, OpenStates
  <2>2. CandsTyped
    BY <1>1, Bounds, NoCandidateTyped DEF CandsTyped
  <2>3. RunsTyped /\ JobsTyped
    BY <1>1, <1>3, <1>4 DEF RunsTyped, JobsTyped
  <2>4. CallsTyped
    BY <1>1, IdleTyped DEF CallsTyped
  <2>5. WorkTyped
    BY <1>1, NoCandidateTyped DEF WorkTyped, WorkType, NoCall, CallSteps
  <2>6. QED
    BY <1>2, <2>1, <2>2, <2>3, <2>4, <2>5, TypesAre DEF DocumentIs
<1>6. CandidatesAreNumbered /\ ApprovedAreNumbered
  BY <1>1 DEF CandidatesAreNumbered, ApprovedAreNumbered, NoSnapshot
<1>7. DocumentInv
  BY <1>2 DEF DocumentIs, DocumentInv, DocumentIsCurrent
<1>8. /\ \A r \in RunIds : run[r].state = "none"
      /\ \A i \in Items, g \in Generations : job[i][g].state = "none" /\ job[i][g].runId = 0
  BY <1>1, <1>3, <1>4
<1>9. RunsAreApproved /\ JobsNameRuns /\ RunsStandApart
  BY <1>2, <1>8 DEF DocumentIs, RunsAreApproved, JobsNameRuns, RunsStandApart, RunOwnsItsRequests,
                    ProtocolTellsRun
<1>10. CallsKnow
  BY <1>1, IdleTyped DEF CallsKnow, CallKnows
<1>11. WorkersKnow
  BY <1>1 DEF WorkersKnow, WorkerKnows, NoCall
<1>12. QED
  BY <1>5, <1>6, <1>7, <1>9, <1>10, <1>11 DEF IInv

LEMMA WorkersStep ==
    ASSUME TypeOK, CallsKnow, CoreInv, WorkersKnow, Workers
    PROVE  StateTyped' /\ CallsKnow' /\ CoreInv'
<1>1. PICK i \in Items, g \in Generations :
         \/ ClaimJob(i, g)
         \/ LoadSource(i, g) \/ SourceChanged(i, g)
         \/ PostJob(i, g)
         \/ AwaitReadback(i, g) \/ Rejected(i, g)
         \/ WorkerFails(i, g) \/ ClaimExpires(i, g)
         \/ CompleteJob(i, g)
  BY DEF Workers
<1>2. CASE ClaimJob(i, g)
  <2>1. /\ Claimable(i, g) /\ SetJob(i, g, "claimed")
        /\ UNCHANGED <<draft, batchVars, run, session, approved>>
    BY <1>2 DEF ClaimJob
  <2>2. QED
    BY <2>1, ClaimableJobs, MoveStep, CallsStay
<1>3. CASE SourceChanged(i, g)
  <2>1. job[i][g].state = "claimed" /\ FailJob(i, g, "failed_terminal")
    BY <1>3 DEF SourceChanged, WorkersKnow, WorkerKnows
  <2>2. QED
    BY <2>1, MovedJobs, FailStep, CallsStay DEF Waiting
<1>4. CASE AwaitReadback(i, g) \/ ClaimExpires(i, g)
  <2>1. /\ job[i][g].state = "claimed" /\ SetJob(i, g, "submitted")
        /\ UNCHANGED <<draft, batchVars, run, session, approved>>
    BY <1>4 DEF AwaitReadback, ClaimExpires, WorkersKnow, WorkerKnows
  <2>2. QED
    BY <2>1, MoveStep, CallsStay DEF Waiting
<1>5. CASE Rejected(i, g)
  <2>1. PICK state \in {"failed_retryable", "failed_terminal"} : FailJob(i, g, state)
    BY <1>5 DEF Rejected
  <2>2. job[i][g].state = "claimed"
    BY <1>5 DEF Rejected, WorkersKnow, WorkerKnows
  <2>3. QED
    BY <2>1, <2>2, MovedJobs, FailStep, CallsStay DEF Waiting
<1>6. CASE CompleteJob(i, g)
  BY <1>6, CompleteStep, CallsStay
<1>7. CASE LoadSource(i, g) \/ PostJob(i, g) \/ WorkerFails(i, g)
  <2>1. UNCHANGED <<draft, batchVars, run, job, session, approved>>
    BY <1>7 DEF LoadSource, PostJob, WorkerFails
  <2>2. QED
    BY <2>1, CallsStay, RememberStep
<1>8. QED
  BY <1>1, <1>2, <1>3, <1>4, <1>5, <1>6, <1>7

LEMMA StepState ==
    ASSUME TypeOK, CallsKnow, CoreInv, WorkersKnow, [Next]_vars
    PROVE  StateTyped' /\ CallsKnow' /\ CoreInv'
<1>1. ASSUME NEW s \in Sessions, NEW action \in Actions, Act(s, action)
      PROVE  StateTyped' /\ CallsKnow' /\ CoreInv'
  BY <1>1, ActStep
<1>2. ASSUME NEW s \in Sessions, PublishNowStep(s)
      PROVE  StateTyped' /\ CallsKnow' /\ CoreInv'
  BY <1>2, BeginStep, ReadStep, MarkStep, PreflightStep, ConfirmStep, PlanStep, AuthorizeStep,
     ConsumeStep, StopsStep DEF PublishNowStep, Write
<1>3. CASE Pause \/ Requeue
  BY <1>3, PauseStep, CallsStay
<1>4. CASE Environment
  BY <1>4, EditStep, DeadlineStep, StopsStep, CallsStay DEF Environment
<1>5. CASE Workers
  BY <1>5, WorkersStep
<1>6. CASE UNCHANGED vars
  <2>1. session' = session /\ UNCHANGED <<draft, batchVars, run, job, approved>>
    BY <1>6 DEF vars, runVars
  <2>2. QED
    BY <2>1, CallsStay, RememberStep
<1>7. QED
  BY <1>1, <1>2, <1>3, <1>4, <1>5, <1>6 DEF Next

-----------------------------------------------------------------------------
(* What the workers know                                                   *)

\* No worker moves: jobs that have begun stay what they are to them, and nothing is
\* taken back that was confirmed or planned.
LEMMA WorkersStay ==
    ASSUME TypeOK, CoreInv, WorkersKnow, call' = call, approved \subseteq approved',
           \A r \in RunIds : run[r].state # "none" => run'[r].plan = run[r].plan,
           \A i \in Items, g \in Generations : job[i][g].state # "none" =>
               /\ job'[i][g].state # "none" /\ job'[i][g].runId = job[i][g].runId
               /\ job[i][g].state = "claimed" => job'[i][g].state = "claimed"
    PROVE  WorkTyped' /\ WorkersKnow'
<1>1. WorkTyped'
  BY TypesAre DEF WorkTyped
<1>2. ASSUME NEW i \in Items, NEW g \in Generations PROVE WorkerKnows(i, g)'
  <2>1. WorkerKnows(i, g)
    BY DEF WorkersKnow
  <2>2. job[i][g].state # "none" => job[i][g].runId \in RunIds /\ run[job[i][g].runId].state # "none"
    BY DEF CoreInv, JobsNameRuns
  <2>3. QED
    BY <2>1, <2>2 DEF WorkerKnows
<1>3. QED
  BY <1>1, <1>2 DEF WorkersKnow

\* One worker moves.
LEMMA WorkerGoes ==
    ASSUME TypeOK, WorkersKnow, NEW i \in Items, NEW g \in Generations,
           NEW step \in CallSteps, NEW body \in Candidate, SetCall(i, g, step, body),
           UNCHANGED <<run, approved>>,
           \A k \in Items, h \in Generations : k # i \/ h # g => job'[k][h] = job[k][h],
           step \in {"load", "wait"} => job'[i][g].state = "claimed",
           step = "post" => /\ job'[i][g].state # "none" /\ <<i, body>> \in approved
                            /\ run[job'[i][g].runId].plan[i] = body
    PROVE  WorkTyped' /\ WorkersKnow'
<1> DEFINE row == [step |-> step, body |-> body]
<1>1. call \in [Items -> [Generations -> WorkType]]
  BY TypesAre DEF WorkTyped
<1>2. row \in WorkType /\ row.step = step /\ row.body = body
  BY DEF WorkType
<1>3. call' = [call EXCEPT ![i] = [call[i] EXCEPT ![g] = row]]
  BY DEF SetCall
<1> HIDE DEF row
<1>4. [call[i] EXCEPT ![g] = row] \in [Generations -> WorkType]
  BY <1>1, <1>2
<1>5. WorkTyped'
  BY <1>1, <1>3, <1>4 DEF WorkTyped
<1>6. \A k \in Items, h \in Generations : call'[k][h] = IF k = i /\ h = g THEN row ELSE call[k][h]
  BY <1>1, <1>3
<1>7. ASSUME NEW k \in Items, NEW h \in Generations PROVE WorkerKnows(k, h)'
  <2>1. CASE k = i /\ h = g
    BY <1>2, <1>6, <2>1 DEF WorkerKnows
  <2>2. CASE k # i \/ h # g
    BY <1>6, <2>2 DEF WorkersKnow, WorkerKnows
  <2>3. QED
    BY <2>1, <2>2
<1>8. QED
  BY <1>5, <1>7 DEF WorkersKnow

\* A worker ends its call, whatever became of its job.
LEMMA WorkerEnds ==
    ASSUME TypeOK, WorkersKnow, NEW i \in Items, NEW g \in Generations, EndCall(i, g),
           UNCHANGED <<run, approved>>,
           job' = job \/ \E state \in JobStates : SetJob(i, g, state)
    PROVE  WorkTyped' /\ WorkersKnow'
<1>1. \A k \in Items, h \in Generations : k # i \/ h # g => job'[k][h] = job[k][h]
  BY SetJobTyped
<1>2. "none" \in CallSteps
  BY DEF CallSteps
<1>3. QED
  BY <1>1, <1>2, NoCandidateTyped, WorkerGoes DEF EndCall

\* loadClaimedExecutionSource: the item's candidate has the number of the job, so
\* that it is the one the job's run planned, which was confirmed.
LEMMA LoadedWasApproved ==
    ASSUME TypeOK, CoreInv, NEW i \in Items, NEW g \in Generations, Loadable(i, g)
    PROVE  /\ <<i, candidate[i]>> \in approved
           /\ run[job[i][g].runId].plan[i] = candidate[i]
<1> DEFINE r == job[i][g].runId
<1>1. candidate[i].gen = g /\ job[i][g].state = "claimed"
  BY DEF Loadable, SourceCurrent
<1>2. r \in RunIds /\ run[r].state # "none" /\ run[r].plan[i].gen = g
  BY <1>1 DEF CoreInv, JobsNameRuns
<1>3. run[r].plan[i] \in Candidate
  BY <1>2 DEF TypeOK, Snapshots
<1>4. <<i, run[r].plan[i]>> \in approved
  BY <1>2 DEF CoreInv, RunsAreApproved, Approved
<1>5. candidate[i] = run[r].plan[i]
  BY <1>1, <1>2, <1>3, <1>4 DEF CoreInv, ApprovedAreNumbered
<1>6. QED
  BY <1>4, <1>5

LEMMA WorkersKnowStep ==
    ASSUME TypeOK, CoreInv, WorkersKnow, Workers
    PROVE  WorkTyped' /\ WorkersKnow'
<1>1. PICK i \in Items, g \in Generations :
         \/ ClaimJob(i, g)
         \/ LoadSource(i, g) \/ SourceChanged(i, g)
         \/ PostJob(i, g)
         \/ AwaitReadback(i, g) \/ Rejected(i, g)
         \/ WorkerFails(i, g) \/ ClaimExpires(i, g)
         \/ CompleteJob(i, g)
  BY DEF Workers
<1>2. CASE ClaimJob(i, g)
  <2>1. SetJob(i, g, "claimed") /\ SetCall(i, g, "load", NoCandidate) /\ UNCHANGED <<run, approved>>
    BY <1>2 DEF ClaimJob
  <2>2. /\ job'[i][g].state = "claimed"
        /\ \A k \in Items, h \in Generations : k # i \/ h # g => job'[k][h] = job[k][h]
    BY <2>1, SetJobTyped DEF JobStates
  <2>3. QED
    BY <2>1, <2>2, NoCandidateTyped, WorkerGoes DEF CallSteps
<1>3. CASE LoadSource(i, g)
  <2>1. /\ Loadable(i, g) /\ SetCall(i, g, "post", candidate[i]) /\ UNCHANGED <<run, job, approved>>
    BY <1>3 DEF LoadSource
  <2>2. job[i][g].state # "none" /\ candidate[i] \in Candidate
    BY <2>1 DEF Loadable, TypeOK, Snapshots
  <2>3. QED
    BY <2>1, <2>2, LoadedWasApproved, WorkerGoes DEF CallSteps
<1>4. CASE PostJob(i, g)
  <2>1. CASE job[i][g].state = "claimed"
    <3>1. SetCall(i, g, "wait", NoCandidate) /\ UNCHANGED <<run, job, approved>>
      BY <1>4, <2>1 DEF PostJob
    <3>2. QED
      BY <2>1, <3>1, NoCandidateTyped, WorkerGoes DEF CallSteps
  <2>2. CASE job[i][g].state # "claimed"
    BY <1>4, <2>2, WorkerEnds DEF PostJob
  <2>3. QED
    BY <2>1, <2>2
<1>5. CASE SourceChanged(i, g) \/ Rejected(i, g) \/ AwaitReadback(i, g) \/ WorkerFails(i, g)
  <2>1. EndCall(i, g) /\ UNCHANGED <<run, approved>>
    BY <1>5 DEF SourceChanged, Rejected, AwaitReadback, WorkerFails, FailJob
  <2>2. job' = job \/ \E state \in JobStates : SetJob(i, g, state)
    BY <1>5 DEF SourceChanged, Rejected, AwaitReadback, WorkerFails, FailJob, JobStates
  <2>3. QED
    BY <2>1, <2>2, WorkerEnds
<1>6. CASE ClaimExpires(i, g)
  <2>1. job[i][g].state = "claimed" /\ SetJob(i, g, "submitted") /\ UNCHANGED <<run, approved>>
    BY <1>6 DEF ClaimExpires
  <2>2. "submitted" \in JobStates
    BY DEF JobStates
  <2>3. CASE call[i][g].step = "post" /\ call' = call
    <3>1. /\ job'[i][g].state = "submitted" /\ job'[i][g].runId = job[i][g].runId
          /\ \A k \in Items, h \in Generations : k # i \/ h # g => job'[k][h] = job[k][h]
      BY <2>1, <2>2, SetJobTyped
    <3>2. ASSUME NEW k \in Items, NEW h \in Generations PROVE WorkerKnows(k, h)'
      <4>1. CASE k = i /\ h = g
        BY <2>1, <2>3, <3>1, <4>1 DEF WorkersKnow, WorkerKnows
      <4>2. CASE k # i \/ h # g
        BY <2>1, <2>3, <3>1, <4>2 DEF WorkersKnow, WorkerKnows
      <4>3. QED
        BY <4>1, <4>2
    <3>3. WorkTyped'
      BY <2>3, TypesAre DEF WorkTyped
    <3>4. QED
      BY <3>2, <3>3 DEF WorkersKnow
  <2>4. CASE EndCall(i, g)
    BY <2>1, <2>2, <2>4, WorkerEnds
  <2>5. QED
    BY <1>6, <2>3, <2>4 DEF ClaimExpires
<1>7. CASE CompleteJob(i, g)
  <2>1. /\ job[i][g].state \in {"submitted", "completed"} /\ SetJob(i, g, "completed")
        /\ call' = call /\ approved' = approved
    BY <1>7 DEF CompleteJob
  <2>2. /\ job'[i][g].state = "completed" /\ job'[i][g].runId = job[i][g].runId
        /\ \A k \in Items, h \in Generations : k # i \/ h # g => job'[k][h] = job[k][h]
    BY <2>1, SetJobTyped DEF JobStates
  <2>3. \A k \in Items, h \in Generations : job[k][h].state # "none" =>
            /\ job'[k][h].state # "none" /\ job'[k][h].runId = job[k][h].runId
            /\ job[k][h].state = "claimed" => job'[k][h].state = "claimed"
    BY <2>1, <2>2
  <2>4. \A r \in RunIds : run'[r].plan = run[r].plan
    BY <1>7, CompleteStep DEF RunsKeepState
  <2>5. QED
    BY <2>1, <2>3, <2>4, WorkersStay
<1>8. QED
  BY <1>1, <1>2, <1>3, <1>4, <1>5, <1>6, <1>7

LEMMA StepWork ==
    ASSUME TypeOK, CallsKnow, CoreInv, WorkersKnow, [Next]_vars
    PROVE  WorkTyped' /\ WorkersKnow'
<1>1. ASSUME call' = call, run' = run, job' = job, approved \subseteq approved'
      PROVE  WorkTyped' /\ WorkersKnow'
  BY <1>1, WorkersStay
<1>2. ASSUME NEW s \in Sessions, PublishNowStep(s) PROVE WorkTyped' /\ WorkersKnow'
  <2>1. CASE RecordExecutionProtocol(s)
    <3>1. call' = call /\ approved' = approved
      BY <2>1 DEF RecordExecutionProtocol
    <3>2. QED
      BY <2>1, <3>1, AuthorizeStep, WorkersStay
  <2>2. CASE ConsumeExecutionProtocol(s)
    <3>1. call' = call /\ job' = job /\ approved' = approved
      BY <2>2 DEF ConsumeExecutionProtocol
    <3>2. \A r \in RunIds : run'[r].plan = run[r].plan
      BY <2>2, ConsumeStep DEF RunsKeepPlans
    <3>3. QED
      BY <3>1, <3>2, WorkersStay
  <2>3. CASE UNCHANGED runVars /\ approved \subseteq approved'
    BY <1>1, <2>3 DEF runVars
  <2>4. QED
    BY <1>2, <2>1, <2>2, <2>3
       DEF PublishNowStep, BeginPublishNow, Read, Write, MarkPreflighting, RecordPreflight,
           Confirm, RecordExecutionPlan, Stale
<1>3. CASE Pause \/ Requeue
  BY <1>1, <1>3 DEF Pause, Requeue, runVars
<1>4. ASSUME NEW r \in RunIds, AuthorizationDeadline(r) PROVE WorkTyped' /\ WorkersKnow'
  <2>1. call' = call /\ job' = job /\ approved' = approved
    BY <1>4 DEF AuthorizationDeadline
  <2>2. \A q \in RunIds : run'[q].plan = run[q].plan
    BY <1>4, DeadlineStep DEF RunsKeepState
  <2>3. QED
    BY <2>1, <2>2, WorkersStay
<1>5. CASE Environment
  BY <1>1, <1>4, <1>5 DEF Environment, EditDraft, Abort, runVars
<1>6. CASE Workers
  BY <1>6, WorkersKnowStep
<1>7. CASE \E s \in Sessions, action \in Actions : Act(s, action)
  BY <1>1, <1>7 DEF Act, runVars
<1>8. CASE UNCHANGED vars
  BY <1>1, <1>8 DEF vars, runVars
<1>9. QED
  BY <1>2, <1>3, <1>5, <1>6, <1>7, <1>8 DEF Next

LEMMA StepIInv == IInv /\ [Next]_vars => IInv'
  BY IInvIs, IInvIsPrimed, TypesArePrimed, StepState, StepWork

LEMMA Invariance == Spec => []IInv
  BY InitIInv, StepIInv, PTL DEF Spec

-----------------------------------------------------------------------------
(* The theorems                                                            *)

\* Every variable keeps its type, for any items, sessions and drafts.
THEOREM TypeCorrect == Spec => []TypeOK
<1>1. IInv => TypeOK
  BY DEF IInv
<1>2. QED
  BY <1>1, Invariance, PTL

\* confirm, recordExecutionPlan and recordExecutionProtocol: whatever calls
\* overlap, the preflight document is about the candidates that the items hold.
THEOREM DocumentProven == Spec => []DocumentIsCurrent
<1>1. IInv => DocumentIsCurrent
  BY DEF IInv, DocumentInv
<1>2. QED
  BY <1>1, Invariance, PTL

\* projectPublishExecutionAuthorization, consumeExecutionProtocol and the
\* workers: runs never share a request, and a job moves only when its run was
\* consumed.
THEOREM RunsProven == Spec => []RunsStandApart
<1>1. IInv => RunsStandApart
  BY DEF IInv
<1>2. QED
  BY <1>1, Invariance, PTL

BodiesConfirmed ==
    \A i \in Items, g \in Generations :
        /\ call[i][g].step = "post" =>
              /\ <<i, call[i][g].body>> \in approved
              /\ run[job[i][g].runId].plan[i] = call[i][g].body
        /\ call[i][g].step = "load" /\ call'[i][g].step = "post" =>
              call'[i][g].body.source = draft[i]

\* A worker gets its body from loadClaimedExecutionSource only.
LEMMA WorkersLoad ==
    ASSUME TypeOK, Workers, NEW i \in Items, NEW g \in Generations,
           call[i][g].step = "load", call'[i][g].step = "post"
    PROVE  call'[i][g].body.source = draft[i]
<1>1. call \in [Items -> [Generations -> WorkType]]
  BY TypesAre DEF WorkTyped
<1>2. ASSUME NEW k \in Items, NEW h \in Generations, NEW step, NEW body, SetCall(k, h, step, body)
      PROVE  k = i /\ h = g /\ step = "post" /\ call'[i][g].body = body
  <2>1. call'[i][g] = IF k = i /\ h = g THEN [step |-> step, body |-> body] ELSE call[i][g]
    BY <1>1, <1>2 DEF SetCall
  <2>2. QED
    BY <2>1
<1>3. PICK k \in Items, h \in Generations :
         \/ ClaimJob(k, h)
         \/ LoadSource(k, h) \/ SourceChanged(k, h)
         \/ PostJob(k, h)
         \/ AwaitReadback(k, h) \/ Rejected(k, h)
         \/ WorkerFails(k, h) \/ ClaimExpires(k, h)
         \/ CompleteJob(k, h)
  BY DEF Workers
<1>4. call' # call
  OBVIOUS
<1>5. CASE LoadSource(k, h)
  <2>1. SetCall(k, h, "post", candidate[k]) /\ candidate[k].source = draft[k]
    BY <1>5 DEF LoadSource, Loadable, SourceCurrent
  <2>2. QED
    BY <1>2, <2>1
<1>6. CASE ~LoadSource(k, h)
  <2>1. \E step \in {"none", "load", "wait"} : SetCall(k, h, step, NoCandidate)
    BY <1>3, <1>4, <1>6 DEF ClaimJob, SourceChanged, PostJob, AwaitReadback, Rejected, WorkerFails,
                            ClaimExpires, CompleteJob, EndCall
  <2>2. QED
    BY <1>2, <2>1
<1>7. QED
  BY <1>5, <1>6

LEMMA StepBodies == IInv /\ [Next]_vars => BodiesConfirmed
<1> SUFFICES ASSUME TypeOK, CallsKnow, CoreInv, WorkersKnow, [Next]_vars PROVE BodiesConfirmed
  BY IInvIs
<1>1. \A i \in Items, g \in Generations : call[i][g].step = "post" =>
         /\ <<i, call[i][g].body>> \in approved
         /\ run[job[i][g].runId].plan[i] = call[i][g].body
  BY DEF WorkersKnow, WorkerKnows
<1>2. CASE Workers
  BY <1>1, <1>2, WorkersLoad DEF BodiesConfirmed
<1>3. CASE call' = call
  BY <1>1, <1>3 DEF BodiesConfirmed
<1>4. ASSUME NEW s \in Sessions, PublishNowStep(s) PROVE call' = call
  BY <1>4 DEF PublishNowStep, BeginPublishNow, Read, Write, MarkPreflighting, RecordPreflight,
              Confirm, RecordExecutionPlan, RecordExecutionProtocol, ConsumeExecutionProtocol,
              Stale, runVars
<1>5. Workers \/ call' = call
  BY <1>4 DEF Next, Environment, EditDraft, AuthorizationDeadline, Abort, Pause, Requeue, Act,
              vars, runVars
<1>6. QED
  BY <1>2, <1>3, <1>5

\* claimNextJob, loadClaimedExecutionSource and the request: a body that a worker has
\* in hand was confirmed in exactly this form and planned by the job's run, and came
\* from the draft as it was when the worker loaded it.
THEOREM ConfirmedProven == Spec => WritesWereConfirmed
<1>1. IInv /\ [Next]_vars => [BodiesConfirmed]_vars
  BY StepBodies
<1>2. QED
  BY <1>1, Invariance, PTL DEF Spec, WritesWereConfirmed, BodiesConfirmed

ConsumesPlanned ==
    \A r \in RunIds :
        run[r].state = "issued" /\ run'[r].state = "running" =>
            batch = "ready" /\ run[r].plan = candidate

LEMMA StepConsumes == IInv /\ [Next]_vars => ConsumesPlanned
<1> SUFFICES ASSUME TypeOK, CallsKnow, CoreInv, [Next]_vars PROVE ConsumesPlanned
  BY IInvIs
<1>1. CASE UNCHANGED run
  BY <1>1 DEF ConsumesPlanned
<1>2. ASSUME NEW s \in Sessions, RecordExecutionProtocol(s) PROVE ConsumesPlanned
  BY <1>2, AuthorizeStep DEF ConsumesPlanned
<1>3. ASSUME NEW s \in Sessions, ConsumeExecutionProtocol(s) PROVE ConsumesPlanned
  BY <1>3, ConsumeStep DEF ConsumesPlanned
<1>4. ASSUME NEW r \in RunIds, AuthorizationDeadline(r) PROVE ConsumesPlanned
  BY <1>4, DeadlineStep DEF ConsumesPlanned, RunsKeepState
<1>5. ASSUME NEW i \in Items, NEW g \in Generations, CompleteJob(i, g) PROVE ConsumesPlanned
  <2>1. \/ UNCHANGED run
        \/ run' = [run EXCEPT ![job[i][g].runId].state = "completed"]
    BY <1>5 DEF CompleteJob
  <2>2. run \in [RunIds -> RunType]
    BY DEF TypeOK, RunType
  <2>3. QED
    BY <2>1, <2>2 DEF ConsumesPlanned, RunType
<1>6. CASE Workers
  <2>1. (\E i \in Items, g \in Generations : CompleteJob(i, g)) \/ UNCHANGED run
    BY <1>6 DEF Workers, ClaimJob, LoadSource, SourceChanged, PostJob, AwaitReadback, Rejected,
                WorkerFails, ClaimExpires, FailJob
  <2>2. QED
    BY <1>1, <1>5, <2>1
<1>7. ASSUME NEW s \in Sessions, PublishNowStep(s) PROVE ConsumesPlanned
  <2>1. RecordExecutionProtocol(s) \/ ConsumeExecutionProtocol(s) \/ UNCHANGED run
    BY <1>7 DEF PublishNowStep, BeginPublishNow, Read, Write, MarkPreflighting, RecordPreflight,
                Confirm, RecordExecutionPlan, Stale, runVars
  <2>2. QED
    BY <1>1, <1>2, <1>3, <2>1
<1>8. CASE Environment
  BY <1>1, <1>4, <1>8 DEF Environment, EditDraft, Abort, runVars
<1>9. CASE Pause \/ Requeue
  BY <1>1, <1>9 DEF Pause, Requeue, runVars
<1>10. CASE \E s \in Sessions, action \in Actions : Act(s, action)
  BY <1>1, <1>10 DEF Act, runVars
<1>11. CASE UNCHANGED vars
  BY <1>1, <1>11 DEF vars, runVars
<1>12. QED
  BY <1>6, <1>7, <1>8, <1>9, <1>10, <1>11 DEF Next

\* consumeExecutionProtocol: an authorization is consumed while the batch is
\* ready, and for the candidates that its items hold.
THEOREM ConsumedProven == Spec => ConsumedAsPlanned
<1>1. IInv /\ [Next]_vars => [ConsumesPlanned]_vars
  BY StepConsumes
<1>2. QED
  BY <1>1, Invariance, PTL DEF Spec, ConsumedAsPlanned, ConsumesPlanned
=============================================================================
