-------------------------- MODULE RuleRefreshProofs --------------------------
(***************************************************************************)
(* The safety properties of RuleRefresh, for all workers, schedulers,      *)
(* targets, lanes and bounds.                                              *)
(*                                                                         *)
(* An attempt accounts for its targets: each is stored, recorded as        *)
(* failed, read by a lane or still to be read (TargetsAccounted), and the  *)
(* lanes never count a target twice (SlotsWork).  A job that has ended     *)
(* keeps its progress, so that the targets a retry takes are the ones the  *)
(* partial failure recorded (PartialIsSettled, RetriesFollow).  A          *)
(* scheduler in the monthly window holds its advisory lock until its       *)
(* session is lost, and after its look at the jobs nobody else can claim   *)
(* for that window (LaunchesHoldLocks, DueIsFirst).                        *)
(***************************************************************************)
EXTENDS RuleRefresh, TLAPS, FiniteSetTheorems, SequenceTheorems

SlotSteps == {"none", "categories", "reset", "work", "failEarly", "fail"}
SlotType ==
    [step : SlotSteps, job : 0..MaxJobs, targets : SUBSET Targets, left : SUBSET Targets,
     reading : SUBSET Targets, mem : ProgressType, writes : Seq(ProgressType)]

SlotsTyped == slot \in [Workers -> SlotType]

\* The lanes of an attempt share its targets.
SlotWorks(s) ==
    /\ s.step # "none" => s.job \in Jobs
    /\ s.left \cup s.reading \subseteq s.targets
    /\ s.left \cap s.reading = {}
    /\ s.step # "work" => s.left = {} /\ s.reading = {} /\ s.writes = <<>>
    /\ s.step \in {"categories", "reset"} => s.mem = NoProgress
    /\ s.mem.ok + Cardinality(s.left \cup s.reading) <= NTargets
    /\ Cardinality(s.reading) + Len(s.writes) <= Lanes

SlotsWork == \A w \in Workers : SlotWorks(slot[w])

\* The targets of an attempt are stored, recorded as failed or still to come;
\* those of a retry are the failed ones of the job that it retries.
Accounted(s) ==
    /\ s.step # "none" => job[s.job].state # "none"
    /\ s.step = "work" => s.targets \subseteq stored[s.job] \cup s.mem.bad \cup s.left \cup s.reading
    /\ s.step \in {"reset", "work"} =>
          \A r \in {job[s.job].retries} \ {0} : s.targets = progress[r].bad

TargetsAccounted == \A w \in Workers : Accounted(slot[w])

\* Only an active entry is held, and an entry that may be tried has tries left.
EntriesAreHeld ==
    \A j \in Jobs :
        /\ lock[j] # Nobody => entry[j] = "active"
        /\ entry[j] \in {"waiting", "active"} => tries[j] < MaxAttempts
        /\ entry[j] = "none" => tries[j] = 0

\* Jobs are claimed in the order of their numbers.
JobsInOrder == \E m \in 0..MaxJobs : \A j \in Jobs : job[j].state # "none" <=> j <= m

\* Nobody knows a job before it is claimed, and its entry is added by the one
\* who claimed it.
IdsAreNew ==
    /\ \A j \in Jobs : job[j].state = "none" =>
          entry[j] = "none" /\ \A p \in Starters : launch[p].job # j
    /\ \A p \in Starters :
          /\ launch[p].step \in {"add", "fail"} => launch[p].job \in Jobs
          /\ launch[p].step = "add" =>
                /\ entry[launch[p].job] = "none"
                /\ \A q \in Starters : launch[q].job = launch[p].job => q = p

\* A partial failure is final: what it did not store is on record.
PartialIsSettled ==
    \A j \in Jobs : job[j].code = "partial" =>
        job[j].state = "failed" /\ goal[j] \subseteq stored[j] \cup progress[j].bad

\* A retry follows a failed job, and once it has succeeded the failed targets
\* of that job are stored.
RetriesFollow ==
    \A j \in Jobs : \A r \in {job[j].retries} \ {0} :
        /\ job[r].state = "failed"
        /\ job[j].state = "succeeded" => progress[r].bad \subseteq stored[j]

\* A scheduler at work holds the advisory lock of its kind of run.
LaunchesHoldLocks ==
    \A p \in Starters :
        /\ p \in Launchers => launch[p].by = "none"
        /\ p \in Schedulers /\ launch[p].step # "none" =>
              /\ launch[p].by \in {"due", "expired"}
              /\ ~lockLost => advisory[launch[p].by] = p

\* The refresh of the month is a full one, and a scheduler that is about to
\* claim it has no predecessor.
DueIsFirst ==
    /\ \A j \in Jobs : job[j].by = "due" => job[j].state # "none" /\ job[j].scope = "all"
    /\ ~lockLost =>
          /\ \A p \in Starters : launch[p].step = "claim" /\ launch[p].by = "due" =>
                \A j \in Jobs : job[j].by # "due"
          /\ \A j, k \in Jobs : job[j].by = "due" /\ job[k].by = "due" => j = k

IInv ==
    /\ TypeOK
    /\ SlotsTyped
    /\ SlotsWork
    /\ TargetsAccounted
    /\ EntriesAreHeld
    /\ JobsInOrder
    /\ IdsAreNew
    /\ SucceededIsComplete
    /\ PartialIsSettled
    /\ RetriesFollow
    /\ LaunchesHoldLocks
    /\ DueIsFirst

-----------------------------------------------------------------------------
(* Counting                                                                *)

LEMMA Bounds ==
    /\ NTargets \in Nat /\ Lanes \in Nat /\ MaxJobs \in Nat /\ MaxAttempts \in Nat /\ MaxFaults \in Nat
    /\ NTargets > 0 /\ Lanes > 0 /\ MaxJobs > 0 /\ MaxAttempts > 0
    /\ Targets = 1..NTargets /\ Jobs = 1..MaxJobs
  BY BoundsAssumption DEF Targets, Jobs

LEMMA TargetsFinite ==
    /\ IsFiniteSet(Targets) /\ Cardinality(Targets) = NTargets
    /\ \A S \in SUBSET Targets :
          IsFiniteSet(S) /\ Cardinality(S) \in Nat /\ Cardinality(S) <= NTargets
<1>1. IsFiniteSet(Targets) /\ Cardinality(Targets) = NTargets
  <2>1. 1 \in Int /\ NTargets \in Int /\ ~(1 > NTargets)
    BY Bounds
  <2>2. QED
    BY <2>1, FS_Interval, Bounds
<1>2. ASSUME NEW S \in SUBSET Targets
      PROVE  IsFiniteSet(S) /\ Cardinality(S) \in Nat /\ Cardinality(S) <= NTargets
  BY <1>1, FS_Subset, FS_CardinalityType
<1>3. QED
  BY <1>1, <1>2

\* The first elements of a set of numbers.
First(S, n) == {t \in S : Cardinality({u \in S : u < t}) < n}

\* Refilled gives every free lane at most one target.
LEMMA FirstAreFew ==
    ASSUME NEW S \in SUBSET Targets, NEW n \in Nat
    PROVE  Cardinality(First(S, n)) <= n
<1> DEFINE Below(t) == {u \in S : u < t}
           rank == [t \in First(S, n) |-> Cardinality(Below(t)) + 1]
<1>1. \A t \in S : IsFiniteSet(Below(t)) /\ Cardinality(Below(t)) \in Nat
  <2>1. \A t \in S : Below(t) \in SUBSET Targets
    OBVIOUS
  <2>2. QED
    BY <2>1, TargetsFinite
<1>2. rank \in [First(S, n) -> 1..n]
  BY <1>1 DEF First
<1>3. ASSUME NEW t \in S, NEW u \in S, u < t
      PROVE  Cardinality(Below(u)) < Cardinality(Below(t))
  <2>1. S \subseteq Nat
    BY Bounds
  <2>2. Below(u) \cup {u} \in SUBSET Below(t) /\ u \notin Below(u)
    <3>1. \A v \in Below(u) : v \in S /\ v < u /\ v \in Nat
      BY <2>1
    <3>2. \A v \in Below(u) : v < t
      BY <1>3, <2>1, <3>1
    <3>3. u \in Nat /\ ~(u < u) /\ u \in Below(t)
      BY <1>3, <2>1
    <3>4. QED
      BY <3>1, <3>2, <3>3
  <2>3. Cardinality(Below(u) \cup {u}) = Cardinality(Below(u)) + 1
    BY <1>1, <2>2, FS_AddElement
  <2>4. Cardinality(Below(u) \cup {u}) <= Cardinality(Below(t))
    BY <1>1, <2>2, FS_Subset
  <2>5. QED
    BY <1>1, <2>3, <2>4
<1>4. \A t, u \in First(S, n) : rank[t] = rank[u] => t = u
  <2> SUFFICES ASSUME NEW t \in First(S, n), NEW u \in First(S, n), t # u
               PROVE  rank[t] # rank[u]
    OBVIOUS
  <2>1. t \in S /\ u \in S /\ t \in Nat /\ u \in Nat
    BY Bounds DEF First
  <2>2. Cardinality(Below(t)) # Cardinality(Below(u))
    <3>1. t < u \/ u < t
      BY <2>1
    <3>2. Cardinality(Below(t)) \in Nat /\ Cardinality(Below(u)) \in Nat
      BY <1>1, <2>1
    <3> HIDE DEF Below
    <3>3. QED
      BY <1>3, <2>1, <3>1, <3>2
  <2>3. rank[t] = Cardinality(Below(t)) + 1 /\ rank[u] = Cardinality(Below(u)) + 1
    OBVIOUS
  <2>4. Cardinality(Below(t)) \in Nat /\ Cardinality(Below(u)) \in Nat
    BY <1>1, <2>1
  <2> HIDE DEF Below, rank
  <2>5. QED
    BY <2>2, <2>3, <2>4
<1>5. IsFiniteSet(1..n) /\ Cardinality(1..n) = n
  BY FS_Interval
<1> HIDE DEF rank
<1>6. rank \in Injection(First(S, n), 1..n)
  BY <1>2, <1>4 DEF Injection, IsInjective
<1>7. QED
  BY <1>5, <1>6, FS_Injection

-----------------------------------------------------------------------------
(* Slots                                                                   *)

\* A slot with these fields.
SlotIs(s, step, j, targets, left, reading, mem, writes) ==
    /\ s \in SlotType
    /\ s.step = step /\ s.job = j /\ s.targets = targets /\ s.left = left
    /\ s.reading = reading /\ s.mem = mem /\ s.writes = writes

LEMMA NoProgressTyped == NoProgress \in ProgressType /\ NoProgress.ok = 0 /\ NoProgress.bad = {}
  BY Bounds DEF NoProgress, ProgressType

LEMMA IdleSlotIs == SlotIs(IdleSlot, "none", 0, {}, {}, {}, NoProgress, <<>>)
  BY Bounds, NoProgressTyped DEF IdleSlot, SlotIs, SlotType, SlotSteps

LEMMA SlotWithStep ==
    ASSUME NEW s \in SlotType, NEW step \in SlotSteps
    PROVE  SlotIs([s EXCEPT !.step = step],
                  step, s.job, s.targets, s.left, s.reading, s.mem, s.writes)
  BY DEF SlotIs, SlotType

LEMMA SlotWithJob ==
    ASSUME NEW s \in SlotType, NEW j \in 0..MaxJobs
    PROVE  SlotIs([s EXCEPT !.job = j],
                  s.step, j, s.targets, s.left, s.reading, s.mem, s.writes)
  BY DEF SlotIs, SlotType

LEMMA SlotWithTargets ==
    ASSUME NEW s \in SlotType, NEW targets \in SUBSET Targets
    PROVE  SlotIs([s EXCEPT !.targets = targets],
                  s.step, s.job, targets, s.left, s.reading, s.mem, s.writes)
  BY DEF SlotIs, SlotType

LEMMA SlotWithLeft ==
    ASSUME NEW s \in SlotType, NEW left \in SUBSET Targets
    PROVE  SlotIs([s EXCEPT !.left = left],
                  s.step, s.job, s.targets, left, s.reading, s.mem, s.writes)
  BY DEF SlotIs, SlotType

LEMMA SlotWithReading ==
    ASSUME NEW s \in SlotType, NEW reading \in SUBSET Targets
    PROVE  SlotIs([s EXCEPT !.reading = reading],
                  s.step, s.job, s.targets, s.left, reading, s.mem, s.writes)
  BY DEF SlotIs, SlotType

LEMMA SlotWithMem ==
    ASSUME NEW s \in SlotType, NEW mem \in ProgressType
    PROVE  SlotIs([s EXCEPT !.mem = mem],
                  s.step, s.job, s.targets, s.left, s.reading, mem, s.writes)
  BY DEF SlotIs, SlotType

LEMMA SlotWithWrites ==
    ASSUME NEW s \in SlotType, NEW writes \in Seq(ProgressType)
    PROVE  SlotIs([s EXCEPT !.writes = writes],
                  s.step, s.job, s.targets, s.left, s.reading, s.mem, writes)
  BY DEF SlotIs, SlotType

\* MarkRunning's attempt.
LEMMA StartedSlotIs ==
    ASSUME NEW j \in Jobs
    PROVE  SlotIs([IdleSlot EXCEPT !.step = "categories", !.job = j],
                  "categories", j, {}, {}, {}, NoProgress, <<>>)
<1> DEFINE s == [IdleSlot EXCEPT !.step = "categories"]
<1>1. SlotIs(s, "categories", 0, {}, {}, {}, NoProgress, <<>>)
  BY IdleSlotIs, SlotWithStep DEF SlotIs, SlotSteps
<1>2. [IdleSlot EXCEPT !.step = "categories", !.job = j] = [s EXCEPT !.job = j]
  OBVIOUS
<1> HIDE DEF s
<1>3. j \in 0..MaxJobs
  BY Bounds
<1>4. SlotIs([s EXCEPT !.job = j], s.step, j, s.targets, s.left, s.reading, s.mem, s.writes)
  BY <1>1, <1>3, SlotWithJob DEF SlotIs
<1>5. QED
  BY <1>1, <1>2, <1>4 DEF SlotIs

LEMMA TargetedSlotIs ==
    ASSUME NEW s \in SlotType, NEW targets \in SUBSET Targets
    PROVE  SlotIs([s EXCEPT !.step = "reset", !.targets = targets],
                  "reset", s.job, targets, s.left, s.reading, s.mem, s.writes)
<1> DEFINE u == [s EXCEPT !.step = "reset"]
<1>1. SlotIs(u, "reset", s.job, s.targets, s.left, s.reading, s.mem, s.writes)
  BY SlotWithStep DEF SlotSteps
<1>2. [s EXCEPT !.step = "reset", !.targets = targets] = [u EXCEPT !.targets = targets]
  OBVIOUS
<1> HIDE DEF u
<1>3. QED
  BY <1>1, <1>2, SlotWithTargets DEF SlotIs

LEMMA WorkingSlotIs ==
    ASSUME NEW s \in SlotType
    PROVE  SlotIs([s EXCEPT !.step = "work", !.left = s.targets],
                  "work", s.job, s.targets, s.targets, s.reading, s.mem, s.writes)
<1> DEFINE u == [s EXCEPT !.step = "work"]
<1>1. SlotIs(u, "work", s.job, s.targets, s.left, s.reading, s.mem, s.writes)
  BY SlotWithStep DEF SlotSteps
<1>2. [s EXCEPT !.step = "work", !.left = s.targets] = [u EXCEPT !.left = s.targets]
  OBVIOUS
<1>3. s.targets \in SUBSET Targets
  BY DEF SlotType
<1> HIDE DEF u
<1>4. QED
  BY <1>1, <1>2, <1>3, SlotWithLeft DEF SlotIs

LEMMA FailedSlotIs ==
    ASSUME NEW s \in SlotType
    PROVE  SlotIs([s EXCEPT !.step = "fail", !.left = {}, !.reading = {}, !.writes = <<>>],
                  "fail", s.job, s.targets, {}, {}, s.mem, <<>>)
<1> DEFINE u == [s EXCEPT !.step = "fail"]
           v == [u EXCEPT !.left = {}]
           x == [v EXCEPT !.reading = {}]
<1>1. [s EXCEPT !.step = "fail", !.left = {}, !.reading = {}, !.writes = <<>>] = [x EXCEPT !.writes = <<>>]
  OBVIOUS
<1>2. SlotIs(u, "fail", s.job, s.targets, s.left, s.reading, s.mem, s.writes)
  BY SlotWithStep DEF SlotSteps
<1> HIDE DEF u
<1>3. SlotIs(v, "fail", s.job, s.targets, {}, s.reading, s.mem, s.writes)
  BY <1>2, SlotWithLeft DEF SlotIs
<1> HIDE DEF v
<1>4. SlotIs(x, "fail", s.job, s.targets, {}, {}, s.mem, s.writes)
  BY <1>3, SlotWithReading DEF SlotIs
<1> HIDE DEF x
<1>5. <<>> \in Seq(ProgressType)
  OBVIOUS
<1>6. SlotIs([x EXCEPT !.writes = <<>>], x.step, x.job, x.targets, x.left, x.reading, x.mem, <<>>)
  BY <1>4, <1>5, SlotWithWrites DEF SlotIs
<1>7. QED
  BY <1>1, <1>4, <1>6 DEF SlotIs

\* A lane is through with target t.
Through(s, t, mem) == [s EXCEPT !.reading = @ \ {t}, !.mem = mem, !.writes = Append(@, mem)]

LEMMA ThroughSlotIs ==
    ASSUME NEW s \in SlotType, NEW t, NEW mem \in ProgressType
    PROVE  SlotIs(Through(s, t, mem), s.step, s.job, s.targets, s.left, s.reading \ {t}, mem,
                  Append(s.writes, mem))
<1> DEFINE u == [s EXCEPT !.reading = s.reading \ {t}]
           v == [u EXCEPT !.mem = mem]
<1>1. Through(s, t, mem) = [v EXCEPT !.writes = Append(s.writes, mem)]
  BY DEF Through
<1>2. s.reading \ {t} \in SUBSET Targets /\ Append(s.writes, mem) \in Seq(ProgressType)
  BY AppendProperties DEF SlotType
<1>3. SlotIs(u, s.step, s.job, s.targets, s.left, s.reading \ {t}, s.mem, s.writes)
  BY <1>2, SlotWithReading
<1> HIDE DEF u
<1>4. SlotIs(v, s.step, s.job, s.targets, s.left, s.reading \ {t}, mem, s.writes)
  BY <1>3, SlotWithMem DEF SlotIs
<1> DEFINE writes == Append(s.writes, mem)
<1> HIDE DEF v, writes
<1>5. SlotIs([v EXCEPT !.writes = writes], v.step, v.job, v.targets, v.left, v.reading, v.mem, writes)
  BY <1>2, <1>4, SlotWithWrites DEF SlotIs, writes
<1>6. QED
  BY <1>1, <1>4, <1>5 DEF SlotIs, writes

LEMMA MemWith ==
    ASSUME NEW mem \in ProgressType
    PROVE  /\ mem.ok < NTargets =>
                 /\ [mem EXCEPT !.ok = @ + 1] \in ProgressType
                 /\ [mem EXCEPT !.ok = @ + 1].ok = mem.ok + 1
                 /\ [mem EXCEPT !.ok = @ + 1].bad = mem.bad
           /\ \A t \in Targets :
                 /\ [mem EXCEPT !.bad = @ \cup {t}] \in ProgressType
                 /\ [mem EXCEPT !.bad = @ \cup {t}].ok = mem.ok
                 /\ [mem EXCEPT !.bad = @ \cup {t}].bad = mem.bad \cup {t}
  BY Bounds DEF ProgressType

\* What SlotWorks says of the targets of a slot.
LEMMA ShareCount ==
    ASSUME NEW s \in SlotType
    PROVE  /\ Cardinality(s.left \cup s.reading) \in Nat /\ Cardinality(s.reading) \in Nat
           /\ Len(s.writes) \in Nat /\ s.mem.ok \in 0..NTargets
           /\ IsFiniteSet(s.left \cup s.reading) /\ IsFiniteSet(s.reading)
<1>1. s.left \cup s.reading \in SUBSET Targets /\ s.reading \in SUBSET Targets
  BY DEF SlotType
<1>2. Len(s.writes) \in Nat /\ s.mem.ok \in 0..NTargets
  BY DEF SlotType, ProgressType
<1>3. QED
  BY <1>1, <1>2, TargetsFinite

\* Before and after the work, a slot shares no targets.
LEMMA RestingWorks ==
    ASSUME NEW s \in SlotType, s.step # "work", s.step # "none" => s.job \in Jobs,
           s.step \in {"categories", "reset"} => s.mem = NoProgress,
           s.left = {}, s.reading = {}, s.writes = <<>>
    PROVE  SlotWorks(s)
<1>1. Cardinality(s.left \cup s.reading) = 0 /\ Cardinality(s.reading) = 0 /\ Len(s.writes) = 0
  BY FS_EmptySet
<1>2. s.mem.ok \in 0..NTargets
  BY ShareCount
<1>3. QED
  BY <1>1, <1>2, Bounds DEF SlotWorks

LEMMA RefilledWorks ==
    ASSUME NEW s \in SlotType, s.step = "work", SlotWorks(s)
    PROVE  /\ Refilled(s) \in SlotType /\ SlotWorks(Refilled(s))
           /\ Refilled(s).step = "work" /\ Refilled(s).job = s.job
           /\ Refilled(s).targets = s.targets /\ Refilled(s).mem = s.mem
           /\ Refilled(s).left \cup Refilled(s).reading = s.left \cup s.reading
<1> DEFINE free == Lanes - Cardinality(s.reading) - Len(s.writes)
           next == First(s.left, free)
           u == [s EXCEPT !.left = s.left \ next]
           v == [u EXCEPT !.reading = s.reading \cup next]
<1>1. Refilled(s) = v
  BY DEF Refilled, First
<1>2. free \in Nat
  BY ShareCount, Bounds DEF SlotWorks
<1>3. s.left \in SUBSET Targets /\ s.reading \in SUBSET Targets
  BY DEF SlotType
<1>4. Cardinality(next) <= free
  BY <1>2, <1>3, FirstAreFew
<1>5. next \subseteq s.left
  BY DEF First
<1>6. Lanes = free + Cardinality(s.reading) + Len(s.writes)
  <2>1. Cardinality(s.reading) \in Nat /\ Len(s.writes) \in Nat /\ Lanes \in Nat
    BY ShareCount, Bounds
  <2>2. QED
    BY <2>1
<1> HIDE DEF free, next
<1>7. SlotIs(u, "work", s.job, s.targets, s.left \ next, s.reading, s.mem, s.writes)
  BY <1>3, SlotWithLeft
<1> HIDE DEF u
<1>8. s.reading \cup next \in SUBSET Targets
  BY <1>3, <1>5
<1>9. SlotIs(v, "work", s.job, s.targets, s.left \ next, s.reading \cup next, s.mem, s.writes)
  BY <1>7, <1>8, SlotWithReading DEF SlotIs
<1> HIDE DEF v
<1>10. (s.left \ next) \cup (s.reading \cup next) = s.left \cup s.reading
  BY <1>5
<1>11. Cardinality(s.reading \cup next) <= Cardinality(s.reading) + Cardinality(next)
  <2>1. IsFiniteSet(s.reading) /\ IsFiniteSet(next) /\ IsFiniteSet(s.reading \cap next)
    BY <1>3, <1>5, TargetsFinite
  <2>2. Cardinality(s.reading \cup next)
          = Cardinality(s.reading) + Cardinality(next) - Cardinality(s.reading \cap next)
    BY <2>1, FS_Union
  <2>3. Cardinality(s.reading) \in Nat /\ Cardinality(next) \in Nat
        /\ Cardinality(s.reading \cap next) \in Nat
    BY <2>1, FS_CardinalityType
  <2>4. QED
    BY <2>2, <2>3
<1>12. Cardinality(s.reading \cup next) + Len(s.writes) <= Lanes
  <2>1. Cardinality(next) \in Nat /\ Cardinality(s.reading \cup next) \in Nat
    BY <1>3, <1>5, <1>8, TargetsFinite
  <2>2. Cardinality(s.reading) \in Nat /\ Len(s.writes) \in Nat
    BY ShareCount
  <2>3. QED
    BY <1>2, <1>4, <1>6, <1>11, <2>1, <2>2
<1>13. SlotWorks(v)
  BY <1>5, <1>9, <1>10, <1>12 DEF SlotIs, SlotWorks
<1>14. QED
  BY <1>1, <1>9, <1>10, <1>13 DEF SlotIs

LEMMA ResetWorks ==
    ASSUME NEW s \in SlotType, s.step = "reset", SlotWorks(s)
    PROVE  LET c == Refilled([s EXCEPT !.step = "work", !.left = s.targets]) IN
           /\ c \in SlotType /\ SlotWorks(c) /\ c.step = "work" /\ c.job = s.job
           /\ c.targets = s.targets /\ c.left \cup c.reading = s.targets
<1> DEFINE u == [s EXCEPT !.step = "work", !.left = s.targets]
<1>1. SlotIs(u, "work", s.job, s.targets, s.targets, s.reading, s.mem, s.writes)
  BY WorkingSlotIs
<1>2. s.reading = {} /\ s.writes = <<>> /\ s.mem = NoProgress /\ s.job \in Jobs
  BY DEF SlotWorks
<1>3. s.targets \cup {} = s.targets /\ Cardinality(s.targets) \in Nat /\ Cardinality(s.targets) <= NTargets
  BY TargetsFinite DEF SlotType
<1>4. Cardinality({}) = 0 /\ Len(<<>>) = 0
  BY FS_EmptySet
<1> HIDE DEF u
<1>5. SlotWorks(u)
  BY <1>1, <1>2, <1>3, <1>4, NoProgressTyped, Bounds DEF SlotIs, SlotWorks
<1>6. QED
  BY <1>1, <1>2, <1>5, RefilledWorks DEF SlotIs, u

\* A lane is through with its target.
LEMMA ThroughWorks ==
    ASSUME NEW s \in SlotType, SlotWorks(s), NEW t \in s.reading, NEW mem \in ProgressType,
           mem.ok \in {s.mem.ok, s.mem.ok + 1}, NEW c,
           SlotIs(c, s.step, s.job, s.targets, s.left, s.reading \ {t}, mem, Append(s.writes, mem))
    PROVE  SlotWorks(c) /\ s.step = "work" /\ s.mem.ok < NTargets
<1>1. s.step = "work"
  BY DEF SlotWorks
<1>2. t \notin s.left /\ s.left \cup (s.reading \ {t}) = (s.left \cup s.reading) \ {t}
  BY DEF SlotWorks
<1>3. Cardinality(s.left \cup (s.reading \ {t})) = Cardinality(s.left \cup s.reading) - 1
  BY <1>2, ShareCount, FS_RemoveElement
<1>4. Cardinality(s.reading \ {t}) = Cardinality(s.reading) - 1
  BY ShareCount, FS_RemoveElement
<1>5. Len(Append(s.writes, mem)) = Len(s.writes) + 1
  BY DEF SlotType
<1>6. s.left \cup (s.reading \ {t}) \in SUBSET Targets
  BY DEF SlotType
<1>7. Cardinality(s.left \cup (s.reading \ {t})) \in Nat
  BY <1>6, TargetsFinite
<1>8. s.mem.ok < NTargets /\ mem.ok + Cardinality(s.left \cup (s.reading \ {t})) <= NTargets
  <2>1. /\ Cardinality(s.left \cup s.reading) \in Nat /\ s.mem.ok \in Nat /\ NTargets \in Nat
        /\ s.mem.ok + Cardinality(s.left \cup s.reading) <= NTargets
    BY ShareCount, Bounds DEF SlotWorks
  <2>2. QED
    BY <1>3, <1>7, <2>1
<1>9. Cardinality(s.reading \ {t}) + Len(Append(s.writes, mem)) <= Lanes
  BY <1>4, <1>5, ShareCount, Bounds DEF SlotWorks
<1>10. s.job \in Jobs /\ s.left \cup (s.reading \ {t}) \subseteq s.targets
       /\ s.left \cap (s.reading \ {t}) = {}
  BY <1>1 DEF SlotWorks
<1>11. SlotWorks(c)
  BY <1>1, <1>8, <1>9, <1>10 DEF SlotIs, SlotWorks
<1>12. QED
  BY <1>1, <1>8, <1>11

LEMMA StoredWorks ==
    ASSUME NEW s \in SlotType, SlotWorks(s), NEW t \in s.reading
    PROVE  /\ Stored(s, t) \in SlotType /\ SlotWorks(Stored(s, t)) /\ s.step = "work"
           /\ Stored(s, t).step = "work" /\ Stored(s, t).job = s.job
           /\ Stored(s, t).targets = s.targets /\ Stored(s, t).mem.bad = s.mem.bad
           /\ Stored(s, t).left = s.left /\ Stored(s, t).reading = s.reading \ {t}
<1> DEFINE mem == [s.mem EXCEPT !.ok = @ + 1]
<1>1. s.mem \in ProgressType
  BY DEF SlotType
<1>2. s.mem.ok < NTargets
  BY <1>1, ThroughSlotIs, ThroughWorks
<1>3. mem \in ProgressType /\ mem.ok = s.mem.ok + 1 /\ mem.bad = s.mem.bad
  BY <1>1, <1>2, MemWith
<1>4. Stored(s, t) = Through(s, t, mem)
  BY DEF Through, Stored
<1> HIDE DEF mem
<1>5. SlotIs(Stored(s, t), s.step, s.job, s.targets, s.left, s.reading \ {t}, mem, Append(s.writes, mem))
  BY <1>3, <1>4, ThroughSlotIs
<1>6. SlotWorks(Stored(s, t)) /\ s.step = "work"
  BY <1>3, <1>5, ThroughWorks
<1>7. QED
  BY <1>3, <1>5, <1>6 DEF SlotIs

LEMMA MissedWorks ==
    ASSUME NEW s \in SlotType, SlotWorks(s), NEW t \in s.reading
    PROVE  /\ Missed(s, t) \in SlotType /\ SlotWorks(Missed(s, t)) /\ s.step = "work"
           /\ Missed(s, t).step = "work" /\ Missed(s, t).job = s.job
           /\ Missed(s, t).targets = s.targets /\ Missed(s, t).mem.bad = s.mem.bad \cup {t}
           /\ Missed(s, t).left = s.left /\ Missed(s, t).reading = s.reading \ {t}
<1> DEFINE mem == [s.mem EXCEPT !.bad = @ \cup {t}]
<1>1. s.mem \in ProgressType /\ t \in Targets
  BY DEF SlotType
<1>2. mem \in ProgressType /\ mem.ok = s.mem.ok /\ mem.bad = s.mem.bad \cup {t}
  BY <1>1, MemWith
<1>3. Missed(s, t) = Through(s, t, mem)
  BY DEF Through, Missed
<1> HIDE DEF mem
<1>4. SlotIs(Missed(s, t), s.step, s.job, s.targets, s.left, s.reading \ {t}, mem, Append(s.writes, mem))
  BY <1>2, <1>3, ThroughSlotIs
<1>5. SlotWorks(Missed(s, t)) /\ s.step = "work"
  BY <1>2, <1>4, ThroughWorks
<1>6. QED
  BY <1>2, <1>4, <1>5 DEF SlotIs

LEMMA SavedWorks ==
    ASSUME NEW s \in SlotType, SlotWorks(s), s.writes # <<>>
    PROVE  LET c == Refilled([s EXCEPT !.writes = Tail(s.writes)]) IN
           /\ Head(s.writes) \in ProgressType
           /\ c \in SlotType /\ SlotWorks(c) /\ s.step = "work" /\ c.step = "work"
           /\ c.job = s.job /\ c.targets = s.targets /\ c.mem = s.mem
           /\ c.left \cup c.reading = s.left \cup s.reading
<1> DEFINE rest == Tail(s.writes)
           u == [s EXCEPT !.writes = rest]
<1>1. s.writes \in Seq(ProgressType)
  BY DEF SlotType
<1>2. /\ Head(s.writes) \in ProgressType /\ rest \in Seq(ProgressType)
      /\ Len(rest) = Len(s.writes) - 1
  BY <1>1, HeadTailProperties
<1>3. s.step = "work"
  BY DEF SlotWorks
<1> HIDE DEF rest
<1>4. SlotIs(u, "work", s.job, s.targets, s.left, s.reading, s.mem, rest)
  BY <1>2, <1>3, SlotWithWrites
<1> HIDE DEF u
<1>5. Cardinality(s.reading) + Len(rest) <= Lanes
  BY <1>2, ShareCount, Bounds DEF SlotWorks
<1>6. SlotWorks(u)
  BY <1>3, <1>4, <1>5 DEF SlotIs, SlotWorks
<1>7. Refilled([s EXCEPT !.writes = Tail(s.writes)]) = Refilled(u)
  BY DEF u, rest
<1>8. QED
  BY <1>2, <1>3, <1>4, <1>6, <1>7, RefilledWorks DEF SlotIs

-----------------------------------------------------------------------------
(* The invariant, group by group                                           *)

JobStates   == {"none", "queued", "running", "succeeded", "failed"}
Scopes      == {"referenced", "all"}
Reasons     == {"none", "due", "expired"}
EntryStates == {"none", "waiting", "active", "completed", "failed"}
JobType ==
    [state : JobStates, scope : Scopes, retries : 0..MaxJobs, code : {"none", "partial", "other"},
     by : Reasons]
LaunchSteps == {"none", "list", "claim", "add", "fail", "prune"}
LaunchType  == [step : LaunchSteps, job : 0..MaxJobs, by : Reasons]

JobsTyped ==
    /\ job \in [Jobs -> JobType]
    /\ progress \in [Jobs -> ProgressType]
    /\ quiet \subseteq Jobs
    /\ goal \in [Jobs -> SUBSET Targets]
    /\ stored \in [Jobs -> SUBSET Targets]
QueueTyped ==
    /\ entry \in [Jobs -> EntryStates]
    /\ lock \in [Jobs -> Workers \cup {Nobody}]
    /\ tries \in [Jobs -> 0..MaxAttempts]
    /\ unrecorded \subseteq Jobs
LaunchTyped ==
    /\ launch \in [Starters -> LaunchType]
    /\ advisory \in [{"due", "expired"} -> Schedulers \cup {Nobody}]
    /\ due \in BOOLEAN /\ lockLost \in BOOLEAN
OthersTyped ==
    /\ strays \subseteq Jobs \X Targets
    /\ snapshots \in [Targets -> {"none", "fresh", "expired"}]
    /\ faults \in 0..MaxFaults

JobsInv   == JobsTyped /\ SucceededIsComplete /\ PartialIsSettled /\ RetriesFollow
QueueInv  == QueueTyped /\ EntriesAreHeld
SlotsInv  == SlotsTyped /\ SlotsWork /\ TargetsAccounted
LaunchInv == LaunchTyped /\ JobsInOrder /\ IdsAreNew /\ LaunchesHoldLocks /\ DueIsFirst
Inv == JobsInv /\ QueueInv /\ SlotsInv /\ LaunchInv /\ OthersTyped

LEMMA TypesAre ==
    SlotsTyped /\ SlotsWork =>
        (TypeOK <=> JobsTyped /\ QueueTyped /\ LaunchTyped /\ OthersTyped)
<1> SUFFICES ASSUME SlotsTyped, SlotsWork
             PROVE  TypeOK <=> JobsTyped /\ QueueTyped /\ LaunchTyped /\ OthersTyped
  OBVIOUS
<1> DEFINE SlotsTypeOK ==
      \A w \in Workers :
          /\ slot[w].step \in {"none", "categories", "reset", "work", "failEarly", "fail"}
          /\ slot[w].job \in 0..MaxJobs
          /\ slot[w].mem \in ProgressType
          /\ slot[w].left \cup slot[w].reading \subseteq slot[w].targets
          /\ Cardinality(slot[w].reading) + Len(slot[w].writes) <= Lanes
<1>1. SlotsTypeOK
  BY DEF SlotsTyped, SlotType, SlotSteps, SlotsWork, SlotWorks
<1>2. TypeOK <=> JobsTyped /\ QueueTyped /\ LaunchTyped /\ OthersTyped /\ SlotsTypeOK
  BY DEF TypeOK, JobsTyped, QueueTyped, LaunchTyped, OthersTyped, JobType, JobStates, Scopes,
         Reasons, EntryStates, LaunchType, LaunchSteps
<1>3. QED
  BY <1>1, <1>2

LEMMA IInvIs == IInv <=> Inv
  BY TypesAre DEF IInv, Inv, JobsInv, QueueInv, SlotsInv, LaunchInv

-----------------------------------------------------------------------------
(* Jobs                                                                    *)

\* A claimed job stays, and once it has ended nothing of it changes.
JobsFollow ==
    /\ \A j \in Jobs : job[j].state # "none" =>
          /\ job'[j].state # "none"
          /\ job'[j].scope = job[j].scope
          /\ job'[j].retries = job[j].retries
          /\ job'[j].by = job[j].by
          /\ ~Active(j) => job'[j] = job[j] /\ progress'[j] = progress[j] /\ goal'[j] = goal[j]
    /\ \A j \in Jobs : stored[j] \subseteq stored'[j]

\* What a step may make of job j: nothing, or it goes on, or it ends.
JobGoes(j) ==
    \/ job'[j] = job[j]
    \/ /\ job'[j].state \in {"queued", "running"} /\ job'[j].code # "partial"
       /\ job[j].state = "none" =>
             job'[j].retries = 0 \/ (job'[j].retries \in Jobs /\ job[job'[j].retries].state = "failed")
    \/ Active(j) /\ job'[j].state = "failed" /\ job'[j].code = "other"
    \/ /\ Active(j) /\ job'[j].state = "failed" /\ job'[j].code = "partial"
       /\ goal'[j] \subseteq stored'[j] \cup progress'[j].bad
    \/ /\ Active(j) /\ job'[j].state = "succeeded" /\ job'[j].code = "none"
       /\ goal'[j] \subseteq stored'[j]
       /\ \A r \in {job[j].retries} \ {0} : progress[r].bad \subseteq stored'[j]

LEMMA JobsStep ==
    ASSUME JobsInv, JobsFollow, JobsTyped', \A j \in Jobs : JobGoes(j)
    PROVE  JobsInv'
<1> USE DEF JobsInv
<1>1. ASSUME NEW j \in Jobs, job[j].state = "failed"
      PROVE  job'[j].state = "failed" /\ progress'[j] = progress[j]
  BY <1>1 DEF JobsFollow, Active
<1>2. ASSUME NEW j \in Jobs, job'[j] = job[j], job[j].state # "none", ~Active(j)
      PROVE  /\ goal'[j] = goal[j] /\ progress'[j] = progress[j] /\ stored[j] \subseteq stored'[j]
  BY <1>2 DEF JobsFollow
<1>3. SucceededIsComplete'
  <2> SUFFICES ASSUME NEW j \in Jobs, job'[j].state = "succeeded"
               PROVE  goal'[j] \subseteq stored'[j]
    BY DEF SucceededIsComplete
  <2>1. CASE job'[j] = job[j]
    BY <1>2, <2>1 DEF SucceededIsComplete, Active
  <2>2. CASE job'[j] # job[j]
    BY <2>2 DEF JobGoes
  <2>3. QED
    BY <2>1, <2>2
<1>4. PartialIsSettled'
  <2> SUFFICES ASSUME NEW j \in Jobs, job'[j].code = "partial"
               PROVE  job'[j].state = "failed" /\ goal'[j] \subseteq stored'[j] \cup progress'[j].bad
    BY DEF PartialIsSettled
  <2>1. CASE job'[j] = job[j]
    <3>1. job[j].state = "failed" /\ goal[j] \subseteq stored[j] \cup progress[j].bad
      BY <2>1 DEF PartialIsSettled
    <3>2. QED
      BY <1>2, <2>1, <3>1 DEF Active
  <2>2. CASE job'[j] # job[j]
    BY <2>2 DEF JobGoes
  <2>3. QED
    BY <2>1, <2>2
<1>5. RetriesFollow'
  <2> SUFFICES ASSUME NEW j \in Jobs, NEW r \in {job'[j].retries} \ {0}
               PROVE  /\ job'[r].state = "failed"
                      /\ job'[j].state = "succeeded" => progress'[r].bad \subseteq stored'[j]
    BY DEF RetriesFollow
  <2>1. r \in Jobs
    BY Bounds DEF JobsTyped, JobType
  <2>2. job[r].state = "failed"
    <3>1. CASE job[j].state = "none"
      <4>1. CASE job'[j] = job[j]
        BY <4>1 DEF RetriesFollow
      <4>2. CASE job'[j] # job[j]
        BY <3>1, <4>2 DEF JobGoes, Active
      <4>3. QED
        BY <4>1, <4>2
    <3>2. CASE job[j].state # "none"
      <4>1. job'[j].retries = job[j].retries
        BY <3>2 DEF JobsFollow
      <4>2. QED
        BY <4>1 DEF RetriesFollow
    <3>3. QED
      BY <3>1, <3>2
  <2>3. ASSUME job'[j].state = "succeeded"
        PROVE  progress'[r].bad \subseteq stored'[j]
    <3>1. progress'[r] = progress[r]
      BY <1>1, <2>1, <2>2
    <3>2. CASE job'[j] = job[j]
      <4>1. progress[r].bad \subseteq stored[j]
        BY <2>3, <3>2 DEF RetriesFollow
      <4>2. QED
        BY <3>1, <4>1 DEF JobsFollow
    <3>3. CASE job'[j] # job[j]
      <4>1. Active(j) /\ \A q \in {job[j].retries} \ {0} : progress[q].bad \subseteq stored'[j]
        BY <2>3, <3>3 DEF JobGoes
      <4>2. job'[j].retries = job[j].retries
        BY <4>1 DEF JobsFollow, Active
      <4>3. QED
        BY <3>1, <4>1, <4>2
    <3>4. QED
      BY <3>2, <3>3
  <2>4. QED
    BY <1>1, <2>1, <2>2, <2>3
<1>6. QED
  BY <1>3, <1>4, <1>5

\* No job is claimed.
NoneBegin == \A j \in Jobs : job[j].state = "none" => job'[j] = job[j]

\* The jobs stay, and with them what they have done.
LEMMA JobsStayStep ==
    ASSUME JobsInv, UNCHANGED <<job, progress, goal, stored>>, quiet' \subseteq Jobs
    PROVE  JobsInv' /\ JobsFollow /\ NoneBegin
<1>1. JobsTyped'
  BY DEF JobsInv, JobsTyped
<1>2. JobsFollow /\ NoneBegin /\ \A j \in Jobs : JobGoes(j)
  BY DEF JobsFollow, NoneBegin, JobGoes
<1>3. QED
  BY <1>1, <1>2, JobsStep

\* A job with these fields.
JobIs(r, state, scope, retries, code, by) ==
    /\ r \in JobType
    /\ r.state = state /\ r.scope = scope /\ r.retries = retries /\ r.code = code /\ r.by = by

LEMMA JobWithState ==
    ASSUME NEW r \in JobType, NEW state \in JobStates
    PROVE  JobIs([r EXCEPT !.state = state], state, r.scope, r.retries, r.code, r.by)
  BY DEF JobIs, JobType

LEMMA JobWithCode ==
    ASSUME NEW r \in JobType, NEW code \in {"none", "partial", "other"}
    PROVE  JobIs([r EXCEPT !.code = code], r.state, r.scope, r.retries, code, r.by)
  BY DEF JobIs, JobType

LEMMA JobWithEnd ==
    ASSUME NEW r \in JobType, NEW state \in JobStates, NEW code \in {"none", "partial", "other"}
    PROVE  JobIs([r EXCEPT !.state = state, !.code = code], state, r.scope, r.retries, code, r.by)
<1> DEFINE u == [r EXCEPT !.state = state]
<1>1. [r EXCEPT !.state = state, !.code = code] = [u EXCEPT !.code = code]
  OBVIOUS
<1>2. JobIs(u, state, r.scope, r.retries, r.code, r.by)
  BY JobWithState
<1> HIDE DEF u
<1>3. JobIs([u EXCEPT !.code = code], u.state, u.scope, u.retries, code, u.by)
  BY <1>2, JobWithCode DEF JobIs
<1>4. QED
  BY <1>1, <1>2, <1>3 DEF JobIs

LEMMA FailedIs ==
    ASSUME JobsTyped, NEW j \in Jobs
    PROVE  JobIs(Failed(j), "failed", job[j].scope, job[j].retries, "other", job[j].by)
  BY JobWithEnd DEF JobsTyped, Failed, JobStates

\* What a timeout makes of the jobs.
LEMMA TimeoutTyped ==
    JobsTyped => /\ AfterTimeout \in [Jobs -> JobType]
                 /\ \A j \in Jobs : AfterTimeout[j] = job[j] \/ (Active(j) /\ AfterTimeout[j] = Failed(j))
<1> SUFFICES ASSUME JobsTyped
             PROVE  /\ AfterTimeout \in [Jobs -> JobType]
                    /\ \A j \in Jobs : AfterTimeout[j] = job[j] \/ (Active(j) /\ AfterTimeout[j] = Failed(j))
  OBVIOUS
<1>1. \A j \in Jobs : Failed(j) \in JobType /\ job[j] \in JobType
  BY FailedIs DEF JobIs, JobsTyped
<1>2. QED
  BY <1>1 DEF AfterTimeout, TimedOut

\* Jobs that keep their state, or fail while they are active.
JobsFail(jobs) ==
    /\ jobs \in [Jobs -> JobType]
    /\ \A j \in Jobs : jobs[j] = job[j] \/ (Active(j) /\ jobs[j] = Failed(j))

LEMMA JobsFailStep ==
    ASSUME JobsInv, NEW jobs, JobsFail(jobs), JobsTo(jobs), UNCHANGED <<progress, goal, stored>>
    PROVE  JobsInv' /\ JobsFollow /\ NoneBegin
<1>1. job' = jobs /\ quiet' \subseteq Jobs
  BY DEF JobsTo, JobsInv, JobsTyped
<1>2. JobsTyped'
  BY <1>1 DEF JobsInv, JobsTyped, JobsFail
<1>3. ASSUME NEW j \in Jobs
      PROVE  \/ job'[j] = job[j]
             \/ /\ Active(j) /\ job'[j].state = "failed" /\ job'[j].code = "other"
                /\ job'[j].scope = job[j].scope /\ job'[j].retries = job[j].retries
                /\ job'[j].by = job[j].by
  BY <1>1, FailedIs DEF JobsFail, JobIs, JobsInv
<1>4. JobsFollow
  BY <1>3 DEF JobsFollow, Active
<1>5. \A j \in Jobs : JobGoes(j)
  BY <1>3 DEF JobGoes
<1>6. NoneBegin
  BY <1>3 DEF NoneBegin, Active
<1>7. QED
  BY <1>2, <1>4, <1>5, <1>6, JobsStep

LEMMA FailKeepingStep ==
    ASSUME JobsInv, NEW j \in Jobs, FailKeeping(j), progress' = Kept(j), UNCHANGED <<goal, stored>>
    PROVE  JobsInv' /\ JobsFollow /\ NoneBegin
<1> DEFINE jobs == [job EXCEPT ![j] = IF Active(j) THEN Failed(j) ELSE @]
<1>1. JobsTo(jobs) /\ progress' = progress
  BY DEF FailKeeping, Kept
<1>2. job \in [Jobs -> JobType] /\ Failed(j) \in JobType
  BY FailedIs DEF JobIs, JobsInv, JobsTyped
<1>3. JobsFail(jobs)
  BY <1>2 DEF JobsFail
<1> HIDE DEF jobs
<1>4. QED
  BY <1>1, <1>3, JobsFailStep

LEMMA TimeoutStep ==
    ASSUME JobsInv, JobsTo(AfterTimeout), UNCHANGED <<progress, goal, stored>>
    PROVE  JobsInv' /\ JobsFollow /\ NoneBegin
  BY TimeoutTyped, JobsFailStep DEF JobsFail, JobsInv

\* markRunning
LEMMA RunningStep ==
    ASSUME JobsInv, NEW j \in Jobs, Active(j), job' = [job EXCEPT ![j].state = "running"],
           quiet' = quiet \ {j}, UNCHANGED <<progress, goal, stored>>
    PROVE  JobsInv' /\ JobsFollow /\ NoneBegin
<1> DEFINE row == [job[j] EXCEPT !.state = "running"]
<1>1. job \in [Jobs -> JobType] /\ job' = [job EXCEPT ![j] = row]
  BY DEF JobsInv, JobsTyped
<1>2. JobIs(row, "running", job[j].scope, job[j].retries, job[j].code, job[j].by)
  BY <1>1, JobWithState DEF JobStates
<1> HIDE DEF row
<1>3. \A k \in Jobs : job'[k] = IF k = j THEN row ELSE job[k]
  BY <1>1
<1>4. JobsTyped'
  BY <1>1, <1>2 DEF JobIs, JobsInv, JobsTyped
<1>5. job[j].code # "partial" /\ job[j].state # "none"
  BY DEF JobsInv, PartialIsSettled, Active
<1>6. JobsFollow /\ NoneBegin
  BY <1>2, <1>3, <1>5 DEF JobIs, JobsFollow, NoneBegin, Active
<1>7. \A k \in Jobs : JobGoes(k)
  BY <1>2, <1>3, <1>5 DEF JobIs, JobGoes
<1>8. QED
  BY <1>4, <1>6, <1>7, JobsStep

\* The progress of a running job.
LEMMA ProgressStep ==
    ASSUME JobsInv, NEW j \in Jobs, NEW p \in ProgressType, WriteProgress(j, p),
           UNCHANGED <<job, goal, stored>>
    PROVE  JobsInv' /\ JobsFollow /\ NoneBegin
<1>1. /\ progress' = [progress EXCEPT ![j] = IF job[j].state = "running" THEN p ELSE @]
      /\ quiet' \subseteq Jobs
  BY DEF WriteProgress, JobsInv, JobsTyped
<1>2. progress \in [Jobs -> ProgressType]
  BY DEF JobsInv, JobsTyped
<1>3. progress' \in [Jobs -> ProgressType] /\ \A k \in Jobs : ~Active(k) => progress'[k] = progress[k]
  BY <1>1, <1>2 DEF Active
<1>4. JobsTyped'
  BY <1>1, <1>3 DEF JobsInv, JobsTyped
<1>5. JobsFollow /\ NoneBegin /\ \A k \in Jobs : JobGoes(k)
  BY <1>3 DEF JobsFollow, NoneBegin, JobGoes
<1>6. QED
  BY <1>4, <1>5, JobsStep

\* A target is stored for a job.
LEMMA StoredStep ==
    ASSUME JobsInv, NEW j \in Jobs, NEW t \in Targets,
           stored' = [stored EXCEPT ![j] = @ \cup {t}], UNCHANGED <<job, progress, quiet, goal>>
    PROVE  JobsInv' /\ JobsFollow /\ NoneBegin
<1>1. stored \in [Jobs -> SUBSET Targets]
  BY DEF JobsInv, JobsTyped
<1>2. stored' \in [Jobs -> SUBSET Targets] /\ \A k \in Jobs : stored[k] \subseteq stored'[k]
  BY <1>1
<1>3. JobsTyped'
  BY <1>2 DEF JobsInv, JobsTyped
<1>4. JobsFollow /\ NoneBegin /\ \A k \in Jobs : JobGoes(k)
  BY <1>2 DEF JobsFollow, NoneBegin, JobGoes
<1>5. QED
  BY <1>3, <1>4, JobsStep

\* saveSuccess and saveFailure with progress: the job ends as its attempt did.
LEMMA EndStep ==
    ASSUME JobsInv, NEW w \in Workers, slot[w] \in SlotType, slot[w].job \in Jobs,
           NEW state \in JobStates, NEW code \in {"none", "partial", "other"},
           EndJob(w, state, code), stored' = stored,
           \/ state = "failed" /\ code = "other"
           \/ /\ state = "failed" /\ code = "partial"
              /\ slot[w].targets \subseteq stored[slot[w].job] \cup slot[w].mem.bad
           \/ /\ state = "succeeded" /\ code = "none"
              /\ slot[w].targets \subseteq stored[slot[w].job]
              /\ \A r \in {job[slot[w].job].retries} \ {0} :
                    progress[r].bad \subseteq stored[slot[w].job]
    PROVE  JobsInv' /\ JobsFollow /\ NoneBegin
<1> DEFINE s == slot[w]
           j == slot[w].job
           row == [job[j] EXCEPT !.state = state, !.code = code]
<1>1. job \in [Jobs -> JobType] /\ progress \in [Jobs -> ProgressType] /\ goal \in [Jobs -> SUBSET Targets]
  BY DEF JobsInv, JobsTyped
<1>2. JobIs(row, state, job[j].scope, job[j].retries, code, job[j].by)
  BY <1>1, JobWithEnd
<1>3. s.mem \in ProgressType /\ s.targets \in SUBSET Targets
  BY DEF SlotType
<1>4. /\ job' = [job EXCEPT ![j] = IF Active(j) THEN row ELSE job[j]]
      /\ progress' = [progress EXCEPT ![j] = IF Active(j) THEN s.mem ELSE progress[j]]
      /\ goal' = [goal EXCEPT ![j] = IF Active(j) THEN s.targets ELSE goal[j]]
      /\ quiet' \subseteq Jobs
  BY DEF EndJob, JobsTo, JobsInv, JobsTyped
<1> HIDE DEF row
<1>5. \A k \in Jobs :
         /\ job'[k] = IF k = j /\ Active(j) THEN row ELSE job[k]
         /\ progress'[k] = IF k = j /\ Active(j) THEN s.mem ELSE progress[k]
         /\ goal'[k] = IF k = j /\ Active(j) THEN s.targets ELSE goal[k]
  BY <1>1, <1>4
<1>6. JobsTyped'
  <2>1. job' \in [Jobs -> JobType]
    BY <1>1, <1>2, <1>4 DEF JobIs
  <2>2. progress' \in [Jobs -> ProgressType] /\ goal' \in [Jobs -> SUBSET Targets]
    BY <1>1, <1>3, <1>4
  <2>3. QED
    BY <1>4, <2>1, <2>2 DEF JobsInv, JobsTyped
<1>7. JobsFollow /\ NoneBegin
  BY <1>2, <1>5 DEF JobIs, JobsFollow, NoneBegin, Active
<1>8. ASSUME NEW k \in Jobs PROVE JobGoes(k)
  <2>1. CASE k = j /\ Active(j)
    BY <1>2, <1>5, <2>1 DEF JobIs, JobGoes
  <2>2. CASE ~(k = j /\ Active(j))
    BY <1>5, <2>2 DEF JobGoes
  <2>3. QED
    BY <2>1, <2>2
<1>9. QED
  BY <1>6, <1>7, <1>8, JobsStep

-----------------------------------------------------------------------------
(* The queue                                                               *)

\* No entry is added.
NoneAdded == \A j \in Jobs : entry[j] = "none" => entry'[j] = "none"

LEMMA QueueStayStep ==
    ASSUME QueueInv, UNCHANGED <<entry, lock, tries>>, unrecorded' \subseteq Jobs
    PROVE  QueueInv' /\ NoneAdded
  BY DEF QueueInv, QueueTyped, EntriesAreHeld, NoneAdded

LEMMA FinishedStep ==
    ASSUME QueueInv, NEW w \in Workers, NEW j \in Jobs, Finished(w, j, "completed"),
           UNCHANGED <<tries, unrecorded>>
    PROVE  QueueInv' /\ NoneAdded
<1>1. /\ entry \in [Jobs -> EntryStates] /\ lock \in [Jobs -> Workers \cup {Nobody}]
      /\ w # Nobody
  BY ProcessAssumption DEF QueueInv, QueueTyped
<1>2. /\ entry' = [entry EXCEPT ![j] = IF lock[j] = w THEN "completed" ELSE @]
      /\ lock' = [lock EXCEPT ![j] = IF @ = w THEN Nobody ELSE @]
  BY DEF Finished
<1>3. \A k \in Jobs :
         /\ entry'[k] = IF k = j /\ lock[j] = w THEN "completed" ELSE entry[k]
         /\ lock'[k] = IF k = j /\ lock[j] = w THEN Nobody ELSE lock[k]
  BY <1>1, <1>2
<1>4. QueueTyped'
  BY <1>1, <1>2 DEF QueueInv, QueueTyped, EntryStates
<1>5. EntriesAreHeld' /\ NoneAdded
  BY <1>1, <1>3 DEF QueueInv, EntriesAreHeld, NoneAdded
<1>6. QED
  BY <1>4, <1>5 DEF QueueInv

LEMMA RejectedStep ==
    ASSUME QueueInv, NEW w \in Workers, NEW j \in Jobs, Rejected(w, j)
    PROVE  QueueInv' /\ NoneAdded
<1> DEFINE outcome == IF tries[j] + 1 < MaxAttempts THEN "waiting" ELSE "failed"
<1>1. /\ entry \in [Jobs -> EntryStates] /\ lock \in [Jobs -> Workers \cup {Nobody}]
      /\ tries \in [Jobs -> 0..MaxAttempts] /\ w # Nobody
  BY ProcessAssumption DEF QueueInv, QueueTyped
<1>2. /\ entry' = [entry EXCEPT ![j] = IF lock[j] = w THEN outcome ELSE @]
      /\ lock' = [lock EXCEPT ![j] = IF @ = w THEN Nobody ELSE @]
      /\ tries' = [tries EXCEPT ![j] = IF lock[j] = w THEN @ + 1 ELSE @]
      /\ unrecorded' \subseteq Jobs
  BY DEF Rejected, Finished, QueueInv, QueueTyped
<1>3. /\ outcome \in {"waiting", "failed"} /\ outcome \in EntryStates
      /\ outcome = "waiting" => tries[j] + 1 < MaxAttempts
  BY DEF EntryStates
<1> HIDE DEF outcome
<1>4. lock[j] = w => entry[j] = "active" /\ tries[j] < MaxAttempts
  BY <1>1 DEF QueueInv, EntriesAreHeld
<1>5. \A k \in Jobs :
         /\ entry'[k] = IF k = j /\ lock[j] = w THEN outcome ELSE entry[k]
         /\ lock'[k] = IF k = j /\ lock[j] = w THEN Nobody ELSE lock[k]
         /\ tries'[k] = IF k = j /\ lock[j] = w THEN tries[j] + 1 ELSE tries[k]
  BY <1>1, <1>2
<1>6. QueueTyped'
  <2>1. tries' \in [Jobs -> 0..MaxAttempts]
    BY <1>1, <1>2, <1>4, Bounds
  <2>2. entry' \in [Jobs -> EntryStates] /\ lock' \in [Jobs -> Workers \cup {Nobody}]
    BY <1>1, <1>2, <1>3
  <2>3. QED
    BY <1>2, <2>1, <2>2 DEF QueueTyped
<1>7. EntriesAreHeld' /\ NoneAdded
  BY <1>1, <1>3, <1>4, <1>5 DEF QueueInv, EntriesAreHeld, NoneAdded
<1>8. QED
  BY <1>6, <1>7 DEF QueueInv

\* One entry changes without an attempt that ends.
LEMMA EntryStep ==
    ASSUME QueueInv, NEW j \in Jobs, NEW state \in EntryStates, NEW holder \in Workers \cup {Nobody},
           NEW n \in 0..MaxAttempts,
           entry' = [entry EXCEPT ![j] = state], lock' = [lock EXCEPT ![j] = holder],
           tries' = [tries EXCEPT ![j] = n], unrecorded' \subseteq Jobs,
           state # "none", holder # Nobody => state = "active",
           state \in {"waiting", "active"} => n < MaxAttempts
    PROVE  QueueInv' /\ (entry[j] # "none" => NoneAdded)
<1>1. /\ entry \in [Jobs -> EntryStates] /\ lock \in [Jobs -> Workers \cup {Nobody}]
      /\ tries \in [Jobs -> 0..MaxAttempts]
  BY DEF QueueInv, QueueTyped
<1>2. QueueTyped'
  BY <1>1 DEF QueueTyped
<1>3. \A k \in Jobs : /\ entry'[k] = IF k = j THEN state ELSE entry[k]
                      /\ lock'[k] = IF k = j THEN holder ELSE lock[k]
                      /\ tries'[k] = IF k = j THEN n ELSE tries[k]
  BY <1>1
<1>4. EntriesAreHeld' /\ (entry[j] # "none" => NoneAdded)
  BY <1>3 DEF QueueInv, EntriesAreHeld, NoneAdded
<1>5. QED
  BY <1>2, <1>4 DEF QueueInv

-----------------------------------------------------------------------------
(* Slots that go on                                                        *)

\* What Accounted says of a slot after the step.
AccountedNext(s) ==
    /\ s.step # "none" => job'[s.job].state # "none"
    /\ s.step = "work" => s.targets \subseteq stored'[s.job] \cup s.mem.bad \cup s.left \cup s.reading
    /\ s.step \in {"reset", "work"} =>
          \A r \in {job'[s.job].retries} \ {0} : s.targets = progress'[r].bad

\* A slot that is left alone still accounts for its targets.
LEMMA AccountedStays ==
    ASSUME JobsInv, JobsFollow, NEW s \in SlotType, SlotWorks(s), Accounted(s)
    PROVE  AccountedNext(s)
<1>1. CASE s.step = "none"
  BY <1>1 DEF AccountedNext
<1>2. CASE s.step # "none"
  <2>1. s.job \in Jobs /\ job[s.job].state # "none"
    BY <1>2 DEF SlotWorks, Accounted
  <2>2. /\ job'[s.job].state # "none" /\ job'[s.job].retries = job[s.job].retries
        /\ stored[s.job] \subseteq stored'[s.job]
    BY <2>1 DEF JobsFollow
  <2>3. ASSUME NEW r \in {job[s.job].retries} \ {0}
        PROVE  progress'[r] = progress[r]
    <3>1. job[r].state = "failed"
      BY <2>1 DEF JobsInv, RetriesFollow
    <3>2. r \in 0..MaxJobs /\ r # 0
      BY <2>1 DEF JobsInv, JobsTyped, JobType
    <3>3. r \in Jobs
      BY <3>2, Bounds
    <3>4. QED
      BY <3>1, <3>3 DEF JobsFollow, Active
  <2>4. QED
    BY <2>2, <2>3 DEF Accounted, AccountedNext
<1>3. QED
  BY <1>1, <1>2

LEMMA SlotTo ==
    ASSUME JobsInv, JobsFollow, SlotsInv, NEW w \in Workers, NEW c \in SlotType, SlotWorks(c),
           AccountedNext(c), slot' = [slot EXCEPT ![w] = c]
    PROVE  SlotsInv'
<1>1. slot \in [Workers -> SlotType]
  BY DEF SlotsInv, SlotsTyped
<1>2. SlotsTyped' /\ \A v \in Workers : slot'[v] = IF v = w THEN c ELSE slot[v]
  BY <1>1 DEF SlotsTyped
<1>3. ASSUME NEW v \in Workers PROVE SlotWorks(slot'[v]) /\ AccountedNext(slot'[v])
  <2>1. slot[v] \in SlotType /\ SlotWorks(slot[v]) /\ Accounted(slot[v])
    BY <1>1 DEF SlotsInv, SlotsWork, TargetsAccounted
  <2>2. AccountedNext(slot[v])
    BY <2>1, AccountedStays
  <2>3. QED
    BY <1>2, <2>1, <2>2
<1>4. SlotsWork'
  BY <1>3 DEF SlotsWork, SlotWorks
<1>5. TargetsAccounted'
  BY <1>3 DEF TargetsAccounted, Accounted, AccountedNext
<1>6. QED
  BY <1>2, <1>4, <1>5 DEF SlotsInv

LEMMA SlotsStayStep ==
    ASSUME JobsInv, JobsFollow, SlotsInv, slot' = slot
    PROVE  SlotsInv'
<1>1. slot \in [Workers -> SlotType] /\ SlotsTyped'
  BY DEF SlotsInv, SlotsTyped
<1>2. ASSUME NEW v \in Workers PROVE SlotWorks(slot'[v]) /\ AccountedNext(slot'[v])
  <2>1. slot[v] \in SlotType /\ SlotWorks(slot[v]) /\ Accounted(slot[v])
    BY <1>1 DEF SlotsInv, SlotsWork, TargetsAccounted
  <2>2. QED
    BY <2>1, AccountedStays
<1>3. SlotsWork'
  BY <1>2 DEF SlotsWork, SlotWorks
<1>4. TargetsAccounted'
  BY <1>2 DEF TargetsAccounted, Accounted, AccountedNext
<1>5. QED
  BY <1>1, <1>3, <1>4 DEF SlotsInv

\* A slot that is free again.
LEMMA SlotFreed ==
    ASSUME JobsInv, JobsFollow, SlotsInv, NEW w \in Workers, slot' = [slot EXCEPT ![w] = IdleSlot]
    PROVE  SlotsInv'
<1>1. SlotWorks(IdleSlot) /\ AccountedNext(IdleSlot) /\ IdleSlot \in SlotType
  BY IdleSlotIs, RestingWorks DEF SlotIs, AccountedNext
<1>2. QED
  BY <1>1, SlotTo

\* What SlotsInv says of one slot.
LEMMA SlotHolds ==
    ASSUME SlotsInv, NEW w \in Workers
    PROVE  slot[w] \in SlotType /\ SlotWorks(slot[w]) /\ Accounted(slot[w])
  BY DEF SlotsInv, SlotsTyped, SlotsWork, TargetsAccounted

-----------------------------------------------------------------------------
(* Launches                                                                *)

\* A launch with these fields.
LaunchIs(r, step, j, by) == r \in LaunchType /\ r.step = step /\ r.job = j /\ r.by = by

LEMMA IdleLaunchIs == LaunchIs(IdleLaunch, "none", 0, "none")
  BY Bounds DEF IdleLaunch, LaunchIs, LaunchType, LaunchSteps, Reasons

LEMMA LaunchWithStep ==
    ASSUME NEW r \in LaunchType, NEW step \in LaunchSteps
    PROVE  LaunchIs([r EXCEPT !.step = step], step, r.job, r.by)
  BY DEF LaunchIs, LaunchType

LEMMA LaunchWithJob ==
    ASSUME NEW r \in LaunchType, NEW j \in 0..MaxJobs
    PROVE  LaunchIs([r EXCEPT !.job = j], r.step, j, r.by)
  BY DEF LaunchIs, LaunchType

LEMMA LaunchWithStepAndJob ==
    ASSUME NEW r \in LaunchType, NEW step \in LaunchSteps, NEW j \in 0..MaxJobs
    PROVE  LaunchIs([r EXCEPT !.step = step, !.job = j], step, j, r.by)
<1> DEFINE u == [r EXCEPT !.step = step]
<1>1. [r EXCEPT !.step = step, !.job = j] = [u EXCEPT !.job = j]
  OBVIOUS
<1>2. LaunchIs(u, step, r.job, r.by)
  BY LaunchWithStep
<1> HIDE DEF u
<1>3. LaunchIs([u EXCEPT !.job = j], u.step, j, u.by)
  BY <1>2, LaunchWithJob DEF LaunchIs
<1>4. QED
  BY <1>1, <1>2, <1>3 DEF LaunchIs

\* A launch stays, goes on to fail or to prune, or is over.
LaunchGoes(p) ==
    \/ launch'[p] = launch[p]
    \/ launch'[p].step = "none" /\ launch'[p].job = 0 /\ launch'[p].by = "none"
    \/ /\ launch[p].step = "add" /\ launch'[p].step = "fail"
       /\ launch'[p].job = launch[p].job /\ launch'[p].by = launch[p].by
    \/ /\ launch[p].step # "none" /\ launch'[p].step = "prune"
       /\ launch'[p].job \in {launch[p].job, 0} /\ launch'[p].by = launch[p].by
    \/ /\ p \in Launchers /\ launch'[p].step = "none"
       /\ launch'[p].job = launch[p].job /\ launch'[p].by = launch[p].by

\* A scheduler that is still at work keeps the lock that it holds.
LocksStay ==
    ~lockLost' =>
        /\ ~lockLost
        /\ \A p \in Schedulers, key \in {"due", "expired"} :
              advisory[key] = p /\ launch'[p].step # "none" => advisory'[key] = p

\* An entry is added only by the launch of its job, which goes on.
LaunchAdds ==
    \A j \in Jobs : entry[j] = "none" /\ entry'[j] # "none" =>
        \E p \in Starters : launch[p].step = "add" /\ launch[p].job = j /\ launch'[p].step # "add"

LEMMA IdsStep ==
    ASSUME JobsFollow, NoneBegin, JobsInOrder, IdsAreNew, LaunchAdds, \A p \in Starters : LaunchGoes(p)
    PROVE  JobsInOrder' /\ IdsAreNew'
<1>1. \A j \in Jobs : job'[j].state = "none" <=> job[j].state = "none"
  BY DEF JobsFollow, NoneBegin
<1>2. JobsInOrder'
  BY <1>1 DEF JobsInOrder
<1>3. ASSUME NEW p \in Starters
      PROVE  /\ launch'[p].job \in {launch[p].job, 0}
             /\ launch'[p].step = "add" => launch[p].step = "add" /\ launch'[p].job = launch[p].job
             /\ launch'[p].step = "fail" =>
                   launch[p].step \in {"add", "fail"} /\ launch'[p].job = launch[p].job
  BY DEF LaunchGoes
<1>4. ASSUME NEW j \in Jobs, job'[j].state = "none"
      PROVE  entry'[j] = "none" /\ \A p \in Starters : launch'[p].job # j
  <2>1. entry[j] = "none" /\ (\A p \in Starters : launch[p].job # j) /\ j # 0
    BY <1>1, <1>4, Bounds DEF IdsAreNew
  <2>2. QED
    BY <1>3, <2>1 DEF LaunchAdds
<1>5. ASSUME NEW p \in Starters, launch'[p].step \in {"add", "fail"}
      PROVE  launch'[p].job \in Jobs
  BY <1>3, <1>5 DEF IdsAreNew
<1>6. ASSUME NEW p \in Starters, launch'[p].step = "add"
      PROVE  /\ entry'[launch'[p].job] = "none"
             /\ \A q \in Starters : launch'[q].job = launch'[p].job => q = p
  <2>1. launch[p].step = "add" /\ launch'[p].job = launch[p].job
    BY <1>3, <1>6
  <2>2. launch[p].job \in Jobs /\ entry[launch[p].job] = "none"
    BY <2>1 DEF IdsAreNew
  <2>3. launch[p].job # 0
    BY <2>2, Bounds
  <2>4. \A q \in Starters : launch[q].job = launch[p].job => q = p
    BY <2>1 DEF IdsAreNew
  <2>5. entry'[launch[p].job] = "none"
    BY <1>6, <2>2, <2>4 DEF LaunchAdds
  <2>6. QED
    BY <1>3, <2>1, <2>3, <2>4, <2>5
<1>7. IdsAreNew'
  BY <1>4, <1>5, <1>6 DEF IdsAreNew
<1>8. QED
  BY <1>2, <1>7

LEMMA LocksStep ==
    ASSUME JobsFollow, NoneBegin, LaunchTyped, LaunchesHoldLocks, DueIsFirst, LocksStay,
           \A p \in Starters : LaunchGoes(p)
    PROVE  LaunchesHoldLocks' /\ DueIsFirst'
<1>1. ASSUME NEW p \in Starters
      PROVE  /\ launch'[p].by \in {launch[p].by, "none"}
             /\ launch'[p].step = "claim" => launch'[p] = launch[p]
             /\ p \in Schedulers /\ launch'[p].step # "none" =>
                   launch[p].step # "none" /\ launch'[p].by = launch[p].by
  BY ProcessAssumption DEF LaunchGoes
<1>2. ASSUME NEW p \in Starters
      PROVE  /\ p \in Launchers => launch'[p].by = "none"
             /\ p \in Schedulers /\ launch'[p].step # "none" =>
                   /\ launch'[p].by \in {"due", "expired"}
                   /\ ~lockLost' => advisory'[launch'[p].by] = p
  <2>1. p \in Launchers => launch'[p].by = "none"
    BY <1>1 DEF LaunchesHoldLocks
  <2>2. ASSUME p \in Schedulers, launch'[p].step # "none"
        PROVE  /\ launch'[p].by \in {"due", "expired"}
               /\ ~lockLost' => advisory'[launch'[p].by] = p
    <3>1. launch[p].step # "none" /\ launch'[p].by = launch[p].by
      BY <1>1, <2>2
    <3>2. launch[p].by \in {"due", "expired"} /\ (~lockLost => advisory[launch[p].by] = p)
      BY <2>2, <3>1 DEF LaunchesHoldLocks
    <3>3. QED
      BY <2>2, <3>1, <3>2 DEF LocksStay
  <2>3. QED
    BY <2>1, <2>2
<1>3. LaunchesHoldLocks'
  BY <1>2 DEF LaunchesHoldLocks
<1>4. ASSUME NEW j \in Jobs
      PROVE  /\ job'[j].by = job[j].by
             /\ job[j].by = "due" => job'[j].state # "none" /\ job'[j].scope = "all"
  BY DEF JobsFollow, NoneBegin, DueIsFirst
<1>5. DueIsFirst'
  BY <1>1, <1>4 DEF DueIsFirst, LocksStay
<1>6. QED
  BY <1>3, <1>5

LEMMA LaunchStep ==
    ASSUME JobsFollow, NoneBegin, LaunchInv, LaunchAdds, LocksStay, LaunchTyped',
           \A p \in Starters : LaunchGoes(p)
    PROVE  LaunchInv'
  BY IdsStep, LocksStep DEF LaunchInv

LEMMA LaunchStayStep ==
    ASSUME JobsFollow, NoneBegin, NoneAdded, LaunchInv, UNCHANGED <<launch, advisory, lockLost>>,
           due' \in BOOLEAN
    PROVE  LaunchInv'
<1>1. LaunchTyped'
  BY DEF LaunchInv, LaunchTyped
<1>2. LaunchAdds /\ LocksStay /\ \A p \in Starters : LaunchGoes(p)
  BY DEF LaunchAdds, LocksStay, LaunchGoes, NoneAdded
<1>3. QED
  BY <1>1, <1>2, LaunchStep

\* One launch goes on.
LEMMA LaunchTo ==
    ASSUME LaunchTyped, NEW p \in Starters, NEW r \in LaunchType, launch' = [launch EXCEPT ![p] = r]
    PROVE  /\ launch' \in [Starters -> LaunchType]
           /\ \A q \in Starters : launch'[q] = IF q = p THEN r ELSE launch[q]
  BY DEF LaunchTyped

LEMMA UnlockStep ==
    ASSUME JobsFollow, NoneBegin, NoneAdded, LaunchInv, NEW p \in Starters, Unlock(p),
           UNCHANGED <<due, lockLost>>
    PROVE  LaunchInv'
<1>1. /\ launch' = [launch EXCEPT ![p] = IdleLaunch]
      /\ advisory' = [key \in DOMAIN advisory |-> IF advisory[key] = p THEN Nobody ELSE advisory[key]]
  BY DEF Unlock
<1>2. LaunchTyped
  BY DEF LaunchInv
<1>3. /\ launch' \in [Starters -> LaunchType]
      /\ \A q \in Starters : launch'[q] = IF q = p THEN IdleLaunch ELSE launch[q]
  BY <1>1, <1>2, IdleLaunchIs, LaunchTo DEF LaunchIs
<1>4. /\ advisory' \in [{"due", "expired"} -> Schedulers \cup {Nobody}]
      /\ \A key \in {"due", "expired"} :
            advisory'[key] = IF advisory[key] = p THEN Nobody ELSE advisory[key]
  BY <1>1, <1>2 DEF LaunchTyped
<1>5. LaunchTyped'
  BY <1>2, <1>3, <1>4 DEF LaunchTyped
<1>6. LaunchAdds
  BY DEF LaunchAdds, NoneAdded
<1>7. LocksStay
  BY <1>3, <1>4, IdleLaunchIs DEF LocksStay, LaunchIs, Starters
<1>8. \A q \in Starters : LaunchGoes(q)
  BY <1>3, IdleLaunchIs DEF LaunchGoes, LaunchIs
<1>9. QED
  BY <1>5, <1>6, <1>7, <1>8, LaunchStep

-----------------------------------------------------------------------------
(* Time and timeouts                                                       *)

LEMMA FaultTyped ==
    ASSUME OthersTyped, UNCHANGED <<strays, snapshots>>, Fault \/ faults' = faults
    PROVE  OthersTyped'
<1>1. faults' \in 0..MaxFaults
  BY Bounds DEF OthersTyped, Fault
<1>2. QED
  BY <1>1 DEF OthersTyped

\* A step of the jobs, the queue and the slots leaves the launches alone.
LEMMA WorkInv ==
    ASSUME Inv, JobsInv', JobsFollow, NoneBegin, QueueInv', NoneAdded, SlotsInv', OthersTyped',
           UNCHANGED <<launch, advisory, lockLost>>, due' \in BOOLEAN
    PROVE  Inv'
  BY LaunchStayStep DEF Inv

\* A step of the jobs alone.
LEMMA JobsOnlyInv ==
    ASSUME Inv, JobsInv', JobsFollow, NoneBegin, OthersTyped',
           UNCHANGED <<entry, lock, tries, unrecorded, slot, launch, advisory, lockLost>>,
           due' \in BOOLEAN
    PROVE  Inv'
<1>1. QueueInv' /\ NoneAdded
  BY QueueStayStep DEF Inv, QueueInv, QueueTyped
<1>2. SlotsInv'
  BY SlotsStayStep DEF Inv
<1>3. QED
  BY <1>1, <1>2, WorkInv

LEMMA TimeStep ==
    ASSUME Inv,
           \/ \E j \in Jobs : JobLapses(j)
           \/ ListSyncJobs \/ WindowTurns
           \/ \E t \in Targets : SnapshotExpires(t)
    PROVE  Inv'
<1> USE DEF Inv
<1>1. ASSUME NEW j \in Jobs, JobLapses(j) PROVE Inv'
  <2>1. /\ quiet' = quiet \cup {j}
        /\ (Fault \/ faults' = faults)
        /\ UNCHANGED <<job, progress, entry, lock, tries, unrecorded, slot, strays, launch, advisory,
                       due, snapshots, goal, stored, lockLost>>
    BY <1>1 DEF JobLapses, queueVars, workVars, planVars, pastVars
  <2>2. quiet' \subseteq Jobs
    BY <2>1 DEF JobsInv, JobsTyped
  <2>3. JobsInv' /\ JobsFollow /\ NoneBegin
    BY <2>1, <2>2, JobsStayStep
  <2>4. OthersTyped' /\ due' \in BOOLEAN
    BY <2>1, FaultTyped DEF LaunchInv, LaunchTyped
  <2>5. QED
    BY <2>1, <2>3, <2>4, JobsOnlyInv
<1>2. CASE ListSyncJobs
  <2>1. /\ JobsTo(AfterTimeout)
        /\ UNCHANGED <<progress, entry, lock, tries, unrecorded, slot, strays, launch, advisory,
                       due, snapshots, goal, stored, lockLost, faults>>
    BY <1>2 DEF ListSyncJobs, queueVars, workVars, planVars, pastVars
  <2>2. JobsInv' /\ JobsFollow /\ NoneBegin
    BY <2>1, TimeoutStep
  <2>3. OthersTyped' /\ due' \in BOOLEAN
    BY <2>1, FaultTyped DEF LaunchInv, LaunchTyped
  <2>4. QED
    BY <2>1, <2>2, <2>3, JobsOnlyInv
<1>3. CASE WindowTurns
  <2>1. /\ due' = ~due
        /\ UNCHANGED <<job, progress, quiet, entry, lock, tries, unrecorded, slot, strays, launch,
                       advisory, snapshots, goal, stored, lockLost, faults>>
    BY <1>3 DEF WindowTurns, jobVars, queueVars, workVars, pastVars
  <2>2. quiet' \subseteq Jobs /\ due' \in BOOLEAN
    BY <2>1 DEF JobsInv, JobsTyped
  <2>3. JobsInv' /\ JobsFollow /\ NoneBegin
    BY <2>1, <2>2, JobsStayStep
  <2>4. OthersTyped'
    BY <2>1, FaultTyped
  <2>5. QED
    BY <2>1, <2>2, <2>3, <2>4, JobsOnlyInv
<1>4. ASSUME NEW t \in Targets, SnapshotExpires(t) PROVE Inv'
  <2>1. /\ snapshots' = [snapshots EXCEPT ![t] = "expired"]
        /\ UNCHANGED <<job, progress, quiet, entry, lock, tries, unrecorded, slot, strays, launch,
                       advisory, due, goal, stored, lockLost, faults>>
    BY <1>4 DEF SnapshotExpires, jobVars, queueVars, workVars, planVars, pastVars
  <2>2. quiet' \subseteq Jobs /\ due' \in BOOLEAN
    BY <2>1 DEF JobsInv, JobsTyped, LaunchInv, LaunchTyped
  <2>3. JobsInv' /\ JobsFollow /\ NoneBegin
    BY <2>1, <2>2, JobsStayStep
  <2>4. OthersTyped'
    BY <2>1 DEF OthersTyped
  <2>5. QED
    BY <2>1, <2>2, <2>3, <2>4, JobsOnlyInv
<1>5. QED
  BY <1>1, <1>2, <1>3, <1>4

-----------------------------------------------------------------------------
(* Claims                                                                  *)

\* Newest is the number of the newest job.
LEMMA NewestIsLast ==
    ASSUME JobsInOrder
    PROVE  Newest \in 0..MaxJobs /\ \A j \in Jobs : job[j].state # "none" <=> j <= Newest
<1>1. PICK m \in 0..MaxJobs : \A j \in Jobs : job[j].state # "none" <=> j <= m
  BY DEF JobsInOrder
<1>2. {j \in Jobs : job[j].state # "none"} = 1..m
  <2>1. \A j \in 1..m : j \in Jobs /\ job[j].state # "none"
    BY <1>1, Bounds
  <2>2. \A j \in Jobs : job[j].state # "none" => j \in 1..m
    BY <1>1, Bounds
  <2>3. QED
    BY <2>1, <2>2
<1>3. Cardinality(1..m) = m
  BY Bounds, FS_Interval
<1>4. QED
  BY <1>1, <1>2, <1>3 DEF Newest

LEMMA ClaimStep ==
    ASSUME Inv, NEW p \in Starters, NEW scope \in Scopes, NEW r \in 0..MaxJobs, NEW after,
           r = 0 \/ (r \in Jobs /\ job[r].state = "failed"),
           \/ p \in Launchers /\ launch[p].step = "none" /\ after = "none"
           \/ p \in Schedulers /\ launch[p].step = "claim" /\ after = "prune" /\ scope = "all",
           ClaimRefresh(p, scope, r, after)
    PROVE  Inv'
<1> USE DEF Inv
<1> DEFINE j == Newest + 1
           row == [state |-> "queued", scope |-> scope, retries |-> r, code |-> "none",
                   by |-> launch[p].by]
           jobs == [AfterTimeout EXCEPT ![j] = row]
<1>1. /\ Newest < MaxJobs
      /\ UNCHANGED <<progress, entry, lock, tries, unrecorded, slot, strays, advisory, due, snapshots,
                     goal, stored, lockLost, faults>>
  BY DEF ClaimRefresh, queueVars, workVars, pastVars
<1>2. OthersTyped' /\ due' \in BOOLEAN
  BY <1>1, FaultTyped DEF LaunchInv, LaunchTyped
<1>3. QueueInv' /\ NoneAdded
  BY <1>1, QueueStayStep DEF QueueInv, QueueTyped
<1>4. launch[p] \in LaunchType /\ LaunchTyped
  BY DEF LaunchInv, LaunchTyped
<1>5. CASE ~NoneActive(AfterTimeout)
  <2> DEFINE to == [launch[p] EXCEPT !.step = after]
  <2>1. JobsTo(AfterTimeout) /\ launch' = [launch EXCEPT ![p] = to]
    BY <1>5 DEF ClaimRefresh
  <2>2. JobsInv' /\ JobsFollow /\ NoneBegin
    BY <1>1, <2>1, TimeoutStep
  <2>3. SlotsInv'
    BY <1>1, <2>2, SlotsStayStep
  <2>4. after \in LaunchSteps
    BY DEF LaunchSteps
  <2>5. LaunchIs(to, after, launch[p].job, launch[p].by)
    BY <1>4, <2>4, LaunchWithStep
  <2> HIDE DEF to
  <2>6. /\ launch' \in [Starters -> LaunchType]
        /\ \A q \in Starters : launch'[q] = IF q = p THEN to ELSE launch[q]
    BY <1>4, <2>1, <2>5, LaunchTo DEF LaunchIs
  <2>7. \A q \in Starters : LaunchGoes(q)
    BY <2>5, <2>6 DEF LaunchGoes, LaunchIs
  <2>8. LaunchAdds /\ LocksStay
    BY <1>1 DEF LaunchAdds, LocksStay
  <2>9. LaunchTyped'
    BY <1>1, <1>4, <2>6 DEF LaunchTyped
  <2>10. LaunchInv'
    BY <2>2, <2>7, <2>8, <2>9, LaunchStep
  <2>11. QED
    BY <1>2, <1>3, <2>2, <2>3, <2>10
<1>6. CASE NoneActive(AfterTimeout)
  <2> DEFINE to == [launch[p] EXCEPT !.step = "add", !.job = j]
  <2>1. JobsTo(jobs) /\ launch' = [launch EXCEPT ![p] = to]
    BY <1>6 DEF ClaimRefresh
  <2>2. Newest \in 0..MaxJobs /\ \A k \in Jobs : job[k].state # "none" <=> k <= Newest
    BY NewestIsLast DEF LaunchInv
  <2>3. j \in Jobs /\ j \in 0..MaxJobs /\ j # 0 /\ job[j].state = "none"
    BY <1>1, <2>2, Bounds
  <2>4. row \in JobType /\ row.state = "queued" /\ row.scope = scope /\ row.retries = r
        /\ row.code = "none" /\ row.by = launch[p].by
    BY <1>4 DEF JobType, JobStates, Reasons, LaunchType
  <2> HIDE DEF row
  <2>5. /\ AfterTimeout \in [Jobs -> JobType]
        /\ \A k \in Jobs : AfterTimeout[k] = job[k] \/ (Active(k) /\ AfterTimeout[k] = Failed(k))
    BY TimeoutTyped DEF JobsInv
  <2>6. job' = jobs /\ quiet' \subseteq Jobs
    BY <2>1 DEF JobsTo, JobsInv, JobsTyped
  <2>7. job' \in [Jobs -> JobType]
    BY <2>4, <2>5, <2>6
  <2>8. \A k \in Jobs : job'[k] = IF k = j THEN row ELSE AfterTimeout[k]
    BY <2>5, <2>6
  <2>9. LaunchIs(to, "add", j, launch[p].by)
    BY <1>4, <2>3, LaunchWithStepAndJob DEF LaunchSteps
  <2> HIDE DEF j, jobs, to
  <2>10. ASSUME NEW k \in Jobs, k # j
         PROVE  \/ job'[k] = job[k]
                \/ /\ Active(k) /\ job'[k].state = "failed" /\ job'[k].code = "other"
                   /\ job'[k].scope = job[k].scope /\ job'[k].retries = job[k].retries
                   /\ job'[k].by = job[k].by
    BY <2>5, <2>8, <2>10, FailedIs DEF JobIs, JobsInv
  <2>11. JobsFollow
    BY <1>1, <2>3, <2>10 DEF JobsFollow, Active
  <2>12. ASSUME NEW k \in Jobs PROVE JobGoes(k)
    <3>1. CASE k = j
      BY <2>4, <2>8, <3>1 DEF JobGoes
    <3>2. CASE k # j
      BY <2>10, <3>2 DEF JobGoes
    <3>3. QED
      BY <3>1, <3>2
  <2>13. JobsInv'
    <3>1. JobsTyped'
      BY <1>1, <2>6, <2>7 DEF JobsInv, JobsTyped
    <3>2. QED
      BY <2>11, <2>12, <3>1, JobsStep
  <2>14. SlotsInv'
    BY <1>1, <2>11, SlotsStayStep
  <2>15. /\ launch' \in [Starters -> LaunchType]
         /\ \A q \in Starters : launch'[q] = IF q = p THEN to ELSE launch[q]
    BY <1>4, <2>1, <2>9, LaunchTo DEF LaunchIs
  <2>16. LaunchTyped'
    BY <1>1, <1>4, <2>15 DEF LaunchTyped
  <2>17. job'[j].state = "queued" /\ job'[j].by = launch[p].by /\ job'[j].scope = scope
    BY <2>3, <2>4, <2>8
  <2>17a. ASSUME NEW k \in Jobs, k # j
         PROVE  /\ (job'[k].state = "none") = (job[k].state = "none")
                /\ job'[k].by = job[k].by
                /\ job'[k].scope = job[k].scope
    BY <2>10, <2>17a DEF Active
  <2>18. JobsInOrder'
    <3>1. ASSUME NEW k \in Jobs PROVE (job'[k].state # "none") = (k <= j)
      <4>1. j = Newest + 1 /\ k \in Nat /\ Newest \in Nat
        BY <2>2, Bounds DEF j
      <4>2. CASE k = j
        BY <2>17, <4>1, <4>2
      <4>3. CASE k # j
        BY <2>2, <2>17a, <4>1, <4>3
      <4>4. QED
        BY <4>2, <4>3
    <3>2. QED
      BY <2>3, <3>1 DEF JobsInOrder
  <2>19. /\ launch'[p].step = "add" /\ launch'[p].job = j /\ launch'[p].by = launch[p].by
         /\ \A q \in Starters \ {p} : launch'[q] = launch[q]
    BY <2>9, <2>15 DEF LaunchIs
  <2>20. entry[j] = "none" /\ \A q \in Starters : launch[q].job # j
    BY <2>3 DEF LaunchInv, IdsAreNew
  <2>21. IdsAreNew'
    <3>1. ASSUME NEW k \in Jobs, job'[k].state = "none"
          PROVE  entry'[k] = "none" /\ \A q \in Starters : launch'[q].job # k
      <4>1. k # j /\ job[k].state = "none"
        BY <2>17, <2>17a, <3>1
      <4>2. QED
        BY <1>1, <2>19, <4>1 DEF LaunchInv, IdsAreNew
    <3>2. ASSUME NEW q \in Starters
          PROVE  /\ launch'[q].step \in {"add", "fail"} => launch'[q].job \in Jobs
                 /\ launch'[q].step = "add" =>
                       /\ entry'[launch'[q].job] = "none"
                       /\ \A x \in Starters : launch'[x].job = launch'[q].job => x = q
      <4>1. CASE q = p
        BY <1>1, <2>3, <2>19, <2>20, <4>1
      <4>2. CASE q # p
        BY <1>1, <2>19, <2>20, <4>2 DEF LaunchInv, IdsAreNew
      <4>3. QED
        BY <4>1, <4>2
    <3>3. QED
      BY <3>1, <3>2 DEF IdsAreNew
  <2>22. LaunchesHoldLocks'
    <3>1. ASSUME NEW q \in Starters
          PROVE  /\ launch'[q].by = launch[q].by
                 /\ q \in Schedulers /\ launch'[q].step # "none" => launch[q].step # "none"
      BY <2>19, ProcessAssumption
    <3>2. QED
      BY <1>1, <3>1 DEF LaunchInv, LaunchesHoldLocks
  <2>23. DueIsFirst'
    <3>1. ASSUME launch[p].by = "due"
          PROVE  p \in Schedulers /\ launch[p].step = "claim" /\ scope = "all"
      BY <3>1 DEF LaunchInv, LaunchesHoldLocks
    <3>2. ASSUME NEW k \in Jobs, job'[k].by = "due"
          PROVE  job'[k].state # "none" /\ job'[k].scope = "all"
      BY <2>17, <2>17a, <3>1, <3>2 DEF LaunchInv, DueIsFirst
    <3>3. ASSUME ~lockLost, NEW q \in Starters, launch'[q].step = "claim", launch'[q].by = "due",
                 NEW k \in Jobs
          PROVE  job'[k].by # "due"
      <4>1. q # p /\ launch[q].step = "claim" /\ launch[q].by = "due"
        BY <2>19, <3>3
      <4>2. q \in Schedulers /\ advisory["due"] = q
        BY <3>3, <4>1 DEF LaunchInv, LaunchesHoldLocks, Starters
      <4>3. launch[p].by # "due"
        BY <3>1, <3>3, <4>1, <4>2 DEF LaunchInv, LaunchesHoldLocks
      <4>4. job[k].by # "due"
        BY <3>3, <4>1 DEF LaunchInv, DueIsFirst
      <4>5. QED
        BY <2>17, <2>17a, <4>3, <4>4
    <3>4. ASSUME ~lockLost, NEW k \in Jobs, NEW h \in Jobs, job'[k].by = "due", job'[h].by = "due"
          PROVE  k = h
      <4>1. CASE launch[p].by = "due"
        <5>1. \A x \in Jobs : job[x].by # "due"
          BY <3>1, <3>4, <4>1 DEF LaunchInv, DueIsFirst
        <5>2. QED
          BY <2>17, <2>17a, <3>4, <5>1
      <4>2. CASE launch[p].by # "due"
        <5>1. k # j /\ h # j
          BY <2>17, <2>17a, <3>4, <4>2
        <5>2. QED
          BY <2>17, <2>17a, <3>4, <5>1 DEF LaunchInv, DueIsFirst
      <4>3. QED
        BY <4>1, <4>2
    <3>5. QED
      BY <1>1, <3>2, <3>3, <3>4 DEF DueIsFirst
  <2>24. LaunchInv'
    BY <2>16, <2>18, <2>21, <2>22, <2>23 DEF LaunchInv
  <2>25. QED
    BY <1>2, <1>3, <2>13, <2>14, <2>24
<1>7. QED
  BY <1>5, <1>6

LEMMA StartStep ==
    ASSUME Inv, \/ \E p \in Starters : StartRefresh(p)
                \/ \E s \in Schedulers : StartScheduled(s)
    PROVE  Inv'
<1>1. ASSUME NEW p \in Starters, StartRefresh(p) PROVE Inv'
  <2>1. p \in Launchers /\ launch[p].step = "none"
    BY <1>1 DEF StartRefresh
  <2>2. ASSUME NEW scope \in Scopes, ClaimRefresh(p, scope, 0, "none") PROVE Inv'
    BY <2>1, <2>2, ClaimStep, Bounds
  <2>3. ASSUME NEW r \in Jobs, Retryable(r), ClaimRefresh(p, job[r].scope, r, "none") PROVE Inv'
    <3>1. job[r].scope \in Scopes /\ job[r].state = "failed" /\ r \in 0..MaxJobs
      BY <2>3, Bounds DEF Inv, JobsInv, JobsTyped, JobType, Retryable
    <3>2. QED
      BY <2>1, <2>3, <3>1, ClaimStep
  <2>4. QED
    BY <1>1, <2>2, <2>3 DEF StartRefresh, Scopes
<1>2. ASSUME NEW s \in Schedulers, StartScheduled(s) PROVE Inv'
  <2>1. s \in Starters /\ "all" \in Scopes /\ 0 \in 0..MaxJobs
    BY Bounds DEF Starters, Scopes
  <2>2. launch[s].step = "claim" /\ ClaimRefresh(s, "all", 0, "prune")
    BY <1>2 DEF StartScheduled
  <2>3. QED
    BY <2>1, <2>2, ClaimStep
<1>3. QED
  BY <1>1, <1>2

-----------------------------------------------------------------------------
(* Launches and the scheduler                                              *)

\* One launch goes on with the locks as they are.
LEMMA LaunchToStep ==
    ASSUME JobsFollow, NoneBegin, LaunchInv, LaunchAdds, NEW p \in Starters, NEW r \in LaunchType,
           launch' = [launch EXCEPT ![p] = r], UNCHANGED <<advisory, due, lockLost>>,
           \/ r.step = "none" /\ r.job = 0 /\ r.by = "none"
           \/ /\ launch[p].step = "add" /\ r.step = "fail"
              /\ r.job = launch[p].job /\ r.by = launch[p].by
           \/ /\ launch[p].step # "none" /\ r.step = "prune"
              /\ r.job \in {launch[p].job, 0} /\ r.by = launch[p].by
    PROVE  LaunchInv'
<1>1. LaunchTyped
  BY DEF LaunchInv
<1>2. /\ launch' \in [Starters -> LaunchType]
      /\ \A q \in Starters : launch'[q] = IF q = p THEN r ELSE launch[q]
  BY <1>1, LaunchTo
<1>3. LaunchTyped'
  BY <1>1, <1>2 DEF LaunchTyped
<1>4. \A q \in Starters : LaunchGoes(q)
  BY <1>2 DEF LaunchGoes
<1>5. LocksStay
  BY DEF LocksStay
<1>6. QED
  BY <1>3, <1>4, <1>5, LaunchStep

LEMMA LaunchedIs ==
    ASSUME LaunchTyped, NEW p \in Starters, Launched(p)
    PROVE  \E r \in LaunchType :
              /\ launch' = [launch EXCEPT ![p] = r]
              /\ \/ r.step = "none" /\ r.job = 0 /\ r.by = "none"
                 \/ r.step = "prune" /\ r.job = 0 /\ r.by = launch[p].by
<1>1. CASE p \in Schedulers
  <2> DEFINE r == [launch[p] EXCEPT !.step = "prune", !.job = 0]
  <2>1. launch' = [launch EXCEPT ![p] = r]
    BY <1>1 DEF Launched
  <2>2. launch[p] \in LaunchType /\ "prune" \in LaunchSteps /\ 0 \in 0..MaxJobs
    BY Bounds DEF LaunchTyped, LaunchSteps
  <2>3. LaunchIs(r, "prune", 0, launch[p].by)
    BY <2>2, LaunchWithStepAndJob
  <2> HIDE DEF r
  <2>4. QED
    BY <2>1, <2>3 DEF LaunchIs
<1>2. CASE p \notin Schedulers
  BY <1>2, IdleLaunchIs DEF Launched, LaunchIs
<1>3. QED
  BY <1>1, <1>2

\* The entry of a new job.
LEMMA AddedStep ==
    ASSUME QueueInv, NEW j \in Jobs, entry[j] = "none", Added(j), UNCHANGED <<lock, tries, unrecorded>>
    PROVE  QueueInv' /\ \A k \in Jobs : k # j => entry'[k] = entry[k]
<1>1. QueueTyped /\ EntriesAreHeld
  BY DEF QueueInv
<1>2. /\ lock[j] = Nobody /\ tries[j] = 0 /\ tries[j] \in 0..MaxAttempts /\ tries[j] < MaxAttempts
      /\ lock' = [lock EXCEPT ![j] = Nobody] /\ tries' = [tries EXCEPT ![j] = tries[j]]
  BY <1>1, Bounds DEF QueueTyped, EntriesAreHeld
<1>3. entry' = [entry EXCEPT ![j] = "waiting"] /\ unrecorded' \subseteq Jobs
  BY <1>1 DEF Added, QueueTyped
<1>4. QueueInv'
  BY <1>2, <1>3, EntryStep DEF EntryStates
<1>5. QED
  BY <1>1, <1>3, <1>4 DEF QueueTyped

\* A step of a launch without effect on the jobs and the slots.
LEMMA LaunchOnlyInv ==
    ASSUME Inv, QueueInv', LaunchInv', OthersTyped', UNCHANGED <<job, progress, quiet, slot, goal, stored>>
    PROVE  Inv'
<1>1. quiet' \subseteq Jobs
  BY DEF Inv, JobsInv, JobsTyped
<1>2. JobsInv' /\ JobsFollow
  BY <1>1, JobsStayStep DEF Inv
<1>3. QED
  BY <1>2, SlotsStayStep DEF Inv

LEMMA StayFollow ==
    ASSUME Inv, UNCHANGED <<job, progress, quiet, goal, stored>>
    PROVE  JobsFollow /\ NoneBegin
<1>1. quiet' \subseteq Jobs
  BY DEF Inv, JobsInv, JobsTyped
<1>2. QED
  BY <1>1, JobsStayStep DEF Inv

LEMMA AddStep ==
    ASSUME Inv, NEW p \in Starters, AddJob(p) \/ AddFails(p)
    PROVE  Inv'
<1> USE DEF Inv
<1> DEFINE j == launch[p].job
<1>1. /\ launch[p].step = "add"
      /\ (UNCHANGED entry \/ Added(j))
      /\ (Fault \/ faults' = faults)
      /\ UNCHANGED <<job, progress, quiet, lock, tries, unrecorded, slot, strays, advisory, due,
                     snapshots, goal, stored, lockLost>>
  BY DEF AddJob, AddFails, jobVars, workVars, pastVars
<1>2. LaunchTyped /\ j \in Jobs /\ entry[j] = "none"
  BY <1>1 DEF LaunchInv, IdsAreNew
<1>3. QueueInv' /\ \A k \in Jobs : k # j => entry'[k] = entry[k]
  <2>1. CASE UNCHANGED entry
    <3>1. unrecorded' \subseteq Jobs
      BY <1>1 DEF QueueInv, QueueTyped
    <3>2. QED
      BY <1>1, <2>1, <3>1, QueueStayStep
  <2>2. CASE Added(j)
    BY <1>1, <1>2, <2>2, AddedStep
  <2>3. QED
    BY <1>1, <2>1, <2>2
<1>4. PICK r \in LaunchType :
         /\ launch' = [launch EXCEPT ![p] = r]
         /\ \/ r.step = "none" /\ r.job = 0 /\ r.by = "none"
            \/ r.step = "prune" /\ r.job = 0 /\ r.by = launch[p].by
            \/ r.step = "fail" /\ r.job = j /\ r.by = launch[p].by
  <2>1. CASE AddJob(p)
    <3>1. Launched(p)
      BY <2>1 DEF AddJob
    <3>2. QED
      BY <1>2, <3>1, LaunchedIs
  <2>2. CASE AddFails(p)
    <3> DEFINE r == [launch[p] EXCEPT !.step = "fail"]
    <3>1. launch' = [launch EXCEPT ![p] = r]
      BY <2>2 DEF AddFails
    <3>2. launch[p] \in LaunchType /\ "fail" \in LaunchSteps
      BY <1>2 DEF LaunchTyped, LaunchSteps
    <3>3. LaunchIs(r, "fail", j, launch[p].by)
      BY <3>2, LaunchWithStep
    <3> HIDE DEF r, j
    <3>4. QED
      BY <3>1, <3>3 DEF LaunchIs
  <2>3. QED
    BY <2>1, <2>2
<1>5. launch'[p].step # "add"
  <2>1. launch'[p] = r
    BY <1>2, <1>4, LaunchTo
  <2>2. QED
    BY <1>4, <2>1
<1>6. LaunchAdds
  BY <1>1, <1>3, <1>5 DEF LaunchAdds
<1>7. LaunchInv'
  BY <1>1, <1>4, <1>6, StayFollow, LaunchToStep
<1>8. OthersTyped'
  BY <1>1, FaultTyped
<1>9. QED
  BY <1>1, <1>3, <1>7, <1>8, LaunchOnlyInv

LEMMA FailLaunchStep ==
    ASSUME Inv, NEW p \in Starters, FailLaunch(p)
    PROVE  Inv'
<1> USE DEF Inv
<1>1. /\ launch[p].step = "fail" /\ Launched(p)
      /\ FailKeeping(launch[p].job) /\ progress' = Kept(launch[p].job)
      /\ UNCHANGED <<entry, lock, tries, unrecorded, slot, strays, advisory, due, snapshots, goal,
                     stored, lockLost, faults>>
  BY DEF FailLaunch, queueVars, workVars, pastVars
<1>2. LaunchTyped /\ launch[p].job \in Jobs
  BY <1>1 DEF LaunchInv, IdsAreNew
<1>3. JobsInv' /\ JobsFollow /\ NoneBegin
  BY <1>1, <1>2, FailKeepingStep
<1>4. QueueInv' /\ NoneAdded
  BY <1>1, QueueStayStep DEF QueueInv, QueueTyped
<1>5. LaunchInv'
  <2>1. PICK r \in LaunchType :
           /\ launch' = [launch EXCEPT ![p] = r]
           /\ \/ r.step = "none" /\ r.job = 0 /\ r.by = "none"
              \/ r.step = "prune" /\ r.job = 0 /\ r.by = launch[p].by
    BY <1>1, <1>2, LaunchedIs
  <2>2. LaunchAdds
    BY <1>4 DEF LaunchAdds, NoneAdded
  <2>3. QED
    BY <1>1, <1>3, <2>1, <2>2, LaunchToStep
<1>6. SlotsInv'
  BY <1>1, <1>3, SlotsStayStep
<1>7. OthersTyped'
  BY <1>1, FaultTyped
<1>8. QED
  BY <1>3, <1>4, <1>5, <1>6, <1>7

\* A launch that knows no job, or the one it knew, takes no entry.
LEMMA IdsKeep ==
    ASSUME LaunchInv, NEW s \in Starters, UNCHANGED <<job, entry>>,
           \A q \in Starters : q # s => launch'[q] = launch[q],
           launch'[s].job \in {launch[s].job, 0}, launch'[s].step \notin {"add", "fail"}
    PROVE  JobsInOrder' /\ IdsAreNew'
<1>1. JobsInOrder'
  BY DEF LaunchInv, JobsInOrder
<1>2. ASSUME NEW k \in Jobs, job'[k].state = "none"
      PROVE  entry'[k] = "none" /\ \A q \in Starters : launch'[q].job # k
  <2>1. entry[k] = "none" /\ k # 0 /\ \A q \in Starters : launch[q].job # k
    BY <1>2, Bounds DEF LaunchInv, IdsAreNew
  <2>2. QED
    BY <2>1
<1>3. ASSUME NEW q \in Starters
      PROVE  /\ launch'[q].step \in {"add", "fail"} => launch'[q].job \in Jobs
             /\ launch'[q].step = "add" =>
                   /\ entry'[launch'[q].job] = "none"
                   /\ \A x \in Starters : launch'[x].job = launch'[q].job => x = q
  <2>1. CASE q = s
    BY <2>1
  <2>2. CASE q # s
    <3>1. /\ launch'[q] = launch[q]
          /\ launch[q].step \in {"add", "fail"} => launch[q].job \in Jobs /\ launch[q].job # 0
          /\ launch[q].step = "add" =>
                /\ entry[launch[q].job] = "none"
                /\ \A x \in Starters : launch[x].job = launch[q].job => x = q
      BY <2>2, Bounds DEF LaunchInv, IdsAreNew
    <3>2. QED
      BY <2>2, <3>1
  <2>3. QED
    BY <2>1, <2>2
<1>4. QED
  BY <1>1, <1>2, <1>3 DEF IdsAreNew

LEMMA WakeStep ==
    ASSUME Inv, NEW s \in Schedulers, Wake(s)
    PROVE  Inv'
<1> USE DEF Inv
<1> DEFINE key == IF due THEN "due" ELSE "expired"
           r == [step |-> "list", job |-> 0, by |-> key]
<1>1. /\ launch[s].step = "none" /\ advisory[key] = Nobody
      /\ advisory' = [advisory EXCEPT ![key] = s] /\ launch' = [launch EXCEPT ![s] = r]
      /\ UNCHANGED <<job, progress, quiet, entry, lock, tries, unrecorded, slot, strays, due,
                     snapshots, goal, stored, lockLost, faults>>
  BY DEF Wake, jobVars, queueVars, workVars, pastVars
<1>2. LaunchTyped /\ s \in Starters /\ s # Nobody /\ s \notin Launchers /\ key \in {"due", "expired"}
  BY ProcessAssumption DEF LaunchInv, Starters
<1>3. LaunchIs(r, "list", 0, key)
  BY <1>2, Bounds DEF LaunchIs, LaunchType, LaunchSteps, Reasons
<1> HIDE DEF key, r
<1>4. /\ launch' \in [Starters -> LaunchType]
      /\ \A q \in Starters : launch'[q] = IF q = s THEN r ELSE launch[q]
  BY <1>1, <1>2, <1>3, LaunchTo DEF LaunchIs
<1>5. /\ advisory' \in [{"due", "expired"} -> Schedulers \cup {Nobody}]
      /\ \A k \in {"due", "expired"} : advisory'[k] = IF k = key THEN s ELSE advisory[k]
  BY <1>1, <1>2 DEF LaunchTyped
<1>6. LaunchTyped'
  BY <1>1, <1>2, <1>4, <1>5 DEF LaunchTyped
<1>7. launch'[s].step = "list" /\ launch'[s].job = 0 /\ launch'[s].by = key
  BY <1>2, <1>3, <1>4 DEF LaunchIs
<1>8. JobsInOrder' /\ IdsAreNew'
  BY <1>1, <1>2, <1>4, <1>7, IdsKeep
<1>9. LaunchesHoldLocks'
  <2>1. ASSUME NEW q \in Starters, q # s, q \in Schedulers, launch[q].step # "none", ~lockLost
        PROVE  advisory'[launch[q].by] = q
    <3>1. launch[q].by \in {"due", "expired"} /\ advisory[launch[q].by] = q
      BY <2>1 DEF LaunchInv, LaunchesHoldLocks
    <3>2. q # Nobody
      BY <2>1, ProcessAssumption
    <3>3. QED
      BY <1>1, <1>5, <3>1, <3>2
  <2>2. ASSUME NEW q \in Starters, q # s
        PROVE  /\ launch'[q] = launch[q]
               /\ q \in Launchers => launch[q].by = "none"
               /\ q \in Schedulers /\ launch[q].step # "none" => launch[q].by \in {"due", "expired"}
    BY <1>4, <2>2 DEF LaunchInv, LaunchesHoldLocks
  <2>3. advisory'[key] = s
    BY <1>2, <1>5
  <2>4. QED
    BY <1>1, <1>2, <1>7, <2>1, <2>2, <2>3 DEF LaunchesHoldLocks
<1>10. DueIsFirst'
  BY <1>1, <1>4, <1>7 DEF LaunchInv, DueIsFirst
<1>11. LaunchInv'
  BY <1>6, <1>8, <1>9, <1>10 DEF LaunchInv
<1>12. QueueInv'
  BY <1>1, QueueStayStep DEF QueueInv, QueueTyped
<1>13. OthersTyped'
  BY <1>1, FaultTyped
<1>14. QED
  BY <1>1, <1>11, <1>12, <1>13, LaunchOnlyInv

LEMMA ListStep ==
    ASSUME Inv, NEW s \in Schedulers, ListStores(s)
    PROVE  Inv'
<1> USE DEF Inv
<1> DEFINE next == IF Wanted(launch[s].by) THEN "claim" ELSE "prune"
           r == [launch[s] EXCEPT !.step = next]
<1>1. /\ launch[s].step = "list" /\ launch' = [launch EXCEPT ![s] = r]
      /\ UNCHANGED <<job, progress, quiet, entry, lock, tries, unrecorded, slot, strays, advisory,
                     due, snapshots, goal, stored, lockLost, faults>>
  BY DEF ListStores, jobVars, queueVars, workVars, pastVars
<1>2. LaunchTyped /\ s \in Starters /\ launch[s] \in LaunchType /\ s \notin Launchers
  BY ProcessAssumption DEF LaunchInv, LaunchTyped, Starters
<1>3. next \in {"claim", "prune"} /\ next \in LaunchSteps
  BY DEF LaunchSteps
<1>4. LaunchIs(r, next, launch[s].job, launch[s].by)
  BY <1>2, <1>3, LaunchWithStep
<1>5. next = "claim" /\ launch[s].by = "due" => \A j \in Jobs : job[j].by # "due"
  <2>1. next = "claim" /\ launch[s].by = "due" => FullRefreshes = {}
    BY DEF Wanted
  <2>2. QED
    BY <2>1 DEF FullRefreshes, LaunchInv, DueIsFirst
<1> HIDE DEF next, r
<1>6. /\ launch' \in [Starters -> LaunchType]
      /\ \A q \in Starters : launch'[q] = IF q = s THEN r ELSE launch[q]
  BY <1>1, <1>2, <1>4, LaunchTo DEF LaunchIs
<1>7. launch'[s].step = next /\ launch'[s].job = launch[s].job /\ launch'[s].by = launch[s].by
  BY <1>2, <1>4, <1>6 DEF LaunchIs
<1>8. LaunchTyped'
  BY <1>1, <1>2, <1>6 DEF LaunchTyped
<1>9. JobsInOrder' /\ IdsAreNew'
  BY <1>1, <1>2, <1>3, <1>6, <1>7, IdsKeep
<1>10. LaunchesHoldLocks'
  <2>1. ASSUME NEW q \in Starters
        PROVE  /\ launch'[q].by = launch[q].by
               /\ launch'[q].step # "none" => launch[q].step # "none"
    BY <1>1, <1>6, <1>7
  <2>2. QED
    BY <1>1, <2>1 DEF LaunchInv, LaunchesHoldLocks
<1>11. DueIsFirst'
  <2>1. ASSUME ~lockLost, NEW q \in Starters, launch'[q].step = "claim", launch'[q].by = "due"
        PROVE  \A j \in Jobs : job[j].by # "due"
    <3>1. CASE q = s
      BY <1>5, <1>7, <2>1, <3>1
    <3>2. CASE q # s
      BY <1>6, <2>1, <3>2 DEF LaunchInv, DueIsFirst
    <3>3. QED
      BY <3>1, <3>2
  <2>2. QED
    BY <1>1, <2>1 DEF LaunchInv, DueIsFirst
<1>12. LaunchInv'
  BY <1>8, <1>9, <1>10, <1>11 DEF LaunchInv
<1>13. QueueInv'
  BY <1>1, QueueStayStep DEF QueueInv, QueueTyped
<1>14. OthersTyped'
  BY <1>1, FaultTyped
<1>15. QED
  BY <1>1, <1>12, <1>13, <1>14, LaunchOnlyInv

\* The end of a run, in order, by a failure or by a death.
LEMMA EndOfRunStep ==
    ASSUME Inv, \/ \E s \in Schedulers : Prune(s) \/ ScheduleFails(s)
                \/ \E p \in Starters : StarterDies(p)
    PROVE  Inv'
<1> USE DEF Inv
<1>1. PICK p \in Starters : Unlock(p)
  BY DEF Prune, ScheduleFails, StarterDies, Starters
<1>2. /\ (Fault \/ faults' = faults)
      /\ UNCHANGED <<job, progress, quiet, entry, lock, tries, unrecorded, slot, strays, due, goal,
                     stored, lockLost>>
  BY DEF Prune, ScheduleFails, StarterDies, jobVars, queueVars, workVars, pastVars
<1>3. snapshots' \in [Targets -> {"none", "fresh", "expired"}]
  BY DEF Prune, ScheduleFails, StarterDies, OthersTyped
<1>4. OthersTyped'
  <2>1. faults' \in 0..MaxFaults
    BY <1>2, Bounds DEF OthersTyped, Fault
  <2>2. QED
    BY <1>2, <1>3, <2>1 DEF OthersTyped
<1>5. QueueInv' /\ NoneAdded
  BY <1>2, QueueStayStep DEF QueueInv, QueueTyped
<1>6. LaunchInv'
  BY <1>1, <1>2, <1>5, StayFollow, UnlockStep
<1>7. QED
  BY <1>2, <1>4, <1>5, <1>6, LaunchOnlyInv

LEMMA ClaimFailsStep ==
    ASSUME Inv, NEW s \in Schedulers, ClaimFails(s)
    PROVE  Inv'
<1> USE DEF Inv
<1> DEFINE r == [launch[s] EXCEPT !.step = "prune"]
<1>1. /\ launch[s].step = "claim" /\ launch' = [launch EXCEPT ![s] = r] /\ Fault
      /\ UNCHANGED <<job, progress, quiet, entry, lock, tries, unrecorded, slot, strays, advisory,
                     due, snapshots, goal, stored, lockLost>>
  BY DEF ClaimFails, jobVars, queueVars, workVars, pastVars
<1>2. s \in Starters /\ launch[s] \in LaunchType /\ "prune" \in LaunchSteps
  BY DEF LaunchInv, LaunchTyped, Starters, LaunchSteps
<1>3. LaunchIs(r, "prune", launch[s].job, launch[s].by)
  BY <1>2, LaunchWithStep
<1> HIDE DEF r
<1>4. QueueInv' /\ NoneAdded
  BY <1>1, QueueStayStep DEF QueueInv, QueueTyped
<1>5. LaunchAdds
  BY <1>4 DEF LaunchAdds, NoneAdded
<1>6. LaunchInv'
  BY <1>1, <1>2, <1>3, <1>5, StayFollow, LaunchToStep DEF LaunchIs
<1>7. OthersTyped'
  BY <1>1, FaultTyped
<1>8. QED
  BY <1>1, <1>4, <1>6, <1>7, LaunchOnlyInv

LEMMA LoseLockStep ==
    ASSUME Inv, NEW key \in {"due", "expired"}, LoseLock(key)
    PROVE  Inv'
<1> USE DEF Inv
<1>1. /\ advisory' = [advisory EXCEPT ![key] = Nobody] /\ lockLost' = TRUE /\ Fault
      /\ UNCHANGED <<job, progress, quiet, entry, lock, tries, unrecorded, slot, strays, launch,
                     due, snapshots, goal, stored>>
  BY DEF LoseLock, jobVars, queueVars, workVars
<1>2. LaunchTyped
  BY DEF LaunchInv
<1>3. advisory' \in [{"due", "expired"} -> Schedulers \cup {Nobody}]
  BY <1>1, <1>2 DEF LaunchTyped
<1>4. LaunchTyped'
  BY <1>1, <1>2, <1>3 DEF LaunchTyped
<1>5. LocksStay /\ \A p \in Starters : LaunchGoes(p)
  BY <1>1 DEF LocksStay, LaunchGoes
<1>6. QueueInv' /\ NoneAdded
  BY <1>1, QueueStayStep DEF QueueInv, QueueTyped
<1>7. LaunchAdds
  BY <1>6 DEF LaunchAdds, NoneAdded
<1>8. LaunchInv'
  BY <1>1, <1>4, <1>5, <1>7, StayFollow, LaunchStep
<1>9. OthersTyped'
  BY <1>1, FaultTyped
<1>10. QED
  BY <1>1, <1>6, <1>8, <1>9, LaunchOnlyInv

-----------------------------------------------------------------------------
(* Attempts                                                                *)

\* A step of a worker on the jobs, the queue and the slots.
LEMMA AttemptInv ==
    ASSUME Inv, JobsInv', JobsFollow, NoneBegin, QueueInv', NoneAdded, SlotsInv',
           strays' \subseteq Jobs \X Targets, snapshots' \in [Targets -> {"none", "fresh", "expired"}],
           Fault \/ faults' = faults, UNCHANGED <<launch, advisory, due, lockLost>>
    PROVE  Inv'
<1>1. faults' \in 0..MaxFaults
  BY Bounds DEF Inv, OthersTyped, Fault
<1>2. OthersTyped'
  BY <1>1 DEF OthersTyped
<1>3. due' \in BOOLEAN
  BY DEF Inv, LaunchInv, LaunchTyped
<1>4. QED
  BY <1>2, <1>3, WorkInv

\* A step of a slot alone.
LEMMA SlotOnlyInv ==
    ASSUME Inv, NEW w \in Workers, NEW c \in SlotType, SlotWorks(c), AccountedNext(c),
           slot' = [slot EXCEPT ![w] = c], strays' \subseteq Jobs \X Targets,
           Fault \/ faults' = faults,
           UNCHANGED <<job, progress, quiet, entry, lock, tries, unrecorded, launch, advisory, due,
                       snapshots, goal, stored, lockLost>>
    PROVE  Inv'
<1> USE DEF Inv
<1>1. quiet' \subseteq Jobs /\ unrecorded' \subseteq Jobs
  BY DEF JobsInv, JobsTyped, QueueInv, QueueTyped
<1>2. JobsInv' /\ JobsFollow /\ NoneBegin
  BY <1>1, JobsStayStep
<1>3. QueueInv' /\ NoneAdded
  BY <1>1, QueueStayStep
<1>4. SlotsInv'
  BY <1>2, SlotTo
<1>5. snapshots' \in [Targets -> {"none", "fresh", "expired"}]
  BY DEF OthersTyped
<1>6. QED
  BY <1>2, <1>3, <1>4, <1>5, AttemptInv

\* The entry that a worker takes.
LEMMA WaitingEntry ==
    ASSUME QueueInv, NEW j \in Jobs, entry[j] = "waiting"
    PROVE  /\ lock[j] = Nobody /\ lock = [lock EXCEPT ![j] = Nobody]
           /\ tries[j] \in 0..MaxAttempts /\ tries[j] + 1 \in 0..MaxAttempts
           /\ tries[j] < MaxAttempts /\ tries = [tries EXCEPT ![j] = tries[j]]
<1>1. QueueTyped /\ EntriesAreHeld
  BY DEF QueueInv
<1>2. lock[j] = Nobody /\ tries[j] \in 0..MaxAttempts /\ tries[j] < MaxAttempts
  BY <1>1 DEF QueueTyped, EntriesAreHeld
<1>3. tries[j] + 1 \in 0..MaxAttempts
  BY <1>2, Bounds
<1>4. lock = [lock EXCEPT ![j] = Nobody] /\ tries = [tries EXCEPT ![j] = tries[j]]
  BY <1>1, <1>2 DEF QueueTyped
<1>5. QED
  BY <1>2, <1>3, <1>4

LEMMA MarkRunningStep ==
    ASSUME Inv, NEW w \in Workers, NEW j \in Jobs, MarkRunning(w, j)
    PROVE  Inv'
<1> USE DEF Inv
<1>1. /\ entry[j] = "waiting"
      /\ UNCHANGED <<progress, tries, unrecorded, strays, launch, advisory, due, snapshots, goal,
                     stored, lockLost, faults>>
  BY DEF MarkRunning, planVars, pastVars
<1>2. /\ lock[j] = Nobody /\ lock = [lock EXCEPT ![j] = Nobody]
      /\ tries[j] \in 0..MaxAttempts /\ tries[j] < MaxAttempts
      /\ tries' = [tries EXCEPT ![j] = tries[j]]
  BY <1>1, WaitingEntry
<1>3. /\ unrecorded' \subseteq Jobs /\ strays' \subseteq Jobs \X Targets
      /\ snapshots' \in [Targets -> {"none", "fresh", "expired"}]
  BY <1>1 DEF QueueInv, QueueTyped, OthersTyped
<1>4. CASE Active(j)
  <2> DEFINE c == [IdleSlot EXCEPT !.step = "categories", !.job = j]
  <2>1. /\ job' = [job EXCEPT ![j].state = "running"] /\ quiet' = quiet \ {j}
        /\ entry' = [entry EXCEPT ![j] = "active"] /\ lock' = [lock EXCEPT ![j] = w]
        /\ slot' = [slot EXCEPT ![w] = c]
    BY <1>4 DEF MarkRunning
  <2>2. JobsInv' /\ JobsFollow /\ NoneBegin
    BY <1>1, <1>4, <2>1, RunningStep
  <2>3. w \in Workers \cup {Nobody} /\ "active" \in EntryStates
    BY DEF EntryStates
  <2>4. QueueInv' /\ NoneAdded
    BY <1>1, <1>2, <1>3, <2>1, <2>3, EntryStep
  <2>5. SlotIs(c, "categories", j, {}, {}, {}, NoProgress, <<>>)
    BY StartedSlotIs
  <2> HIDE DEF c
  <2>6. c \in SlotType /\ SlotWorks(c)
    BY <2>5, RestingWorks DEF SlotIs
  <2>7. AccountedNext(c)
    BY <1>4, <2>2, <2>5 DEF AccountedNext, SlotIs, JobsFollow, Active
  <2>8. SlotsInv'
    BY <2>1, <2>2, <2>6, <2>7, SlotTo
  <2>9. QED
    BY <1>1, <1>3, <2>2, <2>4, <2>8, AttemptInv
<1>5. CASE ~Active(j)
  <2>1. /\ entry' = [entry EXCEPT ![j] = "completed"]
        /\ UNCHANGED <<job, quiet, lock, slot>>
    BY <1>5 DEF MarkRunning
  <2>2. quiet' \subseteq Jobs /\ "completed" \in EntryStates /\ Nobody \in Workers \cup {Nobody}
    BY <2>1 DEF JobsInv, JobsTyped, EntryStates
  <2>3. JobsInv' /\ JobsFollow /\ NoneBegin
    BY <1>1, <2>1, <2>2, JobsStayStep
  <2>4. QueueInv' /\ NoneAdded
    BY <1>1, <1>2, <1>3, <2>1, <2>2, EntryStep
  <2>5. SlotsInv'
    BY <2>1, <2>3, SlotsStayStep
  <2>6. QED
    BY <1>1, <1>3, <2>3, <2>4, <2>5, AttemptInv
<1>6. QED
  BY <1>4, <1>5

\* A step of the queue alone.
LEMMA QueueOnlyInv ==
    ASSUME Inv, QueueInv', NoneAdded, Fault \/ faults' = faults,
           UNCHANGED <<job, progress, quiet, slot, strays, launch, advisory, due, snapshots, goal,
                       stored, lockLost>>
    PROVE  Inv'
<1> USE DEF Inv
<1>1. /\ quiet' \subseteq Jobs /\ strays' \subseteq Jobs \X Targets
      /\ snapshots' \in [Targets -> {"none", "fresh", "expired"}]
  BY DEF JobsInv, JobsTyped, OthersTyped
<1>2. JobsInv' /\ JobsFollow /\ NoneBegin
  BY <1>1, JobsStayStep
<1>3. SlotsInv'
  BY <1>2, SlotsStayStep
<1>4. QED
  BY <1>1, <1>2, <1>3, AttemptInv

LEMMA QueueMoveStep ==
    ASSUME Inv, NEW j \in Jobs,
           (\E w \in Workers : MarkRunningFails(w, j)) \/ Stall(j) \/ RecordFails(j)
    PROVE  Inv'
<1> USE DEF Inv
<1>1. QueueTyped /\ EntriesAreHeld
  BY DEF QueueInv
<1>2. CASE \E w \in Workers : MarkRunningFails(w, j)
  <2> DEFINE state == IF tries[j] + 1 < MaxAttempts THEN "waiting" ELSE "failed"
  <2>1. /\ entry[j] = "waiting" /\ Fault
        /\ entry' = [entry EXCEPT ![j] = state] /\ tries' = [tries EXCEPT ![j] = tries[j] + 1]
        /\ unrecorded' = unrecorded \cup {j}
        /\ UNCHANGED <<job, progress, quiet, lock, slot, strays, launch, advisory, due, snapshots,
                       goal, stored, lockLost>>
    BY <1>2 DEF MarkRunningFails, jobVars, workVars, planVars, pastVars
  <2>2. lock' = [lock EXCEPT ![j] = Nobody] /\ tries[j] + 1 \in 0..MaxAttempts
    BY <2>1, WaitingEntry
  <2>3. /\ state \in {"waiting", "failed"} /\ state \in EntryStates
        /\ state = "waiting" => tries[j] + 1 < MaxAttempts
    BY DEF EntryStates
  <2>4. unrecorded' \subseteq Jobs /\ Nobody \in Workers \cup {Nobody}
    BY <1>1, <2>1 DEF QueueTyped
  <2> HIDE DEF state
  <2>5. QueueInv' /\ NoneAdded
    BY <2>1, <2>2, <2>3, <2>4, EntryStep
  <2>6. QED
    BY <2>1, <2>5, QueueOnlyInv
<1>3. CASE Stall(j)
  <2>1. /\ entry[j] = "active" /\ lock' = [lock EXCEPT ![j] = Nobody]
        /\ (Fault \/ faults' = faults)
        /\ UNCHANGED <<job, progress, quiet, tries, slot, strays, launch, advisory, due, snapshots,
                       goal, stored, lockLost>>
    BY <1>3 DEF Stall, jobVars, workVars, planVars, pastVars
  <2>2. PICK state \in {"waiting", "failed"} : entry' = [entry EXCEPT ![j] = state]
    BY <1>3 DEF Stall
  <2>3. unrecorded' \subseteq Jobs
    BY <1>1, <1>3 DEF Stall, QueueTyped
  <2>4. tries[j] \in 0..MaxAttempts /\ tries[j] < MaxAttempts
    BY <1>1, <2>1 DEF QueueTyped, EntriesAreHeld
  <2>5. tries' = [tries EXCEPT ![j] = tries[j]]
    BY <1>1, <2>1 DEF QueueTyped
  <2>6. state \in EntryStates /\ Nobody \in Workers \cup {Nobody}
    BY DEF EntryStates
  <2>7. QueueInv' /\ NoneAdded
    BY <2>1, <2>2, <2>3, <2>4, <2>5, <2>6, EntryStep
  <2>8. QED
    BY <2>1, <2>7, QueueOnlyInv
<1>4. CASE RecordFails(j)
  <2>1. /\ unrecorded' = unrecorded \ {j} /\ Fault
        /\ UNCHANGED <<job, progress, quiet, entry, lock, tries, slot, strays, launch, advisory, due,
                       snapshots, goal, stored, lockLost>>
    BY <1>4 DEF RecordFails, jobVars, workVars, planVars, pastVars
  <2>2. unrecorded' \subseteq Jobs
    BY <1>1, <2>1 DEF QueueTyped
  <2>3. QueueInv' /\ NoneAdded
    BY <2>1, <2>2, QueueStayStep
  <2>4. QED
    BY <2>1, <2>3, QueueOnlyInv
<1>5. QED
  BY <1>2, <1>3, <1>4

LEMMA RecordStep ==
    ASSUME Inv, NEW j \in Jobs, RecordQueueFailure(j)
    PROVE  Inv'
<1> USE DEF Inv
<1>1. /\ unrecorded' = unrecorded \ {j} /\ FailKeeping(j) /\ progress' = Kept(j)
      /\ UNCHANGED <<entry, lock, tries, slot, strays, launch, advisory, due, snapshots, goal, stored,
                     lockLost, faults>>
  BY DEF RecordQueueFailure, workVars, planVars, pastVars
<1>2. JobsInv' /\ JobsFollow /\ NoneBegin
  BY <1>1, FailKeepingStep
<1>3. /\ unrecorded' \subseteq Jobs /\ strays' \subseteq Jobs \X Targets
      /\ snapshots' \in [Targets -> {"none", "fresh", "expired"}]
  BY <1>1 DEF QueueInv, QueueTyped, OthersTyped
<1>4. QueueInv' /\ NoneAdded
  BY <1>1, <1>3, QueueStayStep
<1>5. SlotsInv'
  BY <1>1, <1>2, SlotsStayStep
<1>6. QED
  BY <1>1, <1>2, <1>3, <1>4, <1>5, AttemptInv

\* While the jobs stay, a slot accounts for its targets as before.
LEMMA AccountedSame ==
    ASSUME NEW s, Accounted(s), UNCHANGED <<job, progress, stored>>
    PROVE  AccountedNext(s)
  BY DEF Accounted, AccountedNext

\* What the invariant says of an attempt.
LEMMA AttemptHolds ==
    ASSUME Inv, NEW w \in Workers, slot[w].step # "none"
    PROVE  /\ slot[w] \in SlotType /\ SlotWorks(slot[w]) /\ Accounted(slot[w])
           /\ slot[w].job \in Jobs /\ job[slot[w].job].state # "none"
           /\ job[slot[w].job].retries \in {0} \cup Jobs
<1>1. slot[w] \in SlotType /\ SlotWorks(slot[w]) /\ Accounted(slot[w])
  BY SlotHolds DEF Inv
<1>2. slot[w].job \in Jobs /\ job[slot[w].job].state # "none"
  BY <1>1 DEF SlotWorks, Accounted
<1>3. job[slot[w].job].retries \in {0} \cup Jobs
  BY <1>2, Bounds DEF Inv, JobsInv, JobsTyped, JobType
<1>4. QED
  BY <1>1, <1>2, <1>3

LEMMA ReadTargetsStep ==
    ASSUME Inv, NEW w \in Workers, ReadTargets(w) \/ ReadTargetsFails(w)
    PROVE  Inv'
<1> USE DEF Inv
<1> DEFINE s == slot[w]
           r == job[s.job].retries
<1>1. /\ s.step = "categories"
      /\ UNCHANGED <<job, progress, quiet, entry, lock, tries, unrecorded, strays, launch, advisory,
                     due, snapshots, goal, stored, lockLost, faults>>
  BY DEF ReadTargets, ReadTargetsFails, jobVars, queueVars, planVars, pastVars
<1>2. /\ s \in SlotType /\ SlotWorks(s) /\ Accounted(s) /\ s.job \in Jobs
      /\ job[s.job].state # "none" /\ r \in {0} \cup Jobs
  BY <1>1, AttemptHolds
<1>3. strays' \subseteq Jobs \X Targets
  BY <1>1 DEF OthersTyped
<1>4. s.left = {} /\ s.reading = {} /\ s.writes = <<>> /\ s.mem = NoProgress
  BY <1>1, <1>2 DEF SlotWorks
<1>5. ASSUME NEW targets \in SUBSET Targets, r # 0 => targets = progress[r].bad,
             slot' = [slot EXCEPT ![w] = [s EXCEPT !.step = "reset", !.targets = targets]]
      PROVE  Inv'
  <2> DEFINE c == [s EXCEPT !.step = "reset", !.targets = targets]
  <2>1. slot' = [slot EXCEPT ![w] = c]
    BY <1>5
  <2>2. SlotIs(c, "reset", s.job, targets, s.left, s.reading, s.mem, s.writes)
    BY <1>2, TargetedSlotIs
  <2> HIDE DEF c, s
  <2>3. c \in SlotType /\ SlotWorks(c)
    BY <1>2, <1>4, <2>2, RestingWorks DEF SlotIs
  <2>4. AccountedNext(c)
    BY <1>1, <1>2, <1>5, <2>2 DEF AccountedNext, SlotIs
  <2>5. QED
    BY <1>1, <1>3, <2>1, <2>3, <2>4, SlotOnlyInv
<1>6. ASSUME slot' = [slot EXCEPT ![w] = [s EXCEPT !.step = "failEarly"]] PROVE Inv'
  <2> DEFINE c == [s EXCEPT !.step = "failEarly"]
  <2>1. slot' = [slot EXCEPT ![w] = c] /\ "failEarly" \in SlotSteps
    BY <1>6 DEF SlotSteps
  <2>2. SlotIs(c, "failEarly", s.job, s.targets, s.left, s.reading, s.mem, s.writes)
    BY <1>2, <2>1, SlotWithStep
  <2> HIDE DEF c, s
  <2>3. c \in SlotType /\ SlotWorks(c)
    BY <1>2, <1>4, <2>2, RestingWorks DEF SlotIs
  <2>4. AccountedNext(c)
    BY <1>1, <1>2, <2>2 DEF AccountedNext, SlotIs
  <2>5. QED
    BY <1>1, <1>3, <2>1, <2>3, <2>4, SlotOnlyInv
<1>7. CASE ReadTargets(w)
  <2>1. PICK found \in SUBSET Targets :
           LET targets == IF r = 0 THEN found ELSE progress[r].bad IN
           slot' = [slot EXCEPT ![w] =
               IF targets \subseteq found
               THEN [s EXCEPT !.step = "reset", !.targets = targets]
               ELSE [s EXCEPT !.step = "failEarly"]]
    BY <1>7 DEF ReadTargets
  <2> DEFINE targets == IF r = 0 THEN found ELSE progress[r].bad
  <2>2. targets \in SUBSET Targets /\ (r # 0 => targets = progress[r].bad)
    BY <1>2 DEF JobsInv, JobsTyped, ProgressType
  <2>3. CASE targets \subseteq found
    BY <1>5, <2>1, <2>2, <2>3
  <2>4. CASE ~(targets \subseteq found)
    BY <1>6, <2>1, <2>4
  <2>5. QED
    BY <2>3, <2>4
<1>8. CASE ReadTargetsFails(w)
  BY <1>6, <1>8 DEF ReadTargetsFails
<1>9. QED
  BY <1>7, <1>8

\* A step of a slot with a write of the progress.
LEMMA ProgressInv ==
    ASSUME Inv, NEW w \in Workers, slot[w].step # "none", NEW p \in ProgressType,
           WriteProgress(slot[w].job, p), NEW c \in SlotType, SlotWorks(c),
           slot' = [slot EXCEPT ![w] = c],
           slot[w].step \in {"reset", "work"}, c.step = "work", c.job = slot[w].job,
           c.targets = slot[w].targets,
           c.targets \subseteq stored[c.job] \cup c.mem.bad \cup c.left \cup c.reading,
           UNCHANGED <<job, entry, lock, tries, unrecorded, strays, launch, advisory, due, snapshots,
                       goal, stored, lockLost, faults>>
    PROVE  Inv'
<1> USE DEF Inv
<1>1. /\ slot[w] \in SlotType /\ SlotWorks(slot[w]) /\ Accounted(slot[w]) /\ slot[w].job \in Jobs
      /\ job[slot[w].job].state # "none"
  BY AttemptHolds
<1>2. JobsInv' /\ JobsFollow /\ NoneBegin
  BY <1>1, ProgressStep
<1>3. AccountedNext(slot[w])
  BY <1>1, <1>2, AccountedStays
<1>4. AccountedNext(c)
  BY <1>3 DEF AccountedNext
<1>5. SlotsInv'
  BY <1>2, <1>4, SlotTo
<1>6. /\ unrecorded' \subseteq Jobs /\ strays' \subseteq Jobs \X Targets
      /\ snapshots' \in [Targets -> {"none", "fresh", "expired"}]
  BY DEF QueueInv, QueueTyped, OthersTyped
<1>7. QueueInv' /\ NoneAdded
  BY <1>6, QueueStayStep
<1>8. QED
  BY <1>2, <1>5, <1>6, <1>7, AttemptInv

LEMMA ResetStep ==
    ASSUME Inv, NEW w \in Workers, ResetProgress(w)
    PROVE  Inv'
<1> DEFINE s == slot[w]
           c == Refilled([s EXCEPT !.step = "work", !.left = s.targets])
<1>1. /\ s.step = "reset" /\ WriteProgress(s.job, NoProgress) /\ slot' = [slot EXCEPT ![w] = c]
      /\ UNCHANGED <<job, entry, lock, tries, unrecorded, strays, launch, advisory, due, snapshots,
                     goal, stored, lockLost, faults>>
  BY DEF ResetProgress, queueVars, planVars, pastVars
<1>2. s \in SlotType /\ SlotWorks(s)
  BY <1>1, AttemptHolds
<1>3. /\ c \in SlotType /\ SlotWorks(c) /\ c.step = "work" /\ c.job = s.job
      /\ c.targets = s.targets /\ c.left \cup c.reading = s.targets
  BY <1>1, <1>2, ResetWorks
<1> HIDE DEF c
<1>4. QED
  BY <1>1, <1>3, NoProgressTyped, ProgressInv

LEMMA SaveProgressStep ==
    ASSUME Inv, NEW w \in Workers, SaveProgress(w)
    PROVE  Inv'
<1> DEFINE s == slot[w]
           c == Refilled([s EXCEPT !.writes = Tail(s.writes)])
<1>1. /\ s.writes # <<>> /\ WriteProgress(s.job, Head(s.writes)) /\ slot' = [slot EXCEPT ![w] = c]
      /\ UNCHANGED <<job, entry, lock, tries, unrecorded, strays, launch, advisory, due, snapshots,
                     goal, stored, lockLost, faults>>
  BY DEF SaveProgress, queueVars, planVars, pastVars
<1>2. s \in SlotType /\ SlotWorks(s) /\ Accounted(s)
  BY SlotHolds DEF Inv
<1>3. /\ Head(s.writes) \in ProgressType
      /\ c \in SlotType /\ SlotWorks(c) /\ s.step = "work" /\ c.step = "work"
      /\ c.job = s.job /\ c.targets = s.targets /\ c.mem = s.mem
      /\ c.left \cup c.reading = s.left \cup s.reading
  BY <1>1, <1>2, SavedWorks
<1> HIDE DEF c, s
<1>4. c.targets \subseteq stored[c.job] \cup c.mem.bad \cup c.left \cup c.reading
  <2>1. s.targets \subseteq stored[s.job] \cup s.mem.bad \cup s.left \cup s.reading
    BY <1>2, <1>3 DEF Accounted
  <2>2. QED
    BY <1>3, <2>1
<1>5. QED
  BY <1>1, <1>3, <1>4, ProgressInv DEF s

LEMMA StoreTargetStep ==
    ASSUME Inv, NEW w \in Workers, NEW t \in Targets, StoreTarget(w, t)
    PROVE  Inv'
<1> USE DEF Inv
<1> DEFINE s == slot[w]
           c == Stored(s, t)
<1>1. /\ t \in s.reading /\ snapshots' = [snapshots EXCEPT ![t] = "fresh"]
      /\ stored' = [stored EXCEPT ![s.job] = @ \cup {t}] /\ slot' = [slot EXCEPT ![w] = c]
      /\ UNCHANGED <<job, progress, quiet, entry, lock, tries, unrecorded, strays, launch, advisory,
                     due, goal, lockLost, faults>>
  BY DEF StoreTarget, jobVars, queueVars, planVars
<1>2. s \in SlotType /\ SlotWorks(s) /\ Accounted(s)
  BY SlotHolds
<1>3. /\ c \in SlotType /\ SlotWorks(c) /\ s.step = "work" /\ c.step = "work" /\ c.job = s.job
      /\ c.targets = s.targets /\ c.mem.bad = s.mem.bad
      /\ c.left = s.left /\ c.reading = s.reading \ {t}
  BY <1>1, <1>2, StoredWorks
<1> HIDE DEF c, s
<1>4. s.job \in Jobs
  BY <1>2, <1>3 DEF SlotWorks
<1>5. JobsInv' /\ JobsFollow /\ NoneBegin
  BY <1>1, <1>4, StoredStep
<1>6. AccountedNext(s)
  BY <1>2, <1>5, AccountedStays
<1>7. t \in stored'[s.job]
  BY <1>1, <1>4 DEF JobsInv, JobsTyped
<1>8. AccountedNext(c)
  BY <1>3, <1>6, <1>7 DEF AccountedNext
<1>9. SlotsInv'
  BY <1>1, <1>3, <1>5, <1>8, SlotTo
<1>10. /\ unrecorded' \subseteq Jobs /\ strays' \subseteq Jobs \X Targets
       /\ snapshots' \in [Targets -> {"none", "fresh", "expired"}]
  BY <1>1 DEF QueueInv, QueueTyped, OthersTyped
<1>11. QueueInv' /\ NoneAdded
  BY <1>1, <1>10, QueueStayStep
<1>12. QED
  BY <1>1, <1>5, <1>9, <1>10, <1>11, AttemptInv

LEMMA MissTargetStep ==
    ASSUME Inv, NEW w \in Workers, NEW t \in Targets, MissTarget(w, t)
    PROVE  Inv'
<1> DEFINE s == slot[w]
           c == Missed(s, t)
<1>1. /\ t \in s.reading /\ slot' = [slot EXCEPT ![w] = c]
      /\ UNCHANGED <<job, progress, quiet, entry, lock, tries, unrecorded, strays, launch, advisory,
                     due, snapshots, goal, stored, lockLost, faults>>
  BY DEF MissTarget, jobVars, queueVars, planVars, pastVars
<1>2. s \in SlotType /\ SlotWorks(s) /\ Accounted(s)
  BY SlotHolds DEF Inv
<1>3. /\ c \in SlotType /\ SlotWorks(c) /\ s.step = "work" /\ c.step = "work" /\ c.job = s.job
      /\ c.targets = s.targets /\ c.mem.bad = s.mem.bad \cup {t}
      /\ c.left = s.left /\ c.reading = s.reading \ {t}
  BY <1>1, <1>2, MissedWorks
<1> HIDE DEF c, s
<1>4. AccountedNext(c)
  <2>1. AccountedNext(s)
    BY <1>1, <1>2, AccountedSame
  <2>2. QED
    BY <1>3, <2>1 DEF AccountedNext
<1>5. strays' \subseteq Jobs \X Targets
  BY <1>1 DEF Inv, OthersTyped
<1>6. QED
  BY <1>1, <1>3, <1>4, <1>5, SlotOnlyInv

\* A lane that goes on after its attempt: it stores its target or misses it.
LEMMA StrayStep ==
    ASSUME Inv, NEW j \in Jobs, NEW t \in Targets, StrayStores(j, t) \/ StrayEnds(j, t)
    PROVE  Inv'
<1> USE DEF Inv
<1>1. /\ strays' = strays \ {<<j, t>>}
      /\ UNCHANGED <<job, progress, quiet, entry, lock, tries, unrecorded, slot, launch, advisory, due,
                     goal, lockLost, faults>>
  BY DEF StrayStores, StrayEnds, jobVars, queueVars, planVars, pastVars
<1>2. /\ strays' \subseteq Jobs \X Targets /\ unrecorded' \subseteq Jobs /\ quiet' \subseteq Jobs
      /\ snapshots' \in [Targets -> {"none", "fresh", "expired"}]
  BY <1>1 DEF StrayStores, StrayEnds, OthersTyped, QueueInv, QueueTyped, JobsInv, JobsTyped
<1>3. JobsInv' /\ JobsFollow /\ NoneBegin
  <2>1. CASE StrayStores(j, t)
    <3>1. stored' = [stored EXCEPT ![j] = @ \cup {t}]
      BY <2>1 DEF StrayStores
    <3>2. QED
      BY <1>1, <3>1, StoredStep
  <2>2. CASE StrayEnds(j, t)
    <3>1. stored' = stored
      BY <2>2 DEF StrayEnds, pastVars
    <3>2. QED
      BY <1>1, <1>2, <3>1, JobsStayStep
  <2>3. QED
    BY <2>1, <2>2
<1>4. SlotsInv'
  BY <1>1, <1>3, SlotsStayStep
<1>5. QueueInv' /\ NoneAdded
  BY <1>1, <1>2, QueueStayStep
<1>6. QED
  BY <1>1, <1>2, <1>3, <1>4, <1>5, AttemptInv

LEMMA SaveProgressFailsStep ==
    ASSUME Inv, NEW w \in Workers, SaveProgressFails(w)
    PROVE  Inv'
<1> USE DEF Inv
<1> DEFINE s == slot[w]
           c == [s EXCEPT !.step = "fail", !.left = {}, !.reading = {}, !.writes = <<>>]
<1>1. /\ s.step = "reset" \/ s.writes # <<>>
      /\ Fault /\ strays' = strays \cup {<<s.job, t>> : t \in s.reading}
      /\ slot' = [slot EXCEPT ![w].step = "fail", ![w].left = {}, ![w].reading = {},
                              ![w].writes = <<>>]
      /\ UNCHANGED <<job, progress, quiet, entry, lock, tries, unrecorded, launch, advisory, due,
                     snapshots, goal, stored, lockLost>>
  BY DEF SaveProgressFails, jobVars, queueVars, planVars, pastVars
<1>2. s \in SlotType /\ SlotWorks(s) /\ SlotsTyped
  BY SlotHolds DEF SlotsInv
<1>3. slot' = [slot EXCEPT ![w] = c]
  BY <1>1, <1>2 DEF SlotsTyped
<1>4. SlotIs(c, "fail", s.job, s.targets, {}, {}, s.mem, <<>>)
  BY <1>2, FailedSlotIs
<1> HIDE DEF c
<1>5. s.step # "none"
  BY <1>1, <1>2 DEF SlotWorks
<1>6. s.job \in Jobs /\ job[s.job].state # "none"
  BY <1>5, AttemptHolds
<1> HIDE DEF s
<1>7. c \in SlotType /\ SlotWorks(c)
  BY <1>4, <1>6, RestingWorks DEF SlotIs
<1>8. AccountedNext(c)
  BY <1>1, <1>4, <1>6 DEF AccountedNext, SlotIs
<1>9. strays' \subseteq Jobs \X Targets
  BY <1>1, <1>2, <1>6 DEF OthersTyped, SlotType
<1>10. QED
  BY <1>1, <1>3, <1>7, <1>8, <1>9, SlotOnlyInv

LEMMA SaveSuccessFailsStep ==
    ASSUME Inv, NEW w \in Workers, SaveSuccessFails(w)
    PROVE  Inv'
<1> USE DEF Inv
<1> DEFINE s == slot[w]
           c == [s EXCEPT !.step = "fail"]
<1>1. /\ WorkDone(s) /\ Fault /\ slot' = [slot EXCEPT ![w] = c]
      /\ UNCHANGED <<job, progress, quiet, entry, lock, tries, unrecorded, strays, launch, advisory,
                     due, snapshots, goal, stored, lockLost>>
  BY DEF SaveSuccessFails, jobVars, queueVars, planVars, pastVars
<1>2. s.step = "work" /\ s.left = {} /\ s.reading = {} /\ s.writes = <<>>
  BY <1>1 DEF WorkDone
<1>3. s \in SlotType /\ s.job \in Jobs /\ job[s.job].state # "none" /\ "fail" \in SlotSteps
  BY <1>2, AttemptHolds DEF SlotSteps
<1>4. SlotIs(c, "fail", s.job, s.targets, s.left, s.reading, s.mem, s.writes)
  BY <1>3, SlotWithStep
<1> HIDE DEF c, s
<1>5. c \in SlotType /\ SlotWorks(c)
  BY <1>2, <1>3, <1>4, RestingWorks DEF SlotIs
<1>6. AccountedNext(c)
  BY <1>1, <1>3, <1>4 DEF AccountedNext, SlotIs
<1>7. strays' \subseteq Jobs \X Targets
  BY <1>1 DEF OthersTyped
<1>8. QED
  BY <1>1, <1>5, <1>6, <1>7, SlotOnlyInv

\* When the work of an attempt is done, what it did not store is recorded.
LEMMA DoneIsAccounted ==
    ASSUME Inv, NEW w \in Workers, WorkDone(slot[w])
    PROVE  /\ slot[w] \in SlotType /\ slot[w].job \in Jobs
           /\ slot[w].targets \subseteq stored[slot[w].job] \cup slot[w].mem.bad
           /\ \A r \in {job[slot[w].job].retries} \ {0} : progress[r].bad = slot[w].targets
<1> DEFINE s == slot[w]
<1>1. s.step = "work" /\ s.left = {} /\ s.reading = {}
  BY DEF WorkDone
<1>2. s \in SlotType /\ s.job \in Jobs /\ Accounted(s)
  BY <1>1, AttemptHolds
<1> HIDE DEF s
<1>3. QED
  BY <1>1, <1>2 DEF Accounted, s

\* The attempt is over: the queue learns of it and the slot is free.
LEMMA OverInv ==
    ASSUME Inv, JobsInv', JobsFollow, NoneBegin, QueueInv', NoneAdded, NEW w \in Workers,
           slot' = [slot EXCEPT ![w] = IdleSlot], Fault \/ faults' = faults,
           UNCHANGED <<strays, launch, advisory, due, snapshots, lockLost>>
    PROVE  Inv'
<1>1. /\ strays' \subseteq Jobs \X Targets
      /\ snapshots' \in [Targets -> {"none", "fresh", "expired"}]
  BY DEF Inv, OthersTyped
<1>2. SlotsInv'
  BY SlotFreed DEF Inv
<1>3. QED
  BY <1>1, <1>2, AttemptInv

LEMMA SaveSuccessStep ==
    ASSUME Inv, NEW w \in Workers, SaveSuccess(w)
    PROVE  Inv'
<1> USE DEF Inv
<1>1. /\ WorkDone(slot[w]) /\ slot[w].mem.bad = {} /\ EndJob(w, "succeeded", "none")
      /\ Finished(w, slot[w].job, "completed") /\ slot' = [slot EXCEPT ![w] = IdleSlot]
      /\ UNCHANGED <<tries, unrecorded, strays, launch, advisory, due, snapshots, stored, lockLost,
                     faults>>
  BY DEF SaveSuccess, planVars
<1>2. /\ slot[w] \in SlotType /\ slot[w].job \in Jobs
      /\ slot[w].targets \subseteq stored[slot[w].job]
      /\ \A r \in {job[slot[w].job].retries} \ {0} : progress[r].bad \subseteq stored[slot[w].job]
  BY <1>1, DoneIsAccounted
<1>3. "succeeded" \in JobStates
  BY DEF JobStates
<1>4. JobsInv' /\ JobsFollow /\ NoneBegin
  BY <1>1, <1>2, <1>3, EndStep
<1>5. QueueInv' /\ NoneAdded
  BY <1>1, <1>2, FinishedStep
<1>6. QED
  BY <1>1, <1>4, <1>5, OverInv

LEMMA FailingIs ==
    ASSUME Inv, NEW w \in Workers, Failing(slot[w])
    PROVE  slot[w] \in SlotType /\ slot[w].job \in Jobs
<1>1. slot[w].step # "none"
  BY DEF Failing, Partial, WorkDone
<1>2. QED
  BY <1>1, AttemptHolds

LEMMA SaveFailureStep ==
    ASSUME Inv, NEW w \in Workers, SaveFailure(w)
    PROVE  Inv'
<1> USE DEF Inv
<1>1. /\ Failing(slot[w]) /\ Rejected(w, slot[w].job) /\ slot' = [slot EXCEPT ![w] = IdleSlot]
      /\ UNCHANGED <<strays, launch, advisory, due, snapshots, stored, lockLost, faults>>
  BY DEF SaveFailure, planVars
<1>2. slot[w] \in SlotType /\ slot[w].job \in Jobs
  BY <1>1, FailingIs
<1>3. JobsInv' /\ JobsFollow /\ NoneBegin
  <2>1. CASE slot[w].step = "failEarly"
    <3>1. FailKeeping(slot[w].job) /\ progress' = Kept(slot[w].job) /\ goal' = goal
      BY <2>1 DEF SaveFailure
    <3>2. QED
      BY <1>1, <1>2, <3>1, FailKeepingStep
  <2>2. CASE slot[w].step # "failEarly"
    <3> DEFINE code == IF Partial(slot[w]) THEN "partial" ELSE "other"
    <3>1. EndJob(w, "failed", code)
      BY <2>2 DEF SaveFailure
    <3>2. /\ "failed" \in JobStates /\ code \in {"none", "partial", "other"}
          /\ code \in {"partial", "other"} /\ (code = "partial" => Partial(slot[w]))
      BY DEF JobStates
    <3> HIDE DEF code
    <3>3. code = "partial" => slot[w].targets \subseteq stored[slot[w].job] \cup slot[w].mem.bad
      BY <3>2, DoneIsAccounted DEF Partial
    <3>4. CASE code = "partial"
      BY <1>1, <1>2, <3>1, <3>2, <3>3, <3>4, EndStep
    <3>5. CASE code = "other"
      BY <1>1, <1>2, <3>1, <3>2, <3>5, EndStep
    <3>6. QED
      BY <3>2, <3>4, <3>5
  <2>3. QED
    BY <2>1, <2>2
<1>4. QueueInv' /\ NoneAdded
  BY <1>1, <1>2, RejectedStep
<1>5. QED
  BY <1>1, <1>3, <1>4, OverInv

\* An attempt that ends without a trace in its job.
LEMMA GoneStep ==
    ASSUME Inv, NEW w \in Workers, SaveFailureFails(w) \/ WorkerDies(w)
    PROVE  Inv'
<1> USE DEF Inv
<1>1. /\ slot' = [slot EXCEPT ![w] = IdleSlot] /\ Fault
      /\ UNCHANGED <<job, progress, quiet, strays, launch, advisory, due, snapshots, goal, stored,
                     lockLost>>
  BY DEF SaveFailureFails, WorkerDies, jobVars, planVars, pastVars
<1>2. JobsFollow /\ NoneBegin /\ JobsInv'
  <2>1. quiet' \subseteq Jobs
    BY <1>1 DEF JobsInv, JobsTyped
  <2>2. QED
    BY <1>1, <2>1, JobsStayStep
<1>3. QueueInv' /\ NoneAdded
  <2>1. CASE SaveFailureFails(w)
    <3>1. Failing(slot[w]) /\ Rejected(w, slot[w].job)
      BY <2>1 DEF SaveFailureFails
    <3>2. QED
      BY <3>1, FailingIs, RejectedStep
  <2>2. CASE WorkerDies(w)
    <3>1. UNCHANGED <<entry, lock, tries, unrecorded>>
      BY <2>2 DEF WorkerDies, queueVars
    <3>2. unrecorded' \subseteq Jobs
      BY <3>1 DEF QueueInv, QueueTyped
    <3>3. QED
      BY <3>1, <3>2, QueueStayStep
  <2>3. QED
    BY <2>1, <2>2
<1>4. QED
  BY <1>1, <1>2, <1>3, OverInv

-----------------------------------------------------------------------------
(* The invariant                                                           *)

LEMMA InitInv == Init => Inv
<1> SUFFICES ASSUME Init PROVE Inv
  OBVIOUS
<1>1. NoJob \in JobType /\ NoJob.state = "none" /\ NoJob.code = "none" /\ NoJob.retries = 0
      /\ NoJob.by = "none"
  BY Bounds DEF NoJob, JobType, JobStates, Scopes, Reasons
<1>2. JobsInv
  <2>1. JobsTyped
    BY <1>1, NoProgressTyped DEF Init, JobsTyped
  <2>2. \A j \in Jobs : job[j] = NoJob
    BY DEF Init
  <2>3. QED
    BY <1>1, <2>1, <2>2 DEF JobsInv, SucceededIsComplete, PartialIsSettled, RetriesFollow
<1>3. QueueInv
  BY Bounds DEF Init, QueueInv, QueueTyped, EntriesAreHeld, EntryStates
<1>4. SlotsInv
  <2>1. slot = [w \in Workers |-> IdleSlot]
    BY DEF Init
  <2>2. IdleSlot \in SlotType /\ SlotWorks(IdleSlot)
    BY IdleSlotIs, RestingWorks DEF SlotIs
  <2>3. Accounted(IdleSlot)
    BY IdleSlotIs DEF SlotIs, Accounted
  <2>4. \A w \in Workers : slot[w] = IdleSlot
    BY <2>1
  <2>5. QED
    BY <2>1, <2>2, <2>3, <2>4 DEF SlotsInv, SlotsTyped, SlotsWork, TargetsAccounted
<1>5. LaunchInv
  <2>1. \A p \in Starters : launch[p] = IdleLaunch
    BY DEF Init
  <2>2. \A j \in Jobs : job[j] = NoJob /\ entry[j] = "none" /\ j # 0
    BY Bounds DEF Init
  <2>3. IdleLaunch.step = "none" /\ IdleLaunch.job = 0 /\ IdleLaunch.by = "none"
    BY IdleLaunchIs DEF LaunchIs
  <2>4. LaunchTyped
    BY IdleLaunchIs DEF Init, LaunchTyped, LaunchIs
  <2>5. JobsInOrder
    <3>1. \A j \in Jobs : (job[j].state # "none") = (j <= 0)
      BY <1>1, <2>2, Bounds
    <3>2. 0 \in 0..MaxJobs
      BY Bounds
    <3>3. QED
      BY <3>1, <3>2 DEF JobsInOrder
  <2>6. IdsAreNew
    BY <2>1, <2>2, <2>3 DEF IdsAreNew
  <2>7. LaunchesHoldLocks /\ DueIsFirst
    BY <1>1, <2>1, <2>2, <2>3 DEF LaunchesHoldLocks, DueIsFirst
  <2>8. QED
    BY <2>4, <2>5, <2>6, <2>7 DEF LaunchInv
<1>6. OthersTyped
  BY Bounds DEF Init, OthersTyped
<1>7. QED
  BY <1>2, <1>3, <1>4, <1>5, <1>6 DEF Inv

LEMMA StutterStep == Inv /\ UNCHANGED vars => Inv'
<1> SUFFICES ASSUME Inv, UNCHANGED vars PROVE Inv'
  OBVIOUS
<1>1. UNCHANGED <<job, progress, quiet, entry, lock, tries, unrecorded, slot, strays, launch, advisory,
                  due, snapshots, goal, stored, lockLost, faults>>
  BY DEF vars, jobVars, queueVars, workVars, planVars, pastVars
<1>2. unrecorded' \subseteq Jobs
  BY <1>1 DEF Inv, QueueInv, QueueTyped
<1>3. QueueInv' /\ NoneAdded
  BY <1>1, <1>2, QueueStayStep DEF Inv
<1>4. QED
  BY <1>1, <1>3, QueueOnlyInv

LEMMA WorkerStep ==
    ASSUME Inv, NEW w \in Workers,
           \/ Work(w) \/ ReadTargetsFails(w) \/ SaveProgressFails(w)
           \/ SaveSuccessFails(w) \/ SaveFailureFails(w) \/ WorkerDies(w)
           \/ \E t \in Targets : MissTarget(w, t)
    PROVE  Inv'
<1>1. CASE Work(w)
  BY <1>1, ReadTargetsStep, ResetStep, StoreTargetStep, SaveProgressStep, SaveSuccessStep,
     SaveFailureStep DEF Work
<1>2. CASE ReadTargetsFails(w)
  BY <1>2, ReadTargetsStep
<1>3. CASE SaveProgressFails(w)
  BY <1>3, SaveProgressFailsStep
<1>4. CASE SaveSuccessFails(w)
  BY <1>4, SaveSuccessFailsStep
<1>5. CASE SaveFailureFails(w) \/ WorkerDies(w)
  BY <1>5, GoneStep
<1>6. CASE \E t \in Targets : MissTarget(w, t)
  BY <1>6, MissTargetStep
<1>7. QED
  BY <1>1, <1>2, <1>3, <1>4, <1>5, <1>6

LEMMA JobStep ==
    ASSUME Inv, NEW j \in Jobs,
           \/ JobLapses(j) \/ RecordQueueFailure(j) \/ RecordFails(j) \/ Stall(j)
           \/ \E t \in Targets : StrayStores(j, t) \/ StrayEnds(j, t)
           \/ \E w \in Workers : MarkRunning(w, j) \/ MarkRunningFails(w, j)
    PROVE  Inv'
<1>1. CASE JobLapses(j)
  BY <1>1, TimeStep
<1>2. CASE RecordQueueFailure(j)
  BY <1>2, RecordStep
<1>3. CASE RecordFails(j) \/ Stall(j) \/ \E w \in Workers : MarkRunningFails(w, j)
  BY <1>3, QueueMoveStep
<1>4. CASE \E t \in Targets : StrayStores(j, t) \/ StrayEnds(j, t)
  BY <1>4, StrayStep
<1>5. CASE \E w \in Workers : MarkRunning(w, j)
  BY <1>5, MarkRunningStep
<1>6. QED
  BY <1>1, <1>2, <1>3, <1>4, <1>5

LEMMA StarterStep ==
    ASSUME Inv,
           \/ \E p \in Starters : StartRefresh(p) \/ Launch(p) \/ AddFails(p) \/ StarterDies(p)
           \/ \E s \in Schedulers : Wake(s) \/ Schedule(s) \/ ScheduleFails(s) \/ ClaimFails(s)
    PROVE  Inv'
<1>1. ASSUME NEW p \in Starters, StartRefresh(p) \/ Launch(p) \/ AddFails(p) \/ StarterDies(p)
      PROVE  Inv'
  <2>1. CASE StartRefresh(p)
    BY <2>1, StartStep
  <2>2. CASE Launch(p) \/ AddFails(p)
    BY <2>2, AddStep, FailLaunchStep DEF Launch
  <2>3. CASE StarterDies(p)
    BY <2>3, EndOfRunStep
  <2>4. QED
    BY <1>1, <2>1, <2>2, <2>3
<1>2. ASSUME NEW s \in Schedulers, Wake(s) \/ Schedule(s) \/ ScheduleFails(s) \/ ClaimFails(s)
      PROVE  Inv'
  <2>1. CASE Wake(s)
    BY <2>1, WakeStep
  <2>2. CASE ListStores(s)
    BY <2>2, ListStep
  <2>3. CASE StartScheduled(s)
    BY <2>3, StartStep
  <2>4. CASE Prune(s) \/ ScheduleFails(s)
    BY <2>4, EndOfRunStep
  <2>5. CASE ClaimFails(s)
    BY <2>5, ClaimFailsStep
  <2>6. QED
    BY <1>2, <2>1, <2>2, <2>3, <2>4, <2>5 DEF Schedule
<1>3. QED
  BY <1>1, <1>2

LEMMA InvStep == Inv /\ [Next]_vars => Inv'
<1> SUFFICES ASSUME Inv, [Next]_vars PROVE Inv'
  OBVIOUS
<1>1. CASE UNCHANGED vars
  BY <1>1, StutterStep
<1>2. CASE ListSyncJobs \/ WindowTurns \/ \E t \in Targets : SnapshotExpires(t)
  BY <1>2, TimeStep
<1>3. CASE \/ \E p \in Starters : StartRefresh(p) \/ Launch(p) \/ AddFails(p) \/ StarterDies(p)
           \/ \E s \in Schedulers : Wake(s) \/ Schedule(s) \/ ScheduleFails(s) \/ ClaimFails(s)
  BY <1>3, StarterStep
<1>4. CASE \E key \in DOMAIN advisory : LoseLock(key)
  <2>1. DOMAIN advisory = {"due", "expired"}
    BY DEF Inv, LaunchInv, LaunchTyped
  <2>2. QED
    BY <1>4, <2>1, LoseLockStep
<1>5. ASSUME NEW w \in Workers,
             \/ Work(w) \/ ReadTargetsFails(w) \/ SaveProgressFails(w)
             \/ SaveSuccessFails(w) \/ SaveFailureFails(w) \/ WorkerDies(w)
             \/ \E t \in Targets : MissTarget(w, t)
      PROVE  Inv'
  BY <1>5, WorkerStep
<1>6. ASSUME NEW j \in Jobs,
             \/ JobLapses(j) \/ RecordQueueFailure(j) \/ RecordFails(j) \/ Stall(j)
             \/ \E t \in Targets : StrayStores(j, t) \/ StrayEnds(j, t)
             \/ \E w \in Workers : MarkRunning(w, j) \/ MarkRunningFails(w, j)
      PROVE  Inv'
  BY <1>6, JobStep
<1>7. QED
  BY <1>1, <1>2, <1>3, <1>4, <1>5, <1>6 DEF Next

LEMMA Invariance == Spec => []IInv
<1>1. Init => Inv
  BY InitInv
<1>2. Inv /\ [Next]_vars => Inv'
  BY InvStep
<1>3. Inv => IInv
  BY IInvIs
<1>4. QED
  BY <1>1, <1>2, <1>3, PTL DEF Spec

-----------------------------------------------------------------------------
(* The theorems                                                            *)

\* Every variable has its type, whatever the workers, schedulers, lanes and
\* bounds: no lane takes a target twice, and the chained writes of an attempt
\* are never more than its lanes.
THEOREM TypeCorrect == Spec => []TypeOK
<1>1. IInv => TypeOK
  BY DEF IInv
<1>2. QED
  BY <1>1, Invariance, PTL

\* saveSuccess: a refresh that succeeded stored every target of the attempt
\* that ended it, although several attempts of one job share its progress and
\* the failure of one may be recorded while another is at work.
THEOREM SucceededProven == Spec => []SucceededIsComplete
<1>1. IInv => SucceededIsComplete
  BY DEF IInv
<1>2. QED
  BY <1>1, Invariance, PTL

\* getFailedTargets and saveFailure: after a partial failure, the retry of the
\* failed targets is enough.
THEOREM RepairsProven == Spec => []RetryRepairs
<1>1. ASSUME IInv PROVE RetryRepairs
  <2>1. PartialIsSettled /\ RetriesFollow /\ TypeOK
    BY <1>1 DEF IInv
  <2>2. ASSUME NEW j \in Jobs, NEW r \in {job[j].retries} \ {0},
               job[j].state = "succeeded", job[r].code = "partial"
        PROVE  goal[r] \subseteq stored[r] \cup stored[j]
    <3>1. r \in Jobs
      BY <2>1, Bounds DEF TypeOK
    <3>2. progress[r].bad \subseteq stored[j]
      BY <2>1, <2>2 DEF RetriesFollow
    <3>3. goal[r] \subseteq stored[r] \cup progress[r].bad
      BY <2>1, <2>2, <3>1 DEF PartialIsSettled
    <3>4. QED
      BY <3>2, <3>3
  <2>3. QED
    BY <2>2 DEF RetryRepairs
<1>2. QED
  BY <1>1, Invariance, PTL

\* runOnce: with advisory locks that last, the monthly window starts one
\* refresh, for any number of schedulers, administrators and crashes.
THEOREM MonthlyProven == Spec => []MonthlyOnce
<1>1. ASSUME IInv PROVE MonthlyOnce
  <2> DEFINE dues == {j \in Jobs : job[j].by = "due"}
  <2>1. ASSUME ~lockLost PROVE Cardinality(dues) <= 1
    <3>1. \A j, k \in dues : j = k
      BY <1>1, <2>1 DEF IInv, DueIsFirst
    <3>2. CASE dues = {}
      BY <3>2, FS_EmptySet
    <3>3. CASE dues # {}
      <4>1. PICK j \in dues : TRUE
        BY <3>3
      <4>2. dues = {j}
        BY <3>1, <4>1
      <4> HIDE DEF dues
      <4>3. Cardinality({j}) = 1
        BY FS_Singleton
      <4>4. QED
        BY <4>2, <4>3
    <3>4. QED
      BY <3>2, <3>3
  <2>2. QED
    BY <2>1 DEF MonthlyOnce
<1>2. QED
  BY <1>1, Invariance, PTL

-----------------------------------------------------------------------------
(* The contract of sync_jobs                                               *)

\* One refresh is active at a time, and a slot at work has started its job.
OneActive == \A j, k \in Jobs : Active(j) /\ Active(k) => j = k
SlotsStarted ==
    \A w \in Workers : slot[w].step # "none" => job[slot[w].job].state # "queued"

LedgerInv == Inv /\ OneActive /\ SlotsStarted

\* The jobs as the contract sees them.
Rows == [j \in Jobs |-> job[j].state]

\* One active job takes this state, and no other changes its own.
GoesTo(j, state) ==
    Active(j) /\ \A k \in Jobs : job'[k].state = IF k = j THEN state ELSE job[k].state

LEMMA GoesOnRefines ==
    ASSUME NEW j \in Jobs, NEW state \in {"running", "succeeded", "failed"}, GoesTo(j, state),
           state = "succeeded" => job[j].state = "running"
    PROVE  [Ledger!Next]_Rows
<1>1. Rows' = [Rows EXCEPT ![j] = state]
  BY DEF GoesTo, Rows
<1>2. Rows[j] = job[j].state
  BY DEF Rows
<1>3. Ledger!Start(j) \/ Ledger!Succeed(j) \/ Ledger!Fail(j)
  BY <1>1, <1>2 DEF GoesTo, Active, Rows, Ledger!Start, Ledger!Succeed, Ledger!Fail, Ledger!Active
<1>4. QED
  BY <1>3 DEF Ledger!Next, Ledger!Jobs, Jobs

LEMMA BeginsRefines ==
    ASSUME NEW j \in Jobs, \A k \in Jobs : (job[k].state = "none") = (k >= j),
           \A k \in Jobs : job'[k].state = IF k = j THEN "queued"
                                          ELSE IF Active(k) THEN "failed" ELSE job[k].state
    PROVE  [Ledger!Next]_Rows
<1>1. Ledger!Claim(j)
  BY DEF Active, Ledger!Claim, Ledger!Jobs, Ledger!Active, Jobs
<1>2. QED
  BY <1>1 DEF Ledger!Next, Ledger!Jobs, Jobs

LEMMA StayRefines ==
    ASSUME \A j \in Jobs : job'[j].state = job[j].state
    PROVE  [Ledger!Next]_Rows
  BY DEF Rows

\* Whichever jobs fail, it is one job at most.
LEMMA FailRefines ==
    ASSUME Inv, OneActive, NEW jobs, JobsFail(jobs), job' = jobs
    PROVE  [Ledger!Next]_Rows
<1>1. \A j \in Jobs : job'[j] = job[j] \/ (Active(j) /\ job'[j].state = "failed")
  BY FailedIs DEF Inv, JobsInv, JobsFail, JobIs
<1>2. CASE \E j \in Jobs : job'[j] # job[j]
  <2>1. PICK j \in Jobs : job'[j] # job[j]
    BY <1>2
  <2>2. \A k \in Jobs : job'[k] # job[k] => k = j
    BY <1>1, <2>1 DEF OneActive
  <2>3. GoesTo(j, "failed")
    BY <1>1, <2>1, <2>2 DEF GoesTo
  <2>4. QED
    BY <2>3, GoesOnRefines
<1>3. CASE \A j \in Jobs : job'[j] = job[j]
  BY <1>3, StayRefines
<1>4. QED
  BY <1>2, <1>3

LEMMA FailKeepingRefines ==
    ASSUME Inv, OneActive, NEW j \in Jobs, FailKeeping(j)
    PROVE  [Ledger!Next]_Rows
<1> DEFINE jobs == [job EXCEPT ![j] = IF Active(j) THEN Failed(j) ELSE @]
<1>1. job' = jobs
  BY DEF FailKeeping, JobsTo
<1>2. job \in [Jobs -> JobType] /\ Failed(j) \in JobType
  BY FailedIs DEF JobIs, Inv, JobsInv, JobsTyped
<1>3. JobsFail(jobs)
  BY <1>2 DEF JobsFail
<1> HIDE DEF jobs
<1>4. QED
  BY <1>1, <1>3, FailRefines

LEMMA TimeoutRefines ==
    ASSUME Inv, OneActive, JobsTo(AfterTimeout)
    PROVE  [Ledger!Next]_Rows
<1>1. JobsFail(AfterTimeout) /\ job' = AfterTimeout
  BY TimeoutTyped DEF JobsFail, JobsTo, Inv, JobsInv
<1>2. QED
  BY <1>1, FailRefines

\* The end of an attempt: SaveSuccess only ever ends a job that was started.
LEMMA EndRefines ==
    ASSUME Inv, NEW w \in Workers, slot[w].job \in Jobs,
           NEW state \in {"succeeded", "failed"}, NEW code \in {"none", "partial", "other"},
           EndJob(w, state, code), state = "succeeded" => job[slot[w].job].state # "queued"
    PROVE  [Ledger!Next]_Rows
<1> DEFINE j == slot[w].job
           row == [job[j] EXCEPT !.state = state, !.code = code]
<1>1. job \in [Jobs -> JobType]
  BY DEF Inv, JobsInv, JobsTyped
<1>2. row.state = state
  <2>1. job[j] \in JobType /\ state \in JobStates
    BY <1>1 DEF JobStates
  <2>2. JobIs(row, state, job[j].scope, job[j].retries, code, job[j].by)
    BY <2>1, JobWithEnd
  <2>3. QED
    BY <2>2 DEF JobIs
<1>3. job' = [job EXCEPT ![j] = IF Active(j) THEN row ELSE job[j]]
  BY DEF EndJob, JobsTo
<1> HIDE DEF row, j
<1>4. j \in Jobs /\ (state = "succeeded" => job[j].state # "queued")
  BY DEF j
<1>5. \A k \in Jobs : job'[k] = IF k = j /\ Active(j) THEN row ELSE job[k]
  BY <1>1, <1>3, <1>4
<1>6. CASE Active(j)
  <2>1. GoesTo(j, state) /\ (state = "succeeded" => job[j].state = "running")
    BY <1>2, <1>4, <1>5, <1>6 DEF GoesTo, Active
  <2>2. QED
    BY <1>4, <2>1, GoesOnRefines
<1>7. CASE ~Active(j)
  BY <1>5, <1>7, StayRefines
<1>8. QED
  BY <1>6, <1>7

\* claimRefresh: either old jobs time out, or a new job follows them.
LEMMA ClaimRefines ==
    ASSUME Inv, OneActive, NEW p, NEW scope, NEW r, NEW after, ClaimRefresh(p, scope, r, after)
    PROVE  [Ledger!Next]_Rows
<1>1. CASE ~NoneActive(AfterTimeout)
  BY <1>1, TimeoutRefines DEF ClaimRefresh
<1>2. CASE NoneActive(AfterTimeout)
  <2> DEFINE j == Newest + 1
             row == [state |-> "queued", scope |-> scope, retries |-> r, code |-> "none",
                     by |-> launch[p].by]
  <2>1. Newest < MaxJobs /\ job' = [AfterTimeout EXCEPT ![j] = row]
    BY <1>2 DEF ClaimRefresh, JobsTo
  <2>2. Newest \in 0..MaxJobs /\ \A k \in Jobs : job[k].state # "none" <=> k <= Newest
    BY NewestIsLast DEF Inv, LaunchInv
  <2>3. j \in Jobs /\ \A k \in Jobs : (job[k].state = "none") = (k >= j)
    BY <2>1, <2>2, Bounds
  <2>4. /\ AfterTimeout \in [Jobs -> JobType]
        /\ \A k \in Jobs : AfterTimeout[k] = job[k] \/ (Active(k) /\ AfterTimeout[k].state = "failed")
    BY TimeoutTyped, FailedIs DEF Inv, JobsInv, JobIs
  <2>5. row.state = "queued"
    OBVIOUS
  <2> HIDE DEF row, j
  <2>6. \A k \in Jobs : job'[k] = IF k = j THEN row ELSE AfterTimeout[k]
    BY <2>1, <2>3, <2>4
  <2>7. \A k \in Jobs : job'[k].state = IF k = j THEN "queued"
                                        ELSE IF Active(k) THEN "failed" ELSE job[k].state
    BY <1>2, <2>4, <2>5, <2>6 DEF NoneActive, Active
  <2>8. QED
    BY <2>3, <2>7, BeginsRefines
<1>3. QED
  BY <1>1, <1>2

\* Every step is one of the contract, or changes no job's state.
LEMMA NextRefines == LedgerInv /\ [Next]_vars => [Ledger!Next]_Rows
<1> SUFFICES ASSUME LedgerInv, [Next]_vars PROVE [Ledger!Next]_Rows
  OBVIOUS
<1>1. Inv /\ OneActive /\ SlotsStarted
  BY DEF LedgerInv
<1>2. CASE ListSyncJobs
  BY <1>1, <1>2, TimeoutRefines DEF ListSyncJobs
<1>3. ASSUME NEW p \in Starters, StartRefresh(p) \/ FailLaunch(p) PROVE [Ledger!Next]_Rows
  <2>1. CASE StartRefresh(p)
    BY <1>1, <2>1, ClaimRefines DEF StartRefresh
  <2>2. CASE FailLaunch(p)
    <3>1. launch[p].step = "fail" /\ FailKeeping(launch[p].job)
      BY <2>2 DEF FailLaunch
    <3>2. launch[p].job \in Jobs
      BY <1>1, <3>1 DEF Inv, LaunchInv, IdsAreNew
    <3>3. QED
      BY <1>1, <3>1, <3>2, FailKeepingRefines
  <2>3. QED
    BY <1>3, <2>1, <2>2
<1>4. ASSUME NEW s \in Schedulers, StartScheduled(s) PROVE [Ledger!Next]_Rows
  BY <1>1, <1>4, ClaimRefines DEF StartScheduled
<1>5. ASSUME NEW j \in Jobs, RecordQueueFailure(j) PROVE [Ledger!Next]_Rows
  BY <1>1, <1>5, FailKeepingRefines DEF RecordQueueFailure
<1>6. ASSUME NEW j \in Jobs, NEW w \in Workers, MarkRunning(w, j) PROVE [Ledger!Next]_Rows
  <2>1. CASE Active(j)
    <3>1. job' = [job EXCEPT ![j] = [job[j] EXCEPT !.state = "running"]]
      BY <1>6, <2>1 DEF MarkRunning
    <3>2. job \in [Jobs -> JobType]
      BY <1>1 DEF Inv, JobsInv, JobsTyped
    <3>3. [job[j] EXCEPT !.state = "running"].state = "running"
      BY <3>2 DEF JobType
    <3>4. GoesTo(j, "running")
      BY <2>1, <3>1, <3>2, <3>3 DEF GoesTo
    <3>5. QED
      BY <3>4, GoesOnRefines
  <2>2. CASE ~Active(j)
    BY <1>6, <2>2, StayRefines DEF MarkRunning
  <2>3. QED
    BY <2>1, <2>2
<1>7. ASSUME NEW w \in Workers, SaveSuccess(w) PROVE [Ledger!Next]_Rows
  <2>1. WorkDone(slot[w]) /\ EndJob(w, "succeeded", "none")
    BY <1>7 DEF SaveSuccess
  <2>2. slot[w].job \in Jobs /\ slot[w].step # "none"
    BY <1>1, <2>1, DoneIsAccounted DEF WorkDone
  <2>3. QED
    BY <1>1, <2>1, <2>2, EndRefines DEF SlotsStarted
<1>8. ASSUME NEW w \in Workers, SaveFailure(w) PROVE [Ledger!Next]_Rows
  <2>1. slot[w].job \in Jobs
    BY <1>1, <1>8, FailingIs DEF SaveFailure
  <2>2. CASE slot[w].step = "failEarly"
    BY <1>1, <1>8, <2>1, <2>2, FailKeepingRefines DEF SaveFailure
  <2>3. CASE slot[w].step # "failEarly"
    <3>1. PICK code \in {"partial", "other"} : EndJob(w, "failed", code)
      BY <1>8, <2>3 DEF SaveFailure
    <3>2. QED
      BY <1>1, <2>1, <3>1, EndRefines
  <2>4. QED
    BY <2>2, <2>3
<1>9. CASE UNCHANGED job
  BY <1>9, StayRefines
<1>10. QED
  BY <1>2, <1>3, <1>4, <1>5, <1>6, <1>7, <1>8, <1>9
  DEF Next, vars, jobVars, WindowTurns, SnapshotExpires, Launch, AddJob, AddFails, StarterDies, Wake,
      Schedule, ListStores, Prune, ScheduleFails, ClaimFails, LoseLock, Work, ReadTargets,
      ReadTargetsFails, ResetProgress, StoreTarget, MissTarget, SaveProgress, SaveProgressFails,
      SaveSuccessFails, SaveFailureFails, WorkerDies, JobLapses, RecordFails, Stall, StrayStores,
      StrayEnds, MarkRunningFails

\* What a step of the contract does to a single job.
LEMMA EachJob ==
    ASSUME Inv, [Ledger!Next]_Rows
    PROVE  \A j \in Jobs :
              \/ job'[j].state = job[j].state
              \/ /\ job[j].state = "none" /\ job'[j].state = "queued"
                 /\ \A k \in Jobs \ {j} : job'[k].state \notin {"queued", "running"}
              \/ Active(j) /\ job'[j].state \in {"running", "succeeded", "failed"}
<1> SUFFICES ASSUME NEW j \in Jobs, job'[j].state # job[j].state
             PROVE  \/ /\ job[j].state = "none" /\ job'[j].state = "queued"
                       /\ \A k \in Jobs \ {j} : job'[k].state \notin {"queued", "running"}
                    \/ Active(j) /\ job'[j].state \in {"running", "succeeded", "failed"}
  OBVIOUS
<1>1. \A k \in Jobs : Rows[k] = job[k].state /\ Rows'[k] = job'[k].state
  BY DEF Rows
<1>2. Rows' # Rows
  BY <1>1
<1>3. PICK k \in Jobs : Ledger!Claim(k) \/ Ledger!Start(k) \/ Ledger!Succeed(k) \/ Ledger!Fail(k)
  BY <1>2 DEF Ledger!Next, Ledger!Jobs, Jobs
<1>4. CASE Ledger!Claim(k)
  <2>1. \A i \in Jobs : (job[i].state = "none") = (i >= k)
    BY <1>4 DEF Ledger!Claim, Ledger!Jobs, Jobs
  <2>2. \A i \in Jobs : job'[i].state = IF i = k THEN "queued"
                                        ELSE IF Active(i) THEN "failed" ELSE job[i].state
    BY <1>1, <1>4 DEF Rows, Active, Ledger!Claim, Ledger!Jobs, Ledger!Active, Jobs
  <2>3. CASE j = k
    BY <2>1, <2>2, <2>3, Bounds DEF Active
  <2>4. CASE j # k
    BY <2>2, <2>4 DEF Active
  <2>5. QED
    BY <2>3, <2>4
<1>5. CASE Ledger!Start(k) \/ Ledger!Succeed(k) \/ Ledger!Fail(k)
  <2>1. PICK state \in {"running", "succeeded", "failed"} :
           Active(k) /\ Rows' = [Rows EXCEPT ![k] = state]
    BY <1>5 DEF Rows, Active, Ledger!Start, Ledger!Succeed, Ledger!Fail, Ledger!Active
  <2>2. \A i \in Jobs : job'[i].state = IF i = k THEN state ELSE job[i].state
    BY <1>1, <2>1 DEF Rows
  <2>3. QED
    BY <2>1, <2>2
<1>6. QED
  BY <1>3, <1>4, <1>5

\* A slot at work goes on with its job.
SlotsGoOn ==
    \A w \in Workers : slot'[w].step # "none" =>
        slot[w].step # "none" /\ slot'[w].job = slot[w].job

LEMMA SlotGoesOn ==
    ASSUME Inv, NEW w \in Workers, NEW c, slot' = [slot EXCEPT ![w] = c],
           c.step # "none" => slot[w].step # "none" /\ c.job = slot[w].job
    PROVE  SlotsGoOn
<1>1. \A v \in Workers : slot'[v] = IF v = w THEN c ELSE slot[v]
  BY DEF Inv, SlotsInv, SlotsTyped
<1>2. QED
  BY <1>1 DEF SlotsGoOn

LEMMA WorkGoesOn ==
    ASSUME Inv, NEW w \in Workers,
           \/ Work(w) \/ ReadTargetsFails(w) \/ SaveProgressFails(w)
           \/ SaveSuccessFails(w) \/ SaveFailureFails(w) \/ WorkerDies(w)
           \/ \E t \in Targets : MissTarget(w, t)
    PROVE  SlotsGoOn
<1> DEFINE s == slot[w]
<1>1. s \in SlotType /\ SlotWorks(s) /\ SlotsTyped
  BY SlotHolds DEF Inv, SlotsInv
<1>2. CASE SaveSuccess(w) \/ SaveFailure(w) \/ SaveFailureFails(w) \/ WorkerDies(w)
  <2>1. slot' = [slot EXCEPT ![w] = IdleSlot] /\ IdleSlot.step = "none"
    BY <1>2, IdleSlotIs DEF SaveSuccess, SaveFailure, SaveFailureFails, WorkerDies, SlotIs
  <2>2. QED
    BY <2>1, SlotGoesOn
<1>3. CASE ReadTargets(w) \/ ReadTargetsFails(w)
  <2>1. s.step # "none"
    BY <1>3 DEF ReadTargets, ReadTargetsFails
  <2>2. ASSUME NEW targets, slot' = [slot EXCEPT ![w] = [s EXCEPT !.step = "reset", !.targets = targets]]
        PROVE  SlotsGoOn
    <3> DEFINE c == [s EXCEPT !.step = "reset", !.targets = targets]
    <3>1. c.job = s.job
      BY <1>1 DEF SlotType
    <3>2. slot' = [slot EXCEPT ![w] = c]
      BY <2>2
    <3> HIDE DEF c
    <3>3. QED
      BY <2>1, <3>1, <3>2, SlotGoesOn
  <2>3. ASSUME slot' = [slot EXCEPT ![w] = [s EXCEPT !.step = "failEarly"]]
        PROVE  SlotsGoOn
    <3> DEFINE c == [s EXCEPT !.step = "failEarly"]
    <3>1. c.job = s.job
      BY <1>1 DEF SlotType
    <3>2. slot' = [slot EXCEPT ![w] = c]
      BY <2>3
    <3> HIDE DEF c
    <3>3. QED
      BY <2>1, <3>1, <3>2, SlotGoesOn
  <2>4. CASE ReadTargets(w)
    <3> DEFINE r == job[s.job].retries
    <3>1. PICK found \in SUBSET Targets :
             LET targets == IF r = 0 THEN found ELSE progress[r].bad IN
             slot' = [slot EXCEPT ![w] =
                 IF targets \subseteq found
                 THEN [s EXCEPT !.step = "reset", !.targets = targets]
                 ELSE [s EXCEPT !.step = "failEarly"]]
      BY <2>4 DEF ReadTargets
    <3> DEFINE targets == IF r = 0 THEN found ELSE progress[r].bad
    <3>2. CASE targets \subseteq found
      BY <2>2, <3>1, <3>2
    <3>3. CASE ~(targets \subseteq found)
      BY <2>3, <3>1, <3>3
    <3>4. QED
      BY <3>2, <3>3
  <2>5. CASE ReadTargetsFails(w)
    BY <2>3, <2>5 DEF ReadTargetsFails
  <2>6. QED
    BY <1>3, <2>4, <2>5
<1>4. CASE ResetProgress(w)
  <2> DEFINE c == Refilled([s EXCEPT !.step = "work", !.left = s.targets])
  <2>1. s.step = "reset" /\ slot' = [slot EXCEPT ![w] = c]
    BY <1>4 DEF ResetProgress
  <2>2. c.job = s.job
    BY <1>1, <2>1, ResetWorks
  <2> HIDE DEF c
  <2>3. QED
    BY <2>1, <2>2, SlotGoesOn
<1>5. CASE SaveProgress(w)
  <2> DEFINE c == Refilled([s EXCEPT !.writes = Tail(s.writes)])
  <2>1. s.writes # <<>> /\ slot' = [slot EXCEPT ![w] = c]
    BY <1>5 DEF SaveProgress
  <2>2. s.step = "work" /\ c.job = s.job
    BY <1>1, <2>1, SavedWorks
  <2> HIDE DEF c
  <2>3. QED
    BY <2>1, <2>2, SlotGoesOn
<1>6. ASSUME NEW t \in Targets, StoreTarget(w, t) PROVE SlotsGoOn
  <2>1. t \in s.reading /\ slot' = [slot EXCEPT ![w] = Stored(s, t)]
    BY <1>6 DEF StoreTarget
  <2>2. s.step = "work" /\ Stored(s, t).job = s.job
    BY <1>1, <2>1, StoredWorks
  <2>3. QED
    BY <2>1, <2>2, SlotGoesOn
<1>7. ASSUME NEW t \in Targets, MissTarget(w, t) PROVE SlotsGoOn
  <2>1. t \in s.reading /\ slot' = [slot EXCEPT ![w] = Missed(s, t)]
    BY <1>7 DEF MissTarget
  <2>2. s.step = "work" /\ Missed(s, t).job = s.job
    BY <1>1, <2>1, MissedWorks
  <2>3. QED
    BY <2>1, <2>2, SlotGoesOn
<1>8. CASE SaveProgressFails(w)
  <2> DEFINE c == [s EXCEPT !.step = "fail", !.left = {}, !.reading = {}, !.writes = <<>>]
  <2>1. slot' = [slot EXCEPT ![w] = c]
    BY <1>1, <1>8 DEF SaveProgressFails, SlotsTyped
  <2>2. c.job = s.job
    BY <1>1, FailedSlotIs DEF SlotIs
  <2>3. s.step # "none"
    BY <1>1, <1>8 DEF SaveProgressFails, SlotWorks
  <2> HIDE DEF c
  <2>4. QED
    BY <2>1, <2>2, <2>3, SlotGoesOn
<1>9. CASE SaveSuccessFails(w)
  <2> DEFINE c == [s EXCEPT !.step = "fail"]
  <2>1. slot' = [slot EXCEPT ![w] = c] /\ s.step # "none"
    BY <1>9 DEF SaveSuccessFails, WorkDone
  <2>2. c.job = s.job
    BY <1>1 DEF SlotType
  <2> HIDE DEF c
  <2>3. QED
    BY <2>1, <2>2, SlotGoesOn
<1>10. QED
  BY <1>2, <1>3, <1>4, <1>5, <1>6, <1>7, <1>8, <1>9 DEF Work

LEMMA SlotsStartedStep ==
    ASSUME LedgerInv, [Next]_vars
    PROVE  SlotsStarted'
<1>1. Inv /\ SlotsStarted
  BY DEF LedgerInv
<1>2. \A j \in Jobs :
         \/ job'[j].state = job[j].state
         \/ job[j].state = "none"
         \/ job'[j].state \in {"running", "succeeded", "failed"}
  BY <1>1, NextRefines, EachJob
<1>3. ASSUME SlotsGoOn PROVE SlotsStarted'
  <2> SUFFICES ASSUME NEW w \in Workers, slot'[w].step # "none"
               PROVE  job'[slot'[w].job].state # "queued"
    BY DEF SlotsStarted
  <2>1. slot[w].step # "none" /\ slot'[w].job = slot[w].job
    BY <1>3 DEF SlotsGoOn
  <2>2. slot[w].job \in Jobs /\ job[slot[w].job].state # "none" /\ job[slot[w].job].state # "queued"
    BY <1>1, <2>1, AttemptHolds DEF SlotsStarted
  <2>3. QED
    BY <1>2, <2>1, <2>2
<1>4. ASSUME NEW w \in Workers,
             \/ Work(w) \/ ReadTargetsFails(w) \/ SaveProgressFails(w)
             \/ SaveSuccessFails(w) \/ SaveFailureFails(w) \/ WorkerDies(w)
             \/ \E t \in Targets : MissTarget(w, t)
      PROVE  SlotsStarted'
  BY <1>1, <1>3, <1>4, WorkGoesOn
<1>5. ASSUME NEW j \in Jobs, NEW w \in Workers, MarkRunning(w, j) PROVE SlotsStarted'
  <2>1. CASE Active(j)
    <3> DEFINE c == [IdleSlot EXCEPT !.step = "categories", !.job = j]
    <3>1. slot' = [slot EXCEPT ![w] = c] /\ job' = [job EXCEPT ![j] = [job[j] EXCEPT !.state = "running"]]
      BY <1>5, <2>1 DEF MarkRunning
    <3>2. c.job = j
      BY StartedSlotIs DEF SlotIs
    <3> HIDE DEF c
    <3>3. \A v \in Workers : slot'[v] = IF v = w THEN c ELSE slot[v]
      BY <1>1, <3>1 DEF Inv, SlotsInv, SlotsTyped
    <3>4. job'[j].state = "running"
      BY <1>1, <3>1 DEF Inv, JobsInv, JobsTyped, JobType
    <3>5. ASSUME NEW v \in Workers, v # w, slot'[v].step # "none"
          PROVE  job'[slot'[v].job].state # "queued"
      <4>1. slot[v].job \in Jobs /\ job[slot[v].job].state # "none" /\ job[slot[v].job].state # "queued"
        BY <1>1, <3>3, <3>5, AttemptHolds DEF SlotsStarted
      <4>2. QED
        BY <1>2, <3>3, <3>5, <4>1
    <3>6. QED
      BY <3>2, <3>3, <3>4, <3>5 DEF SlotsStarted
  <2>2. CASE ~Active(j)
    <3>1. UNCHANGED slot
      BY <1>5, <2>2 DEF MarkRunning
    <3>2. QED
      BY <1>3, <3>1 DEF SlotsGoOn
  <2>3. QED
    BY <2>1, <2>2
<1>6. CASE UNCHANGED slot
  BY <1>3, <1>6 DEF SlotsGoOn
<1>7. QED
  BY <1>4, <1>5, <1>6
  DEF Next, vars, workVars, ListSyncJobs, WindowTurns, SnapshotExpires, StartRefresh, ClaimRefresh,
      Launch, AddJob, FailLaunch, AddFails, StarterDies, Wake, Schedule, ListStores, StartScheduled,
      Prune, ScheduleFails, ClaimFails, LoseLock, JobLapses, RecordQueueFailure, RecordFails, Stall,
      StrayStores, StrayEnds, MarkRunningFails

LEMMA LedgerInvStep == LedgerInv /\ [Next]_vars => LedgerInv'
<1> SUFFICES ASSUME LedgerInv, [Next]_vars PROVE LedgerInv'
  OBVIOUS
<1>1. Inv /\ OneActive
  BY DEF LedgerInv
<1>2. Inv' /\ SlotsStarted'
  BY <1>1, InvStep, SlotsStartedStep
<1>3. \A j \in Jobs :
         \/ job'[j].state = job[j].state
         \/ /\ job[j].state = "none" /\ job'[j].state = "queued"
            /\ \A k \in Jobs \ {j} : job'[k].state \notin {"queued", "running"}
         \/ Active(j) /\ job'[j].state \in {"running", "succeeded", "failed"}
  BY <1>1, NextRefines, EachJob
<1>4. OneActive'
  BY <1>1, <1>3 DEF OneActive, Active
<1>5. QED
  BY <1>2, <1>4 DEF LedgerInv

LEMMA InitLedgerInv == Init => LedgerInv
<1>1. Init => OneActive /\ SlotsStarted
  BY DEF Init, NoJob, IdleSlot, OneActive, SlotsStarted, Active
<1>2. QED
  BY <1>1, InitInv DEF LedgerInv

\* The refreshes of a store, claimed by administrators, retries and schedulers,
\* are one sequence of jobs: one active at a time, successful only after a worker
\* started it, and final in its end, whatever lanes, attempts and recorded
\* failures of earlier ones are still under way.
THEOREM ContractImplemented == Spec => JobsKeepContract
<1>1. Init => Ledger!Init
  BY DEF Init, NoJob, Ledger!Init, Ledger!Jobs, Jobs
<1>2. LedgerInv /\ [Next]_vars => [Ledger!Next]_([j \in Jobs |-> job[j].state])
  BY NextRefines DEF Rows
<1>3. QED
  BY <1>1, <1>2, InitLedgerInv, LedgerInvStep, PTL DEF Spec, JobsKeepContract, Ledger!Spec

\* Of the jobs of the contract, the active one stays the newest.
LEMMA NewestStays ==
    ASSUME Inv, Ledger!NewestIsActive, [Ledger!Next]_Rows
    PROVE  Ledger!NewestIsActive'
<1>1. ASSUME NEW k \in Jobs, Ledger!Claim(k) PROVE Ledger!NewestIsActive'
  <2>1. \A j \in Jobs : /\ j > k => Rows'[j] = "none"
                        /\ j # k => Rows'[j] \notin {"queued", "running"}
    BY <1>1, Bounds DEF Rows, Ledger!Claim, Ledger!Jobs, Ledger!Active, Jobs
  <2>2. QED
    BY <2>1 DEF Rows, Ledger!NewestIsActive, Ledger!Jobs, Ledger!Active, Jobs
<1>2. ASSUME NEW k \in Jobs, Ledger!Start(k) \/ Ledger!Succeed(k) \/ Ledger!Fail(k)
      PROVE  Ledger!NewestIsActive'
  <2>1. PICK state \in {"running", "succeeded", "failed"} :
           Rows[k] \in {"queued", "running"} /\ Rows' = [Rows EXCEPT ![k] = state]
    BY <1>2 DEF Ledger!Start, Ledger!Succeed, Ledger!Fail, Ledger!Active, Rows
  <2>2. \A j \in Jobs : Rows'[j] = IF j = k THEN state ELSE Rows[j]
    BY <2>1 DEF Rows
  <2>3. QED
    BY <2>1, <2>2 DEF Ledger!NewestIsActive, Ledger!Jobs, Ledger!Active, Jobs, Rows
<1>3. CASE Rows' = Rows
  BY <1>3 DEF Ledger!NewestIsActive, Rows
<1>4. QED
  BY <1>1, <1>2, <1>3 DEF Ledger!Next, Ledger!Jobs, Jobs

\* A step of the contract leaves the jobs that have ended alone.
LEMMA EndStays ==
    ASSUME Inv, [Ledger!Next]_Rows
    PROVE  Ledger!EndsStay
<1>1. ASSUME NEW k \in Jobs, Ledger!Claim(k), NEW j \in Jobs, Rows[j] \in {"succeeded", "failed"}
      PROVE  Rows'[j] = Rows[j]
  <2>1. j # k
    BY <1>1, Bounds DEF Rows, Ledger!Claim, Ledger!Jobs, Jobs
  <2>2. QED
    BY <1>1, <2>1 DEF Rows, Ledger!Claim, Ledger!Jobs, Ledger!Active, Jobs
<1>2. ASSUME NEW k \in Jobs, Ledger!Start(k) \/ Ledger!Succeed(k) \/ Ledger!Fail(k),
             NEW j \in Jobs, Rows[j] \in {"succeeded", "failed"}
      PROVE  Rows'[j] = Rows[j]
  BY <1>2 DEF Rows, Ledger!Start, Ledger!Succeed, Ledger!Fail, Ledger!Active
<1>3. QED
  BY <1>1, <1>2 DEF Ledger!EndsStay, Ledger!Next, Ledger!Jobs, Ledger!Ended, Jobs, Rows

\* So whoever reads the table may rely on it: the active job of a store is its
\* newest one, and a job that was seen to end keeps its result for good.
THEOREM ReadersMayRely == Spec => []Ledger!NewestIsActive /\ Ledger!EndIsFinal
<1>1. Init => LedgerInv
  BY InitLedgerInv
<1>2. Init => Ledger!NewestIsActive
  BY DEF Init, NoJob, Ledger!NewestIsActive, Ledger!Jobs, Ledger!Active, Jobs
<1>3. LedgerInv /\ Ledger!NewestIsActive /\ [Next]_vars => Ledger!NewestIsActive'
  BY NextRefines, NewestStays DEF LedgerInv
<1>4. LedgerInv /\ [Next]_vars => [Ledger!EndsStay]_Rows
  BY NextRefines, EndStays DEF LedgerInv
<1>5. LedgerInv /\ [Next]_vars => [Ledger!EndsStay]_([j \in Jobs |-> job[j].state])
  BY <1>4 DEF Rows
<1>6. QED
  BY <1>1, <1>2, <1>3, <1>5, LedgerInvStep, PTL DEF Spec, Ledger!EndIsFinal
=============================================================================
