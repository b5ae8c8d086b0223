---------------------------- MODULE AiTitleProofs ----------------------------
(***************************************************************************)
(* The three invariants of AiTitle, for every finite set of keys and all   *)
(* bounds.                                                                 *)
(*                                                                         *)
(* SlotsAreUsed is inductive: a slot is counted when a run becomes a       *)
(* holder, and a run that gives its slot up either uncounts it or makes    *)
(* the first run of the queue a holder in its place.  The types need it,   *)
(* for the counter to stay a natural number.                               *)
(*                                                                         *)
(* CacheIsCurrent.  A run whose epoch is still the current one began after *)
(* the last clearing, so that the settings it has read since are at least  *)
(* as new as those that were applied then (RunsAreCurrent).                *)
(***************************************************************************)
EXTENDS AiTitle, FiniteSetTheorems, SequenceTheorems, TLAPS

\* The cache keeps its type: an entry is changed, dropped, moved or added.
LEMMA EntryTyped ==
    ASSUME cache \in Seq(EntryType), NEW i \in DOMAIN cache
    PROVE  /\ cache[i] \in EntryType
           /\ [cache EXCEPT ![i].fresh = FALSE] \in Seq(EntryType)
           /\ Len([cache EXCEPT ![i].fresh = FALSE]) = Len(cache)
<1> DEFINE e == [cache[i] EXCEPT !.fresh = FALSE]
<1>1. i \in 1..Len(cache) /\ cache[i] \in EntryType
  OBVIOUS
<1>2. e \in EntryType
  BY <1>1 DEF EntryType
<1> HIDE DEF e
<1>3. [cache EXCEPT ![i] = e] \in Seq(EntryType) /\ Len([cache EXCEPT ![i] = e]) = Len(cache)
  BY <1>1, <1>2, ExceptSeq
<1>4. QED
  BY <1>1, <1>3, Zenon DEF e

LEMMA WithoutTyped ==
    ASSUME cache \in Seq(EntryType), NEW i \in DOMAIN cache
    PROVE  Without(i) \in Seq(EntryType) /\ Len(Without(i)) = Len(cache) - 1
  BY DEF Without

LEMMA StoredTyped ==
    ASSUME TypeOK, NEW k \in Keys
    PROVE  Stored(k) \in Seq(EntryType) /\ Len(Stored(k)) <= MaxEntries
<1> DEFINE e == [key |-> k, made |-> run[k].made, fresh |-> TRUE]
           kept == IF Len(cache) < MaxEntries THEN cache ELSE Tail(cache)
<1>1. e \in EntryType
  BY DEF TypeOK, EntryType, RunType
<1>2. MaxEntries \in Nat \ {0}
  BY BoundsAssumption
<1>3. kept \in Seq(EntryType) /\ Len(kept) < MaxEntries
  BY <1>2 DEF TypeOK
<1>4. Stored(k) = Append(kept, e)
  BY DEF Stored
<1> HIDE DEF e, kept
<1>5. QED
  BY <1>1, <1>2, <1>3, <1>4

\* A run's record is changed in one place.
LEMMA RunTo ==
    ASSUME TypeOK, NEW k \in Keys, NEW r \in RunType, run' = [run EXCEPT ![k] = r]
    PROVE  run' \in [Keys -> RunType]
  BY DEF TypeOK

LEMMA StepTo ==
    ASSUME TypeOK, NEW k \in Keys, NEW step \in Steps
    PROVE  [run EXCEPT ![k].step = step] \in [Keys -> RunType]
  BY DEF TypeOK, RunType

LEMMA NoRunTyped == NoRun \in RunType
  BY BoundsAssumption DEF NoRun, RunType, Steps

LEMMA EndsTyped ==
    ASSUME NEW k \in Keys, NEW runs \in [Keys -> RunType], Ends(k, runs)
    PROVE  run' \in [Keys -> RunType]
  BY NoRunTyped DEF Ends
-----------------------------------------------------------------------------
(* The slots and the queue                                                 *)

\* The runs that wait are those in the queue, each once.
QueueIsQueued ==
    /\ \A i, j \in DOMAIN aiQueue : aiQueue[i] = aiQueue[j] => i = j
    /\ \A k \in Keys : run[k].step = "queued" <=> \E i \in DOMAIN aiQueue : aiQueue[i] = k

LEMMA SlotsParts ==
    /\ SlotsAreUsed <=> /\ inflight = Cardinality(Holders)
                        /\ inflight <= MaxConcurrent
                        /\ aiQueue # <<>> => inflight = MaxConcurrent
                        /\ QueueIsQueued
    /\ SlotsAreUsed' <=> /\ inflight' = Cardinality(Holders')
                         /\ inflight' <= MaxConcurrent
                         /\ aiQueue' # <<>> => inflight' = MaxConcurrent
                         /\ QueueIsQueued'
  BY DEF SlotsAreUsed, QueueIsQueued

LEMMA HoldersFinite == IsFiniteSet(Holders) /\ Cardinality(Holders) \in Nat
<1>1. Holders \subseteq Keys
  BY DEF Holders
<1>2. QED
  BY <1>1, KeysAssumption, FS_Subset, FS_CardinalityType

\* A step that neither takes nor gives back a slot or a place in the queue.
LEMMA SlotsUntouched ==
    ASSUME SlotsAreUsed, UNCHANGED slotVars, Holders' = Holders,
           \A k \in Keys : run'[k].step = "queued" <=> run[k].step = "queued"
    PROVE  SlotsAreUsed'
<1>1. QueueIsQueued'
  BY SlotsParts DEF QueueIsQueued, slotVars
<1>2. QED
  BY <1>1, SlotsParts DEF slotVars

\* One run takes a step between states that hold nothing, or that both hold a
\* slot.
LEMMA StepAlone ==
    ASSUME TypeOK, SlotsAreUsed, UNCHANGED slotVars, NEW k \in Keys, NEW r \in RunType,
           run' = [run EXCEPT ![k] = r],
           "queued" \notin {run[k].step, r.step},
           run[k].step \in {"image", "provider", "body"} <=> r.step \in {"image", "provider", "body"}
    PROVE  SlotsAreUsed'
<1>1. \A x \in Keys : run'[x] = IF x = k THEN r ELSE run[x]
  BY DEF TypeOK
<1>2. Holders' = Holders
  BY <1>1 DEF Holders
<1>3. \A x \in Keys : run'[x].step = "queued" <=> run[x].step = "queued"
  BY <1>1
<1>4. QED
  BY <1>2, <1>3, SlotsUntouched

\* A free slot is taken; nobody waits for it.
LEMMA TakeSlotStep ==
    ASSUME TypeOK, SlotsAreUsed, NEW k \in Keys, TakeSlot(k)
    PROVE  SlotsAreUsed'
<1>1. \A x \in Keys : run'[x].step = IF x = k THEN "image" ELSE run[x].step
  BY DEF TakeSlot, TypeOK, RunType
<1>2. k \notin Holders /\ Holders' = Holders \cup {k}
  BY <1>1 DEF TakeSlot, Holders
<1>3. Cardinality(Holders') = inflight + 1
  BY <1>2, HoldersFinite, FS_AddElement, SlotsParts
<1>4. aiQueue' = <<>> /\ aiQueue = <<>>
  BY SlotsParts, BoundsAssumption DEF TakeSlot, TypeOK
<1>5. inflight' = inflight + 1 /\ inflight + 1 <= MaxConcurrent
  BY BoundsAssumption DEF TakeSlot, TypeOK
<1>6. QueueIsQueued'
  BY <1>1, <1>4, SlotsParts DEF QueueIsQueued, TakeSlot
<1>7. QED
  BY <1>3, <1>4, <1>5, <1>6, SlotsParts

\* All slots are taken; the run becomes the last in the queue.
LEMMA EnqueueStep ==
    ASSUME TypeOK, SlotsAreUsed, NEW k \in Keys, Enqueue(k)
    PROVE  SlotsAreUsed'
<1>1. \A x \in Keys : run'[x].step = IF x = k THEN "queued" ELSE run[x].step
  BY DEF Enqueue, TypeOK, RunType
<1>2. Holders' = Holders
  BY <1>1 DEF Enqueue, Holders
<1>3. inflight' = inflight /\ inflight = MaxConcurrent
  BY SlotsParts, BoundsAssumption DEF Enqueue, TypeOK
<1>4. /\ aiQueue \in Seq(Keys) /\ aiQueue' = Append(aiQueue, k)
      /\ Len(aiQueue) \in Nat /\ DOMAIN aiQueue = 1..Len(aiQueue)
  BY DEF Enqueue, TypeOK
<1>5. DOMAIN aiQueue' = 1..(Len(aiQueue) + 1)
  BY <1>4
<1>6. \A i \in DOMAIN aiQueue' : aiQueue'[i] = IF i = Len(aiQueue) + 1 THEN k ELSE aiQueue[i]
  BY <1>4, <1>5
<1>7. \A i \in DOMAIN aiQueue : aiQueue[i] # k
  BY SlotsParts DEF QueueIsQueued, Enqueue
<1>8. \A i, j \in DOMAIN aiQueue' : aiQueue'[i] = aiQueue'[j] => i = j
  BY <1>4, <1>5, <1>6, <1>7, SlotsParts DEF QueueIsQueued
<1>9. \A x \in Keys : run'[x].step = "queued" <=> \E i \in DOMAIN aiQueue' : aiQueue'[i] = x
  <2> SUFFICES ASSUME NEW x \in Keys
               PROVE  run'[x].step = "queued" <=> \E i \in DOMAIN aiQueue' : aiQueue'[i] = x
    OBVIOUS
  <2>1. CASE x = k
    <3>1. Len(aiQueue) + 1 \in DOMAIN aiQueue'
      BY <1>4, <1>5
    <3>2. QED
      BY <2>1, <3>1, <1>1, <1>6
  <2>2. CASE x # k
    <3>1. (\E i \in DOMAIN aiQueue' : aiQueue'[i] = x) <=> \E i \in DOMAIN aiQueue : aiQueue[i] = x
      BY <2>2, <1>4, <1>5, <1>6
    <3>2. QED
      BY <2>2, <3>1, <1>1, SlotsParts DEF QueueIsQueued
  <2>3. QED
    BY <2>1, <2>2
<1>10. QED
  BY <1>2, <1>3, <1>8, <1>9, SlotsParts DEF QueueIsQueued

\* The run that held a slot and the first of the queue, to whom it goes.
LEMMA ReleaseStep ==
    ASSUME TypeOK, SlotsAreUsed, NEW k \in Keys, k \in Holders, Release(k)
    PROVE  /\ SlotsAreUsed'
           /\ run' \in [Keys -> RunType]
           /\ inflight' \in Nat
           /\ aiQueue' \in Seq(Keys) /\ Len(aiQueue') <= MaxQueue
<1> USE DEF TypeOK
<1>0. inflight \in Nat /\ inflight # 0
  BY HoldersFinite, FS_EmptySet, SlotsParts
<1>1. CASE /\ aiQueue = <<>>
           /\ inflight' = inflight - 1
           /\ UNCHANGED aiQueue
           /\ Ends(k, run)
  <2>1. \A x \in Keys : run'[x] = IF x = k THEN NoRun ELSE run[x]
    BY <1>1 DEF Ends
  <2>2. Holders' = Holders \ {k}
    BY <2>1 DEF Holders, NoRun
  <2>3. Cardinality(Holders') = inflight - 1
    BY <2>2, HoldersFinite, FS_RemoveElement, SlotsParts
  <2>4. QueueIsQueued'
    BY <1>1, <2>1, SlotsParts DEF QueueIsQueued, NoRun
  <2>5. inflight - 1 \in Nat /\ inflight - 1 <= MaxConcurrent
    BY <1>0, SlotsParts, BoundsAssumption
  <2>6. run' \in [Keys -> RunType]
    BY <1>1, EndsTyped
  <2>7. QED
    BY <1>1, <2>3, <2>4, <2>5, <2>6, SlotsParts
<1>2. CASE /\ aiQueue # <<>>
           /\ inflight' = HandedOn
           /\ aiQueue' = Tail(aiQueue)
           /\ Ends(k, [run EXCEPT ![Head(aiQueue)].step = "image"])
  <2> DEFINE h == Head(aiQueue)
             runs == [run EXCEPT ![h].step = "image"]
  <2>1. /\ aiQueue \in Seq(Keys) /\ Len(aiQueue) \in Nat \ {0}
        /\ h \in Keys /\ 1 \in DOMAIN aiQueue /\ h = aiQueue[1]
    BY <1>2
  <2>2. /\ aiQueue' \in Seq(Keys)
        /\ DOMAIN aiQueue' = 1..(Len(aiQueue) - 1) /\ Len(aiQueue') = Len(aiQueue) - 1
        /\ \A i \in DOMAIN aiQueue' : aiQueue'[i] = aiQueue[i + 1]
    BY <1>2, <2>1, HeadTailProperties
  <2>3. run[h].step = "queued" /\ h # k
    BY <2>1, SlotsParts DEF QueueIsQueued, Holders
  <2>4. runs \in [Keys -> RunType] /\ Ends(k, runs)
    BY <1>2, <2>1, StepTo DEF Steps
  <2>5. \A x \in Keys : run'[x].step = IF x = k THEN "none"
                                       ELSE IF x = h THEN "image" ELSE run[x].step
    BY <2>1, <2>4 DEF Ends, NoRun, RunType
  <2>6. inflight' = inflight
    BY <1>0, <1>2 DEF HandedOn
  <2>7. Holders' = (Holders \ {k}) \cup {h} /\ h \notin Holders
    BY <2>1, <2>3, <2>5 DEF Holders
  <2>8. Cardinality(Holders') = inflight
    <3>1. IsFiniteSet(Holders \ {k}) /\ Cardinality(Holders \ {k}) = inflight - 1
      BY HoldersFinite, FS_RemoveElement, SlotsParts
    <3>2. h \notin Holders \ {k}
      BY <2>7
    <3>3. Cardinality(Holders') = (inflight - 1) + 1
      BY <2>7, <3>1, <3>2, FS_AddElement
    <3>4. QED
      BY <1>0, <3>3
  <2>9. \A i, j \in DOMAIN aiQueue' : aiQueue'[i] = aiQueue'[j] => i = j
    <3> SUFFICES ASSUME NEW i \in DOMAIN aiQueue', NEW j \in DOMAIN aiQueue',
                        aiQueue'[i] = aiQueue'[j]
                 PROVE  i = j
      OBVIOUS
    <3>1. i \in Nat /\ j \in Nat /\ i + 1 \in DOMAIN aiQueue /\ j + 1 \in DOMAIN aiQueue
      BY <2>1, <2>2
    <3>2. aiQueue[i + 1] = aiQueue[j + 1]
      BY <2>2
    <3>3. i + 1 = j + 1
      BY <3>1, <3>2, SlotsParts DEF QueueIsQueued
    <3>4. QED
      BY <3>1, <3>3
  <2>10. \A x \in Keys : run'[x].step = "queued" <=> \E i \in DOMAIN aiQueue' : aiQueue'[i] = x
    <3> SUFFICES ASSUME NEW x \in Keys
                 PROVE  run'[x].step = "queued" <=> \E i \in DOMAIN aiQueue' : aiQueue'[i] = x
      OBVIOUS
    <3>1. run'[x].step = "queued" <=> x # h /\ run[x].step = "queued"
      BY <2>3, <2>5 DEF Holders
    <3>2. run[x].step = "queued" <=> \E i \in DOMAIN aiQueue : aiQueue[i] = x
      BY SlotsParts DEF QueueIsQueued
    <3>3. (\E i \in DOMAIN aiQueue' : aiQueue'[i] = x) =>
              x # h /\ \E i \in DOMAIN aiQueue : aiQueue[i] = x
      <4> SUFFICES ASSUME NEW i \in DOMAIN aiQueue', aiQueue'[i] = x
                   PROVE  x # h /\ \E n \in DOMAIN aiQueue : aiQueue[n] = x
        OBVIOUS
      <4>1. i \in Nat \ {0} /\ i + 1 \in DOMAIN aiQueue /\ aiQueue[i + 1] = x
        BY <2>1, <2>2
      <4>2. x = h => i + 1 = 1
        BY <2>1, <4>1, SlotsParts DEF QueueIsQueued
      <4>3. QED
        BY <4>1, <4>2
    <3>4. x # h /\ (\E i \in DOMAIN aiQueue : aiQueue[i] = x) =>
              \E i \in DOMAIN aiQueue' : aiQueue'[i] = x
      <4> SUFFICES ASSUME NEW i \in DOMAIN aiQueue, aiQueue[i] = x, x # h
                   PROVE  \E n \in DOMAIN aiQueue' : aiQueue'[n] = x
        OBVIOUS
      <4>1. i \in 1..Len(aiQueue) /\ i # 1
        BY <2>1
      <4>2. i - 1 \in DOMAIN aiQueue' /\ (i - 1) + 1 = i
        BY <2>1, <2>2, <4>1
      <4>3. aiQueue'[i - 1] = x
        BY <2>2, <4>2
      <4>4. QED
        BY <4>2, <4>3
    <3>5. QED
      BY <3>1, <3>2, <3>3, <3>4
  <2>11. Len(aiQueue') <= MaxQueue
    BY <2>1, <2>2, BoundsAssumption
  <2>12. inflight = MaxConcurrent
    BY <1>2, SlotsParts
  <2>13. SlotsAreUsed'
    BY <2>6, <2>8, <2>9, <2>10, <2>12, SlotsParts DEF QueueIsQueued
  <2>14. run' \in [Keys -> RunType]
    BY <2>4, EndsTyped
  <2>15. QED
    BY <1>0, <2>2, <2>6, <2>11, <2>13, <2>14
<1>3. QED
  BY <1>1, <1>2 DEF Release

-----------------------------------------------------------------------------
(* Every step keeps the types and the slots                                *)

\* The parts of the type that most steps leave alone.
SaveType  == /\ settings \in 0..MaxSaves /\ saving \subseteq 1..MaxSaves
             /\ applied \in 0..MaxSaves /\ cacheEpoch \in Nat
CacheType == cache \in Seq(EntryType) /\ Len(cache) <= MaxEntries
SlotType  == inflight \in Nat /\ aiQueue \in Seq(Keys) /\ Len(aiQueue) <= MaxQueue

LEMMA TypeParts ==
    /\ TypeOK <=> SaveType /\ CacheType /\ run \in [Keys -> RunType] /\ SlotType
    /\ TypeOK' <=> SaveType' /\ CacheType' /\ run' \in [Keys -> RunType] /\ SlotType'
  BY DEF TypeOK, SaveType, CacheType, SlotType

LEMMA UntouchedTypes ==
    TypeOK => /\ UNCHANGED saveVars => SaveType'
              /\ UNCHANGED cache => CacheType'
              /\ UNCHANGED run => run' \in [Keys -> RunType]
              /\ UNCHANGED slotVars => SlotType'
  BY DEF TypeOK, SaveType, CacheType, SlotType, saveVars, slotVars

\* A step that leaves runs and slots alone leaves SlotsAreUsed alone.
LEMMA RunsUntouched ==
    ASSUME SlotsAreUsed, UNCHANGED <<run, slotVars>>
    PROVE  SlotsAreUsed'
<1>1. Holders' = Holders
  BY DEF Holders
<1>2. QED
  BY <1>1, SlotsUntouched

\* One run moves on, without slot and queue: the cache is not touched.
LEMMA RunMoves ==
    ASSUME TypeOK, SlotsAreUsed, UNCHANGED <<saveVars, cache, slotVars>>,
           NEW k \in Keys, NEW r \in RunType, run' = [run EXCEPT ![k] = r],
           "queued" \notin {run[k].step, r.step},
           run[k].step \in {"image", "provider", "body"} <=> r.step \in {"image", "provider", "body"}
    PROVE  TypeOK' /\ SlotsAreUsed'
<1>1. TypeOK'
  BY RunTo, UntouchedTypes, TypeParts
<1>2. SlotsAreUsed'
  BY StepAlone
<1>3. QED
  BY <1>1, <1>2

LEMMA InitSlots == Init => TypeOK /\ SlotsAreUsed
<1> SUFFICES ASSUME Init PROVE TypeOK /\ SlotsAreUsed
  OBVIOUS
<1>1. TypeOK
  BY NoRunTyped, BoundsAssumption, EmptySeq DEF Init, TypeOK
<1>2. Holders = {}
  BY DEF Init, Holders, NoRun
<1>3. inflight = Cardinality(Holders) /\ inflight <= MaxConcurrent
  BY <1>2, FS_EmptySet, BoundsAssumption DEF Init
<1>4. QueueIsQueued
  BY DEF Init, QueueIsQueued, NoRun
<1>5. SlotsAreUsed
  BY <1>3, <1>4, SlotsParts DEF Init
<1>6. QED
  BY <1>1, <1>5

LEMMA SlotsStep == TypeOK /\ SlotsAreUsed /\ [Next]_vars => TypeOK' /\ SlotsAreUsed'
<1> SUFFICES ASSUME TypeOK, SlotsAreUsed, [Next]_vars
             PROVE  TypeOK' /\ SlotsAreUsed'
  OBVIOUS
<1>r. \A k \in Keys : run[k] \in RunType
  BY DEF TypeOK
<1>1. ASSUME NEW i \in 1..MaxEntries, EntryExpires(i) PROVE TypeOK' /\ SlotsAreUsed'
  <2>1. CacheType'
    BY <1>1, EntryTyped DEF EntryExpires, CacheType, TypeOK
  <2>2. QED
    BY <1>1, <2>1, UntouchedTypes, TypeParts, RunsUntouched DEF EntryExpires
<1>2. ASSUME NEW k \in Keys, CacheHit(k) PROVE TypeOK' /\ SlotsAreUsed'
  <2>1. PICK i \in DOMAIN cache : cache' = Append(Without(i), cache[i])
    BY <1>2 DEF CacheHit, Places
  <2>2. CacheType'
    BY <2>1, EntryTyped, WithoutTyped DEF CacheType, TypeOK
  <2>3. QED
    BY <1>2, <2>2, UntouchedTypes, TypeParts, RunsUntouched DEF CacheHit
<1>3. ASSUME NEW k \in Keys, Suggest(k) PROVE TypeOK' /\ SlotsAreUsed'
  <2> DEFINE r == [step |-> "settings", epoch |-> cacheEpoch, made |-> 0]
  <2>1. r \in RunType
    BY BoundsAssumption DEF RunType, Steps, TypeOK
  <2>2. CacheType'
    <3>1. CASE UNCHANGED cache
      BY <3>1, UntouchedTypes
    <3>2. CASE \E i \in Places(k) : cache' = Without(i)
      <4>1. PICK i \in DOMAIN cache : cache' = Without(i)
        BY <3>2 DEF Places
      <4>2. Without(i) \in Seq(EntryType) /\ Len(Without(i)) <= MaxEntries
        BY WithoutTyped, BoundsAssumption DEF TypeOK
      <4>3. QED
        BY <4>1, <4>2 DEF CacheType
    <3>3. QED
      BY <1>3, <3>1, <3>2 DEF Suggest
  <2>3. SlotsAreUsed'
    BY <1>3, <2>1, StepAlone DEF Suggest
  <2>4. QED
    BY <1>3, <2>1, <2>2, <2>3, RunTo, UntouchedTypes, TypeParts DEF Suggest
<1>4. ASSUME NEW k \in Keys, ReadSettings(k) PROVE TypeOK' /\ SlotsAreUsed'
  <2> DEFINE r == [run[k] EXCEPT !.step = "acquire", !.made = settings]
  <2>1. r \in RunType /\ r.step = "acquire"
    BY <1>r DEF RunType, Steps, TypeOK
  <2>2. run' = [run EXCEPT ![k] = r]
    BY <1>4 DEF ReadSettings
  <2>3. QED
    BY <1>4, <2>1, <2>2, RunMoves DEF ReadSettings
<1>5. ASSUME NEW k \in Keys, Refuse(k) PROVE TypeOK' /\ SlotsAreUsed'
  BY <1>5, NoRunTyped, RunMoves DEF Refuse, Ends, NoRun
<1>6. ASSUME NEW k \in Keys, TakeSlot(k) PROVE TypeOK' /\ SlotsAreUsed'
  <2>1. SlotType'
    BY <1>6 DEF TakeSlot, TypeOK, SlotType
  <2>2. run' \in [Keys -> RunType]
    BY <1>6, StepTo DEF TakeSlot, Steps
  <2>3. QED
    BY <1>6, <2>1, <2>2, UntouchedTypes, TypeParts, TakeSlotStep DEF TakeSlot
<1>7. ASSUME NEW k \in Keys, Enqueue(k) PROVE TypeOK' /\ SlotsAreUsed'
  <2>1. SlotType'
    BY <1>7, BoundsAssumption DEF Enqueue, TypeOK, SlotType
  <2>2. run' \in [Keys -> RunType]
    BY <1>7, StepTo DEF Enqueue, Steps
  <2>3. QED
    BY <1>7, <2>1, <2>2, UntouchedTypes, TypeParts, EnqueueStep DEF Enqueue
<1>8. ASSUME NEW k \in Keys, Busy(k) PROVE TypeOK' /\ SlotsAreUsed'
  BY <1>8, NoRunTyped, RunMoves DEF Busy, Ends, NoRun
<1>9. ASSUME NEW k \in Keys, ReadImage(k) PROVE TypeOK' /\ SlotsAreUsed'
  <2> DEFINE r == [run[k] EXCEPT !.step = "provider"]
  <2>1. r \in RunType /\ r.step = "provider"
    BY <1>r DEF RunType, Steps
  <2>2. run' = [run EXCEPT ![k] = r]
    BY <1>9 DEF ReadImage
  <2>3. QED
    BY <1>9, <2>1, <2>2, RunMoves DEF ReadImage
<1>10. ASSUME NEW k \in Keys, AnswerBegins(k) PROVE TypeOK' /\ SlotsAreUsed'
  <2> DEFINE r == [run[k] EXCEPT !.step = "body"]
  <2>1. r \in RunType /\ r.step = "body"
    BY <1>r DEF RunType, Steps
  <2>2. run' = [run EXCEPT ![k] = r]
    BY <1>10 DEF AnswerBegins
  <2>3. QED
    BY <1>10, <2>1, <2>2, RunMoves DEF AnswerBegins
<1>11. ASSUME NEW k \in Keys, Answer(k) PROVE TypeOK' /\ SlotsAreUsed'
  <2>1. k \in Holders /\ Release(k)
    BY <1>11 DEF Answer, Holders
  <2>2. CacheType'
    <3>1. CASE SameEpoch(k)
      BY <1>11, <3>1, StoredTyped DEF Answer, CacheType
    <3>2. CASE ~SameEpoch(k)
      BY <1>11, <3>2, UntouchedTypes DEF Answer
    <3>3. QED
      BY <3>1, <3>2
  <2>3. QED
    BY <1>11, <2>1, <2>2, ReleaseStep, UntouchedTypes, TypeParts DEF Answer, SlotType
<1>12. ASSUME NEW k \in Keys, Uncertain(k) \/ Fail(k) PROVE TypeOK' /\ SlotsAreUsed'
  <2>1. k \in Holders /\ Release(k) /\ UNCHANGED <<saveVars, cache>>
    BY <1>12 DEF Uncertain, Fail, Holders
  <2>2. QED
    BY <2>1, ReleaseStep, UntouchedTypes, TypeParts DEF SlotType
<1>13. ASSUME StoreSettings PROVE TypeOK' /\ SlotsAreUsed'
  <2>1. SaveType'
    BY <1>13, BoundsAssumption DEF StoreSettings, SaveType, TypeOK
  <2>2. QED
    BY <1>13, <2>1, UntouchedTypes, TypeParts, RunsUntouched DEF StoreSettings
<1>14. ASSUME NEW v \in 1..MaxSaves, ClearCache(v) PROVE TypeOK' /\ SlotsAreUsed'
  <2>1. SaveType'
    BY <1>14, BoundsAssumption DEF ClearCache, Later, SaveType, TypeOK
  <2>2. CacheType'
    BY <1>14, BoundsAssumption, EmptySeq DEF ClearCache, CacheType
  <2>3. QED
    BY <1>14, <2>1, <2>2, UntouchedTypes, TypeParts, RunsUntouched DEF ClearCache
<1>15. ASSUME NEW v \in 1..MaxSaves, ReadBackFails(v) PROVE TypeOK' /\ SlotsAreUsed'
  <2>1. SaveType'
    BY <1>15 DEF ReadBackFails, SaveType, TypeOK
  <2>2. QED
    BY <1>15, <2>1, UntouchedTypes, TypeParts, RunsUntouched DEF ReadBackFails
<1>16. CASE UNCHANGED vars
  BY <1>16, UntouchedTypes, TypeParts, RunsUntouched DEF vars
<1>17. QED
  BY <1>1, <1>2, <1>3, <1>4, <1>5, <1>6, <1>7, <1>8, <1>9, <1>10, <1>11, <1>12, <1>13,
     <1>14, <1>15, <1>16 DEF Next, Proceed, BodyEnds

\* The state keeps its shape and its bounds: cache and queue never grow past
\* cacheMaxEntries and maxQueue.
THEOREM TypeCorrect == Spec => []TypeOK
<1>1. Spec => [](TypeOK /\ SlotsAreUsed)
  BY InitSlots, SlotsStep, PTL DEF Spec
<1>2. QED
  BY <1>1, PTL

\* Slots are neither lost nor shared nor idle while somebody waits, for any
\* number of keys, slots and places in the queue.
THEOREM SlotsProven == Spec => []SlotsAreUsed
<1>1. Spec => [](TypeOK /\ SlotsAreUsed)
  BY InitSlots, SlotsStep, PTL DEF Spec
<1>2. QED
  BY <1>1, PTL

-----------------------------------------------------------------------------
(* The cache                                                               *)

\* Nothing was begun under an epoch to come.
EpochsArePast == \A k \in Keys : run[k].epoch <= cacheEpoch

\* What was applied, or is being saved, has been stored.
SavesAreStored == applied <= settings /\ \A v \in saving : v <= settings

\* A run that has read its settings, with no clearing since it began, has read
\* settings as new as those that were applied.
RunsAreCurrent ==
    \A k \in Keys :
        run[k].step \notin {"none", "settings"} /\ run[k].epoch = cacheEpoch
            => run[k].made >= applied

CacheInv == EpochsArePast /\ SavesAreStored /\ RunsAreCurrent /\ CacheIsCurrent

LEMMA InitCache == Init => CacheInv
  BY BoundsAssumption
     DEF Init, CacheInv, EpochsArePast, SavesAreStored, RunsAreCurrent, CacheIsCurrent, NoRun

\* Whatever becomes of the runs, if each run is an old one, begins now, or is
\* none, the parts about runs are kept, as long as no settings are applied.
LEMMA RunsStep ==
    ASSUME TypeOK, CacheInv, UNCHANGED saveVars,
           \A k \in Keys :
               \/ run'[k] = NoRun
               \/ /\ run'[k].epoch = run[k].epoch /\ run'[k].made = run[k].made
                  /\ run[k].step \notin {"none", "settings"}
               \/ /\ run'[k].epoch = run[k].epoch /\ run'[k].step = run[k].step
                  /\ run'[k].made = run[k].made
               \/ run'[k].epoch = cacheEpoch /\ run'[k].step = "settings"
               \/ run'[k].epoch = run[k].epoch /\ run'[k].made = settings
    PROVE  EpochsArePast' /\ SavesAreStored' /\ RunsAreCurrent'
<1> USE DEF CacheInv, saveVars
<1>1. EpochsArePast'
  BY DEF EpochsArePast, NoRun, TypeOK, RunType
<1>2. SavesAreStored'
  BY DEF SavesAreStored
<1>3. RunsAreCurrent'
  <2> SUFFICES ASSUME NEW k \in Keys, run'[k].step \notin {"none", "settings"},
                      run'[k].epoch = cacheEpoch
               PROVE  run'[k].made >= applied
    BY DEF RunsAreCurrent
  <2>1. run'[k] # NoRun
    BY DEF NoRun
  <2>2. CASE run'[k].made = settings
    BY <2>2 DEF SavesAreStored, TypeOK
  <2>3. CASE /\ run'[k].epoch = run[k].epoch /\ run'[k].made = run[k].made
             /\ run[k].step \notin {"none", "settings"}
    BY <2>3 DEF RunsAreCurrent
  <2>4. QED
    BY <2>1, <2>2, <2>3
<1>4. QED
  BY <1>1, <1>2, <1>3

\* An entry that is moved, dropped or expires is as current as before.
LEMMA EntriesStep ==
    ASSUME CacheIsCurrent, UNCHANGED applied,
           \A n \in DOMAIN cache' : \E m \in DOMAIN cache : cache'[n].made = cache[m].made
    PROVE  CacheIsCurrent'
  BY DEF CacheIsCurrent

LEMMA WithoutEntries ==
    ASSUME TypeOK, NEW i \in DOMAIN cache
    PROVE  \A n \in DOMAIN Without(i) : \E m \in DOMAIN cache : Without(i)[n] = cache[m]
<1>1. Len(cache) \in Nat /\ DOMAIN cache = 1..Len(cache)
  BY DEF TypeOK
<1>2. DOMAIN Without(i) = 1..(Len(cache) - 1)
  BY DEF Without
<1>3. ASSUME NEW n \in 1..(Len(cache) - 1)
      PROVE  \E m \in DOMAIN cache : Without(i)[n] = cache[m]
  <2>1. n \in DOMAIN cache /\ n + 1 \in DOMAIN cache
    BY <1>1
  <2>2. Without(i)[n] = IF n < i THEN cache[n] ELSE cache[n + 1]
    BY DEF Without
  <2>3. QED
    BY <2>1, <2>2
<1>4. QED
  BY <1>2, <1>3

LEMMA StoredEntries ==
    ASSUME TypeOK, CacheInv, NEW k \in Keys, SameEpoch(k), run[k].step = "body"
    PROVE  \A n \in DOMAIN Stored(k) : Stored(k)[n].made >= applied
<1> DEFINE e == [key |-> k, made |-> run[k].made, fresh |-> TRUE]
           kept == IF Len(cache) < MaxEntries THEN cache ELSE Tail(cache)
<1>1. e.made >= applied
  BY DEF CacheInv, RunsAreCurrent, SameEpoch
<1>2. e \in EntryType
  BY DEF TypeOK, EntryType, RunType
<1>3. MaxEntries \in Nat \ {0} /\ cache \in Seq(EntryType)
  BY BoundsAssumption DEF TypeOK
<1>4. kept \in Seq(EntryType) /\ \A n \in DOMAIN kept : kept[n].made >= applied
  <2>1. CASE kept = cache
    BY <1>3, <2>1 DEF CacheInv, CacheIsCurrent
  <2>2. CASE kept = Tail(cache) /\ cache # <<>>
    <3>1. /\ Tail(cache) \in Seq(EntryType) /\ Len(Tail(cache)) = Len(cache) - 1
          /\ \A n \in 1..Len(Tail(cache)) : Tail(cache)[n] = cache[n + 1]
      BY <1>3, <2>2, HeadTailProperties
    <3>2. \A n \in DOMAIN Tail(cache) : n + 1 \in DOMAIN cache /\ Tail(cache)[n] = cache[n + 1]
      BY <1>3, <3>1
    <3>3. QED
      BY <2>2, <3>1, <3>2 DEF CacheInv, CacheIsCurrent
  <2>3. kept = cache \/ (kept = Tail(cache) /\ cache # <<>>)
    BY <1>3
  <2>4. QED
    BY <2>1, <2>2, <2>3
<1>5. Stored(k) = Append(kept, e)
  BY DEF Stored
<1> HIDE DEF e, kept
<1>6. \A n \in DOMAIN Append(kept, e) :
          (n \in DOMAIN kept /\ Append(kept, e)[n] = kept[n]) \/ Append(kept, e)[n] = e
  BY <1>2, <1>4
<1>7. QED
  BY <1>1, <1>4, <1>5, <1>6

\* What a release does to the runs: one ends, one that was queued goes on.
LEMMA ReleaseRuns ==
    ASSUME TypeOK, SlotsAreUsed, NEW k \in Keys, Release(k), NEW x \in Keys
    PROVE  \/ run'[x] = NoRun
           \/ /\ run'[x].epoch = run[x].epoch /\ run'[x].made = run[x].made
              /\ run[x].step = "queued"
           \/ run'[x] = run[x]
<1>1. CASE Ends(k, run)
  BY <1>1 DEF Ends, TypeOK
<1>2. CASE aiQueue # <<>> /\ Ends(k, [run EXCEPT ![Head(aiQueue)].step = "image"])
  <2>1. 1 \in DOMAIN aiQueue /\ Head(aiQueue) = aiQueue[1] /\ Head(aiQueue) \in Keys
    BY <1>2 DEF TypeOK
  <2>2. run[Head(aiQueue)].step = "queued"
    BY <2>1, SlotsParts DEF QueueIsQueued
  <2>3. QED
    BY <1>2, <2>1, <2>2 DEF Ends, TypeOK, RunType
<1>3. QED
  BY <1>1, <1>2 DEF Release

LEMMA CacheStep == TypeOK /\ SlotsAreUsed /\ CacheInv /\ [Next]_vars => CacheInv'
<1> SUFFICES ASSUME TypeOK, SlotsAreUsed, CacheInv, [Next]_vars
             PROVE  CacheInv'
  OBVIOUS
<1> USE DEF CacheInv
\* The steps of a run that change no entry.
<1>a. ASSUME UNCHANGED <<saveVars, cache>>, NEW k \in Keys, NEW r, run' = [run EXCEPT ![k] = r],
             \/ r = NoRun
             \/ /\ r.epoch = run[k].epoch /\ r.made = run[k].made
                /\ run[k].step \notin {"none", "settings"}
             \/ r.epoch = run[k].epoch /\ r.made = settings
      PROVE  CacheInv'
  <2>1. \A x \in Keys : run'[x] = IF x = k THEN r ELSE run[x]
    BY <1>a DEF TypeOK
  <2>2. EpochsArePast' /\ SavesAreStored' /\ RunsAreCurrent'
    BY <1>a, <2>1, RunsStep
  <2>3. CacheIsCurrent'
    BY <1>a DEF CacheIsCurrent, saveVars
  <2>4. QED
    BY <2>2, <2>3
\* The steps of the cache that leave the runs alone.
<1>b. ASSUME UNCHANGED <<saveVars, run>>, CacheIsCurrent'
      PROVE  CacheInv'
  BY <1>b DEF EpochsArePast, SavesAreStored, RunsAreCurrent, saveVars
<1>1. ASSUME NEW i \in 1..MaxEntries, EntryExpires(i) PROVE CacheInv'
  <2>1. \A n \in DOMAIN cache' : n \in DOMAIN cache /\ cache'[n].made = cache[n].made
    BY <1>1 DEF EntryExpires, TypeOK, EntryType
  <2>2. QED
    BY <1>1, <1>b, <2>1, EntriesStep DEF EntryExpires, saveVars
<1>2. ASSUME NEW k \in Keys, CacheHit(k) PROVE CacheInv'
  <2>1. PICK i \in DOMAIN cache : cache' = Append(Without(i), cache[i])
    BY <1>2 DEF CacheHit, Places
  <2>2. Without(i) \in Seq(EntryType) /\ cache[i] \in EntryType
    BY EntryTyped, WithoutTyped DEF TypeOK
  <2>3. \A n \in DOMAIN cache' :
            (n \in DOMAIN Without(i) /\ cache'[n] = Without(i)[n]) \/ cache'[n] = cache[i]
    BY <2>1, <2>2
  <2>4. \A n \in DOMAIN cache' : \E m \in DOMAIN cache : cache'[n].made = cache[m].made
    BY <2>3, WithoutEntries
  <2>5. QED
    BY <1>2, <1>b, <2>4, EntriesStep DEF CacheHit, saveVars
<1>3. ASSUME NEW k \in Keys, Suggest(k) PROVE CacheInv'
  <2>1. CacheIsCurrent'
    <3>1. CASE UNCHANGED cache
      BY <1>3, <3>1 DEF Suggest, CacheIsCurrent, saveVars
    <3>2. CASE \E i \in Places(k) : cache' = Without(i)
      BY <1>3, <3>2, WithoutEntries, EntriesStep DEF Suggest, Places, saveVars
    <3>3. QED
      BY <1>3, <3>1, <3>2 DEF Suggest
  <2>2. \A x \in Keys : \/ run'[x].epoch = cacheEpoch /\ run'[x].step = "settings"
                        \/ run'[x] = run[x]
    BY <1>3 DEF Suggest, TypeOK
  <2>3. QED
    BY <1>3, <2>1, <2>2, RunsStep DEF Suggest
<1>4. ASSUME NEW k \in Keys, ReadSettings(k) PROVE CacheInv'
  <2> DEFINE r == [run[k] EXCEPT !.step = "acquire", !.made = settings]
  <2>1. r.epoch = run[k].epoch /\ r.made = settings
    BY DEF TypeOK, RunType
  <2>2. run' = [run EXCEPT ![k] = r]
    BY <1>4 DEF ReadSettings
  <2>3. QED
    BY <1>4, <1>a, <2>1, <2>2 DEF ReadSettings
<1>5. ASSUME NEW k \in Keys, Refuse(k) \/ Busy(k) PROVE CacheInv'
  BY <1>5, <1>a DEF Refuse, Busy, Ends
<1>6. ASSUME NEW k \in Keys, TakeSlot(k) \/ Enqueue(k) \/ ReadImage(k) \/ AnswerBegins(k)
      PROVE  CacheInv'
  <2>1. PICK step \in Steps : run' = [run EXCEPT ![k].step = step]
    BY <1>6 DEF TakeSlot, Enqueue, ReadImage, AnswerBegins, Steps
  <2> DEFINE r == [run[k] EXCEPT !.step = step]
  <2>2. r.epoch = run[k].epoch /\ r.made = run[k].made
    BY DEF TypeOK, RunType
  <2>3. run' = [run EXCEPT ![k] = r]
    BY <2>1
  <2>4. run[k].step \notin {"none", "settings"} /\ UNCHANGED <<saveVars, cache>>
    BY <1>6 DEF TakeSlot, Enqueue, ReadImage, AnswerBegins
  <2>5. QED
    BY <1>a, <2>2, <2>3, <2>4
<1>7. ASSUME NEW k \in Keys, BodyEnds(k) \/ Fail(k) PROVE CacheInv'
  <2>1. Release(k) /\ UNCHANGED saveVars
    BY <1>7 DEF BodyEnds, Answer, Uncertain, Fail
  <2>2. EpochsArePast' /\ SavesAreStored' /\ RunsAreCurrent'
    BY <2>1, ReleaseRuns, RunsStep
  <2>3. CacheIsCurrent'
    <3>1. CASE UNCHANGED cache
      BY <2>1, <3>1 DEF CacheIsCurrent, saveVars
    <3>2. CASE SameEpoch(k) /\ run[k].step = "body" /\ cache' = Stored(k)
      BY <2>1, <3>2, StoredEntries DEF CacheIsCurrent, saveVars
    <3>3. QED
      BY <1>7, <3>1, <3>2 DEF BodyEnds, Answer, Uncertain, Fail
  <2>4. QED
    BY <2>2, <2>3
<1>8. ASSUME StoreSettings PROVE CacheInv'
  <2>1. EpochsArePast' /\ RunsAreCurrent' /\ CacheIsCurrent'
    BY <1>8 DEF StoreSettings, EpochsArePast, RunsAreCurrent, CacheIsCurrent
  <2>2. SavesAreStored'
    BY <1>8 DEF StoreSettings, SavesAreStored, TypeOK
  <2>3. QED
    BY <2>1, <2>2
<1>9. ASSUME NEW v \in 1..MaxSaves, ClearCache(v) PROVE CacheInv'
  <2>1. \A k \in Keys : run'[k].epoch # cacheEpoch'
    BY <1>9 DEF ClearCache, EpochsArePast, TypeOK, RunType
  <2>2. EpochsArePast' /\ RunsAreCurrent'
    BY <1>9, <2>1 DEF ClearCache, EpochsArePast, RunsAreCurrent, TypeOK, RunType
  <2>3. SavesAreStored' /\ CacheIsCurrent'
    BY <1>9 DEF ClearCache, SavesAreStored, CacheIsCurrent, Later, TypeOK
  <2>4. QED
    BY <2>2, <2>3
<1>10. ASSUME NEW v \in 1..MaxSaves, ReadBackFails(v) PROVE CacheInv'
  BY <1>10 DEF ReadBackFails, EpochsArePast, SavesAreStored, RunsAreCurrent, CacheIsCurrent
<1>11. CASE UNCHANGED vars
  BY <1>11, <1>b DEF vars, saveVars, CacheIsCurrent
<1>12. QED
  BY <1>1, <1>2, <1>3, <1>4, <1>5, <1>6, <1>7, <1>8, <1>9, <1>10, <1>11 DEF Next, Proceed

\* No result of settings that were replaced is served once their replacement
\* has cleared the cache, however many saves and runs overlap.
THEOREM CacheProven == Spec => []CacheIsCurrent
<1>1. Spec => [](TypeOK /\ SlotsAreUsed /\ CacheInv)
  BY InitSlots, InitCache, SlotsStep, CacheStep, PTL DEF Spec
<1>2. QED
  BY <1>1, PTL DEF CacheInv
=============================================================================
