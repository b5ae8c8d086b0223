-------------------------------- MODULE AiTitle --------------------------------
(***************************************************************************)
(* Title suggestions by the AI provider (ai-title-service.js): callers of  *)
(* one control server share runs, a bounded number of slots with a bounded *)
(* queue in front of them, and a cache of results, while administrators    *)
(* replace the provider's settings.                                        *)
(*                                                                         *)
(* External: the provider and the media storage, which answer or fail.     *)
(*                                                                         *)
(* Abstractions.  A key stands for all that makes two requests equal, and  *)
(* the callers of a run, who get its result or its error, are not told     *)
(* apart.  Settings are numbered in the order in which they were stored,   *)
(* and so are the calls of saveSettings that stored them.  A run ends in   *)
(* one step: between the answer and the removal of the run the code only   *)
(* waits for promises that are settled already, so that nothing else gets  *)
(* its turn.  Reading an image is one step that may fail, whether the      *)
(* bytes come from the storage, another read or the image cache.           *)
(***************************************************************************)
EXTENDS Naturals, FiniteSets, Sequences

CONSTANTS
    Keys,           \* what suggestions can be asked for
    MaxConcurrent,  \* maxConcurrent
    MaxQueue,       \* maxQueue
    MaxEntries,     \* cacheMaxEntries
    MaxSaves        \* bound on stored settings, for the model only

ASSUME KeysAssumption == IsFiniteSet(Keys)
ASSUME BoundsAssumption ==
    /\ {MaxConcurrent, MaxEntries} \subseteq Nat \ {0}
    /\ {MaxQueue, MaxSaves} \subseteq Nat

VARIABLES
    settings,       \* tenant_ai_title_settings
    saving,         \* the calls of saveSettings that have stored and not yet read back
    applied,        \* the newest settings whose saveSettings cleared the cache
    cacheEpoch,     \* cacheEpoch
    cache,          \* the result cache, the entry used last at the end
    run,            \* pending: the run of each key
    inflight,       \* inflight
    aiQueue         \* aiQueue: the runs that wait for a slot

saveVars == <<settings, saving, applied, cacheEpoch>>
slotVars == <<inflight, aiQueue>>
vars == <<saveVars, cache, run, slotVars>>

NoRun == [step |-> "none", epoch |-> 0, made |-> 0]

Init ==
    /\ settings = 0
    /\ saving = {}
    /\ applied = 0
    /\ cacheEpoch = 0
    /\ cache = <<>>
    /\ run = [k \in Keys |-> NoRun]
    /\ inflight = 0
    /\ aiQueue = <<>>

-----------------------------------------------------------------------------
(* The result cache                                                        *)

\* The places of a key in the cache: one or none.
Places(k) == {i \in DOMAIN cache : cache[i].key = k}

Without(i) == [n \in 1..(Len(cache) - 1) |-> IF n < i THEN cache[n] ELSE cache[n + 1]]

\* The time to live of an entry is over; it stays until somebody asks for it.
EntryExpires(i) ==
    /\ i \in DOMAIN cache /\ cache[i].fresh
    /\ cache' = [cache EXCEPT ![i].fresh = FALSE]
    /\ UNCHANGED <<saveVars, run, slotVars>>

\* Mutant: nothing is evicted.
Hoarded(k) == Append(cache, [key |-> k, made |-> run[k].made, fresh |-> TRUE])

\* The result becomes the newest entry and evicts the oldest of a full cache.
Stored(k) ==
    Append(IF Len(cache) < MaxEntries THEN cache ELSE Tail(cache),
           [key |-> k, made |-> run[k].made, fresh |-> TRUE])

\* Mutant: the epoch is not compared.
AnyEpoch(k) == TRUE

\* No save has cleared the cache since the run began.
SameEpoch(k) == run[k].epoch = cacheEpoch

-----------------------------------------------------------------------------
(* suggest                                                                 *)

\* A fresh entry is the answer and becomes the newest one.
CacheHit(k) ==
    /\ \E i \in Places(k) :
          /\ cache[i].fresh
          /\ cache' = Append(Without(i), cache[i])
    /\ UNCHANGED <<saveVars, run, slotVars>>

\* Otherwise an expired entry goes and a run begins; a caller who finds a run
\* of the key joins it, which changes nothing.
Suggest(k) ==
    /\ run[k].step = "none"
    /\ \/ Places(k) = {} /\ UNCHANGED cache
       \/ \E i \in Places(k) : ~cache[i].fresh /\ cache' = Without(i)
    /\ run' = [run EXCEPT ![k] = [step |-> "settings", epoch |-> cacheEpoch, made |-> 0]]
    /\ UNCHANGED <<saveVars, slotVars>>

-----------------------------------------------------------------------------
(* performSuggest                                                          *)

\* The run of k is over for all its callers; the other runs are as given.
Ends(k, runs) == run' = [runs EXCEPT ![k] = NoRun]

\* hasAccess allows the user, resolveSettings reads the settings.
ReadSettings(k) ==
    /\ run[k].step = "settings"
    /\ run' = [run EXCEPT ![k].step = "acquire", ![k].made = settings]
    /\ UNCHANGED <<saveVars, cache, slotVars>>

\* No access, no usable settings, an invalid input, or a query that fails.
Refuse(k) ==
    /\ run[k].step \in {"settings", "acquire"}
    /\ Ends(k, run)
    /\ UNCHANGED <<saveVars, cache, slotVars>>

\* acquireAiSlot: a slot, a place in the queue, or AI_TITLE_BUSY.
TakeSlot(k) ==
    /\ run[k].step = "acquire"
    /\ inflight < MaxConcurrent
    /\ inflight' = inflight + 1
    /\ run' = [run EXCEPT ![k].step = "image"]
    /\ UNCHANGED <<saveVars, cache, aiQueue>>

Enqueue(k) ==
    /\ run[k].step = "acquire"
    /\ inflight >= MaxConcurrent /\ Len(aiQueue) < MaxQueue
    /\ aiQueue' = Append(aiQueue, k)
    /\ run' = [run EXCEPT ![k].step = "queued"]
    /\ UNCHANGED <<saveVars, cache, inflight>>

Busy(k) ==
    /\ run[k].step = "acquire"
    /\ inflight >= MaxConcurrent /\ Len(aiQueue) >= MaxQueue
    /\ Ends(k, run)
    /\ UNCHANGED <<saveVars, cache, slotVars>>

ReadImage(k) ==
    /\ run[k].step = "image"
    /\ run' = [run EXCEPT ![k].step = "provider"]
    /\ UNCHANGED <<saveVars, cache, slotVars>>

\* Mutant: the slot that is handed on is not counted again.
Uncounted == inflight - 1

\* Mutant: the queue is not looked at.
NobodyNext(k) == inflight' = inflight - 1 /\ UNCHANGED aiQueue /\ Ends(k, run)

\* The slot that is handed on is counted again.
HandedOn == inflight - 1 + 1

\* releaseAiSlot: the run of k gives its slot back, or on to the first in the
\* queue.
Release(k) ==
    \/ /\ aiQueue = <<>>
       /\ inflight' = inflight - 1
       /\ UNCHANGED aiQueue
       /\ Ends(k, run)
    \/ /\ aiQueue # <<>>
       /\ inflight' = HandedOn
       /\ aiQueue' = Tail(aiQueue)
       /\ Ends(k, [run EXCEPT ![Head(aiQueue)].step = "image"])

\* The headers of an answer that is ok have come, and the timer is stopped.
AnswerBegins(k) ==
    /\ run[k].step = "provider"
    /\ run' = [run EXCEPT ![k].step = "body"]
    /\ UNCHANGED <<saveVars, cache, slotVars>>

\* The rest of the answer has come and names a pattern.
Answer(k) ==
    /\ run[k].step = "body"
    /\ cache' = IF SameEpoch(k) THEN Stored(k) ELSE cache
    /\ Release(k)
    /\ UNCHANGED saveVars

\* The rest of the answer has come, or broke off, and names no pattern.
Uncertain(k) ==
    /\ run[k].step = "body"
    /\ Release(k)
    /\ UNCHANGED <<saveVars, cache>>

\* No image, a timeout, or an answer that is not ok.
Fail(k) ==
    /\ run[k].step \in {"image", "provider"}
    /\ Release(k)
    /\ UNCHANGED <<saveVars, cache>>

-----------------------------------------------------------------------------
(* saveSettings                                                            *)

StoreSettings ==
    /\ settings < MaxSaves
    /\ settings' = settings + 1
    /\ saving' = saving \cup {settings + 1}
    /\ UNCHANGED <<applied, cacheEpoch, cache, run, slotVars>>

Later(m, n) == IF m < n THEN n ELSE m

\* The stored settings are read back, and only then the cache is cleared.
ClearCache(s) ==
    /\ s \in saving
    /\ saving' = saving \ {s}
    /\ applied' = Later(applied, s)
    /\ cacheEpoch' = cacheEpoch + 1
    /\ cache' = <<>>
    /\ UNCHANGED <<settings, run, slotVars>>

\* The read fails: the settings are stored and the cache keeps its entries.
ReadBackFails(s) ==
    /\ s \in saving
    /\ saving' = saving \ {s}
    /\ UNCHANGED <<settings, applied, cacheEpoch, cache, run, slotVars>>

-----------------------------------------------------------------------------
Proceed(k) ==
    \/ ReadSettings(k) \/ Refuse(k)
    \/ TakeSlot(k) \/ Enqueue(k) \/ Busy(k)
    \/ ReadImage(k) \/ AnswerBegins(k) \/ Fail(k)

BodyEnds(k) == Answer(k) \/ Uncertain(k)

Next ==
    \/ \E k \in Keys : CacheHit(k) \/ Suggest(k) \/ Proceed(k) \/ BodyEnds(k)
    \/ \E i \in 1..MaxEntries : EntryExpires(i)
    \/ StoreSettings
    \/ \E s \in 1..MaxSaves : ClearCache(s) \/ ReadBackFails(s)

Spec == Init /\ [][Next]_vars

\* A run goes on: queries and the storage answer or fail, and a timer ends the
\* wait for the headers of the provider's answer.  Nothing is assumed of its
\* body, for which the service has no timer, of callers and administrators.
FairSpec == Spec /\ \A k \in Keys : WF_vars(Proceed(k))

-----------------------------------------------------------------------------
(* Properties                                                              *)

Steps     == {"none", "settings", "acquire", "queued", "image", "provider", "body"}
RunType   == [step : Steps, epoch : Nat, made : 0..MaxSaves]
EntryType == [key : Keys, made : 0..MaxSaves, fresh : BOOLEAN]

TypeOK ==
    /\ settings \in 0..MaxSaves
    /\ saving \subseteq 1..MaxSaves
    /\ applied \in 0..MaxSaves
    /\ cacheEpoch \in Nat
    /\ cache \in Seq(EntryType)
    /\ Len(cache) <= MaxEntries
    /\ run \in [Keys -> RunType]
    /\ inflight \in Nat
    /\ aiQueue \in Seq(Keys)
    /\ Len(aiQueue) <= MaxQueue

\* The runs that hold a slot.
Holders == {k \in Keys : run[k].step \in {"image", "provider", "body"}}

\* No slot is lost, shared or idle, however runs fail, are refused or end: the
\* counter is the number of runs at the provider, each queued run is in the
\* queue once, and nobody is in the queue while a slot is free.
SlotsAreUsed ==
    /\ inflight = Cardinality(Holders)
    /\ inflight <= MaxConcurrent
    /\ aiQueue # <<>> => inflight = MaxConcurrent
    /\ \A i, j \in DOMAIN aiQueue : aiQueue[i] = aiQueue[j] => i = j
    /\ \A k \in Keys : run[k].step = "queued" <=> \E i \in DOMAIN aiQueue : aiQueue[i] = k

\* Once a saveSettings has cleared the cache, no result of older settings is in
\* it, also not one of a run that was under way, or of an overlapping save.
CacheIsCurrent == \A i \in DOMAIN cache : cache[i].made >= applied

\* No body stays under way for ever.
BodiesEnd == \A k \in Keys : []<>(run[k].step # "body")

\* As long as the provider finishes the bodies of its answers, every run ends,
\* and with it the wait of all who asked for its key: with a title or an error,
\* also when it has to queue behind others.  A body that is never finished holds
\* its run, its slot and the queue behind it: nothing in the service ends it.
EveryRunEnds ==
    BodiesEnd => \A k \in Keys : run[k].step # "none" ~> run[k].step = "none"
=============================================================================
