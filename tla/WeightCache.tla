------------------------------ MODULE WeightCache ------------------------------
(***************************************************************************)
(* A runtime that keeps its weights in files (CPURuntime::onCreate and     *)
(* CPUBackend::onClearBuffer in source/backend/cpu/CPUBackend.cpp, above   *)
(* MmapAllocator).  With useCachedMmap the files stay, and a file that     *)
(* sync leaves tells later processes that the weights need not be written  *)
(* again.  Weights are loaded in the same order by every process, one per  *)
(* file.                                                                   *)
(***************************************************************************)
EXTENDS MmapAllocator

VARIABLES mStaticAllocator,  \* "mmap", or "raw" when mStaticAllocatorRaw is null
          useCachedMmap,     \* the hint, up to 2
          data,              \* the weight in each file
          weight,            \* what became of each weight in this process
          hasty              \* history: onClearBuffer came before all weights of
                             \* files that are kept were there

cache == <<mStaticAllocator, useCachedMmap, data, weight, hasty>>
allVars == <<mmapVars, cache>>

Weights == Buffers
FirstUse == IF use.mRemove THEN 0 ELSE 1

SyncValidByFile == 0 \in DOMAIN disk                             \* seeded fault
\* Whether the weights are taken to be in the files.
SyncValid == synced

\* useCachedMmap += syncValid, at every onCreate with the hint.
Hint(level) == IF level > 0 /\ SyncValid THEN 2 ELSE level

SkipsAlways(level) == level >= 1                                      \* seeded fault
\* The constructors of operators return before they pack their weights.
Skips(level) == level > 1

CacheInit ==
  /\ MmapInit
  /\ mStaticAllocator = "mmap" /\ useCachedMmap = FirstUse
  /\ data = [f \in Files |-> Null]
  /\ weight = [w \in Weights |-> "none"]
  /\ hasty = FALSE

\* A process, and its first onCreate.
CacheStart ==
  /\ Start(~ use.mRemove /\ SyncValid)
  /\ useCachedMmap' = Hint(FirstUse)
  /\ UNCHANGED <<mStaticAllocator, data, weight, hasty>>

\* onCreate for another session or module.
OnCreate ==
  /\ up /\ pending = None
  /\ useCachedMmap' = Hint(useCachedMmap)
  /\ UNCHANGED <<mmapVars, mStaticAllocator, data, weight, hasty>>

NextToLoad(w) == weight[w] = "none" /\ \A v \in Weights : v < w => weight[v] # "none"

\* onAcquire with STATIC for the next weight, above the files: onAlloc begins.
LoadMapped(w) ==
  /\ up /\ pending = None /\ mStaticAllocator = "mmap" /\ NextToLoad(w)
  /\ \A v \in Weights : weight[v] # "mapped"
  /\ \E size \in use.sizes : Begin(w, size)
  /\ UNCHANGED <<disk, synced, up, mCache, mAllocTimes, fields, currentSize, history, cache>>

CacheOpen ==
  /\ Open
  /\ data' = IF mAllocTimes \in DOMAIN disk THEN data ELSE [data EXCEPT ![mAllocTimes] = Null]
  /\ UNCHANGED <<mStaticAllocator, useCachedMmap, weight, hasty>>

CacheMap ==
  /\ Map
  /\ LET w == pending.buffer
     IN  weight' = [weight EXCEPT ![w] = IF w \in DOMAIN mCache' THEN "mapped" ELSE "failed"]
  /\ UNCHANGED <<mStaticAllocator, useCachedMmap, data, hasty>>

\* The constructor goes on with its memory.
Pack(w) ==
  /\ up /\ weight[w] = "mapped"
  /\ data' = IF Skips(useCachedMmap) THEN data ELSE [data EXCEPT ![mCache[w].file] = w]
  /\ weight' = [weight EXCEPT ![w] = "packed"]
  /\ UNCHANGED <<mmapVars, mStaticAllocator, useCachedMmap, hasty>>

\* The same above the heap.
LoadRaw(w) ==
  /\ up /\ pending = None /\ mStaticAllocator = "raw" /\ NextToLoad(w)
  /\ weight' = [weight EXCEPT ![w] = IF Skips(useCachedMmap) THEN "unwritten" ELSE "raw"]
  /\ UNCHANGED <<mmapVars, mStaticAllocator, useCachedMmap, data, hasty>>

\* onClearBuffer: sync, and from now on weights come from the heap.  A session
\* calls it at the start of every encode, whatever is loaded by then.
OnClearBuffer ==
  /\ up /\ pending = None /\ mStaticAllocator = "mmap"
  /\ \A w \in Weights : weight[w] # "mapped"
  /\ LET leaves == ~ mSynced /\ ~ use.mRemove /\ (mNewMmap \/ ~ mSyncValid)
         missing == {w \in Weights : weight[w] = "none" \/ (leaves /\ weight[w] = "failed")}
     IN  /\ synced' = (synced \/ leaves) /\ mSynced' = (mSynced \/ leaves)
         /\ hasty' = (hasty \/ (~ use.mRemove /\ missing # {}))
  /\ mStaticAllocator' = "raw"
  /\ UNCHANGED <<disk, up, mCache, mAllocTimes, mNewMmap, mSyncValid, pending, currentSize, history,
                 useCachedMmap, data, weight>>

\* The process ends or is killed.
CacheEnd ==
  /\ Exit \/ Kill
  /\ mStaticAllocator' = "mmap" /\ useCachedMmap' = FirstUse
  /\ weight' = [w \in Weights |-> "none"]
  /\ UNCHANGED <<data, hasty>>

CacheNext ==
  /\ \/ CacheStart \/ OnCreate
     \/ \E w \in Weights : LoadMapped(w) \/ Pack(w) \/ LoadRaw(w)
     \/ CacheOpen \/ CacheMap
     \/ SetFileSize /\ UNCHANGED cache
     \/ OnClearBuffer \/ CacheEnd
  /\ UNCHANGED use

\* An allocator of feature maps does not touch what belongs to weights.
FilesNext ==
  \/ use.ofWeights /\ CacheNext
  \/ ~ use.ofWeights /\ MmapNext /\ UNCHANGED cache

CacheSpec == CacheInit /\ [][FilesNext]_allVars

------------------------------------------------------------------------------
\* A weight that was loaded has its values: this process wrote them, or an
\* earlier one did and the file was opened again for the same weight, unless
\* an onClearBuffer of this or an earlier process was hasty.
WeightsWritten ==
  ~ hasty =>
    \A w \in Weights :
      /\ weight[w] # "unwritten"
      /\ weight[w] = "packed" => data[mCache[w].file] = w

\* While the file of sync is there, every weight is in the file of its number,
\* wherever a process was killed and whatever the system refused, unless an
\* onClearBuffer was hasty.
SyncedFilesComplete ==
  synced /\ ~ hasty => \A w \in Weights : w - 1 \in DOMAIN disk /\ data[w - 1] = w
==============================================================================
