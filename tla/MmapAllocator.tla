----------------------------- MODULE MmapAllocator -----------------------------
(***************************************************************************)
(* source/core/BufferAllocator.cpp: memory on mapped files, one file per   *)
(* block, and the two blocks of feature maps that a runtime keeps in it    *)
(* when it was given a directory.  Files outlive a process that is killed; the  *)
(* steps of onAlloc are separate for that reason.  Sizes are in units of   *)
(* the alignment, and a file goes by the number in its name, weights by    *)
(* their number in the order in which every process loads them.            *)
(***************************************************************************)
EXTENDS Integers, Functions

CONSTANTS Null,      \* nullptr, and the content of a file not yet written
          MaxTimes,  \* BOUND: of mAllocTimes
          Uses       \* what allocators there are: see use

ASSUME MaxTimesAssumption == MaxTimes \in Nat
ASSUME UsesAssumption ==
  \A u \in Uses :
    /\ Null \notin u.buffers /\ u.sizes \subseteq Nat \ {0}
    /\ u.ofWeights \in BOOLEAN /\ u.mRemove \in BOOLEAN /\ u.mayFail \in BOOLEAN
    /\ u.ofWeights => /\ u.buffers \subseteq Nat \ {0}
                      /\ \A w \in u.buffers : 1 .. w \subseteq u.buffers
    /\ ~ u.ofWeights => \E a, b \in u.buffers : u.buffers = {a, b}

None == [stage |-> "none"]

VARIABLES use,         \* of this allocator: who holds blocks (mDynamicMmap, or
                       \* weights), BOUND on their sizes, autoRemove, and whether
                       \* the system may refuse a file, space or a mapping
          disk,        \* the sizes of the files that exist
          synced,      \* whether the file that marks them complete exists
          up,          \* the process runs
          mCache,      \* from addresses to files and mapped sizes
          mAllocTimes, mNewMmap, mSynced, mSyncValid,
          pending,     \* the onAlloc under way
          currentSize, \* of each SingleBufferWithAllocator
          faulty,      \* history: a process was killed or an allocation failed
          restarted    \* history: in this process the numbers of files went back
                       \* behind a block that stays

fields == <<mNewMmap, mSynced, mSyncValid>>
history == <<faulty, restarted>>
mmapVars == <<use, disk, synced, up, mCache, mAllocTimes, fields, pending, currentSize, history>>

Files == 0 .. MaxTimes - 1
Mapped(b) == b \in DOMAIN mCache
Without(f, keys) == Restrict(f, DOMAIN f \ keys)
\* std::map::insert, which keeps an entry that is there.
Inserted(f, key, value) ==
  [k \in DOMAIN f \cup {key} |-> IF k \in DOMAIN f THEN f[k] ELSE value]

Buffers == use.buffers

MmapInit ==
  /\ use \in Uses
  /\ disk = <<>> /\ synced = FALSE
  /\ up = TRUE /\ mCache = <<>> /\ mAllocTimes = 0
  /\ mNewMmap = FALSE /\ mSynced = FALSE /\ mSyncValid = FALSE
  /\ pending = None
  /\ currentSize = [b \in Buffers |-> 0]
  /\ faulty = FALSE /\ restarted = FALSE

------------------------------------------------------------------------------
(* onAlloc, in the steps that leave something on the disk.                  *)

Begin(b, size) ==
  pending' = [stage |-> "open", buffer |-> b, size |-> size, opened |-> TRUE]

\* The file of this number, an earlier process's or a mapped one included; where
\* files are opened without sharing, one that is open cannot be opened again.
Open ==
  /\ up /\ pending.stage = "open" /\ mAllocTimes < MaxTimes
  /\ \/ /\ mAllocTimes \in DOMAIN disk
        /\ \E opened \in BOOLEAN :
             /\ opened \/ use.mayFail \/ \E a \in DOMAIN mCache : mCache[a].file = mAllocTimes
             /\ pending' = [pending EXCEPT !.stage = "map", !.opened = opened]
        /\ UNCHANGED <<disk, mNewMmap>>
     \/ /\ mAllocTimes \notin DOMAIN disk
        /\ \/ /\ disk' = Inserted(disk, mAllocTimes, 0)
              /\ pending' = [pending EXCEPT !.stage = "size"]
           \/ /\ use.mayFail /\ UNCHANGED disk
              /\ pending' = [pending EXCEPT !.stage = "map", !.opened = FALSE]
        /\ mNewMmap' = TRUE
  /\ UNCHANGED <<synced, up, mCache, mAllocTimes, mSynced, mSyncValid, currentSize, history>>

\* MNNSetFileSize, whose failure is only reported.
SetFileSize ==
  /\ up /\ pending.stage = "size"
  /\ \/ disk' = [disk EXCEPT ![mAllocTimes] = pending.size]
     \/ use.mayFail /\ UNCHANGED disk
  /\ pending' = [pending EXCEPT !.stage = "map"]
  /\ UNCHANGED <<synced, up, mCache, mAllocTimes, fields, currentSize, history>>

LargeEnoughAny(size, file) == TRUE                               \* seeded fault
\* MNNMmapFile refuses to map more than the file has.
LargeEnough(size, file) == size <= disk[file]

Map ==
  /\ up /\ pending.stage = "map"
  /\ LET b == pending.buffer
         entry == [file |-> mAllocTimes, size |-> pending.size]
         fits == pending.opened /\ LargeEnough(pending.size, mAllocTimes)
     IN  \/ /\ fits
            /\ mCache' = Inserted(mCache, b, entry)
            /\ currentSize' = [currentSize EXCEPT ![b] = pending.size]
            /\ UNCHANGED history
         \/ /\ use.mayFail \/ ~ fits
            /\ mCache' = Inserted(mCache, Null, entry)
            /\ faulty' = TRUE
            /\ restarted' = (restarted \/ \E c \in Buffers : Mapped(c) /\ mCache[c].file > mAllocTimes)
            /\ UNCHANGED currentSize
  /\ mAllocTimes' = mAllocTimes + 1
  /\ pending' = None
  /\ UNCHANGED <<disk, synced, up, fields>>

------------------------------------------------------------------------------
(* onRelease and the blocks of feature maps.                                *)

RemovedNone(files) == disk                                       \* seeded fault
Removed(files) == IF use.mRemove THEN Without(disk, files) ELSE disk

OnRelease(b) ==
  /\ mCache' = Without(mCache, {b})
  /\ disk' = Removed({mCache[b].file})
  /\ mAllocTimes' = 0
  /\ restarted' = (restarted \/ \E c \in Buffers \ {b} : Mapped(c) /\ mCache[c].file < mCache[b].file)

\* SingleBufferWithAllocator::realloc.
Realloc(b, size) ==
  /\ up /\ pending = None /\ currentSize[b] < size
  /\ \/ Mapped(b) /\ OnRelease(b)
     \/ ~ Mapped(b) /\ UNCHANGED <<mCache, disk, mAllocTimes, restarted>>
  /\ Begin(b, size)
  /\ UNCHANGED <<synced, up, fields, currentSize, faulty>>

\* SingleBufferWithAllocator::release.
Release(b) ==
  /\ up /\ pending = None /\ Mapped(b)
  /\ OnRelease(b)
  /\ currentSize' = [currentSize EXCEPT ![b] = 0]
  /\ UNCHANGED <<synced, up, fields, pending, faulty>>

Ended ==
  /\ up /\ up' = FALSE
  /\ mCache' = <<>> /\ mAllocTimes' = 0
  /\ mNewMmap' = FALSE /\ mSynced' = FALSE /\ mSyncValid' = FALSE
  /\ pending' = None
  /\ currentSize' = [b \in Buffers |-> 0]
  /\ restarted' = FALSE
  /\ UNCHANGED synced

\* The destructors of the buffers and of the allocator.
Exit ==
  /\ pending = None /\ Ended
  /\ disk' = Removed({mCache[a].file : a \in DOMAIN mCache})
  /\ UNCHANGED faulty

\* The process is killed.
Kill ==
  /\ Ended
  /\ faulty' = TRUE
  /\ UNCHANGED disk

\* A process with a new allocator.
Start(valid) ==
  /\ ~ up /\ up' = TRUE
  /\ mSyncValid' = valid
  /\ UNCHANGED <<disk, synced, mCache, mAllocTimes, mNewMmap, mSynced, pending, currentSize, history>>

MmapNext ==
  /\ \/ \E b \in Buffers, size \in use.sizes : Realloc(b, size)
     \/ \E b \in Buffers : Release(b)
     \/ Open \/ SetFileSize \/ Map
     \/ Exit \/ Kill \/ Start(FALSE)
  /\ UNCHANGED use

MmapSpec == MmapInit /\ [][MmapNext]_mmapVars

------------------------------------------------------------------------------
\* A block has a file of its own, that exists and is as large as the block,
\* whatever earlier processes left in the directory and however often the block
\* of the lower number grows or fails to, until the numbers go back behind a
\* block that stays: by releasing the other block, or by a failure that uses up
\* a number below it.
OwnFile ==
  ~ restarted =>
    \A b \in Buffers : Mapped(b) =>
      /\ mCache[b].file \in DOMAIN disk /\ disk[mCache[b].file] >= mCache[b].size
      /\ \A c \in Buffers : Mapped(c) /\ c # b => mCache[c].file # mCache[b].file

\* A directory whose files are not kept is empty after every process that was not
\* killed and did not fail to allocate, however often its blocks grew and even if
\* they shared a file.
NoFileLeft == use.mRemove /\ ~ up /\ ~ faulty => disk = <<>>
==============================================================================
