---------------------------- MODULE ContentCache ----------------------------
(***************************************************************************)
(* The on-disk block cache (internal/cache/content.go) and the blockstore  *)
(* on top of it (internal/cache/content_blockstore.go): files under hashed *)
(* paths, or under the legacy flat paths of an earlier version; the byte   *)
(* count that enforces the quota; the LRU that picks victims.              *)
(*                                                                         *)
(* The holder of ContentCache.mu is op; its file operations are steps of   *)
(* their own, so that the process can stop between them.  A block is its   *)
(* CID; only its size matters.                                             *)
(***************************************************************************)
EXTENDS Integers, Sequences, SequencesExt, Functions, FiniteSets, TLC

CONSTANTS
  Cids, NoCid,
  Size,             \* Size[c]: bytes of block c
  Quotas,           \* the values maxBytes may be configured to, at a restart
  LruSize,
  Legacy,           \* CIDs an earlier version left under flat paths
  DiskMayFail,      \* TRUE: a write or a remove may fail, a crash may tear a write
  MaxDrift          \* bound: bytes the count may fall below zero when a Put starts

ASSUME CidsAssumption == NoCid \notin Cids /\ Legacy \subseteq Cids /\ IsFiniteSet(Legacy)
ASSUME SizesAssumption == Size \in [Cids -> Nat \ {0}]
ASSUME QuotaAssumption == Quotas \subseteq Nat \ {0} /\ LruSize \in Nat \ {0}
ASSUME DriftAssumption == MaxDrift \in Nat

VARIABLES
  file,       \* file[<<c, place>>]: size of the file, for the files that exist
  current,    \* currentBytes
  maxBytes,
  lru,        \* tracked CIDs, least recently used first
  op,         \* the operation that holds mu
  refused,    \* history: the CID of the last Put refused for want of space
  sound,      \* history: since start-up, which found whole files within the quota,
              \* no file operation failed and no Put replaced a flat file
  partial     \* history: a Clear failed half-way, the LRU was not rebuilt since

vars == <<file, current, maxBytes, lru, op, refused, sound, partial>>

Hashed(c) == <<c, "hashed">>
Flat(c) == <<c, "flat">>
Files == DOMAIN file
OnDisk(c) == Hashed(c) \in Files \/ Flat(c) \in Files
\* Where an operation finds c: the hashed path first, then the flat one.
PathOf(c) == IF Hashed(c) \in Files THEN Hashed(c) ELSE Flat(c)

\* Every file holds its whole block.
Whole == \A p \in Files : file[p] = Size[p[1]]

Without(p) == Restrict(file, Files \ {p})
With(p, n) == [q \in Files \cup {p} |-> IF q = p THEN n ELSE file[q]]

NoOp == [pc |-> "idle", cid |-> NoCid, old |-> 0, need |-> 0, freed |-> 0]
Unlock == op' = NoOp

\* lru.Add: most recent last, the oldest falls off beyond the capacity.
Touched(c) ==
  LET s == Append(RemoveFirst(lru, c), c)
  IN  IF Len(s) > LruSize THEN Tail(s) ELSE s

\* initializeCacheSize: the LRU filled from a walk over the files.
Walks == {s \in SetToAllKPermutations({c \in Cids : OnDisk(c)}) :
            Len(s) = IF Cardinality({c \in Cids : OnDisk(c)}) <= LruSize
                       THEN Cardinality({c \in Cids : OnDisk(c)}) ELSE LruSize}

Init ==
  /\ file = [p \in {Flat(c) : c \in Legacy} |-> Size[p[1]]]
  /\ current = SumFunction(file)
  /\ maxBytes \in Quotas
  /\ lru \in Walks
  /\ op = NoOp
  /\ refused = NoCid
  /\ sound = (Whole /\ current <= maxBytes) /\ partial = FALSE

\* mu can be taken.
Free == op.pc = "idle"

-----------------------------------------------------------------------------
(* Get.                                                                    *)

\* Read the file; a miss changes nothing.
GetRead(c) ==
  /\ Free
  /\ OnDisk(c)
  /\ op' = [NoOp EXCEPT !.pc = "touch", !.cid = c, !.old = file[PathOf(c)]]
  /\ UNCHANGED <<file, current, maxBytes, lru, refused, sound, partial>>

GetTouch ==
  /\ op.pc = "touch"
  /\ lru' = Touched(op.cid)
  /\ Unlock
  /\ UNCHANGED <<file, current, maxBytes, refused, sound, partial>>

-----------------------------------------------------------------------------
(* Put and Evict.                                                          *)

\* hasSpaceLocked(size).
HasSpace(n) == current + n <= maxBytes

\* The entry of evictLocked and of evictFromDiskLocked: an empty cache is an
\* error, which Put returns.
BeginEvict(o) ==
  IF current = 0
    THEN /\ Unlock
         /\ refused' = o.cid
    ELSE /\ op' = o
         /\ UNCHANGED refused

\* Put: the size of the file it replaces, and whether space must be freed.
PutStart(c) ==
  /\ Free
  /\ current >= -MaxDrift
  /\ LET old == IF OnDisk(c) THEN file[PathOf(c)] ELSE 0
         grow == Size[c] - old
         o == [pc |-> "evict", cid |-> c, old |-> old,
               need |-> grow - (maxBytes - current), freed |-> 0]
     IN  IF HasSpace(grow)
           THEN op' = [o EXCEPT !.pc = "write", !.need = 0] /\ UNCHANGED refused
           ELSE BeginEvict(o)
  /\ UNCHANGED <<file, current, maxBytes, lru, sound, partial>>

\* Evict(bytesToFree).
EvictStart(n) ==
  /\ Free
  /\ BeginEvict([NoOp EXCEPT !.pc = "evict", !.need = n])
  /\ UNCHANGED <<file, current, maxBytes, lru, sound, partial>>

\* One turn of evictLocked's loop: the oldest entry leaves the LRU, and its file
\* the disk, if it has one and it can be removed.
EvictOldest ==
  /\ op.pc = "evict" /\ op.freed < op.need /\ lru # <<>>
  /\ lru' = Tail(lru)
  /\ \/ /\ OnDisk(Head(lru))
        /\ LET p == PathOf(Head(lru)) IN
             /\ file' = Without(p)
             /\ current' = current - file[p]
             /\ op' = [op EXCEPT !.freed = @ + file[p]]
             /\ UNCHANGED sound
     \/ /\ ~OnDisk(Head(lru)) \/ DiskMayFail
        /\ sound' = (sound /\ ~OnDisk(Head(lru)))
        /\ UNCHANGED <<file, current, op>>
  /\ UNCHANGED <<maxBytes, refused, partial>>

\* Mutant of EvictWalkStart: no fallback to the disk.
EvictNoWalk ==
  /\ op.pc = "evict" /\ op.freed < op.need /\ lru = <<>>
  /\ Unlock /\ refused' = op.cid
  /\ UNCHANGED <<file, current, maxBytes, lru, sound, partial>>

\* The LRU is empty: evictFromDiskLocked frees the rest.
EvictWalkStart ==
  /\ op.pc = "evict" /\ op.freed < op.need /\ lru = <<>>
  /\ BeginEvict([op EXCEPT !.pc = "walk", !.need = @ - op.freed, !.freed = 0])
  /\ UNCHANGED <<file, current, maxBytes, lru, sound, partial>>

\* Mutant of EvictWalk: the byte count is not updated.
EvictWalkUncounted ==
  /\ op.pc = "walk" /\ op.freed < op.need
  /\ \E p \in Files :
       /\ file' = Without(p)
       /\ op' = [op EXCEPT !.freed = @ + file[p]]
  /\ UNCHANGED <<current, maxBytes, lru, refused, sound, partial>>

\* The walk removes a file.
EvictWalk ==
  /\ op.pc = "walk" /\ op.freed < op.need
  /\ \E p \in Files :
       /\ file' = Without(p)
       /\ current' = current - file[p]
       /\ op' = [op EXCEPT !.freed = @ + file[p]]
  /\ UNCHANGED <<maxBytes, lru, refused, sound, partial>>

\* The walk ends without freeing enough: every file left was visited.
EvictFails ==
  /\ op.pc = "walk" /\ op.freed < op.need
  /\ Files = {} \/ DiskMayFail
  /\ Unlock
  /\ refused' = op.cid
  /\ sound' = (sound /\ Files = {})
  /\ UNCHANGED <<file, current, maxBytes, lru, partial>>

\* Enough is freed: Evict returns, Put goes on to write.
EvictDone ==
  /\ op.pc \in {"evict", "walk"} /\ op.freed >= op.need
  /\ op' = IF op.cid = NoCid THEN NoOp ELSE [op EXCEPT !.pc = "write"]
  /\ UNCHANGED <<file, current, maxBytes, lru, refused, sound, partial>>

\* WriteFile succeeds; the count and the LRU follow.
PutWrite ==
  /\ op.pc = "write"
  /\ file' = With(Hashed(op.cid), Size[op.cid])
  /\ current' = current + (Size[op.cid] - op.old)
  /\ lru' = Touched(op.cid)
  /\ Unlock
  /\ sound' = (sound /\ (Flat(op.cid) \in Files => Hashed(op.cid) \in Files))
  /\ UNCHANGED <<maxBytes, refused, partial>>

\* What a write that does not complete leaves: the file untouched or truncated.
TornFiles ==
  {file} \cup {With(Hashed(op.cid), n) : n \in 0..(Size[op.cid] - 1)}

\* WriteFile fails; Put returns the error.
PutWriteFails ==
  /\ op.pc = "write" /\ DiskMayFail
  /\ file' \in TornFiles
  /\ Unlock
  /\ sound' = (sound /\ file' = file)
  /\ UNCHANGED <<current, maxBytes, lru, refused, partial>>

-----------------------------------------------------------------------------
\* Clear().
Clear ==
  /\ Free
  /\ file' = <<>>
  /\ lru' = <<>>
  /\ current' = 0
  /\ sound' = TRUE /\ partial' = FALSE /\ refused' = NoCid
  /\ UNCHANGED <<maxBytes, op>>

\* A remove fails: the files removed before it are gone, and that is all.
ClearFails ==
  /\ Free /\ DiskMayFail
  /\ \E p \in Files : \E gone \in SUBSET (Files \ {p}) :
       file' = Restrict(file, Files \ gone)
  /\ sound' = (sound /\ file' = file) /\ partial' = TRUE
  /\ UNCHANGED <<current, maxBytes, lru, op, refused>>

\* The process stops at any point and starts again, with any configured quota.
Restart ==
  /\ file' \in (IF op.pc = "write" /\ DiskMayFail THEN TornFiles ELSE {file})
  /\ current' = SumFunction(file')
  /\ lru' \in Walks'
  /\ maxBytes' \in Quotas
  /\ op' = NoOp
  /\ sound' = (Whole' /\ current' <= maxBytes') /\ partial' = FALSE
  /\ refused' = NoCid

-----------------------------------------------------------------------------
\* Mutant of DeleteBlock: the CID stays tracked.
DeleteKeepsTracking(c) ==
  /\ Free /\ OnDisk(c)
  /\ file' = Without(PathOf(c))
  /\ current' = current - file[PathOf(c)]
  /\ UNCHANGED <<maxBytes, lru, op, refused, sound, partial>>

\* ContentBlockstore.DeleteBlock.  It takes the lock of the blockstore, not that of
\* the cache; the gateway has no caller that would run it beside another operation.
DeleteBlock(c) ==
  /\ Free /\ OnDisk(c)
  /\ file' = Without(PathOf(c))
  /\ current' = current - file[PathOf(c)]
  /\ lru' = RemoveFirst(lru, c)
  /\ UNCHANGED <<maxBytes, op, refused, sound, partial>>

-----------------------------------------------------------------------------
Next ==
  \/ \E c \in Cids : GetRead(c) \/ PutStart(c) \/ DeleteBlock(c)
  \/ \E n \in 1..maxBytes : EvictStart(n)
  \/ GetTouch
  \/ EvictOldest \/ EvictWalkStart \/ EvictWalk \/ EvictFails \/ EvictDone
  \/ PutWrite \/ PutWriteFails
  \/ Clear \/ ClearFails \/ Restart

Spec == Init /\ [][Next]_vars

-----------------------------------------------------------------------------
(* Properties.                                                             *)

\* No operation is in progress.
Quiet == op.pc = "idle"

\* currentBytes "tracks the current disk usage of the cache": crashes in the middle
\* of an operation, restarts and blocks replaced or evicted on either path leave it
\* exact, and the disk within maxBytes, until a file operation fails, a flat file is
\* replaced, or a start finds a torn file or more than its quota.
Accounting ==
  Quiet /\ sound => current = SumFunction(file) /\ SumFunction(file) <= maxBytes

\* A tracked CID has a file, because ContentBlockstore.Has answers from the LRU
\* alone: whatever writes, removes and crashes did, except a Clear that failed.
TrackedOnDisk == Quiet /\ ~partial => \A c \in ToSet(lru) : OnDisk(c)

\* Put refuses a block only if it is larger than the whole cache, even when the
\* LRU has lost track of the files that fill it, unless the disk failed it.
RefusesOnlyTooLarge == sound /\ refused # NoCid => Size[refused] > maxBytes
=============================================================================
