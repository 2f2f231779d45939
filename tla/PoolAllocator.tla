---------------------------- MODULE PoolAllocator ----------------------------
(***************************************************************************)
(* The allocator of pool_allocator.c: blocks of one size, and an array of  *)
(* indices that links the free ones.  Every structure of the system (PCB,  *)
(* PCBPtr, TimerItem, Resource, Descriptor, queue, item) has such a pool.  *)
(***************************************************************************)
EXTENDS Integers, SequencesExt

CONSTANTS
    NumItems,   \* blocks of the pool
    ItemSize    \* bytes of a block

ASSUME PoolAssumption == NumItems \in Nat \ {0} /\ ItemSize \in Nat \ {0}

Blocks == 0..(NumItems - 1)

NullIdx     == -1
DetachedIdx == -2

Success       == 0
UnalignedFree == -2
OutOfRange    == -3
DoubleFree    == -4

PoolState == [freeList : [Blocks -> Blocks \cup {NullIdx, DetachedIdx}],
              first : Blocks \cup {NullIdx}, size : Int]

\* PoolAllocator_init with enough memory.
NewPool ==
    [freeList |-> [b \in Blocks |-> IF b < NumItems - 1 THEN b + 1 ELSE NullIdx],
     first |-> 0, size |-> NumItems]

Exhausted(pool) == pool.first = NullIdx

\* Mutant: the block handed out is not marked.
GotUnmarked(pool) ==
    [pool EXCEPT !.first = pool.freeList[pool.first], !.size = @ - 1]

\* PoolAllocator_getBlock when there is one: block pool.first leaves the pool.
Got(pool) ==
    [freeList |-> [pool.freeList EXCEPT ![pool.first] = DetachedIdx],
     first |-> pool.freeList[pool.first], size |-> pool.size - 1]

\* Mutant: a block that is free already is taken back again.
VerdictTrusting(pool, offset) ==
    IF offset % ItemSize # 0 THEN UnalignedFree
    ELSE IF offset \div ItemSize \notin Blocks THEN OutOfRange
    ELSE Success

\* What PoolAllocator_releaseBlock answers for an address that many bytes from
\* the start of the buffer.
Verdict(pool, offset) ==
    IF offset % ItemSize # 0 THEN UnalignedFree
    ELSE IF offset \div ItemSize \notin Blocks THEN OutOfRange
    ELSE IF pool.freeList[offset \div ItemSize] # DetachedIdx THEN DoubleFree
    ELSE Success

\* Mutant: the released block forgets the ones that were free.
ReleasedAlone(pool, b) ==
    [freeList |-> [pool.freeList EXCEPT ![b] = NullIdx],
     first |-> b, size |-> pool.size + 1]

\* The pool after block b was taken back.
Released(pool, b) ==
    [freeList |-> [pool.freeList EXCEPT ![b] = pool.first],
     first |-> b, size |-> pool.size + 1]
-----------------------------------------------------------------------------
(* What the fields mean *)

InUse(pool) == {b \in Blocks : pool.freeList[b] = DetachedIdx}

\* Following the indices from first visits the blocks of s in order, ends, and
\* misses no block that is not in use.
Chained(pool, s) ==
    /\ pool.size = Len(s)
    /\ pool.first = IF s = <<>> THEN NullIdx ELSE s[1]
    /\ \A k \in 1..Len(s) :
          pool.freeList[s[k]] = IF k < Len(s) THEN s[k + 1] ELSE NullIdx
    /\ \A j, k \in 1..Len(s) : s[j] = s[k] => j = k
    /\ Range(s) = Blocks \ InUse(pool)
=============================================================================
