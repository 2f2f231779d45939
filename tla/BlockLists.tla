----------------------------- MODULE BlockLists -----------------------------
(***************************************************************************)
(* The lists and the pool in the way every module of the kernel uses them: *)
(* the blocks of one pool are the items of some lists.  A block is taken   *)
(* and inserted in the same handler, moved between two lists, or detached  *)
(* and released in the same handler.  contents and chain are history: the  *)
(* sequences the links are meant to spell.                                 *)
(***************************************************************************)
EXTENDS LinkedList, PoolAllocator

ASSUME BlockAssumption == Items = Blocks

VARIABLES lists,      \* the fields of all items and heads
          pool,       \* the fields of the pool
          contents,   \* history: head -> the blocks inserted and not detached
          chain,      \* history: the free blocks, next one first
          answer      \* what the last operation returned

vars == <<lists, pool, contents, chain, answer>>

\* The item before position k of the list of h, as TimerList_add finds it.
Before(h, k) == IF k = 1 THEN Null ELSE contents[h][k - 1]

\* PCBPtr_alloc, TimerItem_alloc and the like, then List_insert before the
\* element at position k.
New(h, k) ==
    \/ /\ Exhausted(pool)
       /\ answer' = Null
       /\ UNCHANGED <<lists, pool, contents, chain>>
    \/ LET b == pool.first
       IN  /\ ~Exhausted(pool)
           /\ pool' = Got(pool)
           /\ chain' = Tail(chain)
           /\ lists' = Inserted(lists, h, Before(h, k), b)
           /\ contents' = [contents EXCEPT ![h] = InsertAt(@, k, b)]
           /\ answer' = b

\* List_detach of the element at position k, then the block goes back, unless
\* the pool refuses it.
Free(h, k) ==
    LET b == contents[h][k]
        ok == Verdict(pool, b * ItemSize) = Success
    IN  /\ lists' = Detached(lists, h, b)
        /\ contents' = [contents EXCEPT ![h] = RemoveAt(@, k)]
        /\ pool' = IF ok THEN Released(pool, b) ELSE pool
        /\ chain' = IF ok THEN <<b>> \o chain ELSE chain
        /\ answer' = IF ok THEN b ELSE Null

\* A scheduler's or exit's move of the element at position k to the end of the
\* list of g, which may be the same list.
Move(h, k, g) ==
    LET b    == contents[h][k]
        left == Detached(lists, h, b)
        rest == [contents EXCEPT ![h] = RemoveAt(@, k)]
    IN  /\ lists' = Inserted(left, g, left.last[g], b)
        /\ contents' = [rest EXCEPT ![g] = Append(@, b)]
        /\ answer' = b
        /\ UNCHANGED <<pool, chain>>

Init ==
    /\ lists = EmptyLists
    /\ pool = NewPool
    /\ contents = [h \in Heads |-> <<>>]
    /\ chain = [j \in 1..NumItems |-> j - 1]
    /\ answer = Null

Next ==
    \E h \in Heads :
       \/ \E k \in 1..(Len(contents[h]) + 1) : New(h, k)
       \/ \E k \in 1..Len(contents[h]) :
             Free(h, k) \/ \E g \in Heads : Move(h, k, g)

Spec == Init /\ [][Next]_vars
-----------------------------------------------------------------------------
TypeOK ==
    /\ lists \in ListState
    /\ pool \in PoolState
    /\ contents \in [Heads -> Seq(Items)]
    /\ chain \in Seq(Blocks)
    /\ answer \in Pointers

\* However blocks are inserted in the middle, moved and detached, the first,
\* last, next, prev and size fields of every list spell one sequence, no item
\* is on two lists, and an item on no list has null links: List_insert looks at
\* nothing else before it takes an item.
ListsIntact == ListsAre(lists, contents)

\* The indices of the free list visit every free block once and stop, whatever
\* the order in which blocks were taken and given back.
FreeListIntact == Chained(pool, chain)

\* No handler leaks a block or keeps using a free one: the blocks out of the
\* pool are those on some list.
NothingLeaks == InUse(pool) = UNION {Range(contents[h]) : h \in Heads}

\* List_find, by following next, finds exactly the members of the list.
FindAgrees ==
    \A h \in Heads, i \in Items : Found(lists, h, i) <=> i \in Range(contents[h])

\* The pool takes back an address if and only if it is that of a block on some
\* list, and refuses each other address for its own reason: a free block, a
\* multiple of the block size before or past the buffer, or none at all.
ReleaseChecked ==
    \A offset \in (-2 * ItemSize)..((NumItems + 2) * ItemSize) :
       LET Among(S) == \E b \in S : offset = b * ItemSize
           verdict  == Verdict(pool, offset)
       IN  /\ verdict = Success <=> \E h \in Heads : Among(Range(contents[h]))
           /\ verdict = DoubleFree <=> Among(Range(chain))
           /\ verdict = OutOfRange <=> Among(-2..(NumItems + 2) \ Blocks)
           /\ verdict = UnalignedFree <=> ~Among(-2..(NumItems + 2))

\* The pool and the lists implement the abstract store: what a handler gets is
\* never on a list, and it gets nothing only when all blocks are.  The lists
\* are what one reads by following the links.
Store == INSTANCE BlockStore WITH
            Stock <- Blocks, Lists <- Heads, Nil <- Null,
            contents <- [h \in Heads |-> Walk(lists, h)]
StoreSpec == Store!Spec
=============================================================================
