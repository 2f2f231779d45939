----------------------------- MODULE BlockStore -----------------------------
(***************************************************************************)
(* What the pool allocator and the linked lists together promise to the    *)
(* rest of the kernel: lists are sequences of blocks, a new block is one   *)
(* that no list holds, and there is none only when the lists hold all.     *)
(***************************************************************************)
EXTENDS Integers, SequencesExt

CONSTANTS Stock,   \* the blocks
          Lists,   \* the lists
          Nil      \* the answer when there is no block

VARIABLES contents,   \* list -> the sequence of its blocks
          answer      \* what the last operation returned

store == <<contents, answer>>

Held == UNION {Range(contents[l]) : l \in Lists}

Init == contents = [l \in Lists |-> <<>>] /\ answer = Nil

\* A block becomes element k of l.
Place(l, k) ==
    \/ /\ Stock \subseteq Held
       /\ answer' = Nil
       /\ UNCHANGED contents
    \/ \E b \in Stock \ Held :
          /\ answer' = b
          /\ contents' = [contents EXCEPT ![l] = InsertAt(@, k, b)]

\* Element k of l goes back to the stock.
GiveBack(l, k) ==
    /\ answer' = contents[l][k]
    /\ contents' = [contents EXCEPT ![l] = RemoveAt(@, k)]

\* Element k of l goes to the end of m, which may be l.
Pass(l, k, m) ==
    LET without == [contents EXCEPT ![l] = RemoveAt(@, k)]
    IN  /\ answer' = contents[l][k]
        /\ contents' = [without EXCEPT ![m] = Append(@, contents[l][k])]

Next ==
    \E l \in Lists :
       \/ \E k \in 1..(Len(contents[l]) + 1) : Place(l, k)
       \/ \E k \in 1..Len(contents[l]) :
             GiveBack(l, k) \/ \E m \in Lists : Pass(l, k, m)

Spec == Init /\ [][Next]_store
=============================================================================
