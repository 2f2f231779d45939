----------------------------- MODULE LinkedList -----------------------------
(***************************************************************************)
(* The intrusive doubly linked lists of linked_list.c: every list of the   *)
(* system is a ListHead, and the links are inside the items.  A state of   *)
(* the lists is a record of the fields of all items and heads; insert and  *)
(* detach map one such state to the next.                                  *)
(***************************************************************************)
EXTENDS Integers, SequencesExt

CONSTANTS
    Items,   \* the ListItems, whatever structure they are the first field of
    Heads,   \* the ListHeads
    Null     \* the null pointer

ASSUME ListAssumption == Null \notin Items

Pointers == Items \cup {Null}

ListState == [prev : [Items -> Pointers], next : [Items -> Pointers],
              first : [Heads -> Pointers], last : [Heads -> Pointers],
              size : [Heads -> Int]]

\* List_init of every head, and items as their allocation leaves them.
EmptyLists == [prev |-> [i \in Items |-> Null], next |-> [i \in Items |-> Null],
               first |-> [h \in Heads |-> Null], last |-> [h \in Heads |-> Null],
               size |-> [h \in Heads |-> 0]]

\* Mutant: the link back from the successor is forgotten.
InsertOneWay(ls, h, p, i) ==
    LET n == IF p # Null THEN ls.next[p] ELSE ls.first[h]
    IN  [ls EXCEPT !.prev = [x \in Items |-> IF x = i THEN p ELSE @[x]],
                   !.next = [x \in Items |-> IF x = p THEN i
                                             ELSE IF x = i THEN n ELSE @[x]],
                   !.first = IF p = Null THEN [@ EXCEPT ![h] = i] ELSE @,
                   !.last = IF n = Null THEN [@ EXCEPT ![h] = i] ELSE @,
                   !.size = [@ EXCEPT ![h] = @ + 1]]

\* List_insert of i after p, or at the front if p is null.  Its only guard is
\* on the item's own links.
Inserted(ls, h, p, i) ==
    LET n == IF p # Null THEN ls.next[p] ELSE ls.first[h]
    IN  IF ls.next[i] # Null \/ ls.prev[i] # Null THEN ls
        ELSE [prev  |-> [x \in Items |-> IF x = n THEN i
                                         ELSE IF x = i THEN p ELSE ls.prev[x]],
              next  |-> [x \in Items |-> IF x = p THEN i
                                         ELSE IF x = i THEN n ELSE ls.next[x]],
              first |-> [ls.first EXCEPT ![h] = IF p = Null THEN i ELSE @],
              last  |-> [ls.last EXCEPT ![h] = IF n = Null THEN i ELSE @],
              size  |-> [ls.size EXCEPT ![h] = @ + 1]]

\* Mutant: the links of the detached item are not cleared.
DetachedLinked(ls, h, i) ==
    LET p == ls.prev[i]
        n == ls.next[i]
    IN  [prev  |-> [x \in Items |-> IF x = n THEN p ELSE ls.prev[x]],
         next  |-> [x \in Items |-> IF x = p THEN n ELSE ls.next[x]],
         first |-> [ls.first EXCEPT ![h] = IF @ = i THEN n ELSE @],
         last  |-> [ls.last EXCEPT ![h] = IF @ = i THEN p ELSE @],
         size  |-> [ls.size EXCEPT ![h] = @ - 1]]

\* List_detach; it does not look whether i is in the list of h.
Detached(ls, h, i) ==
    LET p == ls.prev[i]
        n == ls.next[i]
    IN  [prev  |-> [x \in Items |-> IF x = i THEN Null
                                    ELSE IF x = n THEN p ELSE ls.prev[x]],
         next  |-> [x \in Items |-> IF x = i THEN Null
                                    ELSE IF x = p THEN n ELSE ls.next[x]],
         first |-> [ls.first EXCEPT ![h] = IF @ = i THEN n ELSE @],
         last  |-> [ls.last EXCEPT ![h] = IF @ = i THEN p ELSE @],
         size  |-> [ls.size EXCEPT ![h] = @ - 1]]

\* The items on the way from the head of h along next, size[h] steps at most.
Walk(ls, h) ==
    LET at[k \in 1..ls.size[h]] ==
            IF k = 1 THEN ls.first[h]
            ELSE IF at[k - 1] = Null THEN Null ELSE ls.next[at[k - 1]]
    IN  at

\* Mutant: the scan stops at the last item instead of after it.
FoundEarly(ls, h, i) == \E k \in 1..(Len(Walk(ls, h)) - 1) : Walk(ls, h)[k] = i

\* List_find: some item on the way from the head is i.
Found(ls, h, i) == i \in Range(Walk(ls, h))
-----------------------------------------------------------------------------
(* What the fields mean *)

\* The links around position k of the sequence s, the list of h.
LinkedAt(ls, s, k) ==
    /\ ls.next[s[k]] = IF k < Len(s) THEN s[k + 1] ELSE Null
    /\ ls.prev[s[k]] = IF k > 1 THEN s[k - 1] ELSE Null

\* The list of h is the sequence s.
Represents(ls, h, s) ==
    /\ ls.size[h] = Len(s)
    /\ ls.first[h] = IF s = <<>> THEN Null ELSE s[1]
    /\ ls.last[h] = IF s = <<>> THEN Null ELSE s[Len(s)]
    /\ \A k \in 1..Len(s) : LinkedAt(ls, s, k)

\* No item is twice in the sequences of c.
AllDistinct(c) ==
    \A g, h \in Heads : \A j \in 1..Len(c[g]), k \in 1..Len(c[h]) :
       c[g][j] = c[h][k] => g = h /\ j = k

\* An item in no list has null links, the only thing List_insert looks at.
OthersUnlinked(ls, c) ==
    \A i \in Items :
       (\A h \in Heads : i \notin Range(c[h])) => ls.prev[i] = Null /\ ls.next[i] = Null

ListsAre(ls, c) ==
    /\ \A h \in Heads : Represents(ls, h, c[h])
    /\ AllDistinct(c)
    /\ OthersUnlinked(ls, c)
=============================================================================
