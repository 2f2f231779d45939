----------------------------- MODULE BlockProofs -----------------------------
(***************************************************************************)
(* Whatever the number of blocks and lists: insert and detach keep the     *)
(* links of all lists spelling their sequences, get and release keep the   *)
(* free list whole, and together they leak no block.                       *)
(***************************************************************************)
EXTENDS BlockLists, ListFacts, WellFoundedInduction

Contents == [Heads -> Seq(Items)]

\* Item i is on no list of c.
OnNone(c, i) == \A g \in Heads : \A j \in 1..Len(c[g]) : c[g][j] # i

\* The k-th place of the list s, seen from the item before and the one after.
PlaceBefore(s, k) == IF k = 1 THEN Null ELSE s[k - 1]
PlaceAfter(s, k)  == IF k = Len(s) THEN Null ELSE s[k + 1]
-----------------------------------------------------------------------------
(* List_insert *)

LEMMA RangeElements ==
    ASSUME NEW S, NEW s \in Seq(S), NEW e
    PROVE  /\ Len(s) \in Nat
           /\ \A j \in 1..Len(s) : s[j] \in S
           /\ e \in Range(s) <=> \E j \in 1..Len(s) : s[j] = e
BY LenProperties, ElementOfSeq DEF Range

LEMMA OnNoneRanges ==
    ASSUME NEW c \in Contents, NEW i
    PROVE  OnNone(c, i) <=> \A g \in Heads : i \notin Range(c[g])
BY RangeElements DEF Contents, OnNone

\* The fields after an insertion, when the guard lets it through.
LEMMA InsertedFields ==
    ASSUME NEW ls \in ListState, NEW c \in Contents, ListsAre(ls, c),
           NEW h \in Heads, NEW k \in 1..(Len(c[h]) + 1),
           NEW i \in Items, OnNone(c, i)
    PROVE  LET p == PlaceBefore(c[h], k)
               n == IF k <= Len(c[h]) THEN c[h][k] ELSE Null
               ms == Inserted(ls, h, p, i)
           IN  /\ ms \in ListState
               /\ \A x \in Items :
                     /\ ms.prev[x] = IF x = n THEN i ELSE IF x = i THEN p ELSE ls.prev[x]
                     /\ ms.next[x] = IF x = p THEN i ELSE IF x = i THEN n ELSE ls.next[x]
               /\ ms.first[h] = IF p = Null THEN i ELSE ls.first[h]
               /\ ms.last[h] = IF n = Null THEN i ELSE ls.last[h]
               /\ ms.size[h] = ls.size[h] + 1
               /\ \A g \in Heads \ {h} : /\ ms.first[g] = ls.first[g]
                                         /\ ms.last[g] = ls.last[g]
                                         /\ ms.size[g] = ls.size[g]
<1> DEFINE s == c[h]
           p == PlaceBefore(s, k)
           n == IF k <= Len(s) THEN s[k] ELSE Null
           m == IF p # Null THEN ls.next[p] ELSE ls.first[h]
           ms == Inserted(ls, h, p, i)
<1>1. s \in Seq(Items) /\ Len(s) \in Nat /\ \A j \in 1..Len(s) : s[j] \in Items
  BY RangeElements DEF Contents
<1>2. /\ Null \notin Items
      /\ ls.prev[i] = Null /\ ls.next[i] = Null
  BY ListAssumption, OnNoneRanges DEF ListsAre, OthersUnlinked
<1>3. /\ ls.first[h] = IF s = <<>> THEN Null ELSE s[1]
      /\ \A j \in 1..Len(s) : ls.next[s[j]] = IF j < Len(s) THEN s[j + 1] ELSE Null
  BY DEF ListsAre, Represents, LinkedAt
<1>4. p \in Pointers /\ n \in Pointers
  BY <1>1 DEF PlaceBefore, Pointers
<1>5. m = n
  <2>1. CASE k = 1
    <3>1. p = Null
      BY <2>1 DEF PlaceBefore
    <3>2. s = <<>> <=> Len(s) = 0
      BY <1>1, EmptySeq
    <3> QED
      BY <1>1, <1>3, <2>1, <3>1, <3>2
  <2>2. CASE k # 1
    <3>1. p = s[k - 1] /\ k - 1 \in 1..Len(s)
      BY <1>1, <2>2 DEF PlaceBefore
    <3>2. p # Null
      BY <1>1, <1>2, <3>1
    <3> QED
      BY <1>1, <1>3, <2>2, <3>1, <3>2
  <2> QED
    BY <2>1, <2>2
<1> HIDE DEF p, n, m
<1>6. ms = [prev  |-> [x \in Items |-> IF x = n THEN i
                                       ELSE IF x = i THEN p ELSE ls.prev[x]],
            next  |-> [x \in Items |-> IF x = p THEN i
                                       ELSE IF x = i THEN n ELSE ls.next[x]],
            first |-> [ls.first EXCEPT ![h] = IF p = Null THEN i ELSE @],
            last  |-> [ls.last EXCEPT ![h] = IF n = Null THEN i ELSE @],
            size  |-> [ls.size EXCEPT ![h] = @ + 1]]
  BY <1>2, <1>5 DEF Inserted, m
<1> HIDE DEF ms
<1>7. /\ ls.prev \in [Items -> Pointers] /\ ls.next \in [Items -> Pointers]
      /\ ls.first \in [Heads -> Pointers] /\ ls.last \in [Heads -> Pointers]
      /\ ls.size \in [Heads -> Int]
  BY DEF ListState
<1>8. i \in Pointers
  BY DEF Pointers
<1>9. ms \in ListState
  BY <1>4, <1>6, <1>7, <1>8 DEF ListState
<1>10. \A x \in Items :
         /\ ms.prev[x] = IF x = n THEN i ELSE IF x = i THEN p ELSE ls.prev[x]
         /\ ms.next[x] = IF x = p THEN i ELSE IF x = i THEN n ELSE ls.next[x]
  BY <1>6
<1>11. /\ ms.first[h] = IF p = Null THEN i ELSE ls.first[h]
       /\ ms.last[h] = IF n = Null THEN i ELSE ls.last[h]
       /\ ms.size[h] = ls.size[h] + 1
       /\ \A g \in Heads \ {h} : /\ ms.first[g] = ls.first[g]
                                 /\ ms.last[g] = ls.last[g]
                                 /\ ms.size[g] = ls.size[g]
  BY <1>6, <1>7
<1> QED
  BY <1>9, <1>10, <1>11 DEF ms, p, n, s

LEMMA InsertKeepsLists ==
    ASSUME NEW ls \in ListState, NEW c \in Contents, ListsAre(ls, c),
           NEW h \in Heads, NEW k \in 1..(Len(c[h]) + 1),
           NEW i \in Items, OnNone(c, i)
    PROVE  LET ms == Inserted(ls, h, PlaceBefore(c[h], k), i)
               d  == [c EXCEPT ![h] = InsertAt(@, k, i)]
           IN  ms \in ListState /\ d \in Contents /\ ListsAre(ms, d)
<1> DEFINE s == c[h]
           t == InsertAt(s, k, i)
           p == PlaceBefore(s, k)
           n == IF k <= Len(s) THEN s[k] ELSE Null
           ms == Inserted(ls, h, p, i)
           d == [c EXCEPT ![h] = t]
<1>1. /\ s \in Seq(Items) /\ Len(s) \in Nat
      /\ \A g \in Heads : /\ c[g] \in Seq(Items) /\ Len(c[g]) \in Nat
                          /\ \A j \in 1..Len(c[g]) : c[g][j] \in Items
  BY RangeElements DEF Contents
<1>2. /\ t \in Seq(Items) /\ Len(t) = Len(s) + 1
      /\ \A j \in 1..(Len(s) + 1) :
            t[j] = IF j < k THEN s[j] ELSE IF j = k THEN i ELSE s[j - 1]
  <2> HIDE DEF s
  <2>1. k \in 1..(Len(s) + 1)
    BY DEF s
  <2> QED
    BY <1>1, <2>1, InsertAtProperties
<1> HIDE DEF t
<1>3. d \in Contents /\ d[h] = t /\ \A g \in Heads \ {h} : d[g] = c[g]
  BY <1>2 DEF Contents
<1>4. /\ ms \in ListState
      /\ \A x \in Items :
            /\ ms.prev[x] = IF x = n THEN i ELSE IF x = i THEN p ELSE ls.prev[x]
            /\ ms.next[x] = IF x = p THEN i ELSE IF x = i THEN n ELSE ls.next[x]
      /\ ms.first[h] = IF p = Null THEN i ELSE ls.first[h]
      /\ ms.last[h] = IF n = Null THEN i ELSE ls.last[h]
      /\ ms.size[h] = ls.size[h] + 1
      /\ \A g \in Heads \ {h} : /\ ms.first[g] = ls.first[g]
                                /\ ms.last[g] = ls.last[g]
                                /\ ms.size[g] = ls.size[g]
  BY InsertedFields
<1> HIDE DEF d, ms
<1>5. /\ Null \notin Items
      /\ AllDistinct(c) /\ OthersUnlinked(ls, c)
      /\ \A g \in Heads : Represents(ls, g, c[g])
      /\ \A g \in Heads : \A j \in 1..Len(c[g]) : c[g][j] # i
  BY ListAssumption DEF ListsAre, OnNone
<1>6. /\ k = 1 => p = Null
      /\ k # 1 => p = s[k - 1] /\ k - 1 \in 1..Len(s) /\ p \in Items
  BY <1>1 DEF PlaceBefore
<1>7. /\ k <= Len(s) => n = s[k] /\ k \in 1..Len(s) /\ n \in Items
      /\ k > Len(s) => n = Null
  BY <1>1
<1> HIDE DEF n, p
<1>8. ASSUME NEW g \in Heads \ {h} PROVE Represents(ms, g, d[g])
  <2>1. \A j \in 1..Len(c[g]) : c[g][j] # p /\ c[g][j] # n /\ c[g][j] # i
    BY <1>1, <1>5, <1>6, <1>7 DEF AllDistinct
  <2>2. \A j \in 1..Len(c[g]) : LinkedAt(ls, c[g], j)
    BY <1>5 DEF Represents
  <2>3. \A j \in 1..Len(c[g]) : LinkedAt(ms, c[g], j)
    BY <1>1, <1>4, <2>1, <2>2 DEF LinkedAt
  <2>4. /\ ls.size[g] = Len(c[g])
        /\ ls.first[g] = IF c[g] = <<>> THEN Null ELSE c[g][1]
        /\ ls.last[g] = IF c[g] = <<>> THEN Null ELSE c[g][Len(c[g])]
    BY <1>5 DEF Represents
  <2> QED
    BY <1>3, <1>4, <2>3, <2>4 DEF Represents
<1>9. Represents(ms, h, t)
  <2>1. /\ ls.size[h] = Len(s)
        /\ ls.first[h] = IF s = <<>> THEN Null ELSE s[1]
        /\ ls.last[h] = IF s = <<>> THEN Null ELSE s[Len(s)]
        /\ \A j \in 1..Len(s) :
              /\ ls.next[s[j]] = IF j < Len(s) THEN s[j + 1] ELSE Null
              /\ ls.prev[s[j]] = IF j > 1 THEN s[j - 1] ELSE Null
    BY <1>5 DEF Represents, LinkedAt
  <2>2. s = <<>> <=> Len(s) = 0
    BY <1>1, EmptySeq
  <2>3. t # <<>>
    BY <1>1, <1>2, EmptySeq
  <2>4. ms.size[h] = Len(t)
    BY <1>2, <1>4, <2>1
  <2>5. ms.first[h] = t[1]
    BY <1>1, <1>2, <1>4, <1>5, <1>6, <2>1, <2>2
  <2>6. ms.last[h] = t[Len(t)]
    BY <1>1, <1>2, <1>4, <1>5, <1>7, <2>1, <2>2
  <2>7. \A j, l \in 1..Len(s) : s[j] = s[l] => j = l
    BY <1>5 DEF AllDistinct
  <2>8. \A j \in 1..Len(s) : s[j] # i /\ s[j] \in Items
    BY <1>1, <1>5
  <2>9. /\ \A j \in 1..Len(s) : s[j] = p <=> j = k - 1
        /\ \A j \in 1..Len(s) : s[j] = n <=> j = k
    <3>1. \A j \in 1..Len(s) : s[j] = p <=> j = k - 1
      BY <1>1, <1>5, <1>6, <2>7, <2>8
    <3>2. \A j \in 1..Len(s) : s[j] = n <=> j = k
      BY <1>1, <1>5, <1>7, <2>7, <2>8
    <3> QED
      BY <3>1, <3>2
  <2>10. ASSUME NEW j \in 1..(Len(s) + 1)
         PROVE  ms.next[t[j]] = IF j < Len(t) THEN t[j + 1] ELSE Null
    <3>1. CASE j < k
      <4>1. t[j] = s[j] /\ j \in 1..Len(s)
        BY <1>1, <1>2, <3>1
      <4>2. CASE j = k - 1
        BY <1>1, <1>2, <1>4, <2>8, <2>9, <4>1, <4>2
      <4>3. CASE j < k - 1
        <5>1. ms.next[t[j]] = ls.next[s[j]]
          BY <1>1, <1>4, <2>8, <2>9, <4>1, <4>3
        <5>2. ls.next[s[j]] = s[j + 1] /\ t[j + 1] = s[j + 1] /\ j < Len(t)
          BY <1>1, <1>2, <2>1, <4>1, <4>3, SMTT(30)
        <5> QED
          BY <5>1, <5>2
      <4> QED
        BY <3>1, <4>2, <4>3
    <3>2. CASE j = k
      <4>1. t[j] = i
        BY <1>2, <3>2
      <4>2. i # p
        BY <1>5, <1>6, <2>8
      <4>3. ms.next[i] = n
        BY <1>4, <4>2
      <4>4. CASE k <= Len(s)
        <5>1. j < Len(t) /\ t[j + 1] = s[k]
          BY <1>1, <1>2, <3>2, <4>4
        <5> QED
          BY <1>7, <4>1, <4>3, <4>4, <5>1
      <4>5. CASE k > Len(s)
        <5>1. ~(j < Len(t))
          BY <1>1, <1>2, <3>2, <4>5
        <5> QED
          BY <1>7, <4>1, <4>3, <4>5, <5>1
      <4> QED
        BY <1>1, <4>4, <4>5
    <3>3. CASE j > k
      <4>1. t[j] = s[j - 1] /\ j - 1 \in 1..Len(s) /\ j - 1 # k - 1
        BY <1>1, <1>2, <3>3
      <4>2. ms.next[t[j]] = ls.next[s[j - 1]]
        BY <1>4, <2>8, <2>9, <4>1
      <4>3. ls.next[s[j - 1]] = IF j - 1 < Len(s) THEN s[j] ELSE Null
        BY <2>1, <4>1
      <4>4. ASSUME j < Len(t) PROVE t[j + 1] = s[j]
        <5>1. j + 1 \in 1..(Len(s) + 1) /\ ~(j + 1 < k) /\ j + 1 # k /\ (j + 1) - 1 = j
          BY <1>1, <1>2, <3>3, <4>4
        <5> QED
          BY <1>2, <5>1
      <4> QED
        BY <1>1, <1>2, <4>2, <4>3, <4>4
    <3> QED
      BY <3>1, <3>2, <3>3
  <2>11. ASSUME NEW j \in 1..(Len(s) + 1)
         PROVE  ms.prev[t[j]] = IF j > 1 THEN t[j - 1] ELSE Null
    <3>1. CASE j < k
      <4>1. t[j] = s[j] /\ j \in 1..Len(s) /\ j # k
        BY <1>1, <1>2, <3>1
      <4>2. ms.prev[t[j]] = ls.prev[s[j]]
        BY <1>4, <2>8, <2>9, <4>1
      <4>3. j > 1 => t[j - 1] = s[j - 1]
        BY <1>1, <1>2, <3>1
      <4> QED
        BY <2>1, <4>1, <4>2, <4>3
    <3>2. CASE j = k
      <4>1. t[j] = i
        BY <1>2, <3>2
      <4>2. i # n
        BY <1>5, <1>7, <2>8
      <4>3. ms.prev[i] = p
        BY <1>4, <4>2
      <4> QED
        BY <1>1, <1>2, <1>6, <3>2, <4>1, <4>3
    <3>3. CASE j > k
      <4>1. t[j] = s[j - 1] /\ j - 1 \in 1..Len(s)
        BY <1>1, <1>2, <3>3
      <4>2. CASE j = k + 1
        BY <1>1, <1>2, <1>4, <2>8, <2>9, <4>1, <4>2
      <4>3. CASE j > k + 1
        <5>1. ms.prev[t[j]] = ls.prev[s[j - 1]]
          BY <1>4, <2>8, <2>9, <4>1, <4>3
        <5>2. ls.prev[s[j - 1]] = s[(j - 1) - 1]
          BY <1>1, <2>1, <4>1, <4>3
        <5>3. j - 1 \in 1..(Len(s) + 1) /\ ~(j - 1 < k) /\ j - 1 # k
          BY <1>1, <4>3
        <5>4. t[j - 1] = s[(j - 1) - 1]
          BY <1>2, <5>3
        <5> QED
          BY <1>1, <4>3, <5>1, <5>2, <5>4
      <4> QED
        BY <3>3, <4>2, <4>3
    <3> QED
      BY <3>1, <3>2, <3>3
  <2> QED
    BY <1>2, <2>3, <2>4, <2>5, <2>6, <2>10, <2>11 DEF Represents, LinkedAt
<1>10. AllDistinct(d)
  <2> SUFFICES ASSUME NEW f \in Heads, NEW g \in Heads,
                      NEW j \in 1..Len(d[f]), NEW l \in 1..Len(d[g]),
                      d[f][j] = d[g][l]
               PROVE  f = g /\ j = l
    BY DEF AllDistinct
  <2>1. \A e, b \in Heads : \A x \in 1..Len(c[e]), y \in 1..Len(c[b]) :
           c[e][x] = c[b][y] => e = b /\ x = y
    BY <1>5 DEF AllDistinct
  <2>2. \A x \in 1..Len(t) : t[x] = i \/ \E y \in 1..Len(s) : t[x] = s[y]
    BY <1>1, <1>2
  <2>3. CASE f = h /\ g = h
    <3>1. j \in 1..(Len(s) + 1) /\ l \in 1..(Len(s) + 1) /\ t[j] = t[l]
      BY <1>2, <1>3, <2>3
    <3>2. \A x, y \in 1..Len(s) : s[x] = s[y] => x = y
      BY <2>1
    <3>3. \A x \in 1..Len(s) : s[x] # i
      BY <1>5
    <3>4. /\ j < k => t[j] = s[j] /\ j \in 1..Len(s)
          /\ j > k => t[j] = s[j - 1] /\ j - 1 \in 1..Len(s)
          /\ l < k => t[l] = s[l] /\ l \in 1..Len(s)
          /\ l > k => t[l] = s[l - 1] /\ l - 1 \in 1..Len(s)
      BY <1>1, <1>2, <3>1
    <3>5. j = k => t[j] = i
      BY <1>2
    <3>6. l = k => t[l] = i
      BY <1>2
    <3> HIDE DEF s
    <3> QED
      BY <1>1, <2>3, <3>1, <3>2, <3>3, <3>4, <3>5, <3>6
  <2>4. CASE f = h /\ g # h
    BY <1>3, <1>5, <2>1, <2>2, <2>4, SMTT(30)
  <2>5. CASE f # h /\ g = h
    BY <1>3, <1>5, <2>1, <2>2, <2>5, SMTT(30)
  <2>6. CASE f # h /\ g # h
    BY <1>3, <2>1, <2>6
  <2> QED
    BY <2>3, <2>4, <2>5, <2>6
<1>11. OthersUnlinked(ms, d)
  <2> SUFFICES ASSUME NEW x \in Items, OnNone(d, x)
               PROVE  ms.prev[x] = Null /\ ms.next[x] = Null
    BY <1>3, OnNoneRanges DEF OthersUnlinked
  <2>1. \A j \in 1..(Len(s) + 1) : t[j] # x
    BY <1>2, <1>3 DEF OnNone
  <2>2. x # i
    BY <1>2, <2>1
  <2>3. \A j \in 1..Len(s) : s[j] # x
    <3>1. \A j \in 1..Len(s) : s[j] = IF j < k THEN t[j] ELSE t[j + 1]
      BY <1>1, <1>2, SMTT(30)
    <3> QED
      BY <1>1, <2>1, <3>1
  <2>4. x # p /\ x # n
    BY <1>5, <1>6, <1>7, <2>3
  <2>5. OnNone(c, x)
    BY <1>3, <2>3 DEF OnNone
  <2>6. ls.prev[x] = Null /\ ls.next[x] = Null
    BY <1>5, <2>5, OnNoneRanges DEF OthersUnlinked
  <2> QED
    BY <1>4, <2>2, <2>4, <2>6
<1> QED
  BY <1>3, <1>4, <1>8, <1>9, <1>10, <1>11 DEF ListsAre, d, t, ms, p
-----------------------------------------------------------------------------
(* List_detach *)

LEMMA DetachedFields ==
    ASSUME NEW ls \in ListState, NEW c \in Contents, ListsAre(ls, c),
           NEW h \in Heads, NEW k \in 1..Len(c[h])
    PROVE  LET i == c[h][k]
               p == PlaceBefore(c[h], k)
               n == PlaceAfter(c[h], k)
               ms == Detached(ls, h, i)
           IN  /\ ms \in ListState
               /\ \A x \in Items :
                     /\ ms.prev[x] = IF x = i THEN Null ELSE IF x = n THEN p ELSE ls.prev[x]
                     /\ ms.next[x] = IF x = i THEN Null ELSE IF x = p THEN n ELSE ls.next[x]
               /\ ms.first[h] = IF ls.first[h] = i THEN n ELSE ls.first[h]
               /\ ms.last[h] = IF ls.last[h] = i THEN p ELSE ls.last[h]
               /\ ms.size[h] = ls.size[h] - 1
               /\ \A g \in Heads \ {h} : /\ ms.first[g] = ls.first[g]
                                         /\ ms.last[g] = ls.last[g]
                                         /\ ms.size[g] = ls.size[g]
<1> DEFINE s == c[h]
           i == s[k]
           p == PlaceBefore(s, k)
           n == PlaceAfter(s, k)
           ms == Detached(ls, h, i)
<1>1. s \in Seq(Items) /\ Len(s) \in Nat /\ \A j \in 1..Len(s) : s[j] \in Items
  BY RangeElements DEF Contents
<1>2. \A j \in 1..Len(s) :
         /\ ls.next[s[j]] = IF j < Len(s) THEN s[j + 1] ELSE Null
         /\ ls.prev[s[j]] = IF j > 1 THEN s[j - 1] ELSE Null
  BY DEF ListsAre, Represents, LinkedAt
<1>3. ls.prev[i] = p /\ ls.next[i] = n
  BY <1>1, <1>2 DEF PlaceBefore, PlaceAfter
<1>4. i \in Items /\ p \in Pointers /\ n \in Pointers
  BY <1>1 DEF PlaceBefore, PlaceAfter, Pointers
<1> HIDE DEF p, n, i
<1>5. ms = [prev  |-> [x \in Items |-> IF x = i THEN Null
                                       ELSE IF x = n THEN p ELSE ls.prev[x]],
            next  |-> [x \in Items |-> IF x = i THEN Null
                                       ELSE IF x = p THEN n ELSE ls.next[x]],
            first |-> [ls.first EXCEPT ![h] = IF @ = i THEN n ELSE @],
            last  |-> [ls.last EXCEPT ![h] = IF @ = i THEN p ELSE @],
            size  |-> [ls.size EXCEPT ![h] = @ - 1]]
  BY <1>3 DEF Detached
<1> HIDE DEF ms
<1>6. /\ ls.prev \in [Items -> Pointers] /\ ls.next \in [Items -> Pointers]
      /\ ls.first \in [Heads -> Pointers] /\ ls.last \in [Heads -> Pointers]
      /\ ls.size \in [Heads -> Int]
  BY DEF ListState
<1>7. Null \in Pointers
  BY DEF Pointers
<1>8. ms \in ListState
  BY <1>4, <1>5, <1>6, <1>7 DEF ListState
<1>9. \A x \in Items :
        /\ ms.prev[x] = IF x = i THEN Null ELSE IF x = n THEN p ELSE ls.prev[x]
        /\ ms.next[x] = IF x = i THEN Null ELSE IF x = p THEN n ELSE ls.next[x]
  BY <1>5
<1>10. /\ ms.first[h] = IF ls.first[h] = i THEN n ELSE ls.first[h]
       /\ ms.last[h] = IF ls.last[h] = i THEN p ELSE ls.last[h]
       /\ ms.size[h] = ls.size[h] - 1
       /\ \A g \in Heads \ {h} : /\ ms.first[g] = ls.first[g]
                                 /\ ms.last[g] = ls.last[g]
                                 /\ ms.size[g] = ls.size[g]
  BY <1>5, <1>6
<1> QED
  BY <1>8, <1>9, <1>10 DEF ms, p, n, i, s

LEMMA DetachKeepsLists ==
    ASSUME NEW ls \in ListState, NEW c \in Contents, ListsAre(ls, c),
           NEW h \in Heads, NEW k \in Nat, k \in 1..Len(c[h])
    PROVE  LET ms == Detached(ls, h, c[h][k])
               d  == [c EXCEPT ![h] = RemoveAt(@, k)]
           IN  /\ ms \in ListState /\ d \in Contents /\ ListsAre(ms, d)
               /\ OnNone(d, c[h][k])
               /\ \A x : x # c[h][k] => (OnNone(d, x) <=> OnNone(c, x))
<1> DEFINE s == c[h]
           i == s[k]
           t == RemoveAt(s, k)
           p == PlaceBefore(s, k)
           n == PlaceAfter(s, k)
           ms == Detached(ls, h, i)
           d == [c EXCEPT ![h] = t]
<1>1. /\ s \in Seq(Items) /\ Len(s) \in Nat
      /\ \A g \in Heads : /\ c[g] \in Seq(Items) /\ Len(c[g]) \in Nat
                          /\ \A j \in 1..Len(c[g]) : c[g][j] \in Items
  BY RangeElements DEF Contents
<1>2. /\ t \in Seq(Items) /\ Len(t) = Len(s) - 1
      /\ \A j \in 1..(k - 1) : t[j] = s[j]
      /\ \A j \in k..(Len(s) - 1) : t[j] = s[j + 1]
  <2> HIDE DEF s
  <2>1. k \in 1..Len(s)
    BY DEF s
  <2> QED
    BY <1>1, <2>1, RemoveAtProperties
<1> HIDE DEF t
<1>3. d \in Contents /\ d[h] = t /\ \A g \in Heads \ {h} : d[g] = c[g]
  BY <1>2 DEF Contents
<1>4. /\ ms \in ListState
      /\ \A x \in Items :
            /\ ms.prev[x] = IF x = i THEN Null ELSE IF x = n THEN p ELSE ls.prev[x]
            /\ ms.next[x] = IF x = i THEN Null ELSE IF x = p THEN n ELSE ls.next[x]
      /\ ms.first[h] = IF ls.first[h] = i THEN n ELSE ls.first[h]
      /\ ms.last[h] = IF ls.last[h] = i THEN p ELSE ls.last[h]
      /\ ms.size[h] = ls.size[h] - 1
      /\ \A g \in Heads \ {h} : /\ ms.first[g] = ls.first[g]
                                /\ ms.last[g] = ls.last[g]
                                /\ ms.size[g] = ls.size[g]
  BY DetachedFields
<1> HIDE DEF d, ms
<1>5. /\ Null \notin Items
      /\ AllDistinct(c) /\ OthersUnlinked(ls, c)
      /\ \A g \in Heads : Represents(ls, g, c[g])
  BY ListAssumption DEF ListsAre
<1>6. /\ k = 1 => p = Null
      /\ k # 1 => p = s[k - 1] /\ k - 1 \in 1..Len(s) /\ p \in Items
      /\ k = Len(s) => n = Null
      /\ k # Len(s) => n = s[k + 1] /\ k + 1 \in 1..Len(s) /\ n \in Items
      /\ i \in Items
  BY <1>1 DEF PlaceBefore, PlaceAfter
<1>7. \A j, l \in 1..Len(s) : s[j] = s[l] => j = l
  BY <1>5 DEF AllDistinct
<1>8. \A j \in 1..Len(s) : /\ s[j] = i <=> j = k
                           /\ s[j] = p <=> j = k - 1
                           /\ s[j] = n <=> j = k + 1
                           /\ s[j] \in Items
  <2>1. \A j \in 1..Len(s) : s[j] = i <=> j = k
    BY <1>7
  <2>2. \A j \in 1..Len(s) : s[j] \in Items /\ s[j] # Null
    BY <1>1, <1>5
  <2> HIDE DEF s, p, n
  <2>3. \A j \in 1..Len(s) : s[j] = p <=> j = k - 1
    BY <1>1, <1>6, <1>7, <2>2
  <2>4. \A j \in 1..Len(s) : s[j] = n <=> j = k + 1
    BY <1>1, <1>6, <1>7, <2>2
  <2> QED
    BY <2>1, <2>2, <2>3, <2>4
<1>9. ASSUME NEW g \in Heads \ {h}, NEW j \in 1..Len(c[g])
      PROVE  c[g][j] # i /\ c[g][j] # p /\ c[g][j] # n /\ c[g][j] \in Items
  <2>1. \A l \in 1..Len(s) : c[g][j] # s[l]
    BY <1>5 DEF AllDistinct
  <2>2. c[g][j] \in Items /\ c[g][j] # Null
    BY <1>1, <1>5
  <2> QED
    BY <1>6, <2>1, <2>2
<1>10. \A j \in 1..(Len(s) - 1) :
          /\ j < k => t[j] = s[j] /\ j \in 1..Len(s)
          /\ j >= k => t[j] = s[j + 1] /\ j + 1 \in 1..Len(s)
  BY <1>1, <1>2
<1> HIDE DEF n, p, i
<1>11. ASSUME NEW g \in Heads \ {h} PROVE Represents(ms, g, d[g])
  <2>1. \A j \in 1..Len(c[g]) : LinkedAt(ls, c[g], j)
    BY <1>5 DEF Represents
  <2>2. \A j \in 1..Len(c[g]) : LinkedAt(ms, c[g], j)
    BY <1>4, <1>9, <2>1 DEF LinkedAt
  <2>3. /\ ls.size[g] = Len(c[g])
        /\ ls.first[g] = IF c[g] = <<>> THEN Null ELSE c[g][1]
        /\ ls.last[g] = IF c[g] = <<>> THEN Null ELSE c[g][Len(c[g])]
    BY <1>5 DEF Represents
  <2> QED
    BY <1>3, <1>4, <2>2, <2>3 DEF Represents
<1>12. Represents(ms, h, t)
  <2>1. /\ ls.size[h] = Len(s)
        /\ ls.first[h] = s[1]
        /\ ls.last[h] = s[Len(s)]
        /\ \A j \in 1..Len(s) :
              /\ ls.next[s[j]] = IF j < Len(s) THEN s[j + 1] ELSE Null
              /\ ls.prev[s[j]] = IF j > 1 THEN s[j - 1] ELSE Null
    <3>1. s # <<>>
      BY <1>1, EmptySeq
    <3> QED
      BY <1>5, <3>1 DEF Represents, LinkedAt
  <2>0. Len(s) \in Nat /\ Len(s) >= 1 /\ Len(t) \in Nat /\ Len(t) = Len(s) - 1
    BY <1>1, <1>2, LenProperties
  <2>2. t = <<>> <=> Len(s) = 1
    <3>1. t = <<>> <=> Len(t) = 0
      BY <1>2, EmptySeq
    <3> QED
      BY <1>1, <1>2, <3>1
  <2>3. ms.size[h] = Len(t)
    BY <1>2, <1>4, <2>1
  <2>4. ms.first[h] = IF t = <<>> THEN Null ELSE t[1]
    <3>1. CASE k = 1
      <4>1. ms.first[h] = n
        BY <1>1, <1>4, <1>8, <2>1, <3>1
      <4>2. CASE ~(Len(s) > 1)
        <5>1. Len(t) = 0 /\ Len(s) = 1
          <6> DEFINE ns == Len(s)
          <6>1. ns \in Nat /\ ns >= 1 /\ Len(t) \in Nat /\ Len(t) = ns - 1
            BY <2>0
          <6>2. ~(ns > 1)
            BY <4>2
          <6> HIDE DEF ns
          <6>3. ns = 1 /\ Len(t) = 0
            BY <6>1, <6>2
          <6> QED
            BY <6>3 DEF ns
        <5>2. t = <<>> /\ k = Len(s)
          BY <1>2, <3>1, <5>1, EmptySeq
        <5> QED
          BY <1>6, <4>1, <5>2
      <4>3. CASE Len(s) > 1
        <5>1. 1 \in 1..(Len(s) - 1) /\ 1 >= k
          BY <1>1, <3>1, <4>3
        <5>2. t[1] = s[1 + 1]
          BY <1>10, <5>1
        <5> QED
          BY <1>1, <1>6, <2>2, <3>1, <4>1, <4>3, <5>2
      <4> QED
        BY <4>2, <4>3
    <3>2. CASE k # 1
      <4>1. 1 \in 1..Len(s) /\ 1 \in 1..(Len(s) - 1) /\ 1 < k
        BY <1>1, <3>2
      <4>2. t[1] = s[1] /\ s[1] # i
        BY <1>8, <1>10, <3>2, <4>1
      <4>3. Len(s) # 1
        BY <1>1, <3>2
      <4> QED
        BY <1>4, <2>1, <2>2, <4>2, <4>3
    <3> QED
      BY <3>1, <3>2
  <2>5. ms.last[h] = IF t = <<>> THEN Null ELSE t[Len(t)]
    <3>1. CASE k = Len(s)
      <4>1. ms.last[h] = p
        BY <1>1, <1>4, <1>8, <2>1, <3>1
      <4>2. CASE Len(s) = 1
        BY <1>6, <2>2, <3>1, <4>1, <4>2
      <4>3. CASE Len(s) # 1
        <5>1. Len(t) = k - 1 /\ k - 1 \in 1..(Len(s) - 1) /\ k - 1 < k
          <6>1. Len(t) = Len(s) - 1
            BY <1>2
          <6>2. Len(s) \in Nat /\ k \in 1..Len(s)
            BY <1>1
          <6> HIDE DEF s
          <6> QED
            BY <3>1, <4>3, <6>1, <6>2
        <5>2. t[Len(t)] = s[k - 1]
          BY <1>10, <5>1
        <5> QED
          BY <1>6, <2>2, <3>1, <4>1, <4>3, <5>2
      <4> QED
        BY <4>2, <4>3
    <3>2. CASE k # Len(s)
      <4>1. /\ Len(s) \in 1..Len(s) /\ Len(t) \in 1..(Len(s) - 1)
            /\ Len(t) >= k /\ Len(t) + 1 = Len(s)
        BY <1>1, <1>2, <3>2
      <4>2. t[Len(t)] = s[Len(s)] /\ s[Len(s)] # i
        BY <1>8, <1>10, <3>2, <4>1
      <4>3. Len(s) # 1
        BY <1>1, <3>2
      <4> QED
        BY <1>4, <2>1, <2>2, <4>2, <4>3
    <3> QED
      BY <3>1, <3>2
  <2>6. ASSUME NEW j \in 1..(Len(s) - 1)
        PROVE  ms.next[t[j]] = IF j < Len(t) THEN t[j + 1] ELSE Null
    <3>1. CASE j < k
      <4>1. t[j] = s[j] /\ j \in 1..Len(s) /\ s[j] # i
        BY <1>8, <1>10, <3>1
      <4>2. CASE j = k - 1
        <5>1. ms.next[t[j]] = n
          BY <1>4, <1>8, <4>1, <4>2
        <5>2. CASE k = Len(s)
          BY <1>1, <1>2, <1>6, <4>2, <5>1, <5>2
        <5>3. CASE k # Len(s)
          <6>1. j < Len(t) /\ j + 1 = k /\ k \in 1..(Len(s) - 1)
            BY <1>1, <1>2, <4>2, <5>3
          <6>2. t[j + 1] = s[k + 1]
            BY <1>10, <6>1
          <6> QED
            BY <1>6, <5>1, <5>3, <6>1, <6>2
        <5> QED
          BY <5>2, <5>3
      <4>3. CASE j < k - 1
        <5>1. ms.next[t[j]] = ls.next[s[j]]
          BY <1>1, <1>4, <1>8, <4>1, <4>3
        <5>2. j < Len(t) /\ j < Len(s) /\ j + 1 \in 1..(Len(s) - 1) /\ j + 1 < k
          BY <1>1, <1>2, <4>3
        <5>3. t[j + 1] = s[j + 1]
          BY <1>10, <5>2
        <5> QED
          BY <2>1, <4>1, <5>1, <5>2, <5>3
      <4> QED
        BY <3>1, <4>2, <4>3
    <3>2. CASE j >= k
      <4>1. t[j] = s[j + 1] /\ j + 1 \in 1..Len(s) /\ j + 1 # k /\ j + 1 # k - 1
        BY <1>10, <3>2
      <4>2. ms.next[t[j]] = ls.next[s[j + 1]]
        BY <1>4, <1>8, <4>1
      <4>3. CASE j + 1 = Len(s)
        BY <1>1, <1>2, <2>1, <4>1, <4>2, <4>3
      <4>4. CASE j + 1 < Len(s)
        <5>1. j < Len(t) /\ j + 1 \in 1..(Len(s) - 1) /\ j + 1 >= k
          BY <1>1, <1>2, <3>2, <4>4
        <5>2. t[j + 1] = s[(j + 1) + 1]
          BY <1>10, <5>1
        <5> QED
          BY <2>1, <4>1, <4>2, <4>4, <5>1, <5>2
      <4> QED
        BY <1>1, <4>1, <4>3, <4>4
    <3> QED
      BY <3>1, <3>2
  <2>7. ASSUME NEW j \in 1..(Len(s) - 1)
        PROVE  ms.prev[t[j]] = IF j > 1 THEN t[j - 1] ELSE Null
    <3>1. CASE j < k
      <4>1. t[j] = s[j] /\ j \in 1..Len(s) /\ j # k /\ j # k + 1
        BY <1>10, <3>1
      <4>2. ms.prev[t[j]] = ls.prev[s[j]]
        BY <1>4, <1>8, <4>1
      <4>3. j > 1 => t[j - 1] = s[j - 1]
        BY <1>1, <1>10, <3>1
      <4> QED
        BY <2>1, <4>1, <4>2, <4>3
    <3>2. CASE j >= k
      <4>1. t[j] = s[j + 1] /\ j + 1 \in 1..Len(s) /\ s[j + 1] # i
        BY <1>8, <1>10, <3>2
      <4>2. CASE j = k
        <5>1. ms.prev[t[j]] = p
          BY <1>4, <1>8, <4>1, <4>2
        <5>2. CASE k = 1
          BY <1>6, <4>2, <5>1, <5>2
        <5>3. CASE k # 1
          <6>1. j > 1 /\ j - 1 = k - 1 /\ k - 1 \in 1..(Len(s) - 1) /\ k - 1 < k
            BY <1>1, <4>2, <5>3
          <6>2. t[j - 1] = s[k - 1]
            BY <1>10, <6>1
          <6> QED
            BY <1>6, <5>1, <5>3, <6>1, <6>2
        <5> QED
          BY <5>2, <5>3
      <4>3. CASE j > k
        <5>1. ms.prev[t[j]] = ls.prev[s[j + 1]]
          BY <1>1, <1>4, <1>8, <4>1, <4>3
        <5>2. /\ j > 1 /\ j - 1 \in 1..(Len(s) - 1) /\ j - 1 >= k
              /\ (j - 1) + 1 = j /\ (j + 1) - 1 = j /\ j + 1 > 1
          BY <1>1, <4>3
        <5>3. t[j - 1] = s[j]
          BY <1>10, <5>2
        <5>4. ls.prev[s[j + 1]] = s[j]
          BY <2>1, <4>1, <5>2
        <5> QED
          BY <5>1, <5>2, <5>3, <5>4
      <4> QED
        BY <3>2, <4>2, <4>3
    <3> QED
      BY <3>1, <3>2
  <2> QED
    BY <1>2, <2>3, <2>4, <2>5, <2>6, <2>7 DEF Represents, LinkedAt
<1>13. /\ \A x \in 1..(Len(s) - 1) : t[x] # i
       /\ \A x \in 1..(Len(s) - 1) : \E y \in 1..Len(s) : t[x] = s[y]
       /\ \A y \in 1..Len(s) : y # k => \E x \in 1..(Len(s) - 1) : t[x] = s[y]
  <2>1. ASSUME NEW x \in 1..(Len(s) - 1)
        PROVE  t[x] # i /\ \E y \in 1..Len(s) : t[x] = s[y]
    BY <1>1, <1>8, <1>10
  <2>2. ASSUME NEW y \in 1..Len(s), y # k
        PROVE  \E x \in 1..(Len(s) - 1) : t[x] = s[y]
    <3>1. CASE y < k
      <4>1. y \in 1..(Len(s) - 1)
        BY <1>1, <3>1
      <4> QED
        BY <1>10, <3>1, <4>1
    <3>2. CASE y > k
      <4>1. y - 1 \in 1..(Len(s) - 1) /\ y - 1 >= k /\ (y - 1) + 1 = y
        BY <1>1, <3>2
      <4> QED
        BY <1>10, <4>1
    <3> QED
      BY <2>2, <3>1, <3>2
  <2> QED
    BY <2>1, <2>2
<1>14. OnNone(d, i)
  <2>1. Len(t) = Len(s) - 1
    BY <1>2
  <2>2. \A j \in 1..Len(d[h]) : d[h][j] # i
    BY <1>3, <1>13, <2>1
  <2>3. \A g \in Heads \ {h} : \A j \in 1..Len(d[g]) : d[g][j] # i
    BY <1>3, <1>9
  <2> QED
    BY <2>2, <2>3 DEF OnNone
<1>15. ASSUME NEW x, x # i PROVE OnNone(d, x) <=> OnNone(c, x)
  <2>1. Len(t) = Len(s) - 1
    BY <1>2
  <2>2. \A j \in 1..Len(s) : j # k => s[j] # i
    BY <1>8
  <2>3. s[k] = i
    BY DEF i
  <2> HIDE DEF s
  <2>4. (\A j \in 1..Len(t) : t[j] # x) => (\A j \in 1..Len(s) : s[j] # x)
    <3> SUFFICES ASSUME \A j \in 1..Len(t) : t[j] # x, NEW j \in 1..Len(s), s[j] = x
                 PROVE  FALSE
      OBVIOUS
    <3>1. j # k
      BY <1>15, <2>3
    <3>2. PICK y \in 1..(Len(s) - 1) : t[y] = s[j]
      BY <1>13, <3>1
    <3> QED
      BY <2>1, <3>2
  <2>5. (\A j \in 1..Len(s) : s[j] # x) => (\A j \in 1..Len(t) : t[j] # x)
    BY <1>13, <2>1
  <2>6. (\A j \in 1..Len(d[h]) : d[h][j] # x) <=> (\A j \in 1..Len(c[h]) : c[h][j] # x)
    BY <1>3, <2>4, <2>5 DEF s
  <2>7. \A g \in Heads \ {h} :
          (\A j \in 1..Len(d[g]) : d[g][j] # x) <=> (\A j \in 1..Len(c[g]) : c[g][j] # x)
    BY <1>3
  <2> QED
    BY <2>6, <2>7 DEF OnNone
<1>16. AllDistinct(d)
  <2> SUFFICES ASSUME NEW f \in Heads, NEW g \in Heads,
                      NEW j \in 1..Len(d[f]), NEW l \in 1..Len(d[g]),
                      d[f][j] = d[g][l]
               PROVE  f = g /\ j = l
    BY DEF AllDistinct
  <2>1. \A e, b \in Heads : \A x \in 1..Len(c[e]), y \in 1..Len(c[b]) :
           c[e][x] = c[b][y] => e = b /\ x = y
    BY <1>5 DEF AllDistinct
  <2>2. CASE f = h /\ g = h
    <3>1. j \in 1..(Len(s) - 1) /\ l \in 1..(Len(s) - 1) /\ t[j] = t[l]
      BY <1>2, <1>3, <2>2
    <3> QED
      BY <1>7, <1>10, <2>2, <3>1
  <2>3. CASE f = h /\ g # h
    <3>1. j \in 1..(Len(s) - 1) /\ l \in 1..Len(c[g]) /\ t[j] = c[g][l]
      BY <1>2, <1>3, <2>3
    <3>2. PICK y \in 1..Len(s) : t[j] = s[y]
      BY <1>13, <3>1
    <3> QED
      BY <2>1, <2>3, <3>1, <3>2, ZenonT(60)
  <2>4. CASE f # h /\ g = h
    <3>1. l \in 1..(Len(s) - 1) /\ j \in 1..Len(c[f]) /\ t[l] = c[f][j]
      BY <1>2, <1>3, <2>4
    <3>2. PICK y \in 1..Len(s) : t[l] = s[y]
      BY <1>13, <3>1
    <3>3. c[f][j] = c[h][y]
      BY <3>1, <3>2
    <3> QED
      BY <2>1, <2>4, <3>1, <3>3
  <2>5. CASE f # h /\ g # h
    BY <1>3, <2>1, <2>5
  <2> QED
    BY <2>2, <2>3, <2>4, <2>5
<1>17. OthersUnlinked(ms, d)
  <2> SUFFICES ASSUME NEW x \in Items, OnNone(d, x)
               PROVE  ms.prev[x] = Null /\ ms.next[x] = Null
    BY <1>3, OnNoneRanges DEF OthersUnlinked
  <2>1. CASE x = i
    BY <1>4, <2>1
  <2>2. CASE x # i
    <3>1. OnNone(c, x)
      BY <1>15, <2>2
    <3>2. \A j \in 1..Len(s) : s[j] # x
      BY <3>1 DEF OnNone
    <3>3. x # p /\ x # n
      BY <1>5, <1>6, <3>2
    <3>4. ls.prev[x] = Null /\ ls.next[x] = Null
      BY <1>5, <3>1, OnNoneRanges DEF OthersUnlinked
    <3> QED
      BY <1>4, <2>2, <3>3, <3>4
  <2> QED
    BY <2>1, <2>2
<1> QED
  BY <1>3, <1>4, <1>11, <1>12, <1>14, <1>15, <1>16, <1>17, ZenonT(60) DEF ListsAre, d, t, ms, i
-----------------------------------------------------------------------------
(* The pool *)

LEMMA ChainElements ==
    ASSUME NEW pl \in PoolState, NEW s \in Seq(Blocks), Chained(pl, s)
    PROVE  /\ Len(s) \in Nat
           /\ \A j \in 1..Len(s) : s[j] \in Blocks \ InUse(pl)
           /\ \A b \in Blocks \ InUse(pl) : \E j \in 1..Len(s) : s[j] = b
           /\ pl.first = NullIdx <=> s = <<>>
           /\ s # <<>> => pl.first = s[1] /\ pl.first \in Blocks \ InUse(pl)
                          /\ 1 \in 1..Len(s)
<1>1. Len(s) \in Nat /\ \A b : b \in Range(s) <=> \E j \in 1..Len(s) : s[j] = b
  BY RangeElements
<1>2. Range(s) = Blocks \ InUse(pl)
  BY DEF Chained
<1>3. s # <<>> => 1 \in 1..Len(s)
  BY <1>1, EmptySeq
<1>4. pl.first = IF s = <<>> THEN NullIdx ELSE s[1]
  BY DEF Chained
<1>5. NullIdx \notin Blocks
  BY PoolAssumption DEF NullIdx, Blocks
<1> QED
  BY <1>1, <1>2, <1>3, <1>4, <1>5

\* PoolAllocator_getBlock hands out a block that was not in use, and only that
\* one leaves the free list.
LEMMA GetKeepsChain ==
    ASSUME NEW pl \in PoolState, NEW s \in Seq(Blocks), Chained(pl, s),
           ~Exhausted(pl)
    PROVE  /\ pl.first \in Blocks \ InUse(pl)
           /\ Got(pl) \in PoolState /\ Tail(s) \in Seq(Blocks)
           /\ Chained(Got(pl), Tail(s))
           /\ InUse(Got(pl)) = InUse(pl) \cup {pl.first}
<1> DEFINE b == pl.first
           t == Tail(s)
           q == Got(pl)
<1>1. s # <<>> /\ b = s[1] /\ b \in Blocks \ InUse(pl) /\ Len(s) \in Nat
  BY ChainElements DEF Exhausted
<1>2. /\ t \in Seq(Blocks) /\ Len(t) = Len(s) - 1 /\ Len(s) >= 1
      /\ \A j \in 1..(Len(s) - 1) : t[j] = s[j + 1]
  BY <1>1, HeadTailProperties, EmptySeq
<1>3. /\ pl.size = Len(s)
      /\ \A k \in 1..Len(s) :
            pl.freeList[s[k]] = IF k < Len(s) THEN s[k + 1] ELSE NullIdx
      /\ \A j, k \in 1..Len(s) : s[j] = s[k] => j = k
      /\ \A j \in 1..Len(s) : s[j] \in Blocks \ InUse(pl)
      /\ \A x \in Blocks \ InUse(pl) : \E j \in 1..Len(s) : s[j] = x
  BY ChainElements DEF Chained
<1>4. /\ pl.freeList \in [Blocks -> Blocks \cup {NullIdx, DetachedIdx}]
      /\ pl.first \in Blocks \cup {NullIdx} /\ pl.size \in Int
  BY DEF PoolState
<1>5. /\ q.freeList = [pl.freeList EXCEPT ![b] = DetachedIdx]
      /\ q.first = pl.freeList[b] /\ q.size = pl.size - 1
      /\ q = [freeList |-> q.freeList, first |-> q.first, size |-> q.size]
  BY DEF Got
<1> HIDE DEF q, t, b
<1>6. /\ q.freeList \in [Blocks -> Blocks \cup {NullIdx, DetachedIdx}]
      /\ q.freeList[b] = DetachedIdx
      /\ \A x \in Blocks \ {b} : q.freeList[x] = pl.freeList[x]
  BY <1>1, <1>4, <1>5
<1>7. InUse(q) = InUse(pl) \cup {b}
  BY <1>1, <1>6 DEF InUse
<1>8. q.first = IF t = <<>> THEN NullIdx ELSE t[1]
  <2>1. 1 \in 1..Len(s)
    BY <1>1, <1>2
  <2>2. q.first = IF 1 < Len(s) THEN s[1 + 1] ELSE NullIdx
    BY <1>1, <1>3, <1>5, <2>1
  <2>3. t = <<>> <=> Len(t) = 0
    BY <1>2, EmptySeq
  <2>4. CASE Len(s) > 1
    BY <1>1, <1>2, <2>2, <2>3, <2>4
  <2>5. CASE ~(Len(s) > 1)
    BY <1>1, <1>2, <2>2, <2>3, <2>5
  <2> QED
    BY <2>4, <2>5
<1>9. q \in PoolState
  <2>1. q.first \in Blocks \cup {NullIdx}
    <3>1. t # <<>> => t[1] \in Blocks
      BY <1>2, ElementOfSeq, EmptySeq, LenProperties
    <3> QED
      BY <1>8, <3>1
  <2>2. q.size \in Int
    BY <1>4, <1>5
  <2> QED
    BY <1>5, <1>6, <2>1, <2>2 DEF PoolState
<1>10. \A k \in 1..Len(t) : t[k] = s[k + 1] /\ k + 1 \in 1..Len(s) /\ t[k] # b
  BY <1>1, <1>2, <1>3
<1>11. ASSUME NEW k \in 1..Len(t)
       PROVE  q.freeList[t[k]] = IF k < Len(t) THEN t[k + 1] ELSE NullIdx
  <2>1. q.freeList[t[k]] = pl.freeList[s[k + 1]]
    BY <1>3, <1>6, <1>10
  <2>2. pl.freeList[s[k + 1]] = IF k + 1 < Len(s) THEN s[(k + 1) + 1] ELSE NullIdx
    BY <1>3, <1>10
  <2>3. k < Len(t) => k + 1 \in 1..Len(t)
    BY <1>1, <1>2
  <2> QED
    BY <1>1, <1>2, <1>10, <2>1, <2>2, <2>3
<1>12. \A j, k \in 1..Len(t) : t[j] = t[k] => j = k
  BY <1>1, <1>2, <1>3, <1>10
<1>13. Range(t) = Blocks \ InUse(q)
  <2>1. ASSUME NEW x \in Range(t) PROVE x \in Blocks \ InUse(q)
    <3>1. PICK j \in 1..Len(t) : t[j] = x
      BY <1>2, RangeElements
    <3> QED
      BY <1>3, <1>7, <1>10, <3>1
  <2>2. ASSUME NEW x \in Blocks \ InUse(q) PROVE x \in Range(t)
    <3>1. PICK j \in 1..Len(s) : s[j] = x
      BY <1>3, <1>7
    <3>2. j # 1
      BY <1>1, <1>7, <3>1
    <3>3. j - 1 \in 1..Len(t) /\ t[j - 1] = x
      BY <1>1, <1>2, <3>1, <3>2
    <3> QED
      BY <1>2, <3>3, RangeElements
  <2> QED
    BY <2>1, <2>2
<1>14. Chained(q, t)
  BY <1>1, <1>2, <1>3, <1>5, <1>8, <1>11, <1>12, <1>13 DEF Chained
<1> QED
  BY <1>1, <1>2, <1>7, <1>9, <1>14 DEF q, t, b

\* A block that goes back is the next one to be handed out, and only that one
\* joins the free list.
LEMMA ReleaseKeepsChain ==
    ASSUME NEW pl \in PoolState, NEW s \in Seq(Blocks), Chained(pl, s),
           NEW b \in InUse(pl)
    PROVE  /\ Released(pl, b) \in PoolState /\ <<b>> \o s \in Seq(Blocks)
           /\ Chained(Released(pl, b), <<b>> \o s)
           /\ InUse(Released(pl, b)) = InUse(pl) \ {b}
<1> DEFINE t == <<b>> \o s
           q == Released(pl, b)
<1>0. b \in Blocks
  BY DEF InUse
<1>1. Len(s) \in Nat /\ <<b>> \in Seq(Blocks) /\ Len(<<b>>) = 1 /\ <<b>>[1] = b
  BY <1>0, LenProperties
<1>2. /\ t \in Seq(Blocks) /\ Len(t) = 1 + Len(s)
      /\ \A j \in 1..(1 + Len(s)) : t[j] = IF j <= 1 THEN <<b>>[j] ELSE s[j - 1]
  BY <1>1, ConcatProperties
<1>3. t[1] = b /\ \A j \in 2..Len(t) : t[j] = s[j - 1] /\ j - 1 \in 1..Len(s)
  BY <1>1, <1>2
<1>4. /\ pl.size = Len(s)
      /\ pl.first = IF s = <<>> THEN NullIdx ELSE s[1]
      /\ \A k \in 1..Len(s) :
            pl.freeList[s[k]] = IF k < Len(s) THEN s[k + 1] ELSE NullIdx
      /\ \A j, k \in 1..Len(s) : s[j] = s[k] => j = k
      /\ \A j \in 1..Len(s) : s[j] \in Blocks \ InUse(pl) /\ s[j] # b
      /\ \A x \in Blocks \ InUse(pl) : \E j \in 1..Len(s) : s[j] = x
  BY ChainElements DEF Chained
<1>5. /\ pl.freeList \in [Blocks -> Blocks \cup {NullIdx, DetachedIdx}]
      /\ pl.first \in Blocks \cup {NullIdx} /\ pl.size \in Int
  BY DEF PoolState
<1>6. /\ q.freeList = [pl.freeList EXCEPT ![b] = pl.first]
      /\ q.first = b /\ q.size = pl.size + 1
      /\ q = [freeList |-> q.freeList, first |-> q.first, size |-> q.size]
  BY DEF Released
<1> HIDE DEF q, t
<1>7. /\ q.freeList \in [Blocks -> Blocks \cup {NullIdx, DetachedIdx}]
      /\ q.freeList[b] = pl.first
      /\ \A x \in Blocks \ {b} : q.freeList[x] = pl.freeList[x]
  BY <1>0, <1>5, <1>6
<1>8. q \in PoolState
  BY <1>0, <1>5, <1>6, <1>7 DEF PoolState
<1>9. InUse(q) = InUse(pl) \ {b}
  <2>1. pl.first # DetachedIdx
    BY <1>5, PoolAssumption DEF Blocks, NullIdx, DetachedIdx
  <2> QED
    BY <1>7, <2>1 DEF InUse
<1>10. ASSUME NEW k \in 1..Len(t)
       PROVE  q.freeList[t[k]] = IF k < Len(t) THEN t[k + 1] ELSE NullIdx
  <2>1. CASE k = 1
    <3>1. q.freeList[t[k]] = pl.first
      BY <1>3, <1>7, <2>1
    <3>2. s = <<>> <=> Len(s) = 0
      BY EmptySeq
    <3>3. s # <<>> => 2 \in 2..Len(t) /\ t[2] = s[1]
      BY <1>1, <1>2, <1>3, <3>2
    <3> QED
      BY <1>1, <1>2, <1>4, <2>1, <3>1, <3>2, <3>3
  <2>2. CASE k # 1
    <3>1. k \in 2..Len(t) /\ t[k] = s[k - 1] /\ k - 1 \in 1..Len(s)
      BY <1>1, <1>2, <1>3, <2>2
    <3>2. q.freeList[t[k]] = pl.freeList[s[k - 1]]
      BY <1>4, <1>7, <3>1
    <3>3. pl.freeList[s[k - 1]] = IF k - 1 < Len(s) THEN s[(k - 1) + 1] ELSE NullIdx
      BY <1>4, <3>1
    <3>4. k < Len(t) => k + 1 \in 2..Len(t) /\ t[k + 1] = s[k]
      BY <1>1, <1>2, <1>3, <3>1
    <3> QED
      BY <1>1, <1>2, <3>1, <3>2, <3>3, <3>4
  <2> QED
    BY <2>1, <2>2
<1>11. \A j, k \in 1..Len(t) : t[j] = t[k] => j = k
  <2> TAKE j, k \in 1..Len(t)
  <2>1. CASE j = 1 /\ k # 1
    BY <1>1, <1>2, <1>3, <1>4, <2>1
  <2>2. CASE j # 1 /\ k = 1
    BY <1>1, <1>2, <1>3, <1>4, <2>2
  <2>3. CASE j # 1 /\ k # 1
    <3>1. t[j] = s[j - 1] /\ j - 1 \in 1..Len(s) /\ t[k] = s[k - 1] /\ k - 1 \in 1..Len(s)
      BY <1>1, <1>2, <1>3, <2>3
    <3>2. ASSUME t[j] = t[k] PROVE j - 1 = k - 1
      <4>1. \A x, y \in 1..Len(s) : s[x] = s[y] => x = y
        BY <1>4
      <4>2. s[j - 1] = s[k - 1]
        BY <3>1, <3>2
      <4> QED
        BY <3>1, <4>1, <4>2
    <3>3. j - 1 = k - 1 => j = k
      OBVIOUS
    <3> QED
      BY <3>2, <3>3
  <2> QED
    BY <2>1, <2>2, <2>3
<1>12. Range(t) = Blocks \ InUse(q)
  <2>1. ASSUME NEW x \in Range(t) PROVE x \in Blocks \ InUse(q)
    <3>1. PICK j \in 1..Len(t) : t[j] = x
      BY <1>2, RangeElements
    <3>2. CASE j = 1
      BY <1>0, <1>3, <1>9, <3>1, <3>2
    <3>3. CASE j # 1
      BY <1>1, <1>2, <1>3, <1>4, <1>9, <3>1, <3>3
    <3> QED
      BY <3>2, <3>3
  <2>2. ASSUME NEW x \in Blocks \ InUse(q) PROVE x \in Range(t)
    <3>1. CASE x = b
      <4>1. 1 \in 1..Len(t) /\ t[1] = x
        BY <1>1, <1>2, <1>3, <3>1
      <4> QED
        BY <1>2, <4>1, RangeElements
    <3>2. CASE x # b
      <4>1. PICK j \in 1..Len(s) : s[j] = x
        BY <1>4, <1>9, <3>2
      <4>2. j + 1 \in 2..Len(t) /\ (j + 1) - 1 = j /\ j + 1 \in 1..Len(t)
        BY <1>1, <1>2
      <4>3. t[j + 1] = x
        BY <1>3, <4>1, <4>2
      <4> QED
        BY <1>2, <4>2, <4>3, RangeElements
    <3> QED
      BY <3>1, <3>2
  <2> QED
    BY <2>1, <2>2
<1>13. q.first = IF t = <<>> THEN NullIdx ELSE t[1]
  <2>1. t # <<>>
    BY <1>1, <1>2, EmptySeq
  <2> QED
    BY <1>3, <1>6, <2>1
<1>14. Chained(q, t)
  BY <1>1, <1>2, <1>4, <1>6, <1>10, <1>11, <1>12, <1>13 DEF Chained
<1> QED
  BY <1>2, <1>8, <1>9, <1>14 DEF q, t

\* The pool takes back exactly the addresses of blocks in use.
LEMMA VerdictSound ==
    ASSUME NEW pl \in PoolState, NEW offset \in Int
    PROVE  Verdict(pl, offset) = Success
              <=> \E b \in InUse(pl) : offset = b * ItemSize
<1>1. ItemSize \in Nat \ {0} /\ Success # UnalignedFree
      /\ Success # OutOfRange /\ Success # DoubleFree
  BY PoolAssumption DEF Success, UnalignedFree, OutOfRange, DoubleFree
<1>2. ASSUME Verdict(pl, offset) = Success
      PROVE  \E b \in InUse(pl) : offset = b * ItemSize
  <2>1. /\ offset % ItemSize = 0
        /\ offset \div ItemSize \in Blocks
        /\ pl.freeList[offset \div ItemSize] = DetachedIdx
    BY <1>1, <1>2 DEF Verdict
  <2>2. offset = (offset \div ItemSize) * ItemSize
    BY <1>1, <2>1, Z3
  <2> QED
    BY <2>1, <2>2 DEF InUse
<1>3. ASSUME NEW b \in InUse(pl), offset = b * ItemSize
      PROVE  Verdict(pl, offset) = Success
  <2>1. b \in Blocks /\ b \in Nat /\ pl.freeList[b] = DetachedIdx
    BY PoolAssumption DEF InUse, Blocks
  <2>2. (b * ItemSize) % ItemSize = 0
    BY <1>1, <2>1, Z3
  <2>3. (b * ItemSize) \div ItemSize = b
    BY <1>1, <2>1, Z3
  <2> QED
    BY <1>3, <2>1, <2>2, <2>3 DEF Verdict
<1> QED
  BY <1>2, <1>3
-----------------------------------------------------------------------------
(* The machine *)

\* The inductive invariant: the three pieces need each other, because the
\* block a handler inserts is on no list only if the pool and the lists agree
\* on what is in use.
BlockInv == TypeOK /\ ListsIntact /\ FreeListIntact /\ NothingLeaks

LEMMA OnNoneInUse ==
    ASSUME NEW c \in Contents
    PROVE  \A x : OnNone(c, x) <=> x \notin UNION {Range(c[h]) : h \in Heads}
BY OnNoneRanges

\* Append is insertion at the place after the last one.
LEMMA AppendIsInsert ==
    ASSUME NEW S, NEW s \in Seq(S), NEW e \in S, NEW p, p = Len(s) + 1
    PROVE  Append(s, e) = InsertAt(s, p, e) /\ p \in 1..(Len(s) + 1)
<1>1. Len(s) \in Nat
  BY LenProperties
<1>2. p \in 1..(Len(s) + 1)
  BY <1>1
<1> DEFINE Inserts(i) ==
             /\ InsertAt(s, i, e) \in Seq(S)
             /\ Len(InsertAt(s, i, e)) = Len(s) + 1
             /\ \A j \in 1..(Len(s) + 1) :
                   InsertAt(s, i, e)[j] = IF j < i THEN s[j] ELSE IF j = i THEN e ELSE s[j - 1]
<1>3. \A i \in 1..(Len(s) + 1) : Inserts(i)
  BY InsertAtProperties
<1> HIDE DEF Inserts
<1>4. Inserts(p)
  BY <1>2, <1>3
<1>5. /\ InsertAt(s, p, e) \in Seq(S)
      /\ Len(InsertAt(s, p, e)) = Len(s) + 1
      /\ \A j \in 1..(Len(s) + 1) :
            InsertAt(s, p, e)[j] = IF j < p THEN s[j] ELSE IF j = p THEN e ELSE s[j - 1]
  BY <1>4 DEF Inserts
<1>6. /\ Append(s, e) \in Seq(S) /\ Len(Append(s, e)) = Len(s) + 1
      /\ \A j \in 1..Len(s) : Append(s, e)[j] = s[j]
      /\ Append(s, e)[Len(s) + 1] = e
  BY AppendProperties
<1>7. \A j \in 1..(Len(s) + 1) : Append(s, e)[j] = InsertAt(s, p, e)[j]
  BY <1>1, <1>5, <1>6
<1> QED
  BY <1>2, <1>5, <1>6, <1>7, SeqEqual

LEMMA InitBlocks == Init => BlockInv
<1> SUFFICES ASSUME Init PROVE BlockInv
  OBVIOUS
<1>1. /\ lists = EmptyLists /\ pool = NewPool /\ contents = [h \in Heads |-> <<>>]
      /\ chain = [j \in 1..NumItems |-> j - 1] /\ answer = Null
      /\ NumItems \in Nat \ {0} /\ Null \in Pointers
  BY PoolAssumption DEF Init, Pointers
<1>2. chain \in Seq(Blocks) /\ Len(chain) = NumItems
      /\ \A j \in 1..NumItems : chain[j] = j - 1 /\ chain[j] \in Blocks
  <2>1. \A j \in 1..NumItems : j - 1 \in Blocks
    BY <1>1 DEF Blocks
  <2>2. NumItems \in Nat /\ \A j \in 1..NumItems : chain[j] = j - 1
    BY <1>1
  <2>3. chain \in [1..NumItems -> Blocks]
    BY <1>1, <2>1
  <2>4. chain \in Seq(Blocks)
    BY <2>2, <2>3, SeqDef
  <2>5. Len(chain) = NumItems
    <3>1. DOMAIN chain = 1..Len(chain) /\ Len(chain) \in Nat
      BY <2>4, LenProperties
    <3>2. DOMAIN chain = 1..NumItems
      BY <1>1
    <3> QED
      BY <2>2, <2>4, <3>2, LenProperties
  <2> QED
    BY <2>1, <2>2, <2>4, <2>5
<1>3. /\ pool.freeList = [b \in Blocks |-> IF b < NumItems - 1 THEN b + 1 ELSE NullIdx]
      /\ pool.first = 0 /\ pool.size = NumItems
      /\ pool = [freeList |-> pool.freeList, first |-> pool.first, size |-> pool.size]
  BY <1>1 DEF NewPool
<1>4. /\ \A b \in Blocks : /\ b \in Nat /\ b <= NumItems - 1
                           /\ b < NumItems - 1 => b + 1 \in Blocks
      /\ 0 \in Blocks
  BY <1>1 DEF Blocks
<1>12. InUse(pool) = {}
  <2>1. \A b \in Blocks : pool.freeList[b] = IF b < NumItems - 1 THEN b + 1 ELSE NullIdx
    BY <1>3
  <2>2. \A b \in Blocks : pool.freeList[b] # DetachedIdx
    BY <1>4, <2>1 DEF DetachedIdx, NullIdx
  <2> QED
    BY <2>2 DEF InUse
<1>13. pool \in PoolState
  <2>1. \A b \in Blocks : (IF b < NumItems - 1 THEN b + 1 ELSE NullIdx)
                             \in Blocks \cup {NullIdx, DetachedIdx}
    BY <1>4
  <2>2. pool.freeList \in [Blocks -> Blocks \cup {NullIdx, DetachedIdx}]
    BY <1>3, <2>1
  <2>3. pool.first \in Blocks \cup {NullIdx} /\ pool.size \in Int
    BY <1>1, <1>3, <1>4
  <2> QED
    BY <1>3, <2>2, <2>3 DEF PoolState
<1>5. \A h \in Heads : contents[h] = <<>> /\ Len(contents[h]) = 0 /\ Range(contents[h]) = {}
  BY <1>1 DEF Range
<1>6. contents \in Contents
  BY <1>1 DEF Contents
<1>7. lists \in ListState
  BY <1>1 DEF EmptyLists, ListState
<1>8. TypeOK
  <2>1. chain \in Seq(Blocks) /\ answer \in Pointers
    BY <1>1, <1>2
  <2> QED
    BY <1>6, <1>7, <1>13, <2>1 DEF TypeOK, Contents
<1>9. ListsIntact
  <2>1. \A h \in Heads : Represents(lists, h, contents[h])
    BY <1>1, <1>5 DEF EmptyLists, Represents
  <2>2. AllDistinct(contents)
    BY <1>5 DEF AllDistinct
  <2>3. OthersUnlinked(lists, contents)
    BY <1>1 DEF EmptyLists, OthersUnlinked
  <2> QED
    BY <2>1, <2>2, <2>3 DEF ListsIntact, ListsAre
<1>10. FreeListIntact
  <2>1. chain # <<>> /\ chain[1] = 0
    <3>1. 1 \in 1..NumItems
      BY <1>1
    <3> QED
      BY <1>1, <1>2, <3>1, EmptySeq
  <2>2. ASSUME NEW k \in 1..Len(chain)
        PROVE  pool.freeList[chain[k]] = IF k < Len(chain) THEN chain[k + 1] ELSE NullIdx
    <3>1. chain[k] = k - 1 /\ k - 1 \in Blocks /\ k \in 1..NumItems
      BY <1>2
    <3>2. pool.freeList[k - 1] = IF k - 1 < NumItems - 1 THEN (k - 1) + 1 ELSE NullIdx
      BY <1>3, <3>1
    <3>3. k < NumItems => chain[k + 1] = k
      <4>1. k < NumItems => k + 1 \in 1..NumItems /\ (k + 1) - 1 = k
        BY <1>1, <3>1
      <4> QED
        BY <1>2, <4>1
    <3> QED
      BY <1>1, <1>2, <3>1, <3>2, <3>3
  <2>3. \A j, k \in 1..Len(chain) : chain[j] = chain[k] => j = k
    BY <1>1, <1>2
  <2>4. Range(chain) = Blocks
    <3>1. ASSUME NEW x \in Blocks PROVE x \in Range(chain)
      <4>1. x + 1 \in 1..NumItems /\ chain[x + 1] = x
        BY <1>1, <1>2 DEF Blocks
      <4> QED
        BY <1>2, <4>1, RangeElements
    <3>2. ASSUME NEW x \in Range(chain) PROVE x \in Blocks
      BY <1>2, RangeElements
    <3> QED
      BY <3>1, <3>2
  <2> QED
    BY <1>2, <1>3, <1>12, <2>1, <2>2, <2>3, <2>4 DEF FreeListIntact, Chained
<1>11. NothingLeaks
  BY <1>5, <1>12 DEF NothingLeaks
<1> QED
  BY <1>8, <1>9, <1>10, <1>11 DEF BlockInv

LEMMA NewKeepsBlocks ==
    ASSUME BlockInv, NEW h \in Heads, NEW k \in 1..(Len(contents[h]) + 1), New(h, k)
    PROVE  BlockInv'
<1>1. /\ lists \in ListState /\ pool \in PoolState /\ contents \in Contents
      /\ chain \in Seq(Blocks) /\ answer \in Pointers
      /\ ListsAre(lists, contents) /\ Chained(pool, chain)
      /\ InUse(pool) = UNION {Range(contents[g]) : g \in Heads}
  BY DEF BlockInv, TypeOK, ListsIntact, FreeListIntact, NothingLeaks, Contents
<1>2. CASE Exhausted(pool)
  <2>1. UNCHANGED <<lists, pool, contents, chain>> /\ answer' = Null
    BY <1>2 DEF New
  <2>2. answer' \in Pointers
    BY <2>1 DEF Pointers
  <2> QED
    BY <2>1, <2>2 DEF BlockInv, TypeOK, ListsIntact, FreeListIntact, NothingLeaks
<1>3. CASE ~Exhausted(pool)
  <2> DEFINE b == pool.first
  <2>1. /\ pool' = Got(pool) /\ chain' = Tail(chain) /\ answer' = b
        /\ lists' = Inserted(lists, h, Before(h, k), b)
        /\ contents' = [contents EXCEPT ![h] = InsertAt(@, k, b)]
    BY <1>3 DEF New
  <2>2. /\ b \in Blocks \ InUse(pool)
        /\ pool' \in PoolState /\ chain' \in Seq(Blocks) /\ Chained(pool', chain')
        /\ InUse(pool') = InUse(pool) \cup {b}
    BY <1>1, <1>3, <2>1, GetKeepsChain
  <2> HIDE DEF b
  <2>3. b \in Items /\ OnNone(contents, b)
    BY <1>1, <2>2, BlockAssumption, OnNoneInUse
  <2>4. Before(h, k) = PlaceBefore(contents[h], k)
    BY DEF Before, PlaceBefore
  <2>5. lists' \in ListState /\ contents' \in Contents /\ ListsAre(lists', contents')
    BY <1>1, <2>1, <2>3, <2>4, InsertKeepsLists
  <2>6. InUse(pool') = UNION {Range(contents'[g]) : g \in Heads}
    <3>1. /\ contents[h] \in Seq(Items) /\ contents'[h] = InsertAt(contents[h], k, b)
          /\ \A g \in Heads \ {h} : contents'[g] = contents[g]
      BY <1>1, <2>1 DEF Contents
    <3>2. Range(contents'[h]) = Range(contents[h]) \cup {b}
      BY <2>3, <3>1, InsertAtRange
    <3> QED
      BY <1>1, <2>2, <3>1, <3>2, SMTT(30)
  <2>7. answer' \in Pointers
    BY <2>1, <2>3 DEF Pointers
  <2> QED
    BY <2>2, <2>5, <2>6, <2>7
       DEF BlockInv, TypeOK, ListsIntact, FreeListIntact, NothingLeaks, Contents
<1> QED
  BY <1>2, <1>3

\* What detaching element k of h leaves in the lists.
LEMMA DetachContents ==
    ASSUME BlockInv, NEW h \in Heads, NEW k \in 1..Len(contents[h])
    PROVE  LET b  == contents[h][k]
               ls == Detached(lists, h, b)
               d  == [contents EXCEPT ![h] = RemoveAt(@, k)]
           IN  /\ b \in InUse(pool) /\ b \in Items
               /\ ls \in ListState /\ d \in Contents /\ ListsAre(ls, d)
               /\ OnNone(d, b)
               /\ UNION {Range(d[g]) : g \in Heads} = InUse(pool) \ {b}
<1> DEFINE b  == contents[h][k]
           ls == Detached(lists, h, b)
           d  == [contents EXCEPT ![h] = RemoveAt(@, k)]
<1>1. /\ lists \in ListState /\ contents \in Contents
      /\ ListsAre(lists, contents)
      /\ InUse(pool) = UNION {Range(contents[g]) : g \in Heads}
  BY DEF BlockInv, TypeOK, ListsIntact, NothingLeaks, Contents
<1>2. contents[h] \in Seq(Items) /\ k \in Nat
  BY <1>1 DEF Contents
<1>3. b \in Items /\ b \in Range(contents[h])
  BY <1>2, RangeElements
<1>4. /\ ls \in ListState /\ d \in Contents /\ ListsAre(ls, d) /\ OnNone(d, b)
      /\ \A x : x # b => (OnNone(d, x) <=> OnNone(contents, x))
  BY <1>1, <1>2, DetachKeepsLists
<1> HIDE DEF b, d, ls
<1>5. UNION {Range(d[g]) : g \in Heads} = InUse(pool) \ {b}
  <2>1. /\ \A x : OnNone(d, x) <=> x \notin UNION {Range(d[g]) : g \in Heads}
        /\ \A x : OnNone(contents, x) <=> x \notin InUse(pool)
    BY <1>1, <1>4, OnNoneInUse
  <2> QED
    BY <1>4, <2>1
<1> QED
  BY <1>1, <1>3, <1>4, <1>5 DEF b, d, ls

LEMMA FreeKeepsBlocks ==
    ASSUME BlockInv, NEW h \in Heads, NEW k \in 1..Len(contents[h]), Free(h, k)
    PROVE  BlockInv'
<1> DEFINE b == contents[h][k]
<1>1. /\ pool \in PoolState /\ chain \in Seq(Blocks) /\ Chained(pool, chain)
  BY DEF BlockInv, TypeOK, FreeListIntact
<1>2. /\ lists' = Detached(lists, h, b)
      /\ contents' = [contents EXCEPT ![h] = RemoveAt(@, k)]
  BY DEF Free
<1>3. /\ b \in InUse(pool) /\ b \in Items
      /\ lists' \in ListState /\ contents' \in Contents /\ ListsAre(lists', contents')
      /\ UNION {Range(contents'[g]) : g \in Heads} = InUse(pool) \ {b}
  <2> DEFINE ls == Detached(lists, h, b)
             d  == [contents EXCEPT ![h] = RemoveAt(@, k)]
  <2>1. /\ b \in InUse(pool) /\ b \in Items
        /\ ls \in ListState /\ d \in Contents /\ ListsAre(ls, d)
        /\ UNION {Range(d[g]) : g \in Heads} = InUse(pool) \ {b}
    BY DetachContents
  <2>2. lists' = ls /\ contents' = d
    BY <1>2
  <2> HIDE DEF ls, d, b
  <2> QED
    BY <2>1, <2>2
<1>4. Verdict(pool, b * ItemSize) = Success
  <2>1. b \in Int /\ ItemSize \in Int
    BY <1>3, PoolAssumption DEF InUse, Blocks
  <2>2. b * ItemSize \in Int
    BY <2>1
  <2> QED
    BY <1>1, <1>3, <2>2, VerdictSound
<1>5. pool' = Released(pool, b) /\ chain' = <<b>> \o chain /\ answer' = b
  BY <1>4 DEF Free
<1> HIDE DEF b
<1>6. /\ pool' \in PoolState /\ chain' \in Seq(Blocks) /\ Chained(pool', chain')
      /\ InUse(pool') = InUse(pool) \ {b}
  BY <1>1, <1>3, <1>5, ReleaseKeepsChain
<1>7. answer' \in Pointers
  BY <1>3, <1>5 DEF Pointers
<1> QED
  BY <1>3, <1>6, <1>7
     DEF BlockInv, TypeOK, ListsIntact, FreeListIntact, NothingLeaks, Contents

LEMMA MoveKeepsBlocks ==
    ASSUME BlockInv, NEW h \in Heads, NEW k \in 1..Len(contents[h]), NEW g \in Heads,
           Move(h, k, g)
    PROVE  BlockInv'
<1> DEFINE b    == contents[h][k]
           left == Detached(lists, h, b)
           rest == [contents EXCEPT ![h] = RemoveAt(@, k)]
           p    == Len(rest[g]) + 1
<1>1. /\ b \in InUse(pool) /\ b \in Items
      /\ left \in ListState /\ rest \in Contents /\ ListsAre(left, rest)
      /\ OnNone(rest, b)
      /\ UNION {Range(rest[f]) : f \in Heads} = InUse(pool) \ {b}
  BY DetachContents
<1>2. /\ lists' = Inserted(left, g, left.last[g], b)
      /\ contents' = [rest EXCEPT ![g] = Append(@, b)]
      /\ answer' = b /\ pool' = pool /\ chain' = chain
  BY DEF Move
<1> HIDE DEF b, left, rest
<1>3. rest[g] \in Seq(Items)
  BY <1>1 DEF Contents
<1>4. Append(rest[g], b) = InsertAt(rest[g], p, b) /\ p \in 1..(Len(rest[g]) + 1)
  BY <1>1, <1>3, AppendIsInsert
<1>5. left.last[g] = PlaceBefore(rest[g], p)
  <2>1. left.last[g] = IF rest[g] = <<>> THEN Null ELSE rest[g][Len(rest[g])]
    BY <1>1 DEF ListsAre, Represents
  <2>2. Len(rest[g]) \in Nat /\ (rest[g] = <<>> <=> Len(rest[g]) = 0)
    BY <1>3, LenProperties, EmptySeq
  <2> HIDE DEF p
  <2>3. p - 1 = Len(rest[g]) /\ (p = 1 <=> Len(rest[g]) = 0)
    BY <2>2 DEF p
  <2> QED
    BY <2>1, <2>2, <2>3 DEF PlaceBefore
<1>6. contents' = [rest EXCEPT ![g] = InsertAt(@, p, b)]
  BY <1>2, <1>4
<1> HIDE DEF p
<1>7. lists' \in ListState /\ contents' \in Contents /\ ListsAre(lists', contents')
  <2>1. lists' = Inserted(left, g, PlaceBefore(rest[g], p), b)
    BY <1>2, <1>5
  <2>2. /\ Inserted(left, g, PlaceBefore(rest[g], p), b) \in ListState
        /\ [rest EXCEPT ![g] = InsertAt(@, p, b)] \in Contents
        /\ ListsAre(Inserted(left, g, PlaceBefore(rest[g], p), b),
                    [rest EXCEPT ![g] = InsertAt(@, p, b)])
    BY <1>1, <1>4, InsertKeepsLists
  <2> QED
    BY <1>6, <2>1, <2>2
<1>8. UNION {Range(contents'[f]) : f \in Heads} = InUse(pool)
  <2>1. /\ contents'[g] = InsertAt(rest[g], p, b)
        /\ \A f \in Heads \ {g} : contents'[f] = rest[f]
    BY <1>1, <1>6 DEF Contents
  <2>2. Range(contents'[g]) = Range(rest[g]) \cup {b}
    BY <1>1, <1>3, <1>4, <2>1, InsertAtRange
  <2> DEFINE old == UNION {Range(rest[f]) : f \in Heads}
             new == UNION {Range(contents'[f]) : f \in Heads}
  <2>3. ASSUME NEW x \in new PROVE x \in old \cup {b}
    BY <2>1, <2>2, <2>3
  <2>4. ASSUME NEW x \in old \cup {b} PROVE x \in new
    BY <2>1, <2>2, <2>4
  <2>5. new = old \cup {b}
    BY <2>3, <2>4
  <2>6. old = InUse(pool) \ {b} /\ b \in InUse(pool)
    BY <1>1
  <2> HIDE DEF old, new
  <2>7. new = InUse(pool)
    BY <2>5, <2>6
  <2> QED
    BY <2>7 DEF new
<1>9. answer' \in Pointers
  BY <1>1, <1>2 DEF Pointers
<1> QED
  BY <1>2, <1>7, <1>8, <1>9
     DEF BlockInv, TypeOK, ListsIntact, FreeListIntact, NothingLeaks, Contents

LEMMA NextKeepsBlocks == BlockInv /\ [Next]_vars => BlockInv'
<1> SUFFICES ASSUME BlockInv, [Next]_vars PROVE BlockInv'
  OBVIOUS
<1>1. CASE Next
  BY <1>1, NewKeepsBlocks, FreeKeepsBlocks, MoveKeepsBlocks DEF Next
<1>2. CASE UNCHANGED vars
  BY <1>2 DEF vars, BlockInv, TypeOK, ListsIntact, FreeListIntact, NothingLeaks
<1> QED
  BY <1>1, <1>2

LEMMA BlocksSafe == Spec => []BlockInv
BY InitBlocks, NextKeepsBlocks, PTL DEF Spec

\* The links of every list always spell one sequence.
THEOREM ListsAlwaysIntact == Spec => []ListsIntact
<1>1. BlockInv => ListsIntact
  BY DEF BlockInv
<1> QED
  BY <1>1, BlocksSafe, PTL

\* The free list always visits the free blocks once each.
THEOREM FreeListAlwaysIntact == Spec => []FreeListIntact
<1>1. BlockInv => FreeListIntact
  BY DEF BlockInv
<1> QED
  BY <1>1, BlocksSafe, PTL

\* A block is out of its pool exactly while it is on a list.
THEOREM NothingEverLeaks == Spec => []NothingLeaks
<1>1. BlockInv => NothingLeaks
  BY DEF BlockInv
<1> QED
  BY <1>1, BlocksSafe, PTL

\* A multiple of the block size within two blocks of the buffer is that of a
\* number within two of the blocks' numbers.
LEMMA MultipleNear ==
    ASSUME NEW k \in Int,
           k * ItemSize \in (-2 * ItemSize)..((NumItems + 2) * ItemSize)
    PROVE  k \in -2..(NumItems + 2)
<1>1. ItemSize \in Nat \ {0} /\ NumItems \in Nat /\ NumItems + 2 \in Int
  BY PoolAssumption
<1>2. /\ -2 * ItemSize <= k * ItemSize
      /\ k * ItemSize <= (NumItems + 2) * ItemSize
  BY <1>1
<1>3. \A i, j \in Int : i < j => i * ItemSize < j * ItemSize
  BY <1>1, Z3
<1>4. ~(k < -2)
  BY <1>1, <1>2, <1>3
<1>5. ~(NumItems + 2 < k)
  BY <1>1, <1>2, <1>3
<1> QED
  BY <1>1, <1>4, <1>5

\* Each answer has its own addresses.
LEMMA VerdictReasons ==
    ASSUME NEW pl \in PoolState, NEW offset \in Int
    PROVE  /\ Verdict(pl, offset) = UnalignedFree
                <=> ~\E k \in Int : offset = k * ItemSize
           /\ Verdict(pl, offset) = OutOfRange
                <=> \E k \in Int \ Blocks : offset = k * ItemSize
           /\ Verdict(pl, offset) = DoubleFree
                <=> \E b \in Blocks \ InUse(pl) : offset = b * ItemSize
<1> DEFINE idx == offset \div ItemSize
<1>1. ItemSize \in Nat \ {0} /\ Blocks \subseteq Int
  BY PoolAssumption DEF Blocks
<1>2. ASSUME NEW k \in Int, offset = k * ItemSize
      PROVE  offset % ItemSize = 0 /\ idx = k
  BY <1>1, <1>2, Z3
<1>3. ASSUME offset % ItemSize = 0
      PROVE  idx \in Int /\ offset = idx * ItemSize
  BY <1>1, <1>3, Z3
<1>4. Verdict(pl, offset) =
         IF offset % ItemSize # 0 THEN UnalignedFree
         ELSE IF idx \notin Blocks THEN OutOfRange
         ELSE IF idx \notin InUse(pl) THEN DoubleFree ELSE Success
  BY DEF Verdict, InUse
<1>5. /\ UnalignedFree # OutOfRange /\ UnalignedFree # DoubleFree
      /\ UnalignedFree # Success /\ OutOfRange # DoubleFree
      /\ OutOfRange # Success /\ DoubleFree # Success
  BY DEF Success, UnalignedFree, OutOfRange, DoubleFree
<1> HIDE DEF idx
<1>6. offset % ItemSize = 0 <=> \E k \in Int : offset = k * ItemSize
  BY <1>2, <1>3
<1>7. offset % ItemSize = 0 /\ idx \notin Blocks
         <=> \E k \in Int \ Blocks : offset = k * ItemSize
  BY <1>2, <1>3
<1>8. offset % ItemSize = 0 /\ idx \in Blocks /\ idx \notin InUse(pl)
         <=> \E b \in Blocks \ InUse(pl) : offset = b * ItemSize
  BY <1>1, <1>2, <1>3
<1> QED
  BY <1>4, <1>5, <1>6, <1>7, <1>8

LEMMA InvReleaseChecked == BlockInv => ReleaseChecked
<1> SUFFICES ASSUME BlockInv,
                    NEW offset \in (-2 * ItemSize)..((NumItems + 2) * ItemSize)
             PROVE  LET Among(S) == \E b \in S : offset = b * ItemSize
                        verdict  == Verdict(pool, offset)
                    IN  /\ verdict = Success <=> \E h \in Heads : Among(Range(contents[h]))
                        /\ verdict = DoubleFree <=> Among(Range(chain))
                        /\ verdict = OutOfRange <=> Among(-2..(NumItems + 2) \ Blocks)
                        /\ verdict = UnalignedFree <=> ~Among(-2..(NumItems + 2))
  BY DEF ReleaseChecked
<1>1. /\ pool \in PoolState /\ Range(chain) = Blocks \ InUse(pool)
      /\ InUse(pool) = UNION {Range(contents[h]) : h \in Heads}
  BY DEF BlockInv, TypeOK, FreeListIntact, Chained, NothingLeaks
<1>2. offset \in Int /\ ItemSize \in Nat \ {0} /\ NumItems \in Nat
  BY PoolAssumption
<1>3. Verdict(pool, offset) = Success
         <=> \E h \in Heads : \E b \in Range(contents[h]) : offset = b * ItemSize
  BY <1>1, <1>2, VerdictSound
<1>4. Verdict(pool, offset) = DoubleFree
         <=> \E b \in Range(chain) : offset = b * ItemSize
  BY <1>1, <1>2, VerdictReasons
<1>5. \A k \in Int : offset = k * ItemSize => k \in -2..(NumItems + 2)
  BY MultipleNear
<1>6. -2..(NumItems + 2) \subseteq Int
  BY <1>2
<1>7. Verdict(pool, offset) = OutOfRange
         <=> \E b \in -2..(NumItems + 2) \ Blocks : offset = b * ItemSize
  BY <1>1, <1>2, <1>5, <1>6, VerdictReasons
<1>8. Verdict(pool, offset) = UnalignedFree
         <=> ~\E b \in -2..(NumItems + 2) : offset = b * ItemSize
  BY <1>1, <1>2, <1>5, <1>6, VerdictReasons
<1> QED
  BY <1>3, <1>4, <1>7, <1>8

\* Whatever address a handler passes, release tells a block in use from any
\* other address, and the other addresses from each other.
THEOREM ReleaseAlwaysChecked == Spec => []ReleaseChecked
BY InvReleaseChecked, BlocksSafe, PTL

-----------------------------------------------------------------------------
(* List_find, and the abstract store *)

\* A set of numbers has a least one: induction, for a property given as a set.
LEMMA LeastNat ==
    ASSUME NEW T \in SUBSET Nat, T # {}
    PROVE  \E n \in T : \A m \in T : n <= m
<1> DEFINE R == {ss \in Nat \X Nat : ss[1] < ss[2]}
<1>1. IsWellFoundedOn(R, Nat)
  BY NatLessThanWellFounded DEF OpToRel
<1> HIDE DEF R
<1>2. PICK x \in T : \A y \in T : ~(<<y, x>> \in R)
  BY <1>1, WFMin
<1>3. \A y \in T : ~(y < x)
  BY <1>2 DEF R
<1> QED
  BY <1>3

\* Following the links of a list that spells s, step by step, gives s.
LEMMA WalkSpells ==
    ASSUME NEW ls \in ListState, NEW h \in Heads, NEW s \in Seq(Items),
           Represents(ls, h, s)
    PROVE  Walk(ls, h) = s
<1> DEFINE n    == Len(s)
           f(g) == [k \in 1..ls.size[h] |->
                      IF k = 1 THEN ls.first[h]
                      ELSE IF g[k - 1] = Null THEN Null ELSE ls.next[g[k - 1]]]
<1>1. /\ n \in Nat /\ ls.size[h] = n /\ DOMAIN s = 1..n
      /\ \A k \in 1..n : s[k] \in Items /\ s[k] # Null
      /\ n > 0 => ls.first[h] = s[1]
      /\ \A k \in 1..n : k < n => ls.next[s[k]] = s[k + 1]
  BY LenProperties, ElementOfSeq, EmptySeq, ListAssumption DEF Represents, LinkedAt
<1> HIDE DEF n
<1>2. \A k \in 1..n : s[k] = IF k = 1 THEN ls.first[h]
                             ELSE IF s[k - 1] = Null THEN Null ELSE ls.next[s[k - 1]]
  <2> SUFFICES ASSUME NEW k \in 1..n, k # 1
               PROVE  s[k - 1] # Null /\ s[k] = ls.next[s[k - 1]]
    BY <1>1
  <2> DEFINE j == k - 1
  <2>1. j \in 1..n /\ j < n /\ j + 1 = k
    BY <1>1
  <2> HIDE DEF j
  <2>2. s[j] # Null /\ ls.next[s[j]] = s[k]
    BY <1>1, <2>1
  <2> QED
    BY <2>2 DEF j
<1>3. s = f(s)
  <2>1. s = [k \in 1..n |-> s[k]]
    BY <1>1
  <2> QED
    BY <1>1, <1>2, <2>1
<1>4. ASSUME NEW g, g = f(g) PROVE g = s
  <2> DEFINE bad == {k \in 1..n : g[k] # s[k]}
  <2>1. /\ DOMAIN g = 1..n /\ g = [k \in 1..n |-> g[k]]
        /\ \A k \in 1..n : g[k] = IF k = 1 THEN ls.first[h]
                                  ELSE IF g[k - 1] = Null THEN Null ELSE ls.next[g[k - 1]]
    BY <1>1, <1>4
  <2>2. bad = {}
    <3> SUFFICES ASSUME bad # {} PROVE FALSE
      OBVIOUS
    <3>1. bad \in SUBSET Nat
      BY <1>1
    <3>2. PICK m \in bad : \A k \in bad : m <= k
      BY <3>1, LeastNat
    <3>3. m \in 1..n /\ g[m] # s[m]
      BY <3>2
    <3>4. CASE m = 1
      <4>1. 1 \in 1..n /\ n > 0 /\ g[1] # s[1]
        BY <1>1, <3>3, <3>4
      <4>2. g[1] = ls.first[h] /\ s[1] = ls.first[h]
        BY <1>1, <2>1, <4>1
      <4> QED
        BY <4>1, <4>2
    <3>5. CASE m # 1
      <4> DEFINE j == m - 1
      <4>1. j \in 1..n /\ j < m
        BY <1>1, <3>3, <3>5
      <4>2. g[j] = s[j]
        BY <1>1, <3>2, <4>1
      <4>3. g[m] = IF g[j] = Null THEN Null ELSE ls.next[g[j]]
        BY <2>1, <3>3, <3>5
      <4>4. s[m] = IF s[j] = Null THEN Null ELSE ls.next[s[j]]
        BY <1>2, <3>3, <3>5
      <4> QED
        BY <3>3, <4>2, <4>3, <4>4
    <3> QED
      BY <3>4, <3>5
  <2>3. s = [k \in 1..n |-> s[k]]
    BY <1>1
  <2>4. \A k \in 1..n : g[k] = s[k]
    BY <2>2
  <2>5. [k \in 1..n |-> g[k]] = [k \in 1..n |-> s[k]]
    BY <2>4
  <2>6. g = [k \in 1..n |-> g[k]]
    BY <2>1
  <2> QED
    BY <2>3, <2>5, <2>6, Zenon
<1>5. Walk(ls, h) = CHOOSE g : g = f(g)
  BY DEF Walk
<1> HIDE DEF f
<1> QED
  BY <1>3, <1>4, <1>5

LEMMA InvWalks == BlockInv => [h \in Heads |-> Walk(lists, h)] = contents
<1> SUFFICES ASSUME BlockInv PROVE [h \in Heads |-> Walk(lists, h)] = contents
  OBVIOUS
<1>1. /\ lists \in ListState /\ contents \in [Heads -> Seq(Items)]
      /\ \A h \in Heads : Represents(lists, h, contents[h])
  BY DEF BlockInv, TypeOK, ListsIntact, ListsAre
<1>2. \A h \in Heads : Walk(lists, h) = contents[h]
  BY <1>1, WalkSpells
<1> QED
  BY <1>1, <1>2

\* However long the lists are: List_find, which follows the links, finds the
\* members of a list and nothing else.
THEOREM FindAlwaysAgrees == Spec => []FindAgrees
<1>1. BlockInv => FindAgrees
  <2> SUFFICES ASSUME BlockInv, NEW h \in Heads, NEW i \in Items
               PROVE  Found(lists, h, i) <=> i \in Range(contents[h])
    BY DEF FindAgrees
  <2>1. Walk(lists, h) = contents[h]
    BY WalkSpells DEF BlockInv, TypeOK, ListsIntact, ListsAre
  <2> QED
    BY <2>1 DEF Found
<1> QED
  BY <1>1, BlocksSafe, PTL

LEMMA ExhaustedHoldsAll ==
    ASSUME BlockInv, Exhausted(pool)
    PROVE  Blocks \subseteq UNION {Range(contents[h]) : h \in Heads}
<1>1. /\ pool.first = NullIdx
      /\ pool.first = IF chain = <<>> THEN NullIdx ELSE chain[1]
      /\ chain \in Seq(Blocks) /\ Range(chain) = Blocks \ InUse(pool)
      /\ InUse(pool) = UNION {Range(contents[h]) : h \in Heads}
  BY DEF BlockInv, TypeOK, FreeListIntact, Chained, NothingLeaks, Exhausted
<1>2. chain = <<>>
  <2> SUFFICES ASSUME chain # <<>> PROVE FALSE
    OBVIOUS
  <2>1. chain[1] = NullIdx
    BY <1>1
  <2>2. Len(chain) \in Nat /\ Len(chain) # 0
    BY <1>1, EmptySeq, LenProperties
  <2>3. 1 \in 1..Len(chain)
    BY <2>2
  <2>4. chain[1] \in Blocks
    BY <1>1, <2>3, ElementOfSeq
  <2> QED
    BY <2>1, <2>4 DEF Blocks, NullIdx
<1>3. Range(chain) = {}
  BY <1>2 DEF Range
<1> QED
  BY <1>1, <1>3

LEMMA NewPlaces ==
    ASSUME BlockInv, NEW h \in Heads, NEW k \in 1..(Len(contents[h]) + 1), New(h, k)
    PROVE  \/ /\ Blocks \subseteq UNION {Range(contents[g]) : g \in Heads}
              /\ answer' = Null /\ contents' = contents
           \/ \E b \in Blocks \ UNION {Range(contents[g]) : g \in Heads} :
                 answer' = b /\ contents' = [contents EXCEPT ![h] = InsertAt(@, k, b)]
<1>1. CASE Exhausted(pool)
  BY <1>1, ExhaustedHoldsAll DEF New
<1>2. CASE ~Exhausted(pool)
  <2> DEFINE b == pool.first
  <2>1. /\ pool' = Got(pool) /\ chain' = Tail(chain)
        /\ answer' = b /\ contents' = [contents EXCEPT ![h] = InsertAt(@, k, b)]
    BY <1>2 DEF New
  <2>2. /\ pool \in PoolState /\ chain \in Seq(Blocks) /\ Chained(pool, chain)
        /\ InUse(pool) = UNION {Range(contents[g]) : g \in Heads}
    BY DEF BlockInv, TypeOK, FreeListIntact, NothingLeaks
  <2>3. b \in Blocks \ InUse(pool)
    BY <1>2, <2>1, <2>2, GetKeepsChain
  <2> QED
    BY <2>1, <2>2, <2>3
<1> QED
  BY <1>1, <1>2

LEMMA FreeAccepted ==
    ASSUME BlockInv, NEW h \in Heads, NEW k \in 1..Len(contents[h]), Free(h, k)
    PROVE  answer' = contents[h][k]
<1> DEFINE b == contents[h][k]
<1>1. b \in InUse(pool) /\ pool \in PoolState
  BY DetachContents DEF BlockInv, TypeOK
<1> HIDE DEF b
<1>2. b \in Int /\ ItemSize \in Int
  BY <1>1, PoolAssumption DEF InUse, Blocks
<1>3. b * ItemSize \in Int
  BY <1>2
<1>4. Verdict(pool, b * ItemSize) = Success
  BY <1>1, <1>3, VerdictSound
<1> QED
  BY <1>4 DEF Free, b

\* The two modules mean the same by an operator on sequences.
LEMMA SameOperators ==
    ASSUME NEW s
    PROVE  /\ Store!Range(s) = Range(s)
           /\ \A k : Store!RemoveAt(s, k) = RemoveAt(s, k)
           /\ \A k, e : Store!InsertAt(s, k, e) = InsertAt(s, k, e)
BY DEF Store!Range, Range, Store!RemoveAt, RemoveAt, Store!InsertAt, InsertAt

\* One step of the blocks is one step of the store, or none.
LEMMA StepsStore ==
    ASSUME BlockInv, BlockInv', [Next]_vars PROVE [Store!Next]_(Store!store)
<1>1. [h \in Heads |-> Walk(lists, h)] = contents
  BY InvWalks
<1>2. [h \in Heads |-> Walk(lists', h)] = contents'
  <2>1. /\ lists' \in ListState /\ contents' \in [Heads -> Seq(Items)]
        /\ \A h \in Heads : Represents(lists', h, contents'[h])
    BY DEF BlockInv, TypeOK, ListsIntact, ListsAre
  <2>2. \A h \in Heads : Walk(lists', h) = contents'[h]
    BY <2>1, WalkSpells
  <2> QED
    BY <2>1, <2>2
<1>3. ASSUME NEW h \in Heads, NEW k \in 1..(Len(contents[h]) + 1), New(h, k)
      PROVE  Store!Place(h, k)
  <2>1. \/ /\ Blocks \subseteq UNION {Range(contents[g]) : g \in Heads}
           /\ answer' = Null /\ contents' = contents
        \/ \E b \in Blocks \ UNION {Range(contents[g]) : g \in Heads} :
              answer' = b /\ contents' = [contents EXCEPT ![h] = InsertAt(@, k, b)]
    BY <1>3, NewPlaces
  <2>2. Store!Held = UNION {Range(contents[g]) : g \in Heads}
    BY <1>1, SameOperators DEF Store!Held
  <2>3. \A b : Store!InsertAt(contents[h], k, b) = InsertAt(contents[h], k, b)
    BY SameOperators
  <2> QED
    BY <1>1, <1>2, <2>1, <2>2, <2>3 DEF Store!Place
<1>4. ASSUME NEW h \in Heads, NEW k \in 1..Len(contents[h]), Free(h, k)
      PROVE  Store!GiveBack(h, k)
  <2>1. answer' = contents[h][k] /\ contents' = [contents EXCEPT ![h] = RemoveAt(@, k)]
    BY <1>4, FreeAccepted DEF Free
  <2>2. Store!RemoveAt(contents[h], k) = RemoveAt(contents[h], k)
    BY SameOperators
  <2> QED
    BY <1>1, <1>2, <2>1, <2>2 DEF Store!GiveBack
<1>5. ASSUME NEW h \in Heads, NEW k \in 1..Len(contents[h]), NEW g \in Heads, Move(h, k, g)
      PROVE  Store!Pass(h, k, g)
  <2>1. Store!RemoveAt(contents[h], k) = RemoveAt(contents[h], k)
    BY SameOperators
  <2> QED
    BY <1>1, <1>2, <1>5, <2>1 DEF Store!Pass, Move
<1>6. CASE Next
  BY <1>1, <1>3, <1>4, <1>5, <1>6 DEF Next, Store!Next
<1>7. CASE UNCHANGED vars
  BY <1>1, <1>2, <1>7 DEF vars, Store!store
<1> QED
  BY <1>6, <1>7

\* For every number and size of blocks and every number of lists: the pool and
\* the links implement the abstract store.  A handler never gets a block that is
\* on a list, gets none only when all blocks are, and finds every list, by
\* following its links, as the insertions and removals left it.
THEOREM BlocksImplementStore == Spec => StoreSpec
<1>1. Init => Store!Init
  <2> SUFFICES ASSUME Init PROVE Store!Init
    OBVIOUS
  <2>1. [h \in Heads |-> Walk(lists, h)] = contents
    BY InitBlocks, InvWalks
  <2> QED
    BY <2>1 DEF Init, Store!Init
<1>2. BlockInv /\ BlockInv' /\ [Next]_vars => [Store!Next]_(Store!store)
  BY StepsStore
<1> QED
  BY <1>1, <1>2, BlocksSafe, PTL DEF Spec, StoreSpec, Store!Spec
=============================================================================
