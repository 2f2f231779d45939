----------------------------- MODULE FifoChannel -----------------------------
(***************************************************************************)
(* What a blocking queue promises its users, without the buffer, its       *)
(* capacity, the wait lists' blocks or the scheduler: values leave in the  *)
(* order in which the puts were called, and receivers that come too early  *)
(* are served in the order in which they came, each value once.            *)
(***************************************************************************)
EXTENDS Naturals, Sequences

CONSTANTS
    Ids,         \* queue identifiers
    Vals,        \* values
    Receivers    \* processes that may receive

VARIABLES
    open,        \* the queues that exist
    chan,        \* chan[q]: values sent and not yet received
    demand,      \* demand[q]: receivers that found the channel empty
    null,        \* receivers whose last call passed a null result pointer
    got          \* got[p]: the last value stored at p's result pointer

fvars == <<open, chan, demand, null, got>>

\* Any receiver may make its next call, with either kind of pointer, except
\* those that still wait for the answer to their last one.
Calls ==
    /\ null' \in SUBSET Receivers
    /\ \A q \in Ids : \A i \in 1..Len(demand[q]) :
          demand[q][i] \in null' <=> demand[q][i] \in null

\* The value is stored at the receiver's result pointer, unless that is null.
Deliver(p, v) == got' = IF p \in null' THEN got ELSE [got EXCEPT ![p] = v]

Open(q) ==
    /\ q \notin open
    /\ open' = open \cup {q}
    /\ UNCHANGED <<chan, demand, got>>

\* Only a queue nobody is blocked on is deleted; its values are dropped.
Close(q) ==
    /\ q \in open /\ demand[q] = <<>>
    /\ open' = open \ {q}
    /\ chan' = [chan EXCEPT ![q] = <<>>]
    /\ UNCHANGED <<demand, got>>

Send(q, v) ==
    /\ q \in open
    /\ \/ /\ demand[q] = <<>>
          /\ chan' = [chan EXCEPT ![q] = Append(@, v)]
          /\ UNCHANGED <<demand, got>>
       \/ /\ demand[q] # <<>>
          /\ demand' = [demand EXCEPT ![q] = Tail(@)]
          /\ Deliver(Head(demand[q]), v)
          /\ UNCHANGED chan
    /\ UNCHANGED open

Receive(q, p) ==
    /\ q \in open
    /\ \/ /\ chan[q] # <<>>
          /\ chan' = [chan EXCEPT ![q] = Tail(@)]
          /\ Deliver(p, Head(chan[q]))
          /\ UNCHANGED demand
       \/ /\ chan[q] = <<>>
          /\ \A r \in Ids : \A i \in 1..Len(demand[r]) : demand[r][i] # p
          /\ demand' = [demand EXCEPT ![q] = Append(@, p)]
          /\ UNCHANGED <<chan, got>>
    /\ UNCHANGED open

Init ==
    /\ open = {}
    /\ chan = [q \in Ids |-> <<>>]
    /\ demand = [q \in Ids |-> <<>>]
    /\ null = {}
    /\ got \in [Receivers -> Vals \cup {0}]

\* A call that is refused, or that is no business of the channel.
NoEffect == UNCHANGED <<open, chan, demand, got>>

Next ==
    /\ Calls
    /\ \/ NoEffect
       \/ \E q \in Ids :
             \/ Open(q) \/ Close(q)
             \/ \E v \in Vals : Send(q, v)
             \/ \E p \in Receivers : Receive(q, p)

Spec == Init /\ [][Next]_fvars
=============================================================================
