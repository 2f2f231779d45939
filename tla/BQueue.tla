------------------------------- MODULE BQueue -------------------------------
(***************************************************************************)
(* The bounded blocking queues (bqueue.c, disastrOS_bqueue.c) on top of    *)
(* the process kernel, with which they share the running process, the      *)
(* ready and waiting lists, the statuses and the pool of PCBPtr blocks.    *)
(* A queue is named by its id.  The three lists of a queue keep their      *)
(* order; the registry is a set, because ids in it are distinct.           *)
(***************************************************************************)
EXTENDS Kernel

CONSTANTS
    QIds,       \* queue ids user code uses
    Values,     \* values user code puts
    Capacities, \* capacities user code asks for
    ResultPtrs, \* result pointers of get: a subset of {0, 1}, 0 for null
    NumBQs,     \* blocks of _bq_allocator (MAX_NUM_BQUEUES in the code)
    NumItems    \* blocks of _bqitem_allocator (MAX_NUM_BQITEMS in the code)

ASSUME BQueueAssumption ==
    /\ QIds \subseteq Int
    /\ Values \subseteq Int
    /\ Capacities \subseteq Int
    /\ ResultPtrs \subseteq {0, 1}
    /\ NumBQs \in Nat
    /\ NumItems \in Nat

DSOS_ESYSCALL_ARGUMENT_OUT_OF_BOUNDS == -1
DSOS_ERESOURCENOFD  == -11
DSOS_ERESOURCEINUSE == -13
DSOS_EEXIST         == -14

VARIABLES
    registry,   \* ids of the queues in _bq_registry
    capacity,   \* BlockingQueue.capacity
    size,       \* BlockingQueue.size
    items,      \* BlockingQueue.items, in order
    getters,    \* BlockingQueue.wait_getters, in order
    putters,    \* BlockingQueue.wait_putters, in order
    itemsUsed,  \* BQItem blocks out of their pool
    out         \* what the result pointer of a process's last get points at

queues == <<registry, capacity, size, items, getters, putters, itemsUsed, out>>
bqvars == <<vars, queues>>

-----------------------------------------------------------------------------
(* Helpers *)

\* A call on an id that is not in the registry.
NoSuchQueue(q) ==
    /\ q \notin registry
    /\ Answer(DSOS_ERESOURCENOFD)
    /\ UNCHANGED queues

\* *outp = v for the get call of p, whose pointer is null if its argument is 0.
Store(p, outp, v) == out' = IF outp = 0 THEN out ELSE [out EXCEPT ![p] = v]

\* Mutant: the PCBPtr block of the served process is not returned.
ServeLeaks(p) ==
    /\ waiting' = waiting \ {p}
    /\ ready' = Append(ready, p)
    /\ status' = [status EXCEPT ![p] = "Ready"]
    /\ ret' = [ret EXCEPT ![p] = 0, ![running] = 0]
    /\ UNCHANGED <<kernel, running, zombie, timers, family>>

\* wake_ready of a process served by the caller; both calls return 0.
Serve(p) ==
    /\ waiting' = waiting \ {p}
    /\ ready' = Append(ready, p)
    /\ status' = [status EXCEPT ![p] = "Ready"]
    /\ ret' = [ret EXCEPT ![p] = 0, ![running] = 0]
    /\ ptrs' = ptrs - 1
    /\ UNCHANGED <<kernel, running, zombie, timers,
                   initPcb, lastPid, parent, children, noCtx>>

\* The end of put and get when the caller blocks: it joins a wait list, which
\* takes a PCBPtr block, and leaves the CPU.
Block(newGetters, newPutters) ==
    \/ PtrPoolFull /\ Stop("null_pcb_ptr") /\ UNCHANGED queues
    \/ /\ ~PtrPoolFull
       /\ getters' = newGetters
       /\ putters' = newPutters
       /\ GiveUpCpu
       /\ status' = Mark([status EXCEPT ![running] = "Waiting"],
                         IF ready = <<>> THEN {} ELSE {Head(ready)}, "Running")
       /\ ptrs' = ptrs + 1
       /\ UNCHANGED <<zombie, timers, initPcb, lastPid, parent, children,
                      noCtx, ret>>
       /\ UNCHANGED <<registry, capacity, size, items, itemsUsed, out>>

-----------------------------------------------------------------------------
(* System calls of the running process *)

BqCreate(q, cap) ==
    /\ Enter("bq_create", cap)
    /\ \/ cap <= 0 /\ Answer(DSOS_ESYSCALL_ARGUMENT_OUT_OF_BOUNDS) /\ UNCHANGED queues
       \/ cap > 0 /\ q \in registry /\ Answer(DSOS_EEXIST) /\ UNCHANGED queues
       \/ /\ cap > 0 /\ q \notin registry /\ Cardinality(registry) >= NumBQs
          /\ Answer(DSOS_ESYSCALL_NOT_IMPLEMENTED)
          /\ UNCHANGED queues
       \/ /\ cap > 0 /\ q \notin registry /\ Cardinality(registry) < NumBQs
          /\ registry' = registry \cup {q}
          /\ capacity' = [capacity EXCEPT ![q] = cap]
          /\ size'     = [size EXCEPT ![q] = 0]
          /\ items'    = [items EXCEPT ![q] = <<>>]
          /\ getters'  = [getters EXCEPT ![q] = <<>>]
          /\ putters'  = [putters EXCEPT ![q] = <<>>]
          /\ Answer(0)
          /\ UNCHANGED <<itemsUsed, out>>

\* Mutant: only blocked consumers keep a queue alive.
InUseByGetters(q) == getters[q] # <<>>

InUse(q) == getters[q] # <<>> \/ putters[q] # <<>>

\* Mutant: the items of a deleted queue are not returned to their pool.
FreeLeaks(q) ==
    /\ registry' = registry \ {q}
    /\ items' = [items EXCEPT ![q] = <<>>]
    /\ size' = [size EXCEPT ![q] = 0]
    /\ UNCHANGED itemsUsed

\* BQ_free returns the items of the queue to their pool.
FreeQueue(q) ==
    /\ registry' = registry \ {q}
    /\ itemsUsed' = itemsUsed - Len(items[q])
    /\ items' = [items EXCEPT ![q] = <<>>]
    /\ size' = [size EXCEPT ![q] = 0]

BqDelete(q) ==
    /\ Enter("bq_delete", q)
    /\ \/ NoSuchQueue(q)
       \/ /\ q \in registry /\ InUse(q)
          /\ Answer(DSOS_ERESOURCEINUSE)
          /\ UNCHANGED queues
       \/ /\ q \in registry /\ ~InUse(q)
          /\ FreeQueue(q)
          /\ Answer(0)
          /\ UNCHANGED <<capacity, getters, putters, out>>

\* Mutants: the getter that was served stays in the wait list; it gets no value.
PutKeepsGetter(q, v) ==
    LET getter == Head(getters[q])
    IN  /\ Store(getter, syscall[getter].arg, v)
        /\ Serve(getter)
        /\ UNCHANGED <<registry, capacity, size, items, getters, putters, itemsUsed>>

PutForgets(q, v) ==
    /\ getters' = [getters EXCEPT ![q] = Tail(@)]
    /\ Serve(Head(getters[q]))
    /\ UNCHANGED <<registry, capacity, size, items, putters, itemsUsed, out>>

\* Immediate handoff of v to the getter that has waited longest.
PutToGetter(q, v) ==
    LET getter == Head(getters[q])
    IN  /\ getters' = [getters EXCEPT ![q] = Tail(@)]
        /\ Store(getter, syscall[getter].arg, v)
        /\ Serve(getter)
        /\ UNCHANGED <<registry, capacity, size, items, putters, itemsUsed>>

\* Mutant: the value goes to the front of the buffer.
PutToFront(q, v) ==
    /\ items' = [items EXCEPT ![q] = <<v>> \o @]
    /\ size' = [size EXCEPT ![q] = @ + 1]
    /\ itemsUsed' = itemsUsed + 1
    /\ Answer(0)
    /\ UNCHANGED <<registry, capacity, getters, putters, out>>

PutToBuffer(q, v) ==
    /\ items' = [items EXCEPT ![q] = Append(@, v)]
    /\ size' = [size EXCEPT ![q] = @ + 1]
    /\ itemsUsed' = itemsUsed + 1
    /\ Answer(0)
    /\ UNCHANGED <<registry, capacity, getters, putters, out>>

\* BQItem_alloc finds a block.  Mutant: the put does not look.
ItemTestOmitted == TRUE
ItemLeft        == itemsUsed < NumItems

\* The value of a blocked put stays in the caller's system call arguments.
BqPut(q, v) ==
    /\ Enter("bq_put", v)
    /\ \/ NoSuchQueue(q)
       \/ q \in registry /\ getters[q] # <<>> /\ PutToGetter(q, v)
       \/ /\ q \in registry /\ getters[q] = <<>> /\ size[q] < capacity[q]
          /\ \/ ItemLeft /\ PutToBuffer(q, v)
             \/ /\ ~ItemLeft
                /\ Answer(DSOS_ESYSCALL_NOT_IMPLEMENTED)
                /\ UNCHANGED queues
       \/ /\ q \in registry /\ getters[q] = <<>> /\ size[q] >= capacity[q]
          /\ Block(getters, [putters EXCEPT ![q] = Append(@, running)])

\* The effect of a get that lets the first blocked producer in, leaving the
\* given items in the buffer.  Used by the mutants only.
Refilled(q, outp, rest, n) ==
    /\ Store(running, outp, Head(items[q]))
    /\ items' = [items EXCEPT ![q] = rest]
    /\ size' = [size EXCEPT ![q] = Len(rest)]
    /\ itemsUsed' = itemsUsed - 1 + n
    /\ putters' = [putters EXCEPT ![q] = Tail(@)]
    /\ Serve(Head(putters[q]))
    /\ UNCHANGED <<registry, capacity, getters>>

\* Mutants: the producer is woken but its value is not stored; it overtakes the
\* stored ones; system call argument 0, the queue id, is stored in its place.
RefillNothing(q, outp) == Refilled(q, outp, Tail(items[q]), 0)
RefillFirst(q, outp) ==
    Refilled(q, outp, <<syscall[Head(putters[q])].arg>> \o Tail(items[q]), 1)
RefillId(q, outp) == Refilled(q, outp, Append(Tail(items[q]), q), 1)

\* A get that empties a slot completes the put that has waited longest.
TakeAndRefill(q, outp) ==
    LET producer == Head(putters[q])
        refill   == itemsUsed - 1 < NumItems
    IN  /\ Store(running, outp, Head(items[q]))
        /\ items' = [items EXCEPT ![q] = IF refill
                                          THEN Append(Tail(@), syscall[producer].arg)
                                          ELSE Tail(@)]
        /\ size' = [size EXCEPT ![q] = IF refill THEN @ ELSE @ - 1]
        /\ itemsUsed' = IF refill THEN itemsUsed ELSE itemsUsed - 1
        /\ putters' = [putters EXCEPT ![q] = Tail(@)]
        /\ Serve(producer)
        /\ UNCHANGED <<registry, capacity, getters>>

Take(q, outp) ==
    /\ Store(running, outp, Head(items[q]))
    /\ items' = [items EXCEPT ![q] = Tail(@)]
    /\ size' = [size EXCEPT ![q] = @ - 1]
    /\ itemsUsed' = itemsUsed - 1
    /\ Answer(0)
    /\ UNCHANGED <<registry, capacity, getters, putters>>

\* Handoff from a blocked put past an empty buffer (QueueShape: never reached).
GetFromPutter(q, outp) ==
    LET producer == Head(putters[q])
    IN  /\ Store(running, outp, syscall[producer].arg)
        /\ putters' = [putters EXCEPT ![q] = Tail(@)]
        /\ Serve(producer)
        /\ UNCHANGED <<registry, capacity, size, items, getters, itemsUsed>>

\* outp is 0 for a null result pointer.
BqGet(q, outp) ==
    /\ Enter("bq_get", outp)
    /\ \/ NoSuchQueue(q)
       \/ q \in registry /\ items[q] # <<>> /\ putters[q] # <<>> /\ TakeAndRefill(q, outp)
       \/ q \in registry /\ items[q] # <<>> /\ putters[q] = <<>> /\ Take(q, outp)
       \/ /\ q \in registry /\ items[q] = <<>>
          /\ IF putters[q] # <<>>
             THEN GetFromPutter(q, outp)
             ELSE Block([getters EXCEPT ![q] = Append(@, running)], putters)

BqDump(q) ==
    /\ Enter("bq_dump", q)
    /\ \/ NoSuchQueue(q)
       \/ q \in registry /\ Answer(0) /\ UNCHANGED queues

-----------------------------------------------------------------------------
BQInit ==
    /\ Init
    /\ registry = {}
    /\ capacity = [q \in QIds |-> 0]
    /\ size = [q \in QIds |-> 0]
    /\ items = [q \in QIds |-> <<>>]
    /\ getters = [q \in QIds |-> <<>>]
    /\ putters = [q \in QIds |-> <<>>]
    /\ itemsUsed = 0
    /\ out = [p \in Pids |-> 0]

QueueCall ==
    \E q \in QIds :
       \/ BqDelete(q) \/ BqDump(q)
       \/ \E cap \in Capacities : BqCreate(q, cap)
       \/ \E v \in Values : BqPut(q, v)
       \/ \E outp \in ResultPtrs : BqGet(q, outp)

BQNext == QueueCall \/ (Next /\ UNCHANGED queues)

BQSpec == BQInit /\ [][BQNext]_bqvars
-----------------------------------------------------------------------------
(* Properties *)

\* Every variable of the queues has the type its C declaration gives it.
BQTypeOK ==
    /\ registry \subseteq QIds
    /\ capacity \in [QIds -> Int]
    /\ size \in [QIds -> Int]
    /\ items \in [QIds -> Seq(Values)]
    /\ getters \in [QIds -> Seq(Pids)]
    /\ putters \in [QIds -> Seq(Pids)]
    /\ itemsUsed \in Int
    /\ out \in [Pids -> Values \cup {0}]

\* size counts the items and stays within the capacity; producers are blocked
\* only on a full queue, consumers only on an empty one, and never both.  In
\* particular internal_bq_get never finds a blocked producer at an empty buffer.
QueueShape ==
    \A q \in registry :
       /\ size[q] = Len(items[q]) /\ size[q] <= capacity[q]
       /\ putters[q] # <<>> => size[q] = capacity[q]
       /\ getters[q] # <<>> => items[q] = <<>> /\ putters[q] = <<>>

\* The processes blocked in the given call.
Callers(call) == {p \in waiting : syscall[p].num = call}

\* The lists w[q] hold the processes of S, each in one place of one list.
Listed(w, S) ==
    /\ UNION {Range(w[q]) : q \in QIds} = S
    /\ \A q \in QIds : IsInjective(w[q])
    /\ \A q, r \in QIds : q # r => Range(w[q]) \cap Range(w[r]) = {}

\* A process is in a wait list exactly while it is blocked in the call that put
\* it there, and in one place of one list only: whoever serves it wakes a
\* process that waits for just that, and nobody serves it twice.
WaitersMatchCalls ==
    /\ Listed(getters, Callers("bq_get"))
    /\ Listed(putters, Callers("bq_put"))

\* The places in the buffers of the registered queues that hold a value.
Stored == UNION {{<<q, i>> : i \in 1..Len(items[q])} : q \in registry}

\* Every BQItem block out of the pool holds a value of a registered queue: put,
\* get and delete neither leak a block nor free one twice, and a put that finds
\* room in its queue but no block in the pool stores nothing.
ItemAccounting ==
    /\ itemsUsed = Cardinality(Stored)
    /\ itemsUsed <= NumItems

\* The queues implement the FIFO channel: a value counts as sent when its put is
\* called, be it stored, handed over, or kept in the caller's arguments; a value
\* taken is stored at the taker's result pointer unless that pointer is null.
Pending(q) == [i \in 1..Len(putters[q]) |-> syscall[putters[q][i]].arg]

Chan == [q \in QIds |-> items[q] \o Pending(q)]

\* The processes whose last system call was a get with a null result pointer.
Null == {p \in Pids : syscall[p].num = "bq_get" /\ syscall[p].arg = 0}

Fifo == INSTANCE FifoChannel WITH
           Ids <- QIds, Vals <- Values, Receivers <- Pids,
           open <- registry, chan <- Chan, demand <- getters, null <- Null,
           got <- out

ImplementsFifo == Fifo!Spec
=============================================================================
