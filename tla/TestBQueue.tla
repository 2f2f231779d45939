---------------------------- MODULE TestBQueue ----------------------------
(***************************************************************************)
(* The test program disastrOS_test_bqueue.c on the kernel and its queues:  *)
(* every process has the calls it has yet to make, in order, and ticks     *)
(* come anywhere between them.  The counts of the concurrent test are      *)
(* parameters, to be scaled down; what is printed is left out.             *)
(***************************************************************************)
EXTENDS BQueue

CONSTANTS UNIT_QID, CONC_QID,         \* the two queues
          CAP,                        \* capacity of the second one
          NPROD_PROCS, NCONS_PROCS    \* producers and consumers

UNIT_CAP == 2
CONC_VAL == 777

\* The arguments of the program's calls are among those of BQueue.
ASSUME TestAssumption ==
    /\ {UNIT_QID, CONC_QID} \subseteq QIds /\ UNIT_QID # CONC_QID
    /\ NPROD_PROCS \in Nat /\ NCONS_PROCS \in Nat
    /\ CAP \in Nat \ {0}
    /\ {UNIT_CAP, CAP} \subseteq Capacities
    /\ {111, 222, CONC_VAL} \subseteq Values
    /\ 1 \in ResultPtrs

\* The numbers fit together as those of the file do: 8 <= 10 <= 8 + 3, and no
\* pool, of 1024 blocks each, is too small for 18 processes.
ASSUME TestSizes ==
    LET workers == NPROD_PROCS + NCONS_PROCS
    IN  /\ NCONS_PROCS <= NPROD_PROCS /\ NPROD_PROCS <= NCONS_PROCS + CAP
        /\ workers < MaxPids /\ workers < NumPcbs /\ 2 * workers <= NumPtrs
        /\ NumBQs > 0 /\ UNIT_CAP <= NumItems /\ CAP <= NumItems

VARIABLES
    todo,     \* the calls a process has yet to make
    failed    \* the calls whose assertion failed

test     == <<todo, failed>>
testvars == <<bqvars, test>>
-----------------------------------------------------------------------------
(* The functions of the program, as sequences of calls *)

Times(n, c) == [i \in 1..n |-> c]

\* A call with two arguments and what is asserted of it: that it returns 0
\* ("ok"), less than 0 ("neg"), or nothing, and the value a get must fetch.
Call(op, id, arg, must, value) ==
    [op |-> op, id |-> id, arg |-> arg, must |-> must, value |-> value]
Plain(op) == Call(op, 0, 0, "any", 0)

test_unitario_bq ==
    << Call("create", UNIT_QID, UNIT_CAP, "ok", 0),
       Call("create", UNIT_QID, UNIT_CAP, "neg", 0),
       Call("put", UNIT_QID, 111, "ok", 0),
       Call("put", UNIT_QID, 222, "ok", 0),
       Call("get", UNIT_QID, 0, "ok", 111),
       Call("get", UNIT_QID, 0, "ok", 222),
       Call("delete", UNIT_QID, 0, "ok", 0) >>

producer ==
    << Call("put", CONC_QID, CONC_VAL, "any", 0),
       Call("dump", CONC_QID, 0, "any", 0), Plain("exit") >>

consumer ==
    << Call("get", CONC_QID, 0, "any", 0),
       Call("dump", CONC_QID, 0, "any", 0), Plain("exit") >>

halfC == NCONS_PROCS \div 2

\* One wait for each child; the answers are not looked at.
test_mini_concorrente ==
    << Call("create", CONC_QID, CAP, "ok", 0) >>
    \o Times(halfC, Plain("consumer"))
    \o Times(NPROD_PROCS, Plain("producer"))
    \o Times(NCONS_PROCS - halfC, Plain("consumer"))
    \o Times(NPROD_PROCS + NCONS_PROCS, Plain("wait"))
    \o << Call("delete", CONC_QID, 0, "ok", 0) >>

initFunction == test_unitario_bq \o test_mini_concorrente \o << Plain("shutdown") >>
-----------------------------------------------------------------------------
\* The system call itself.
Perform(c) ==
    \/ c.op = "create" /\ BqCreate(c.id, c.arg)
    \/ c.op = "delete" /\ BqDelete(c.id)
    \/ c.op = "put" /\ BqPut(c.id, c.arg)
    \/ c.op = "get" /\ BqGet(c.id, 1)
    \/ c.op = "dump" /\ BqDump(c.id)
    \/ c.op \in {"producer", "consumer"} /\ Spawn /\ UNCHANGED queues
    \/ c.op = "wait" /\ Wait(0) /\ UNCHANGED queues
    \/ c.op = "exit" /\ Exit /\ UNCHANGED queues
    \/ c.op = "shutdown" /\ Shutdown /\ UNCHANGED queues

\* assert_ok, assert_neg and assert_eq_long, for a call that has answered.
Holds(c, rc, v) ==
    /\ c.must = "ok" => rc = 0
    /\ c.must = "neg" => rc < 0
    /\ c.value # 0 => v = c.value

\* The concurrent test gives up if it has no queue.
Rest(p, c, rc) ==
    IF c.op = "create" /\ c.id = CONC_QID /\ rc < 0
    THEN << Plain("shutdown") >> ELSE Tail(todo[p])

\* The running process p makes its next call; a spawned child has its own.
Step(p) ==
    /\ running = p /\ todo[p] # <<>>
    /\ LET c == Head(todo[p])
       IN  /\ Perform(c)
           /\ failed' = IF Holds(c, ret'[p], out'[p]) THEN failed ELSE failed \cup {c}
           /\ todo' = [q \in Pids |-> IF q = p THEN Rest(p, c, ret'[p])
                                      ELSE IF q # lastPid THEN todo[q]
                                      ELSE IF c.op = "producer" THEN producer
                                      ELSE IF c.op = "consumer" THEN consumer
                                      ELSE <<>>]

\* A timer interrupt, which may start initFunction once more.
Ticked ==
    /\ Interrupt
    /\ todo' = [p \in Pids |-> IF running' = p /\ p = lastPid THEN initFunction
                               ELSE todo[p]]
    /\ UNCHANGED <<queues, failed>>

TestInit ==
    /\ BQInit
    /\ todo = [p \in Pids |-> IF p = 0 THEN initFunction ELSE <<>>]
    /\ failed = {}

TestNext == (\E p \in Pids : Step(p)) \/ Ticked

\* Ticks keep coming, and the code between two calls never loops, so as long as
\* processes have the CPU one of them gets to its next call; which one is open.
TestSpec ==
    /\ TestInit /\ [][TestNext]_testvars
    /\ WF_testvars(Ticked)
    /\ WF_testvars(\E p \in Pids : Step(p))
-----------------------------------------------------------------------------
\* The program ends, with ticks anywhere: no producer, consumer or wait blocks
\* for ever, nobody is starved and the kernel survives.
Terminates == <>(kernel = "down")

\* The processes never block each other, or the kernel, for good: somebody is on
\* the CPU until the shutdown, so no wait finds an empty ready list and no idle
\* kernel starts the program a second time beside the first.
NeverStuck == running # NoProc /\ kernel \in {"up", "down"}

\* Every assertion of the unit test, and the create of the other, passes.
OnlyDeleteFails == \A c \in failed : c.op = "delete" /\ c.id = CONC_QID

\* A consumer comes back from its get with a value some producer put, unless
\* the queue was deleted before it called.
ConsumersServed ==
    \A p \in Pids :
       status[p] # "Waiting" /\ syscall[p].num = "bq_get" /\ todo[p] = Tail(consumer) =>
       \/ ret[p] = 0 /\ out[p] = CONC_VAL
       \/ ret[p] = DSOS_ERESOURCENOFD /\ CONC_QID \notin registry

\* Every assertion passes, the last one among them: after one wait per child
\* the queue can be deleted, "assert_ok(rc, "bqDelete(CONC_QID)");"
\* (disastrOS_test_bqueue.c:180).
AssertionsPass == failed = {}
=============================================================================
