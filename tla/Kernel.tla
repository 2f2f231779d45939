------------------------------- MODULE Kernel -------------------------------
(***************************************************************************)
(* The process kernel of disastrOS: one CPU (running), the ready, waiting  *)
(* and zombie lists, the timer list, and the PCB fields that more than one *)
(* handler reads.  A system call runs on the system stack with SIGALRM     *)
(* masked (disastrOS.c:262), so each call is one atomic action; so is the  *)
(* timer interrupt.                                                        *)
(*                                                                         *)
(* Abstractions.  A PCB is named by its pid: block addresses and the bytes *)
(* a reused block keeps are not represented.  A timer stores the number of *)
(* ticks left (awakening_time - disastrOS_time) instead of two absolute    *)
(* counters.  waiting_list and the children lists are sets, because no     *)
(* handler depends on their order.  User code is arbitrary: a running      *)
(* process may make any system call, but never returns from its function.  *)
(***************************************************************************)
EXTENDS Integers, FiniteSets, SequencesExt

CONSTANTS
    MaxPids,    \* bound: processes ever created (last_pid stays at most this)
    NumPcbs,    \* blocks of _pcb_allocator (MAX_NUM_PROCESSES in the code)
    NumPtrs,    \* blocks of _pcb_ptr_allocator (MAX_NUM_PROCESSES in the code)
    NumTimers,  \* blocks of _timer_item_allocator (the same number again)
    SleepArgs,  \* the arguments user code passes to disastrOS_sleep
    UserCalls,  \* the system calls user code makes, a subset of SysCalls
    LogFile     \* TRUE iff disastrOS_start was given a log file

SysCalls == {"none", "unused", "preempt", "fork", "spawn", "wait", "exit",
             "sleep", "shutdown", "bq_create", "bq_delete", "bq_put",
             "bq_get", "bq_dump", "open", "close", "destroy"}

ASSUME KernelAssumption ==
    /\ MaxPids \in Nat \ {0}
    /\ NumPcbs \in Nat \ {0}
    /\ NumPtrs \in Nat
    /\ NumTimers \in Nat
    /\ SleepArgs \subseteq Nat
    /\ UserCalls \subseteq SysCalls
    /\ LogFile \in BOOLEAN

Pids   == 0..(MaxPids - 1)
NoProc == -1                    \* the null PCB pointer

DSOS_ESYSCALL_NOT_IMPLEMENTED == -2
DSOS_EWAIT  == -5
DSOS_ESLEEP == -7

\* Where the kernel can stop: shut down, inside an endless loop, or at a
\* memory access the code does not survive, named for its cause.
Faults == {"null_ready",    \* List_detach of the head of an empty ready_list
           "null_pcb",      \* PCB_alloc writes through an exhausted pool
           "null_pcb_ptr",  \* PCBPtr_alloc writes through an exhausted pool
           "null_resource", \* List_insert of an exhausted pool's null Resource
           "null_desptr",   \* the same with a null DescriptorPtr
           "null_running",  \* the trap logs running->pid with no process
           "bad_context"}   \* setcontext on a cpu_state nobody filled in

KernelModes == {"up", "down", "hung"} \cup Faults
Statuses    == {"Free", "Running", "Ready", "Waiting", "Zombie"}
TimerItem   == [pid : Pids, left : Int]

VARIABLES
    kernel,    \* one of KernelModes
    running,   \* the PCB the CPU executes, or NoProc
    initPcb,   \* init_pcb
    lastPid,   \* last_pid
    ready,     \* ready_list, in order
    waiting,   \* waiting_list
    zombie,    \* zombie_list, in order
    timers,    \* timer_list, in order
    status,    \* PCB.status; "Free" for a block that is in the pool
    parent,    \* PCB.parent
    children,  \* PCB.children
    syscall,   \* PCB.syscall_num and the argument another handler may read
    ret,       \* PCB.syscall_retvalue
    ptrs,      \* PCBPtr blocks out of their pool
    noCtx      \* processes whose cpu_state was never filled in

lists  == <<ready, waiting, zombie, timers>>
family == <<initPcb, lastPid, parent, children, ptrs, noCtx>>
vars   == <<kernel, running, lists, family, status, syscall, ret>>

-----------------------------------------------------------------------------
(* Helpers *)

\* PCB blocks out of their pool, and whether the pool has another one.
Alloc       == {p \in Pids : status[p] # "Free"}
PcbPoolFull == Cardinality(Alloc) >= NumPcbs
PtrPoolFull == ptrs >= NumPtrs

\* The status function with every process of S moved to v.
Mark(st, S, v) == [p \in Pids |-> IF p \in S THEN v ELSE st[p]]

\* disastrOS_syscall and the entry of disastrOS_trap, for the running process.
Enter(num, arg) ==
    /\ num \in UserCalls
    /\ kernel = "up" /\ running # NoProc
    /\ syscall' = [syscall EXCEPT ![running] = [num |-> num, arg |-> arg]]

Return(v) == ret' = [ret EXCEPT ![running] = v]

\* A handler that changes nothing but the caller's return value.
Answer(v) ==
    /\ Return(v)
    /\ UNCHANGED <<kernel, running, lists, family, status>>

\* A handler that stops the kernel.
Stop(mode) ==
    /\ kernel' = mode
    /\ UNCHANGED <<running, lists, family, status, ret>>

\* The end of disastrOS_trap: log, then load the context of running.
TrapExit ==
    kernel' = IF LogFile /\ running' = NoProc THEN "null_running"
              ELSE IF running' \in noCtx THEN "bad_context"
              ELSE "up"

\* Mutant: the process that leaves the CPU goes to the front of the ready list.
ScheduleToFront(run, rdy, st) ==
    IF rdy = <<>>
    THEN running' = run /\ ready' = rdy /\ status' = st
    ELSE /\ running' = Head(rdy)
         /\ ready' = (IF run = NoProc THEN <<>> ELSE <<run>>) \o Tail(rdy)
         /\ status' = Mark(Mark(st, {run}, "Ready"), {Head(rdy)}, "Running")

\* Mutant: the null pointer of an empty CPU goes to the ready list too.
ScheduleNull(run, rdy, st) ==
    IF rdy = <<>>
    THEN running' = run /\ ready' = rdy /\ status' = st
    ELSE /\ running' = Head(rdy)
         /\ ready' = Append(Tail(rdy), run)
         /\ status' = Mark(Mark(st, {run}, "Ready"), {Head(rdy)}, "Running")

\* internal_schedule, from the given running process, ready list and statuses.
Schedule(run, rdy, st) ==
    IF rdy = <<>>
    THEN /\ running' = run
         /\ ready' = rdy
         /\ status' = st
    ELSE /\ running' = Head(rdy)
         /\ ready' = Tail(rdy) \o (IF run = NoProc THEN <<>> ELSE <<run>>)
         /\ status' = Mark(Mark(st, {run}, "Ready"), {Head(rdy)}, "Running")

-----------------------------------------------------------------------------
(* System calls of the running process *)

Preempt ==
    /\ Enter("preempt", 0)
    /\ Schedule(running, ready, status)
    /\ TrapExit
    /\ UNCHANGED <<waiting, zombie, timers, family, ret>>

\* A number inside the vector that no handler is registered for.
Unimplemented ==
    /\ Enter("unused", 0)
    /\ Answer(DSOS_ESYSCALL_NOT_IMPLEMENTED)

\* The next pid becomes a ready child of the caller; lost is TRUE when the
\* child's cpu_state is left as it is.
AddChild(lost) ==
    /\ status'   = [status EXCEPT ![lastPid] = "Ready"]
    /\ parent'   = [parent EXCEPT ![lastPid] = running]
    /\ children' = [children EXCEPT ![lastPid] = {},
                                    ![running] = @ \cup {lastPid}]
    /\ ready'    = Append(ready, lastPid)
    /\ noCtx'    = IF lost THEN noCtx \cup {lastPid} ELSE noCtx
    /\ lastPid'  = lastPid + 1
    /\ ptrs'     = ptrs + 1
    /\ Return(lastPid)
    /\ UNCHANGED <<kernel, running, waiting, zombie, timers, initPcb>>

\* What internal_spawn and internal_fork share.
NewChild(num, lost) ==
    /\ lastPid < MaxPids
    /\ Enter(num, 0)
    /\ \/ PcbPoolFull /\ Stop("null_pcb")
       \/ ~PcbPoolFull /\ PtrPoolFull /\ Stop("null_pcb_ptr")
       \/ ~PcbPoolFull /\ ~PtrPoolFull /\ AddChild(lost)

Spawn == NewChild("spawn", FALSE)
Fork  == NewChild("fork", TRUE)

\* Mutants: the wake-up of exit without its test of the parent's status, of the
\* call the parent is in, or of the pid it waits for; without the case of a
\* parent that waits for any child.
WaitsForReady(par, child) ==
    par # NoProc /\ syscall[par].num = "wait" /\ syscall[par].arg \in {0, child}
WaitsForSleeper(par, child) ==
    par # NoProc /\ status[par] = "Waiting" /\ syscall[par].arg \in {0, child}
WaitsForAny(par, child) ==
    par # NoProc /\ status[par] = "Waiting" /\ syscall[par].num = "wait"

WaitsForExact(par, child) ==
    /\ par # NoProc /\ status[par] = "Waiting"
    /\ syscall[par].num = "wait" /\ syscall[par].arg = child

\* par is blocked in a wait that the exit of child ends.
WaitsFor(par, child) ==
    /\ par # NoProc
    /\ status[par] = "Waiting"
    /\ syscall[par].num = "wait"
    /\ syscall[par].arg \in {0, child}

\* Mutant: the children of a dying process stay its children.
KeepOrphans == UNCHANGED <<parent, children>>

\* The children of a dying process go to init.
Reparent ==
    /\ parent' = [p \in Pids |-> IF p \in children[running]
                                 THEN initPcb ELSE parent[p]]
    /\ children' = [children EXCEPT ![initPcb] = @ \cup children[running],
                                    ![running] = {}]

\* The process goes to the zombie list, and a parent blocked in wait for it to
\* the ready list.
Die ==
    LET par   == parent[running]
        woken == IF WaitsFor(par, running) THEN {par} ELSE {}
    IN  /\ Reparent
        /\ zombie'  = Append(zombie, running)
        /\ waiting' = waiting \ woken
        /\ Schedule(NoProc,
                    IF woken = {} THEN ready ELSE Append(ready, par),
                    Mark(Mark(status, {running}, "Zombie"), woken, "Ready"))
        /\ TrapExit
        /\ UNCHANGED <<timers, initPcb, lastPid, ptrs, noCtx, ret>>

\* init moving its own children to itself never empties its list.
Exit ==
    /\ Enter("exit", 0)
    /\ \/ running = initPcb /\ children[running] # {} /\ Stop("hung")
       \/ (running # initPcb \/ children[running] = {}) /\ Die

\* Positions in the zombie list of the children that wait(w) may reap.
Awaited(w) ==
    {i \in 1..Len(zombie) : /\ parent[zombie[i]] = running
                            /\ w \in {0, zombie[i]}}

\* Mutant: the block of the link is not returned to its pool.
UnlinkLeaks(child) ==
    /\ children' = [children EXCEPT ![running] = @ \ {child}]
    /\ UNCHANGED ptrs

\* The first half of reap_child: the link from the caller to the child goes.
Unlink(child) ==
    /\ children' = [children EXCEPT ![running] = @ \ {child}]
    /\ ptrs' = IF child \in children[running] THEN ptrs - 1 ELSE ptrs

\* reap_child, then the pid of the reaped child as the answer.
ReapAt(i) ==
    LET child == zombie[i]
    IN  /\ zombie' = RemoveAt(zombie, i)
        /\ Unlink(child)
        /\ status' = [status EXCEPT ![child] = "Free"]
        /\ Return(child)
        /\ UNCHANGED <<kernel, running, ready, waiting, timers,
                       initPcb, lastPid, parent, noCtx>>

\* Mutant: nobody is dispatched.
GiveUpIdle ==
    /\ waiting' = waiting \cup {running}
    /\ running' = NoProc
    /\ ready' = ready
    /\ TrapExit

\* A blocking call: the caller leaves the CPU to the head of the ready list, if
\* there is one.
GiveUpCpu ==
    /\ waiting' = waiting \cup {running}
    /\ running' = IF ready = <<>> THEN NoProc ELSE Head(ready)
    /\ ready' = IF ready = <<>> THEN <<>> ELSE Tail(ready)
    /\ TrapExit

\* Unlike internal_schedule, wait and sleep leave the status of the process
\* they dispatch alone: it goes on running as "Ready".
BlockCaller == status' = [status EXCEPT ![running] = "Waiting"]

Wait(w) ==
    /\ Enter("wait", w)
    /\ \/ children[running] = {} /\ Answer(DSOS_EWAIT)
       \/ /\ children[running] # {}
          /\ \E i \in Awaited(w) :
                /\ \A j \in Awaited(w) : i <= j
                /\ ReapAt(i)
       \/ /\ children[running] # {} /\ Awaited(w) = {}
          /\ \/ ready = <<>> /\ Stop("null_ready")
             \/ /\ ready # <<>>
                /\ GiveUpCpu
                /\ BlockCaller
                /\ UNCHANGED <<zombie, timers, family, ret>>

\* Mutant: the new item goes to the end.
TimerSlotLast(c, i) == i = Len(timers) + 1

\* TimerList_add puts the new item before the first one that expires later.
TimerSlot(c, i) ==
    /\ \A j \in 1..(i - 1) : timers[j].left <= c
    /\ i <= Len(timers) => timers[i].left > c

\* internal_sleep never stores the item in running->timer, so its guard on a
\* timer already set never fires.
Sleep(c) ==
    /\ Enter("sleep", 0)
    /\ \/ Len(timers) >= NumTimers /\ Answer(DSOS_ESLEEP)
       \/ /\ Len(timers) < NumTimers
          /\ \E i \in 1..(Len(timers) + 1) :
                /\ TimerSlot(c, i)
                /\ timers' = InsertAt(timers, i, [pid |-> running, left |-> c])
          /\ GiveUpCpu
          /\ BlockCaller
          /\ UNCHANGED <<zombie, family, ret>>

Shutdown ==
    /\ Enter("shutdown", 0)
    /\ Stop("down")

-----------------------------------------------------------------------------
(* The timer interrupt *)

\* The k timer items at the head of the list that have expired at this tick.
Expired(k) ==
    /\ \A i \in 1..k : timers[i].left <= 1
    /\ k < Len(timers) => timers[k + 1].left > 1

Woken(k) == [i \in 1..k |-> timers[i].pid]

\* Mutants: the items of the woken processes stay; disastrOS_time stands still.
PopKeepsItems(k) ==
    /\ timers' = [i \in 1..Len(timers) |-> [timers[i] EXCEPT !.left = @ - 1]]
    /\ waiting' = waiting \ Range(Woken(k))
PopFrozen(k) ==
    /\ timers' = [i \in 1..(Len(timers) - k) |-> timers[k + i]]
    /\ waiting' = waiting \ Range(Woken(k))

\* The wake-up loop of timerInterrupt.
PopTimers(k) ==
    /\ timers' = [i \in 1..(Len(timers) - k) |->
                    [timers[k + i] EXCEPT !.left = @ - 1]]
    /\ waiting' = waiting \ Range(Woken(k))

\* Rotation to the next ready process after the wake-ups.
ScheduleWoken(k) ==
    /\ Schedule(running, ready \o Woken(k),
                Mark(status, Range(Woken(k)), "Ready"))
    /\ kernel' = IF running' \in noCtx THEN "bad_context" ELSE "up"
    /\ UNCHANGED <<zombie, family, syscall, ret>>

\* timerHandler with a process on the CPU.
Tick ==
    /\ kernel = "up" /\ running # NoProc
    /\ \E k \in 0..Len(timers) : Expired(k) /\ PopTimers(k) /\ ScheduleWoken(k)

\* A trap that left no process running enters timerInterrupt itself.
IdleWake ==
    /\ kernel = "up" /\ running = NoProc
    /\ \E k \in 0..Len(timers) :
          /\ Expired(k)
          /\ ready \o Woken(k) # <<>>
          /\ PopTimers(k)
          /\ ScheduleWoken(k)

\* With nobody to run timerInterrupt returns, its uc_link resumes main_context
\* inside disastrOS_start, and that code starts another init process.
IdleRestart ==
    /\ kernel = "up" /\ running = NoProc
    /\ lastPid < MaxPids
    /\ \E k \in 0..Len(timers) :
          /\ Expired(k)
          /\ ready \o Woken(k) = <<>>
          /\ PopTimers(k)
    /\ \/ /\ PcbPoolFull
          /\ kernel' = "null_pcb"
          /\ UNCHANGED <<running, status, family>>
       \/ /\ ~PcbPoolFull
          /\ running'  = lastPid
          /\ initPcb'  = lastPid
          /\ lastPid'  = lastPid + 1
          /\ status'   = [status EXCEPT ![lastPid] = "Running"]
          /\ parent'   = [parent EXCEPT ![lastPid] = NoProc]
          /\ children' = [children EXCEPT ![lastPid] = {}]
          /\ UNCHANGED <<kernel, ptrs, noCtx>>
    /\ UNCHANGED <<ready, zombie, syscall, ret>>

-----------------------------------------------------------------------------
(* disastrOS_start up to the first process *)
Init ==
    /\ kernel = "up"
    /\ running = 0 /\ initPcb = 0 /\ lastPid = 1
    /\ ready = <<>> /\ waiting = {} /\ zombie = <<>> /\ timers = <<>>
    /\ status = [p \in Pids |-> IF p = 0 THEN "Running" ELSE "Free"]
    /\ parent = [p \in Pids |-> NoProc]
    /\ children = [p \in Pids |-> {}]
    /\ syscall = [p \in Pids |-> [num |-> "none", arg |-> 0]]
    /\ ret = [p \in Pids |-> 0]
    /\ ptrs = 0
    /\ noCtx = {}

UserCall ==
    \/ Preempt \/ Unimplemented \/ Spawn \/ Fork \/ Exit \/ Shutdown
    \/ \E w \in Pids : Wait(w)
    \/ \E c \in SleepArgs : Sleep(c)

Interrupt == Tick \/ IdleWake \/ IdleRestart

Next == UserCall \/ Interrupt

\* The interval timer is periodic and user code runs with SIGALRM unmasked, so
\* ticks keep coming.  User code owes nothing.
Spec     == Init /\ [][Next]_vars
FairSpec == Spec /\ WF_vars(Interrupt)
-----------------------------------------------------------------------------
(* Safety *)

\* Every variable has the type its C declaration gives it.
TypeOK ==
    /\ kernel \in KernelModes
    /\ running \in Pids \cup {NoProc}
    /\ initPcb \in Pids
    /\ lastPid \in 1..MaxPids
    /\ ready \in Seq(Pids)
    /\ waiting \subseteq Pids
    /\ zombie \in Seq(Pids)
    /\ timers \in Seq(TimerItem)
    /\ status \in [Pids -> Statuses]
    /\ parent \in [Pids -> Pids \cup {NoProc}]
    /\ children \in [Pids -> SUBSET Pids]
    /\ syscall \in [Pids -> [num : SysCalls, arg : Int]]
    /\ ret \in [Pids -> Int]
    /\ ptrs \in Int
    /\ noCtx \subseteq Pids

\* No handler leaves a PCB on two lists, twice on one list, or on none: the
\* allocated PCBs are exactly the running one and the members of the ready,
\* waiting and zombie lists, each once, and the status field says which list.
\* A pid that was not given out yet is on none of them.
OnePlace ==
    /\ IsInjective(ready) /\ IsInjective(zombie)
    /\ running # NoProc => status[running] \in {"Running", "Ready"}
    /\ running \notin Range(ready)
    /\ \A p \in Pids :
          /\ p \in waiting <=> status[p] = "Waiting"
          /\ p \in Range(zombie) <=> status[p] = "Zombie"
          /\ p \in Range(ready) => status[p] = "Ready"
          /\ status[p] \in {"Running", "Ready"} =>
                p = running \/ p \in Range(ready)
          /\ p >= lastPid => status[p] = "Free"

\* A timer item exists for exactly the processes blocked in sleep, one each, so
\* a tick never wakes a process that is blocked in wait or on a queue.
TimersMatchSleepers ==
    /\ \A i, j \in 1..Len(timers) : timers[i].pid = timers[j].pid => i = j
    /\ {timers[i].pid : i \in 1..Len(timers)} =
          {p \in waiting : syscall[p].num = "sleep"}

\* The wake-up loop stops at the first item that is not due, so a due item
\* behind it would be missed and its count would fall below zero.
NoOversleep == \A i \in 1..Len(timers) : timers[i].left >= 0

\* A blocked process is woken only by what it waits for: a sleeper by the tick
\* in which its item is due, a waiting parent by the exit of an awaited child,
\* and neither of them by a queue operation.
WokenForCause ==
    [][\A p \in waiting \ waiting' :
          /\ syscall[p].num = "sleep" =>
                \E i \in 1..Len(timers) : timers[i].pid = p /\ timers[i].left <= 1
          /\ syscall[p].num = "wait" =>
                /\ parent[running] = p /\ status'[running] = "Zombie"
                /\ syscall[p].arg \in {0, running}]_vars

\* Once a process has exited no wake-up, whether of a timer, of exit or of a
\* queue, puts it back on a list it could be dispatched from.
NoResurrection ==
    [][\A p \in 0..(lastPid - 1) :
          status[p] \in {"Zombie", "Free"} =>
             status'[p] \in {status[p], "Free"}]_vars

\* The CPU is given up only when nobody is ready: the idle path is not entered
\* past a process that could run.
WorkConserving == running = NoProc => ready = <<>>

\* parent and children are inverse to each other over the allocated PCBs, and a
\* parent pointer never leads to a process that is gone: exit hands the
\* children of a dying process to init, and only an init process, which has no
\* parent itself, can be a dead parent.
FamilyTree ==
    /\ initPcb \in Alloc /\ parent[initPcb] = NoProc
    /\ \A c \in Alloc :
          parent[c] # NoProc => /\ parent[c] \in Alloc
                                /\ c \in children[parent[c]]
                                /\ status[parent[c]] = "Zombie"
                                      => parent[parent[c]] = NoProc
    /\ \A p \in Alloc : \A c \in children[p] : c \in Alloc /\ parent[c] = p

\* No zombie lies in the list that its parent is blocked waiting for, except
\* where the parent is an init process: only exit's hand-over to init, which
\* looks at nobody's wait, adds a zombie behind the back of its new parent.
MissedOnlyByInit ==
    \A p \in waiting, z \in Range(zombie) :
       parent[z] = p /\ syscall[p].num = "wait" /\ syscall[p].arg \in {0, z}
          => parent[p] = NoProc

\* The PCBPtr pool holds one block per child link and one per process blocked
\* on a queue: no call path leaks a block or frees one twice.
PtrAccounting ==
    ptrs = Cardinality({p \in Alloc : parent[p] # NoProc})
           + Cardinality({p \in waiting : syscall[p].num \in {"bq_put", "bq_get"}})

\* Children lists alone never use up the PCBPtr pool: it has as many blocks as
\* the PCB pool, and some process of every family has no parent, so even one
\* block fewer is enough.
PtrPoolSuffices == NumPtrs >= NumPcbs - 1 => kernel # "null_pcb_ptr"

-----------------------------------------------------------------------------
(* Liveness *)

\* A ready process reaches the CPU however long the others keep computing,
\* unless the kernel stops.
ReadyRuns ==
    \A p \in Pids : p \in Range(ready) ~> (running = p \/ kernel # "up")

\* The bound on pids stops the model where the code would start another init.
AtBound == running = NoProc /\ lastPid = MaxPids

\* A process that sleeps is woken, even when every process sleeps and the idle
\* path alone counts the ticks, unless the kernel stops.
SleepersWake ==
    \A p \in Pids : (status[p] = "Waiting" /\ syscall[p].num = "sleep")
                       ~> (status[p] # "Waiting" \/ kernel # "up" \/ AtBound)
=============================================================================
