# disastrOS in TLA+

A verification development for disastrOS, the small teaching kernel in
`src/coda-bloccante-implementata/`, with the bounded blocking queues added to
it. All file names below are relative to that directory.

disastrOS is one UNIX process that simulates an operating system: every
disastrOS process is a `ucontext`, the interval timer is the timer interrupt
(`SIGALRM` every 100 ms), and a system call switches to a `trap` context that
runs with that signal masked. So there is one CPU, handlers are serial, and the
difficulty is not data races but *what state each handler leaves behind for the
next one*: PCBs sit on intrusive lists that handlers manipulate by hand, a
handler that wakes a process trusts fields written by whatever call that
process made last, and a signal may come between any two steps of saving and
loading a context.

## 1. Inventory

### Components

| component | files | state | operations |
|---|---|---|---|
| scheduler | `disastrOS_schedule.c`, `disastrOS_preempt.c` | `running`, `ready_list`, `PCB.status` | rotate to the next ready process |
| process life cycle | `disastrOS_spawn.c`, `_fork.c`, `_exit.c`, `_wait.c` | `init_pcb`, `last_pid`, `waiting_list`, `zombie_list`, `PCB.parent`, `PCB.children`, `PCB.syscall_*` | spawn, fork, exit (re-parent, become a zombie, wake the parent), wait (reap or block) |
| timers and sleep | `disastrOS_sleep.c`, `_timer.c` | `timer_list`, `disastrOS_time` | sleep, ordered insertion, wake-up loop |
| trap, interrupt, start | `disastrOS.c`, `_shutdown.c` | the contexts, `syscall_vector`, `log_file`, `shutdown_now` | system call entry and exit, tick, idle path, start, shutdown |
| contexts, signal masks | `disastrOS.c`, `_spawn.c` | `cpu_state` of each PCB, `main_context`, the alarm mask, the stacks | swap, set, make, alarm delivery |
| PCB and PCBPtr pools | `disastrOS_pcb.c` | two pools of `MAX_NUM_PROCESSES` blocks | alloc, free |
| blocking queues | `bqueue.c`, `disastrOS_bqueue.c` | registry; per queue: capacity, size, items, `wait_getters`, `wait_putters`; two pools | create, delete, put, get, dump |
| resources, descriptors | `_resource.c`, `_descriptor.c`, `_open_resource.c`, `_close_resource.c`, `_destroy_resource.c` | `resources_list`, descriptor lists of resources and PCBs, `last_fd` | open, close, destroy |
| linked lists | `linked_list.c` | intrusive doubly linked lists | find, insert, detach |
| pool allocator | `pool_allocator.c` | free list of blocks | init, get, release |
| test programs | `disastrOS_test_bqueue.c`, `disastrOS_test.c` | user code | unit test, producers and consumers |
| status printing | `disastrOS_printStatus`, `*_print` | none | output only |

### How they interact

* A system call stores its number and arguments in the caller's PCB and runs one
  handler to the end; the trap then loads the context of whatever process
  `running` names, or enters the interrupt if it is null.
* `ready_list` and `waiting_list` are shared by the scheduler, wait, sleep,
  exit, the interrupt and the queues. One `waiting_list` serves three causes of
  blocking, and only `syscall_num` and `syscall_args` say which.
* `exit` reads the *parent's* `status`, `syscall_num` and `syscall_args`; the
  queues read a blocked *producer's* value and a blocked *consumer's* result
  pointer out of their PCBs.
* One PCBPtr pool serves the children lists and the queues' wait lists.
* A PCB block is reused by a process of another pid, and brings its `last_fd`;
  the descriptors its last owner left open stay with their resources.
* The trap and `timerInterrupt` share one system stack; the end of the interrupt,
  with nobody to run, is the `uc_link` of its context: `main_context`, a point
  inside `disastrOS_start`.

### What is hard here

Wake-ups delivered on stale fields; re-parenting while someone waits; the CPU
idle; pools at their limit; queue hand-over to a process that has not run yet; a
queue deleted and made again; a descriptor on the lists of two owners, one of
which exits; starvation without pre-emption; a signal inside the context switch.
`PROJECT.json` lists the hazards at their lines, each with the properties that
cover it or a note why none does.

### What makes each component correct

* Scheduler: every allocated PCB is in one place; the CPU is idle only with
  nobody ready; a ready process runs.
* Life cycle: parent and children agree; no link block leaks; a process is woken
  only for its own cause; the dead stay dead; an awaited zombie wakes its parent
  (init's does not always); a wait answers about a process that exited (it does
  not always, see *Findings*).
* Timers: the items are those of the sleepers; none is overdue; a sleeper wakes.
* Queues: values leave in the order of the puts, once each, to the consumers in
  the order of the gets; wait lists hold exactly the blocked callers; items do
  not leak.
* Resources: the two descriptor lists agree until the PCB block is used again;
  PCB block and fd name one descriptor; the two descriptor pools empty together; a failed open changes nothing (but it may).
* Lists and pools: the links spell one sequence per list; a block handed out is
  on no list and comes back once.
* Contexts: a handler of a system call is never interrupted; user code is always
  interruptible; a saved context can still be resumed when it is loaded.
* Test program: it ends, and what it asserts holds (its last assertion may not).

## 2. The modules

| module | content |
|---|---|
| `Kernel` | scheduler, life cycle, timers, trap, interrupt, pools; its properties |
| `KernelClaims` | what a comment says of the idle kernel and the code does not do |
| `FifoChannel` | abstract specification: what a queue promises its users |
| `BQueue` | extends `Kernel` with the queues; refinement of `FifoChannel` |
| `Resources` | extends `Kernel` with resources and descriptors |
| `TestBQueue` | extends `BQueue` with the program of `disastrOS_test_bqueue.c` |
| `LinkedList` | `linked_list.c` on the fields of items and heads |
| `PoolAllocator` | `pool_allocator.c` on the array of indices |
| `BlockStore` | abstract specification: what lists and pool together promise |
| `BlockLists` | composes the two as the kernel uses them; refinement of `BlockStore` |
| `Context` | contexts, stacks and masks, with an alarm between any two steps |
| `ContextClaims` | what a comment says of the alarm in the trap |
| `MCKernel`, `MCBQueue`, `MCResources`, `MCTestBQueue`, `MCBlockLists`, `MCContext` | values of the constants for TLC |
| `ListFacts` | lemmas about `RemoveAt`, `InsertAt`, `Tail`, concatenation, injectivity |
| `KernelSafety`, `KernelFamily` | theorems of `Kernel`, and what its steps do, stated for the modules that extend it |
| `BQueueProofs` | theorems of `BQueue`, with the refinement of `FifoChannel` |
| `TestProofs` | theorems of `TestBQueue`, which implements `BQueue` |
| `ResourceProofs` | theorems of `Resources` |
| `BlockProofs` | theorems of `BlockLists`, with the refinement of `BlockStore` |
| `ContextProofs` | theorems of `Context` |

### Kernel

Variables carry the code's names where they can (`running`, `initPcb`,
`lastPid`, `status`, `parent`, `children`; `ready`, `waiting`, `zombie`,
`timers` for the four lists). `syscall` is `syscall_num` together with the one
argument that another handler may read; `ret` is `syscall_retvalue`; `ptrs`
counts PCBPtr blocks in use; `noCtx` holds the processes whose `cpu_state` was
never filled in; `kernel` says whether the kernel is up, or where it stopped.

One action per handler: `Preempt`, `Unimplemented`, `Spawn`, `Fork`, `Exit`,
`Wait(w)`, `Sleep(c)`, `Shutdown`. Each is `Enter` (what `disastrOS_syscall`
and the trap's entry do), the handler, and `TrapExit` (what the trap's end
does). A handler that never touches `running` needs no `TrapExit`. `Tick`,
`IdleWake` and `IdleRestart` are the interrupt with a process on the CPU, with
an idle CPU and somebody to dispatch, and with nobody.

`Schedule` is `internal_schedule`. Two handlers reuse it for code written out
again in the source: `Die` for the dispatch at the end of `internal_exit`, and
`ScheduleWoken` for the two branches of `timerInterrupt`. `GiveUpCpu` is the
end of `internal_sleep`, `internal_wait` and the blocking queue calls; the first
two do not set the status of the process they dispatch, so a process may run as
`Ready`, and `OnePlace` says so.

Places where the code does not survive are steps into a `kernel` mode, so that
they are behaviours of the model and not holes in it:

| mode | line | reached by |
|---|---|---|
| `null_ready` | `disastrOS_wait.c:61` | a wait that blocks with nobody ready |
| `null_pcb` | `disastrOS_pcb.c:43` | spawn, fork or a restart with the PCB pool empty |
| `null_pcb_ptr` | `disastrOS_pcb.c:67` | spawn, fork, put or get with the PCBPtr pool empty |
| `null_resource` | `disastrOS_open_resource.c:28` | open with the resource pool empty |
| `null_running` | `disastrOS.c:173` | the log line after a handler that left no process running |
| `bad_context` | `disastrOS_fork.c:29` | dispatch of a child of fork |
| `hung` | `disastrOS_exit.c:12` | exit of init while it has children |
| `down` | `disastrOS.c:253` | shutdown |

Abstractions. A PCB is named by its pid, so block reuse is visible only as a
count (`Resources` adds what a block brings along). A timer item holds the ticks
it has left instead of two absolute counters. `waiting_list` and the children
lists are sets, because no handler depends on their order: `waiting_list` is
only searched for a given PCB, children are looked up by pid, and `exit` moves
all of them. Exit codes are left out: nothing in the kernel reads one. User code
is arbitrary: the running process may make any call with any argument of the
constant sets, or none and lose the CPU to the tick. It does not return from its
function, which would resume `main_context` (see section 6).

### BQueue and FifoChannel

`BQueue` adds the registry, the queues' fields, the item pool and `out`, what
each process's result pointer points at. Each call (`BqCreate`, `BqDelete`,
`BqPut`, `BqGet`, `BqDump`) has one disjunct per path through the handler, error
paths included, in the order of the tests in the code. `Serve` is the wake-up of
a process the caller served, `Block` the end of a put or get that blocks. The
value of a blocked put exists only as `syscall[p].arg`, as in the code.

Two paths are modelled and never reached, in no instance. `GetFromPutter`, the
handoff past an empty buffer (`disastrOS_bqueue.c:156`), would need a producer
blocked at an empty queue, which `QueueShape` excludes (lemma `FullNotEmpty` of
`BQueueProofs`). The refill after a get (`disastrOS_bqueue.c:138`) tests for a
null item, but the get has just returned one to the pool (lemma `RefillDone`).

`FifoChannel` is what the queue promises: `Send` appends or serves the oldest
waiting receiver, `Receive` takes the oldest value or joins the receivers,
`Close` needs no receiver waiting. A value taken is stored in `got`, unless the
receiver is in `null`, the receivers whose last call passed a null result
pointer; `Calls` lets only those change their pointer that do not wait. There is
no capacity, no scheduler and no pool in it. The refinement maps the channel to the buffer followed by the
values of the blocked producers, and `null` to what the processes' last calls
were (`Null`): a value is *sent when put is called*. A blocked put is then a
`Send`, its later completion `NoEffect`, and a get that refills the buffer one
`Receive`. So `ImplementsFifo` says that capacity and blocking cannot be observed
in the order of the values, and that each of them arrives.

### TestBQueue

The program is user code for `BQueue`: `todo[p]` is the sequence of calls
process `p` has yet to make, with what the program asserts of each answer.
`test_unitario_bq`, `test_mini_concorrente`, `producer` and `consumer` are those
sequences, in the order of the C functions; `Step(p)` makes the next call through
the action of `BQueue` that models it, and `failed` collects the calls whose
assertion failed. Between two calls ticks come anywhere. The numbers of
producers, consumers and places are constants: nineteen processes in the file, at
most six in TLC's runs. `TestSizes` says what the numbers of the file have in
common with them: no more consumers than producers, no more producers than
consumers and places together (8 <= 10 <= 8 + 3), and pools that are large
enough (1024 blocks). The runs check it and the proofs assume it. A restart of
`initFunction` by an idle kernel is part of `Ticked`.

### Resources

`Resources` runs the three calls beside the life cycle. A resource is named by
its *slot*, the block of its pool, since one destroyed and made again under the
same id is another. Here a process also has a PCB *block* (`block[p]`), because
the block outlives it: a descriptor is an element of `owned[b]` (the list in PCB
block `b`) and, through its DescriptorPtr, of `users[s]` (that of the resource,
where it is known by its fd and the process that opened it). The code changes the
two sides in different lines, and the model keeps them apart.
`Open` follows the order of the tests of `internal_openResource`: creation comes
first, so a later failure leaves a resource nobody has open. `Creates` and
`Exclusive` read the bits of the mode, with the bit of `DSOS_CREATE` that
`DSOS_WRITE` contains.

`FollowPcbs` conjoins to every step of the kernel what it does to PCB blocks:
`exit` closes no descriptor, `PCB_free` leaves everything in the block, and
`PCB_alloc` (`TakeBlock`) empties the descriptor list, whatever is in it, and keeps
`last_fd`. What was on that list stays on the lists of the resources, where
nobody can close it any more: `close` looks the fd up in the caller's own list.
Which free block a process gets is left open, wider than the last-in first-out
order of the pool; that there is one wherever the kernel's count says so is lemma
`BlockLeft`.

### LinkedList, PoolAllocator, BlockLists, BlockStore

The first two are operators on records of the C fields: `Inserted`, `Detached`,
`Found` on `prev`, `next`, `first`, `last` and `size`; `Got`, `Verdict`,
`Released` on the array of indices, `first` and `size`. `List_insert` guards
itself with the item's own links and nothing else; `List_detach` with nothing.
`Represents` and `Chained` say what the fields mean.

`BlockLists` uses them as every module of the kernel does: a block is taken and
inserted in one handler (`New`), detached and released in one (`Free`), or moved
from one list to the end of another or the same (`Move`). The variables
`contents` and `chain` are history: the sequences the links are meant to spell.
`BlockStore` knows sequences and a stock and no link. Its refinement mapping
does not use the history: the lists are what one reads by following `next`.

### Context

`Kernel` takes a system call and a tick for one action each. `Context` opens
both up. The CPU executes a stack of frames (`frames`), each at a point; a saved
context is such a stack and a mask. The functions of the C library go in three
steps, in the order glibc takes them: save the registers, change the mask, load
the registers. A pending alarm that the new mask lets through is delivered
before the last step, on the old stack. So there are points *between* the steps:
`call` (registers saved, mask not changed), `trapExit`, `dispatch`, `toMain`,
`swap` (mask changed, registers not loaded). `Deliver` is enabled at every point
where the mask is open.

The stack of a process is its own, and the frame of `disastrOS_start` stays; but
the trap and every `timerInterrupt` start at the top of the same system stack,
so a context saved there (`~Intact`) may have been overwritten when it is
loaded: `Load` then chooses between resuming it and `crashed`. What the kernel
does to its lists is a free choice of the process to run next, of one to create,
or of the end of the caller.

Two history variables: `owed`, the processes whose last call no trap has served,
and `late`, whether an alarm was ever taken outside user code. `TrapAtomic` and
`UserRunsUnmasked` hold always. `ContextsIntact` and `OneTrapPerCall` need
`~late`: the code loses a context if an alarm is taken between the steps of a
context switch, which is what the run `alarm_in_trap` starts from. The condition
is what makes `Kernel`'s atomic actions right: they are right as long as alarms
find user code on the CPU.

## 3. What the runs check

TLC explores every interleaving of calls, ticks and alarms within the bounds.

| run | instance | properties | distinct states |
|---|---|---|---|
| `processes` | 5 pids, 3 PCBs, 2 PCBPtrs, log file; every call but sleep | `TypeOK` `OnePlace` `FamilyTree` `PtrPoolSuffices` `MissedOnlyByInit` | 2.8 million |
| `progress` | 3 pids, 2 timers, sleeps of 0 and 2, fair interrupts | `TimersMatchSleepers` `NoOversleep` `WorkConserving` `NoResurrection` `ReadyRuns` `SleepersWake` | 116 thousand |
| `fifo` | 3 processes, one queue of 2 places, 2 values, 2 item blocks | `QueueShape` `WaitersMatchCalls` `ImplementsFifo` | 1.7 million |
| `queue_life` | 2 processes, 2 ids, 1 queue block, up to 2 places, 1 item block, 1 PCBPtr, null pointers | `BQTypeOK` `ItemAccounting` `ImplementsFifo` | 254 thousand |
| `mixed` | 3 processes that spawn, sleep, wait, exit, put and get | `OnePlace` `PtrAccounting` `WokenForCause` | 3.7 million |
| `resources` | 3 processes on 2 PCB blocks, 2 resource blocks, 2 descriptors, 3 ids, 2 types, 3 modes | `ResTypeOK` `ListsInverse` `FdsUnique` `DescriptorAccounting` `FailedOpenIsClean` | 87 thousand |
| `storage` | 4 blocks of 3 bytes, 3 lists | `ListsIntact` `FreeListIntact` `NothingLeaks` `FindAgrees` `ReleaseChecked` `StoreSpec` | 3.4 thousand |
| `context` | 3 processes, stacks of at most 3 frames | `CtxTypeOK` `TrapAtomic` `UserRunsUnmasked` `ContextsIntact` `OneTrapPerCall` | 12.9 million |
| `test_program` | 3 producers, 2 consumers, 1 place, 6 processes | `NeverStuck` `OnlyDeleteFails` `ConsumersServed` `Terminates` | 193 thousand |
| `idle_restart` | everybody asleep | `IdleOnlyRetries` violated | |
| `alarm_in_trap` | an alarm during a call | `AlarmOffInTrap` violated | |
| `test_delete` | 2 producers, 2 consumers, 1 place | `AssertionsPass` violated | |

* `OnePlace` is the list discipline of the whole kernel: no PCB lost, doubled or
  on two lists, and `status` agrees.
* `FamilyTree`: parent and children are inverse to each other, and only an init
  may be a dead parent: a second init, started by an idle kernel, can exit
  childless before orphans of the first family are handed to it.
* `PtrAccounting`: one block per link and one per blocked queue user, so nothing
  leaks however long the system runs. `mixed` checks it; `processes` checks
  `PtrPoolSuffices`, its consequence: without queues the PCBPtr pool never runs out
  before the PCB pool.
* `MissedOnlyByInit`: a process blocked in a wait past a zombie it waits for is
  an init, to whom `exit` handed that zombie; no other parent misses one.
* `WokenForCause` and `NoResurrection` are action properties: what a wake-up may
  do, and what none may do.
* `QueueShape` and `WaitersMatchCalls` relate the three lists of a queue to each
  other and to the kernel's own `waiting_list`.
* `ItemAccounting` is checked where a queue of two places has room and the pool of
  one item has none (`disastrOS_bqueue.c:95`): that put stores nothing.
* `ListsInverse` is about processes whose PCB block was not used again, dead ones
  among them. After that the descriptors are on one side only, in the code too;
  what is left to say is that the new owner of the block has none of them, which
  is `ListsInverse` for the new owner.
* `FdsUnique` is about all descriptors, those left behind in a reused block
  included: the list of a resource shows them by PCB and fd. It holds because
  `last_fd`, which `PCB_alloc` does not set, goes on counting in the block.
* `DescriptorAccounting` is why `internal_openResource` may take a DescriptorPtr
  without looking: the two pools always hold the same number of blocks.
* `FailedOpenIsClean` states exactly what a failed open leaves behind. With both
  descriptors on one resource the other block is still free, so that an open
  creates a resource and then finds no descriptor
  (`disastrOS_open_resource.c:46`).
* `ReleaseChecked` says of each address which of the four answers it gets.
* `ImplementsFifo` also fails if a handoff stores nothing: the channel stores each
  value taken at every result pointer that is not null.
* `StoreSpec` is the refinement of `BlockStore`.
* `NeverStuck` says that the processes of the test program never all block, on
  the queue and in init's waits, although the waits are miscounted: until the
  shutdown somebody has the CPU, `null_ready` is not reached and no second init is
  started. It depends on the counts: with more consumers than producers, or more
  producers than consumers and places, it fails.
* `Terminates` is liveness under ticks at every point of the program;
  `OnlyDeleteFails` and `ConsumersServed` say that although waits are counted
  wrongly no other assertion and no consumer suffers.

**Bounds.** `MaxPids` bounds the processes ever created (`last_pid` grows for
ever in the code). The behaviours of interest need few: a family of three
generations and an orphan need three processes, reuse of a PCB needs one pid
more than there are blocks, and `processes` has two more. Two sleepers suffice
to order the timer list both ways, and sleeps of 0 and 2 let one expire before,
with and after the other. Two values and two places show every overtaking among
three processes: one producer blocked behind a full buffer, another running.
`queue_life` makes every pool of the queues smaller than the demand: two ids for
one queue block, two places for one item block, and no PCBPtr for a blocked caller
once a child is spawned. `resources` has fewer resource blocks than ids and fewer
descriptors than opens, and each of the two pools can run out while the other has
blocks left. `MaxFd` bounds `last_fd`, which only
grows. Four blocks and three lists give `List_insert` a front, a middle and an
end, and an empty, a one-element and a longer list to move between. `MaxFrames`
bounds the nesting of signal handlers: three frames are user code, a handler, and
a second handler inside the switch of the first. `test_program` scales ten
producers, eight consumers and three places to three, two and one, so that
producers block and wait counts overrun as in the file; `TestSizes` holds of
both. `CHECK_DEADLOCK FALSE`
stands in every configuration but `storage` because the system really stops: in
`down`, in `hung`, after `exit(0)`, and in the fault modes.

**Symmetry and view.** `context` treats its processes, and `resources` its ids
and types, as interchangeable: the modules only compare them, no operator chooses
one, and neither run checks liveness. `resources` also identifies states that
differ only in `ret`, the values answered to earlier calls (`MCView`): no step
reads `ret`, no invariant of the run mentions it, and `FailedOpenIsClean` reads
only the value its own step writes.

**Fairness.** `FairSpec` is `Spec` with weak fairness on `Interrupt` alone. The
code arms a periodic `setitimer` (`disastrOS.c:119-124`), user contexts run with
`SIGALRM` unmasked (`UserRunsUnmasked`), and the idle path enters the interrupt
without a signal. User code owes nothing: it may compute for ever, so `ReadyRuns`
rests on the tick. `SleepersWake` is stated up to the bound on pids, because an
idle kernel with nobody ready starts another init at each tick and the model has
no pid left for it. `TestSpec` adds to the ticks weak fairness on "some process
makes its next call": the program's code between two calls never loops, so as
long as somebody has the CPU a call is made in the end. It does not promise *which*
process: that a given one gets there rests on the scheduler.

**Mutants.** Each property of each passing run has a mutated operator in the
modules, placed before the definition it mutates, that breaks the property the
way a plausible slip would: the test of the parent's status dropped in exit, the
timer inserted last, the served getter left in its list, the block handed out
and not marked, the descriptor list of a reused PCB not emptied, a spawned context
that keeps the mask of the trap, and so on.

## 4. Findings

Three runs end in a violation, each of one formula that states what a comment or
an assertion of the repository says.

* `idle_restart`: `disastrOS.c:97` says that with nobody ready the handler just
  retries at the next tick. It returns, and its `uc_link` resumes inside
  `disastrOS_start`, which creates another init process and runs the user's
  program again beside the sleeping one.
* `alarm_in_trap`: `disastrOS.c:262` says of the mask of `trap_context` "this
  disables alarm during system trap". The alarm is only put off: the `setcontext`
  at the end of the trap changes the mask before it loads the registers, and the
  pending alarm is taken there, on the system stack. `timerHandler` then replaces
  the context of the process about to run by one on that stack.
* `test_delete`: `disastrOS_test_bqueue.c:180` asserts that after one wait per
  child the queue can be deleted. A wait that blocks is woken by exit without
  reaping, so the next wait answers for the same child, and init can reach the
  delete while consumers are blocked on the queue.

Seven more were read off the models and are in `PROJECT.json` without a run of
their own: the wait on an empty ready list (`disastrOS_wait.c:61`); the stale
answer of a wait that blocked (`disastrOS_exit.c:27`); the zombie handed to a
blocked init (`disastrOS_exit.c:12`); the PCBPtr pool shared with the queues and
asserted too late (`disastrOS_spawn.c:26`); the resource that stays in use by
nobody after exit, with descriptors that nobody can close once the PCB block is
used again (`disastrOS_exit.c:20` against `disastrOS_destroy_resource.c:19`);
the descriptor pools initialised with another size than their buffers
(`disastrOS_descriptor.c:25`); the exchanged arguments of a print
(`disastrOS_descriptor.c:99`).

Other oddities are in the models as behaviour, or in the hazard list, since
nothing in the repository promises otherwise: the log line through a null
`running`; fork's missing context; the endless exit of init; the guard in sleep
that never fires since nobody stores the timer item in the PCB; the early return
in spawn on a null PCB that `PCB_alloc` cannot return.

## 5. What is proved

TLAPS proves the following for every value of the constants, under the module's
named assumptions and nothing else.

| theorem | module | statement |
|---|---|---|
| `TypeCorrect` | `KernelSafety` | `Spec => []TypeOK` |
| `EachPcbInOnePlace` | `KernelSafety` | `Spec => []OnePlace` |
| `TimersBelongToSleepers` | `KernelSafety` | `Spec => []TimersMatchSleepers` |
| `NothingOverslept` | `KernelSafety` | `Spec => []NoOversleep` |
| `NeverIdlePastReady` | `KernelSafety` | `Spec => []WorkConserving` |
| `FamilyAlwaysTree` | `KernelFamily` | `Spec => []FamilyTree` |
| `LinksAlwaysCounted` | `KernelFamily` | `Spec => []PtrAccounting` |
| `PtrPoolAlwaysSuffices` | `KernelFamily` | `Spec => []PtrPoolSuffices` |
| `OnlyInitMisses` | `KernelFamily` | `Spec => []MissedOnlyByInit` |
| `AlwaysWokenForCause` | `KernelFamily` | `Spec => WokenForCause` |
| `DeadStayDead` | `KernelFamily` | `Spec => NoResurrection` |
| `QueuesTypeCorrect` | `BQueueProofs` | `BQSpec => []BQTypeOK` |
| `BuffersAlwaysShaped` | `BQueueProofs` | `BQSpec => []QueueShape` |
| `WaitListsMatchCalls` | `BQueueProofs` | `BQSpec => []WaitersMatchCalls` |
| `ItemsAlwaysCounted` | `BQueueProofs` | `BQSpec => []ItemAccounting` |
| `QueuesKeepPlaces` | `BQueueProofs` | `BQSpec => [](OnePlace /\ TimersMatchSleepers)` |
| `QueuesKeepPtrs` | `BQueueProofs` | `BQSpec => []PtrAccounting` |
| `QueuesWakeForCause` | `BQueueProofs` | `BQSpec => WokenForCause` |
| `QueuesKeepFamily` | `BQueueProofs` | `BQSpec => [](FamilyTree /\ MissedOnlyByInit)` |
| `QueuesOversleepNothing` | `BQueueProofs` | `BQSpec => []NoOversleep` |
| `QueuesNeverIdlePastReady` | `BQueueProofs` | `BQSpec => []WorkConserving` |
| `QueuesWakeNoDead` | `BQueueProofs` | `BQSpec => NoResurrection` |
| `QueuesAreFifo` | `BQueueProofs` | `BQSpec => ImplementsFifo` |
| `TestRunsQueues` | `TestProofs` | `TestSpec => BQSpec` |
| `TestNeverStuck` | `TestProofs` | `TestSpec => []NeverStuck` |
| `OnlyLastDeleteFails` | `TestProofs` | `TestSpec => []OnlyDeleteFails` |
| `ConsumersAlwaysServed` | `TestProofs` | `TestSpec => []ConsumersServed` |
| `ResourcesTypeCorrect` | `ResourceProofs` | `ResSpec => []ResTypeOK` |
| `ResourcesKeepPlaces` | `ResourceProofs` | `ResSpec => [](OnePlace /\ TimersMatchSleepers)` |
| `ListsAlwaysInverse` | `ResourceProofs` | `ResSpec => []ListsInverse` |
| `FdsAlwaysUnique` | `ResourceProofs` | `ResSpec => []FdsUnique` |
| `DescriptorsAlwaysCounted` | `ResourceProofs` | `ResSpec => []DescriptorAccounting` |
| `FailedOpenAlwaysClean` | `ResourceProofs` | `ResSpec => FailedOpenIsClean` |
| `ListsAlwaysIntact` | `BlockProofs` | `Spec => []ListsIntact` |
| `FreeListAlwaysIntact` | `BlockProofs` | `Spec => []FreeListIntact` |
| `NothingEverLeaks` | `BlockProofs` | `Spec => []NothingLeaks` |
| `ReleaseAlwaysChecked` | `BlockProofs` | `Spec => []ReleaseChecked` |
| `FindAlwaysAgrees` | `BlockProofs` | `Spec => []FindAgrees` |
| `BlocksImplementStore` | `BlockProofs` | `Spec => StoreSpec` |
| `ContextsTyped` | `ContextProofs` | `Spec => []CtxTypeOK` |
| `TrapAlwaysAtomic` | `ContextProofs` | `Spec => []TrapAtomic` |
| `UserAlwaysUnmasked` | `ContextProofs` | `Spec => []UserRunsUnmasked` |
| `ContextsAlwaysIntact` | `ContextProofs` | `Spec => []ContextsIntact` |
| `AlwaysOneTrapPerCall` | `ContextProofs` | `Spec => []OneTrapPerCall` |

*One place.* The inductive invariant is `Inductive`, the conjunction of
`TypeOK`, `OnePlace` and `TimersMatchSleepers`. Neither of the last two is
inductive without the other. The tick makes the process of each expired item
ready without looking at its status: that it was on the waiting list, and only
once, is `TimersMatchSleepers`. And that `exit` or a call cannot give a sleeping
process another `syscall_num`, so that its item would be orphaned, is
`OnePlace`: the caller is not on the waiting list. `Placed` states `OnePlace` of
given values, so that the lemma about `Schedule` applies in the middle of a
handler, between the wake-up and the dispatch.

*Timers.* `NoOversleep` is not inductive either: an item behind one that is not
due would be skipped. `InOrder`, the order of expiry, is added; the lemma about
`Sleep` shows that `TimerSlot` keeps it, the one about the tick that all items
up to the first that is not due are removed.

*Idle.* `WorkConserving` is inductive with `TypeOK`.

*Family.* For every number of processes and sizes of the pools. `StepKind` sorts
the steps of the kernel into five kinds (a birth, a death, the reaping of a
zombie, a new init, and all others, which leave the family and the zombies
alone), and one lemma per kind says what it does process by process. Every
invariant below is then proved over the five kinds. `FamilyTree` is inductive
with `Inductive`: reaping is safe since a zombie whose parent is still there has
handed its children over. `LinksCounted` is `PtrAccounting` without queues:
births and reapings change the set of linked processes by one, a death only moves
links, and that `reap_child` finds the link it frees is `FamilyTree`. The initial
process of the newest family has no link, hence `PtrPoolSuffices`.
`MissedOnlyByInit` needs `CallsKept` (a process that joins the waiting list found
no awaited zombie) and, for the children that a death hands over, that init has
no parent.

*Causes.* `WokenForCause` and `NoResurrection` are action properties of a step
from an `Inductive` state.

*Queues.* For every number of processes, queues, item blocks and capacities, and
with every call of the kernel beside those of the queues. The inductive
invariant is `QueueInductive`; TLC checks it on `fifo`, `queue_life` and `mixed`
as well. Its parts need each other:

* `KernelPart` (`Inductive`, `FamilyTree`, `MissedOnlyByInit`) must be carried
  over, since a put or get wakes processes and takes them off `waiting_list`. It
  may do so because whoever heads a wait list is really blocked there, which is
  `WaitersMatchCalls`; and that is kept by the calls of the kernel because those
  wake no process blocked in a queue call (`KernelPart` again).
* `QueuePtrs` counts the blocks of the wait lists beside those of the families;
  a wake-up frees one only for a process that held one.
* `PutValues` is what makes the value of a blocked put a value: it stands in the
  caller's arguments, and a blocked process makes no call that overwrites them.
* `BuffersOK` has the types, `QueueShape`, that a queue that does not exist is
  empty (so that `BqCreate`, which resets the fields, forgets neither a caller
  nor an item), that capacities are positive, without which a get on an empty
  queue could find a blocked producer, and `ItemAccounting`.

The proof goes in two halves. The handlers of the queues do one of three things
to the kernel, whatever the queue: answer (`RepliesEffect`), serve a blocked
process and answer (`ServeEffect`), or give up the CPU (`LeaveEffect`). They do
one of a few things to the queues: a value is stored, taken, handed over,
exchanged, or a caller joins a list, and there is one lemma `...Step` for each.
`KernelStepEffect` is the step of the kernel under which no queue moves.
`CallClock` adds what a queue call does to the timers (nothing) and to an idle CPU,
so that what is proved of the kernel's idle path and timers holds with queues too.

The refinement maps the channel of `q` to `Chan[q]`, the buffer followed by the
values in the arguments of the blocked producers, in their order. The lemmas
`...Fifo` show the step of the channel for each thing that happens to a queue: a
producer that blocks appends to the channel as one that does not, and a get that
refills takes the head, since the head of the wait list and the tail of the
buffer meet (`HeadOntoTail`). Every other step keeps `Chan`, because the
arguments of blocked processes stay (`PendingKept`); for the same reason the result
pointer of a blocked get is still the one it passed when a put serves it
(`CallsFifo`, `HandedValue`).

*Test program.* For all numbers of producers, consumers and places that satisfy
`TestSizes`, those of the file among them. `TestRunsQueues` says that every call
of the program is one of the arbitrary calls of `BQueue` (`CallsAllowed`: ids,
capacities and values are among those of the constants), so that all theorems
about queues hold of it and `QueueInductive` may be used. `TestInductive` adds
where each process is in its program:

* `InitWhere` has `At`, the call init makes next; it fixes how many workers were
  spawned, and `NeverStuck` is part of it. `WorkersWhere` has the same of the
  workers, each of which makes one queue call and exits.
* `FamilyFlat`: all workers are init's children and have none, and while init is
  blocked in a wait there is no zombie.
* `Phases`: which queue exists at which call, and what the unit test has in its
  buffer. `OnlyDeleteFails` follows call by call.
* `Balanced`: as long as the queue exists, the workers back from a put are as many
  as those back from a get and the values in the buffer together. The values of
  blocked producers are in neither count.
* `AllServed`, from which `ConsumersServed` follows.

That nobody gets stuck has to be shown wherever the caller gives up the CPU: a
put, a get or a wait that blocks, and the exit of a worker. Suppose nobody is
ready. Init is then not ready either, so it has spawned all workers
(`Elsewhere`), and each of them is blocked or has exited. If a consumer blocks,
the buffer is empty and no producer is blocked, so all puts are done, and
`Balanced` gives as many finished gets as there are producers, hence consumers:
this one included (`NoGetterLeft`). If a producer blocks, the buffer is full and
all gets are done, so the finished puts are consumers and places together, at
least as many as there are producers (`NoPutterLeft`). A wait that blocks found
a child and no zombie, so a worker is left, and it is blocked; `NobodyBlocked`
refutes that by the same counts. After the delete, which succeeds only with
nobody blocked, no call blocks. The exit of a worker wakes init if nobody else is ready, since
init waits for any child. Both inequalities of `TestSizes` are needed: on instances that
break either one, TLC finds everybody blocked, and a last wait that detaches from
the empty ready list; or the idle kernel starts a second init, whose create of
the queue that the first one still has fails.

*Resources.* For every number of processes, PCB blocks, resources and
descriptors. `ResInductive` adds to the properties: `BlocksOK`, a process keeps
its PCB block to itself until it is reaped, and one that is not born has none;
`SidesAgree`, which is `ListsInverse` for every fd, those beyond the bound
included, and says that descriptors are of listed resources, without which the
list of a new resource, whose block was used before, would not be known empty;
`NoneUnborn`, whoever has a descriptor has or had a PCB block; and `Counted`, that
what is counted is finite. They need each other. When a block is used again, the
new owner's list is empty and no resource lists a descriptor of it (`NoneUnborn`),
so the two sides agree for it; the old owner is no longer `Kept`, and drops out.
Its descriptors stay in `FdsUnique`, which holds since an fd given out is below
the block's `last_fd` for ever. `close` takes from both sides what
`DescriptorAccounting` counts because the caller is `Kept`.

*Lists and pool.* For every number of blocks and lists. The invariant is the
conjunction of the four properties with the types. Each needs the others:
`Inserted` may trust the guard on the item's own links only if a free block is
on no list (`NothingLeaks`) and unlinked (`ListsIntact`), and `Released` is
right only for a block that is not in the chain. The lemmas about `Inserted` and
`Detached` say how the sequence of one list changes and that the other lists, in
which no neighbour of the item can be, keep theirs. `ReleaseChecked` adds the
arithmetic of addresses (`VerdictSound`, `VerdictReasons`).

*Walks.* `Walk`, what one reads by following `next`, is a recursive function, so
what it computes needs an induction over the length of the list. The theorems on
natural induction take the property as an operator, which is out of the
prover's reach; `LeastNat` has it as a *set*: a set of naturals that is not empty
has a least member, by `NatLessThanWellFounded` and `WFMin` of
`WellFoundedInduction`. `WalkSpells` then takes the shortest prefix on which the
walk and the sequence differ and shows that they differ on a shorter one.
`FindAgrees` follows, and so does the refinement: in an intact state the walks
are `contents`, and each action is the `BlockStore` action on those.

*Contexts.* For every number of processes and every depth of nested signal
handlers (`MaxFrames` is any natural number). `CtxInv` adds to the types the
shape of stacks (`StacksOK`: user code and calls only at the bottom, nothing on
top of a trap), the mask at the points where it is known (`MaskOfPoint`), that
past the change of the mask it is that of the context about to be loaded or open
(`MaskLoaded`), and that a context saved in user code is unmasked but in the
window between the two halves of a system call's `swapcontext` (`MaskSaved`).
`UserRunsUnmasked` is not inductive without the last two: user code gets its mask
one step before its registers. `Home` is the second invariant, kept while
`~late`: a signal handler runs on user code, anything else alone on its stack,
and every live process but the one that has run since it was loaded is `Safe`.

`ListFacts` holds the facts about sequences the proofs share.

**Only model-checked.** Liveness (`ReadyRuns`, `SleepersWake`, `Terminates`),
since it needs fairness and `ENABLED`; of `Terminates`, `TestNeverStuck` has the
part that is safety. The refutations of `KernelClaims`, `ContextClaims` and
`AssertionsPass` are counterexamples, which need no proof.

Every other property of a passing run is stated by a theorem of the table.

## 6. What is not modelled

* **What a nested tick does to the lists.** `Context` shows when an alarm is taken
  inside `timerInterrupt` or at the end of a trap and which context it destroys;
  what two overlapping interrupts do to `ready_list` and `timer_list` is not
  modelled, and `Kernel` takes each interrupt as one step. The interval of 100 ms
  makes the overlap unlikely and not impossible.
* **System call numbers out of range** (32 passes the test at `disastrOS.c:133`
  and reads past the vectors): the wrappers pass only valid ones.
* **Overflow of `wake_time` and of `disastrOS_time`, negative sleeps**: the model
  keeps ticks left.
* **A process function that returns**: for init its `uc_link` is `main_context`,
  which restarts the program as `IdleRestart` does.
* **Block reuse under a stale PCB pointer.** In `Kernel` a PCB is its pid, so a
  stale pointer to a reused block would be visible only as a pid that is gone;
  `FamilyTree` excludes those for the life cycle. Descriptors of a process that
  exited are the exception, and a finding: their pointer is followed by a print
  only, and what the reuse does to the lists is in `Resources`.
* **Printing and debugging output**: no state. **`disastrOS_test.c`**: it asserts
  nothing, and its calls are among those of the arbitrary user code of `Kernel`
  and `Resources`.
* **`List_popFront`, `List_pushFront`, `List_pushBack`**: nobody calls them; they
  are instances of detach and insert.
* **`PoolAllocator_init` with too small a buffer**: every caller asserts that it
  is large enough.

## 7. Plan

What is left, in order:

1. The overlap of two interrupts on `Kernel`'s lists, in a module that composes
   `Context` with them.
2. A kernel with a process that never sleeps, as `disastrOS_test.c` has one:
   under which user discipline the idle path and `null_ready` are never reached.
