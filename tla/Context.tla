------------------------------ MODULE Context ------------------------------
(***************************************************************************)
(* Contexts, stacks and the signal mask: disastrOS_syscall, disastrOS_trap *)
(* and the timer handlers step by step, with SIGALRM arriving between any  *)
(* two steps.  Kernel.tla takes a system call and a tick for one action    *)
(* each; this module says when that is so.                                 *)
(*                                                                         *)
(* What the CPU executes is a stack of frames, the innermost last; a saved *)
(* context is such a stack and a mask.  setcontext and swapcontext of the  *)
(* C library save the registers, then exchange the mask, then load the     *)
(* registers: a signal the new mask lets through is taken before the last  *)
(* step, on the old stack.  What the kernel does to its lists is a free    *)
(* choice of the process to run next.                                      *)
(***************************************************************************)
EXTENDS Integers, SequencesExt

CONSTANTS Procs,      \* process blocks
          None,       \* the null PCB pointer
          MaxFrames   \* bound: frames on one stack

ASSUME ContextAssumption == None \notin Procs /\ MaxFrames \in Nat

\* Where a frame stands.
Points == {"user",       \* user code, or disastrOS_syscall before its swapcontext
           "call",       \* that swapcontext, registers saved and mask not changed
           "trap",       \* disastrOS_trap, in its handler
           "trapExit",   \* its setcontext, mask changed and registers not loaded
           "interrupt",  \* timerInterrupt, or about to be loaded
           "chosen",     \* timerInterrupt, after the choice of the next process
           "dispatch",   \* its setcontext, mask changed and registers not loaded
           "toMain",     \* setcontext(&main_context), likewise
           "start",      \* disastrOS_start, back from getcontext(&main_context)
           "launch",     \* its last setcontext
           "handler",    \* timerHandler before its swapcontext
           "swap",       \* that swapcontext, mask changed and registers not loaded
           "resumed",    \* timerHandler after its swapcontext
           "exited",     \* exit(0)
           "crashed"}    \* a stack that was overwritten

Masks    == BOOLEAN      \* TRUE iff SIGALRM is blocked
Contexts == [frames : Seq(Points), masked : Masks]

VARIABLES
    frames,    \* what the CPU executes
    masked,    \* the signal mask
    pending,   \* a SIGALRM waits to be delivered
    running,   \* running
    live,      \* the processes that have not exited
    saved,     \* PCB.cpu_state
    main,      \* main_context
    down,      \* shutdown_now
    owed,      \* history: the processes whose last call no trap has served yet
    late       \* history: a SIGALRM was taken outside user code

vars == <<frames, masked, pending, running, live, saved, main, down, owed, late>>

Point   == Last(frames)
At(pt)  == frames # <<>> /\ Point = pt
Goto(pt) == frames' = Append(Front(frames), pt)
-----------------------------------------------------------------------------
(* The C library and the operating system *)

\* A context whose frames nobody has overwritten: the stack of a process is
\* its own and the frame of disastrOS_start stays, but every trap and every
\* timerInterrupt starts at the top of the same system stack.
Intact(fr) == fr[1] \in {"user", "call", "launch"} \/ fr = <<"start">>

\* The registers of a context are loaded.
Load(ctx) ==
    \/ frames' = ctx.frames
    \/ ~Intact(ctx.frames) /\ frames' = <<"crashed">>

\* The interval timer expires.
Alarm ==
    /\ ~pending /\ Point \notin {"exited", "crashed"}
    /\ pending' = TRUE
    /\ UNCHANGED <<frames, masked, running, live, saved, main, down, owed, late>>

\* The signal is delivered, on whatever stack the CPU is.
Deliver ==
    /\ pending /\ ~masked
    /\ Len(frames) < MaxFrames
    /\ pending' = FALSE
    /\ masked' = TRUE
    /\ frames' = Append(frames, "handler")
    /\ late' = (late \/ ~At("user"))
    /\ UNCHANGED <<running, live, saved, main, down, owed>>
-----------------------------------------------------------------------------
(* The timer handlers *)

\* Mutant: the branches of timerHandler are exchanged.
SaveElsewhere(fr) ==
    /\ main' = [frames |-> fr, masked |-> masked]
    /\ UNCHANGED saved

\* timerHandler saves its context for the running process, or else in
\* main_context.
SaveInterrupted(fr) ==
    LET ctx == [frames |-> fr, masked |-> masked]
    IN  IF running # None
        THEN saved' = [saved EXCEPT ![running] = ctx] /\ UNCHANGED main
        ELSE main' = ctx /\ UNCHANGED saved

\* The swapcontext of timerHandler, up to the mask of interrupt_context.
TimerHandler ==
    /\ At("handler")
    /\ SaveInterrupted(Append(Front(frames), "resumed"))
    /\ masked' = FALSE
    /\ Goto("swap")
    /\ UNCHANGED <<pending, running, live, down, owed, late>>

\* It loads interrupt_context: timerInterrupt starts on the system stack.
EnterInterrupt ==
    /\ At("swap")
    /\ frames' = <<"interrupt">>
    /\ UNCHANGED <<masked, pending, running, live, saved, main, down, owed, late>>

\* timerInterrupt chooses a process to run; it has none only if none was
\* running and none is ready.
Choose ==
    /\ At("interrupt")
    /\ \/ running' \in live
       \/ running = None /\ UNCHANGED running
    /\ Goto("chosen")
    /\ UNCHANGED <<masked, pending, live, saved, main, down, owed, late>>

\* Its setcontext, or its return, which is a setcontext of uc_link.
Dispatch ==
    /\ At("chosen")
    /\ \/ running # None /\ masked' = saved[running].masked /\ Goto("dispatch")
       \/ running = None /\ masked' = main.masked /\ Goto("toMain")
    /\ UNCHANGED <<pending, running, live, saved, main, down, owed, late>>

\* The registers of the running process are loaded, those of main_context.
Resume ==
    /\ Point \in {"trapExit", "dispatch", "launch"} /\ running # None
    /\ Load(saved[running])
    /\ UNCHANGED <<masked, pending, running, live, saved, main, down, owed, late>>
ResumeMain ==
    /\ At("toMain")
    /\ Load(main)
    /\ UNCHANGED <<masked, pending, running, live, saved, main, down, owed, late>>

\* timerHandler returns to what the signal interrupted, unmasked as that was.
HandlerReturn ==
    /\ At("resumed")
    /\ frames' = Front(frames)
    /\ masked' = FALSE
    /\ UNCHANGED <<pending, running, live, saved, main, down, owed, late>>
-----------------------------------------------------------------------------
(* System calls *)

\* Mutant: getcontext, then setcontext, instead of swapcontext; the process
\* comes back to before the setcontext.
CallByGetcontext ==
    saved' = [saved EXCEPT ![running].frames = Append(Front(frames), "call")]

\* swapcontext stores the registers of a process that returns from its call.
SaveCaller == saved' = [saved EXCEPT ![running].frames = frames]

\* disastrOS_syscall, up to the registers its swapcontext saves.
Syscall ==
    /\ At("user")
    /\ SaveCaller
    /\ owed' = owed \cup {running}
    /\ Goto("call")
    /\ UNCHANGED <<masked, pending, running, live, main, down, late>>

\* Mutant: trap_context blocks no signal.
OpenTrapMask == FALSE

\* The mask of trap_context.
TrapMask == TRUE

\* The rest of that swapcontext: the old mask is stored, SIGALRM blocked and
\* the trap entered.
EnterTrap ==
    /\ At("call")
    /\ saved' = [saved EXCEPT ![running].masked = masked]
    /\ masked' = TrapMask
    /\ frames' = <<"trap">>
    /\ UNCHANGED <<pending, running, live, main, down, owed, late>>

\* The end of the trap: the mask of the process to run, or of
\* interrupt_context if there is none.
LeaveTrap ==
    \/ /\ running' # None
       /\ masked' = saved'[running'].masked
       /\ Goto("trapExit")
    \/ running' = None /\ masked' = FALSE /\ Goto("interrupt")

\* Mutant: exit leaves the caller running.
ExitStays == live' = live \ {running} /\ UNCHANGED <<running, saved>>

\* The context disastrOS_start makes: getcontext stored the mask of the caller.
\* It serves as a mutant, too: internal_spawn in the trap without sigemptyset.
Inherited == [frames |-> <<"user">>, masked |-> masked]

\* The context internal_spawn makes: it empties the mask getcontext stored.
Fresh == [frames |-> <<"user">>, masked |-> FALSE]

\* The caller keeps the CPU, gives it up or blocks.
SwitchTo ==
    /\ running' \in live \cup {None}
    /\ UNCHANGED <<live, saved>>

SpawnOne ==
    /\ \E p \in Procs \ live : /\ live' = live \cup {p}
                               /\ saved' = [saved EXCEPT ![p] = Fresh]
    /\ UNCHANGED running

\* The caller exits; nothing will load its context, which is forgotten.
ExitCaller ==
    /\ live' = live \ {running}
    /\ running' \in live' \cup {None}
    /\ saved' = [saved EXCEPT ![running] = Fresh]

Trap ==
    /\ At("trap")
    /\ owed' = owed \ {running}
    /\ SwitchTo \/ SpawnOne \/ ExitCaller
    /\ LeaveTrap
    /\ UNCHANGED <<pending, main, down, late>>

\* internal_shutdown.
ShutdownTrap ==
    /\ At("trap")
    /\ owed' = owed \ {running}
    /\ down' = TRUE
    /\ masked' = main.masked
    /\ Goto("toMain")
    /\ UNCHANGED <<pending, running, live, saved, main, late>>
-----------------------------------------------------------------------------
(* disastrOS_start *)

\* From getcontext(&main_context) on: exit, or a new init process.
Start ==
    /\ At("start")
    /\ \/ down /\ frames' = <<"exited">> /\ UNCHANGED <<running, live, saved>>
       \/ ~down /\ \E p \in Procs \ live :
                      /\ running' = p
                      /\ live' = live \cup {p}
                      /\ saved' = [saved EXCEPT ![p] = Inherited]
                      /\ Goto("launch")
    /\ UNCHANGED <<masked, pending, main, down, owed, late>>

\* The first start, before the timer is set: the first process is launched.
Init ==
    /\ frames = <<"launch">>
    /\ masked = FALSE /\ pending = FALSE
    /\ running \in Procs
    /\ live = {running}
    /\ saved = [p \in Procs |-> Fresh]
    /\ main = [frames |-> <<"start">>, masked |-> FALSE]
    /\ down = FALSE
    /\ owed = {} /\ late = FALSE

Handler == TimerHandler \/ EnterInterrupt \/ Choose \/ Dispatch
           \/ Resume \/ ResumeMain \/ HandlerReturn
Next    == Alarm \/ Deliver \/ Handler \/ Syscall \/ EnterTrap \/ Trap
           \/ ShutdownTrap \/ Start

Spec == Init /\ [][Next]_vars
-----------------------------------------------------------------------------
(* Properties *)

\* Every variable has its type, and running is never a process that exited.
CtxTypeOK ==
    /\ frames \in Seq(Points) /\ frames # <<>>
    /\ masked \in Masks /\ pending \in BOOLEAN
    /\ live \subseteq Procs
    /\ running \in live \cup {None}
    /\ saved \in [Procs -> Contexts]
    /\ main \in Contexts
    /\ down \in BOOLEAN
    /\ owed \subseteq Procs /\ late \in BOOLEAN

\* No signal handler runs on top of the handler of a system call: its changes
\* of the kernel's lists are atomic, however late the alarm comes.
TrapAtomic ==
    \A i \in 1..Len(frames) : frames[i] = "trap" => masked /\ Len(frames) = 1

\* User code always runs with SIGALRM unblocked, whichever way it got the CPU:
\* the ticks that preempt it and wake the sleepers come.
UserRunsUnmasked == At("user") => ~masked

\* While alarms come in user code only, each process off the CPU resumes in its
\* own code, at its last call or in the timerHandler that preempted it, with the
\* mask of that place, and disastrOS_start is where shutdown will return.
ContextsIntact ==
    ~late => /\ main = [frames |-> <<"start">>, masked |-> FALSE]
             /\ \A p \in live \ {running} :
                   saved[p] \in {[frames |-> <<"user">>, masked |-> FALSE],
                                 [frames |-> <<"user", "resumed">>, masked |-> TRUE]}

\* While alarms come in user code only, a process enters the trap once for each
\* of its calls.
OneTrapPerCall == At("trap") /\ ~late => running \in owed

=============================================================================
