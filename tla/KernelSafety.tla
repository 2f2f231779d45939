---------------------------- MODULE KernelSafety ----------------------------
(***************************************************************************)
(* Every action keeps the types of Kernel's variables, every PCB is in one *)
(* place, timers belong to sleepers, no due timer is overlooked and no     *)
(* ready process is left behind an empty CPU, for every value of the       *)
(* constants.  The last two are the safety half of what Kernel's liveness  *)
(* properties rest on.                                                     *)
(***************************************************************************)
EXTENDS Kernel, ListFacts, TLAPS

-----------------------------------------------------------------------------
(* Type correctness. *)

LEMMA StatusValues == {"Free", "Running", "Ready", "Waiting", "Zombie"} \subseteq Statuses
BY DEF Statuses

LEMMA MarkType ==
    ASSUME NEW st \in [Pids -> Statuses], NEW S, NEW v \in Statuses
    PROVE  Mark(st, S, v) \in [Pids -> Statuses]
BY DEF Mark

LEMMA ScheduleType ==
    ASSUME NEW run \in Pids \cup {NoProc}, NEW rdy \in Seq(Pids),
           NEW st \in [Pids -> Statuses], Schedule(run, rdy, st)
    PROVE  /\ running' \in Pids \cup {NoProc}
           /\ ready' \in Seq(Pids)
           /\ status' \in [Pids -> Statuses]
<1>1. CASE rdy = <<>>
  BY <1>1 DEF Schedule
<1>2. CASE rdy # <<>>
  <2>1. Head(rdy) \in Pids /\ Tail(rdy) \in Seq(Pids)
    BY <1>2, HeadTailProperties
  <2>2. (IF run = NoProc THEN <<>> ELSE <<run>>) \in Seq(Pids)
    OBVIOUS
  <2>3. ready' \in Seq(Pids)
    BY <1>2, <2>1, <2>2, ConcatProperties DEF Schedule
  <2>4. Mark(st, {run}, "Ready") \in [Pids -> Statuses]
    BY MarkType, StatusValues
  <2>5. status' \in [Pids -> Statuses]
    BY <1>2, <2>4, MarkType, StatusValues DEF Schedule
  <2> QED
    BY <1>2, <2>1, <2>3, <2>5 DEF Schedule
<1> QED
  BY <1>1, <1>2

LEMMA TrapExitType ==
    ASSUME TrapExit PROVE kernel' \in KernelModes
BY DEF TrapExit, KernelModes, Faults

LEMMA EnterType ==
    ASSUME TypeOK, NEW num, NEW arg \in Int, Enter(num, arg)
    PROVE  /\ running \in Pids
           /\ syscall' \in [Pids -> [num : SysCalls, arg : Int]]
           /\ syscall' = [syscall EXCEPT ![running] = [num |-> num, arg |-> arg]]
           /\ kernel = "up"
<1>1. num \in SysCalls
  BY KernelAssumption DEF Enter
<1> QED
  BY <1>1 DEF Enter, TypeOK, NoProc

LEMMA PreemptType == ASSUME TypeOK, Preempt PROVE TypeOK'
<1>1. running \in Pids /\ syscall' \in [Pids -> [num : SysCalls, arg : Int]]
  BY EnterType DEF Preempt
<1>2. /\ running' \in Pids \cup {NoProc}
      /\ ready' \in Seq(Pids)
      /\ status' \in [Pids -> Statuses]
  BY <1>1, ScheduleType DEF Preempt, TypeOK
<1>3. kernel' \in KernelModes
  BY TrapExitType DEF Preempt
<1> QED
  BY <1>1, <1>2, <1>3 DEF Preempt, TypeOK, family

LEMMA AnswerType ==
    ASSUME TypeOK, running \in Pids, NEW v \in Int, Answer(v),
           syscall' \in [Pids -> [num : SysCalls, arg : Int]]
    PROVE  TypeOK'
<1>1. ret' \in [Pids -> Int]
  BY DEF TypeOK, Answer, Return
<1>2. UNCHANGED <<kernel, running, lists, family, status>>
  BY DEF Answer
<1> QED
  BY <1>1, <1>2 DEF TypeOK, lists, family

LEMMA StopType ==
    ASSUME TypeOK, NEW mode \in KernelModes, Stop(mode),
           syscall' \in [Pids -> [num : SysCalls, arg : Int]]
    PROVE  TypeOK'
<1>1. kernel' \in KernelModes /\ UNCHANGED <<running, lists, family, status, ret>>
  BY DEF Stop
<1> QED
  BY <1>1 DEF TypeOK, lists, family

LEMMA UnimplementedType == ASSUME TypeOK, Unimplemented PROVE TypeOK'
<1>1. running \in Pids /\ syscall' \in [Pids -> [num : SysCalls, arg : Int]]
  BY EnterType DEF Unimplemented
<1>2. DSOS_ESYSCALL_NOT_IMPLEMENTED \in Int
  BY DEF DSOS_ESYSCALL_NOT_IMPLEMENTED
<1> QED
  BY <1>1, <1>2, AnswerType DEF Unimplemented

LEMMA AddChildType ==
    ASSUME TypeOK, running \in Pids, lastPid < MaxPids,
           NEW lost \in BOOLEAN, AddChild(lost),
           syscall' \in [Pids -> [num : SysCalls, arg : Int]]
    PROVE  TypeOK'
<1>1. lastPid \in Pids /\ lastPid \in Int /\ lastPid + 1 \in 1..MaxPids
  BY KernelAssumption DEF TypeOK, Pids
<1>2. ready' \in Seq(Pids)
  BY <1>1, AppendProperties DEF AddChild, TypeOK
<1>3. status' \in [Pids -> Statuses]
  BY <1>1, StatusValues DEF AddChild, TypeOK
<1>4. parent' \in [Pids -> Pids \cup {NoProc}]
  BY <1>1 DEF AddChild, TypeOK
<1>5. children' \in [Pids -> SUBSET Pids]
  BY <1>1 DEF AddChild, TypeOK
<1>6. noCtx' \subseteq Pids
  BY <1>1 DEF AddChild, TypeOK
<1>7. ptrs' \in Int /\ lastPid' \in 1..MaxPids
  BY <1>1 DEF AddChild, TypeOK
<1>8. ret' \in [Pids -> Int]
  BY <1>1 DEF AddChild, TypeOK, Return
<1>9. UNCHANGED <<kernel, running, waiting, zombie, timers, initPcb>>
  BY DEF AddChild
<1> QED
  BY <1>2, <1>3, <1>4, <1>5, <1>6, <1>7, <1>8, <1>9 DEF TypeOK

LEMMA NewChildType ==
    ASSUME TypeOK, NEW num, NEW lost \in BOOLEAN, NewChild(num, lost)
    PROVE  TypeOK'
<1>1. running \in Pids /\ syscall' \in [Pids -> [num : SysCalls, arg : Int]]
  BY EnterType DEF NewChild
<1>2. "null_pcb" \in KernelModes /\ "null_pcb_ptr" \in KernelModes
  BY DEF KernelModes, Faults
<1>3. lastPid < MaxPids
  BY DEF NewChild
<1>4. Stop("null_pcb") \/ Stop("null_pcb_ptr") \/ AddChild(lost)
  BY DEF NewChild
<1> QED
  BY <1>1, <1>2, <1>3, <1>4, StopType, AddChildType

LEMMA DieType ==
    ASSUME TypeOK, running \in Pids, Die,
           syscall' \in [Pids -> [num : SysCalls, arg : Int]]
    PROVE  TypeOK'
<1> DEFINE par   == parent[running]
           woken == IF WaitsFor(par, running) THEN {par} ELSE {}
           rdy   == IF woken = {} THEN ready ELSE Append(ready, par)
           st    == Mark(Mark(status, {running}, "Zombie"), woken, "Ready")
<1>1. /\ parent' = [p \in Pids |-> IF p \in children[running]
                                   THEN initPcb ELSE parent[p]]
      /\ children' = [children EXCEPT ![initPcb] = @ \cup children[running],
                                      ![running] = {}]
      /\ zombie' = Append(zombie, running)
      /\ waiting' = waiting \ woken
      /\ Schedule(NoProc, rdy, st)
      /\ TrapExit
      /\ UNCHANGED <<timers, initPcb, lastPid, ptrs, noCtx, ret>>
  BY DEF Die, Reparent
<1>2. woken # {} => par \in Pids
  BY DEF WaitsFor, TypeOK
<1>3. rdy \in Seq(Pids)
  BY <1>2, AppendProperties DEF TypeOK
<1>4. Mark(status, {running}, "Zombie") \in [Pids -> Statuses]
  BY MarkType, StatusValues DEF TypeOK
<1>5. st \in [Pids -> Statuses]
  BY <1>4, MarkType, StatusValues
<1> HIDE DEF rdy, st
<1>6. /\ running' \in Pids \cup {NoProc}
      /\ ready' \in Seq(Pids)
      /\ status' \in [Pids -> Statuses]
  BY <1>1, <1>3, <1>5, ScheduleType
<1>7. zombie' \in Seq(Pids)
  BY <1>1, AppendProperties DEF TypeOK
<1>8. parent' \in [Pids -> Pids \cup {NoProc}]
  BY <1>1 DEF TypeOK
<1>9. children' \in [Pids -> SUBSET Pids]
  BY <1>1 DEF TypeOK
<1>10. kernel' \in KernelModes
  BY <1>1, TrapExitType
<1>11. waiting' \subseteq Pids
  BY <1>1 DEF TypeOK
<1> QED
  BY <1>1, <1>6, <1>7, <1>8, <1>9, <1>10, <1>11 DEF TypeOK

LEMMA ExitType == ASSUME TypeOK, Exit PROVE TypeOK'
<1>1. running \in Pids /\ syscall' \in [Pids -> [num : SysCalls, arg : Int]]
  BY EnterType DEF Exit
<1>2. "hung" \in KernelModes
  BY DEF KernelModes
<1>3. Stop("hung") \/ Die
  BY DEF Exit
<1> QED
  BY <1>1, <1>2, <1>3, StopType, DieType

LEMMA ReapType ==
    ASSUME TypeOK, running \in Pids, NEW i \in 1..Len(zombie), ReapAt(i),
           syscall' \in [Pids -> [num : SysCalls, arg : Int]]
    PROVE  TypeOK'
<1>1. zombie[i] \in Pids
  BY ElementOfSeq DEF TypeOK
<1>2. zombie' \in Seq(Pids)
  BY RemoveAtProperties DEF ReapAt, TypeOK
<1>3. children' \in [Pids -> SUBSET Pids]
  BY DEF ReapAt, Unlink, TypeOK
<1>4. ptrs' \in Int
  BY DEF ReapAt, Unlink, TypeOK
<1>5. status' \in [Pids -> Statuses]
  BY <1>1, StatusValues DEF ReapAt, TypeOK
<1>6. ret' \in [Pids -> Int]
  BY <1>1 DEF ReapAt, TypeOK, Return, Pids
<1>7. UNCHANGED <<kernel, running, ready, waiting, timers,
                  initPcb, lastPid, parent, noCtx>>
  BY DEF ReapAt
<1> QED
  BY <1>2, <1>3, <1>4, <1>5, <1>6, <1>7 DEF TypeOK

LEMMA GiveUpType ==
    ASSUME TypeOK, running \in Pids, GiveUpCpu
    PROVE  /\ kernel' \in KernelModes
           /\ running' \in Pids \cup {NoProc}
           /\ ready' \in Seq(Pids)
           /\ waiting' \subseteq Pids
<1>1. kernel' \in KernelModes
  BY TrapExitType DEF GiveUpCpu
<1>2. ready # <<>> => Head(ready) \in Pids /\ Tail(ready) \in Seq(Pids)
  BY HeadTailProperties DEF TypeOK
<1>3. waiting' \subseteq Pids
  BY DEF GiveUpCpu, TypeOK
<1>4. running' \in Pids \cup {NoProc} /\ ready' \in Seq(Pids)
  BY <1>2 DEF GiveUpCpu, TypeOK
<1> QED
  BY <1>1, <1>3, <1>4

LEMMA BlockCallerType ==
    ASSUME TypeOK, running \in Pids, BlockCaller
    PROVE  status' \in [Pids -> Statuses]
BY StatusValues DEF TypeOK, BlockCaller

LEMMA WaitType == ASSUME TypeOK, NEW w \in Pids, Wait(w) PROVE TypeOK'
<1>1. running \in Pids /\ syscall' \in [Pids -> [num : SysCalls, arg : Int]]
  BY EnterType DEF Wait, Pids
<1>2. CASE Answer(DSOS_EWAIT)
  BY <1>1, <1>2, AnswerType DEF DSOS_EWAIT
<1>3. CASE \E i \in Awaited(w) : ReapAt(i)
  BY <1>1, <1>3, ReapType DEF Awaited
<1>4. CASE Stop("null_ready")
  BY <1>1, <1>4, StopType DEF KernelModes, Faults
<1>5. CASE GiveUpCpu /\ BlockCaller /\ UNCHANGED <<zombie, timers, family, ret>>
  BY <1>1, <1>5, GiveUpType, BlockCallerType DEF TypeOK, family
<1> QED
  BY <1>2, <1>3, <1>4, <1>5 DEF Wait

LEMMA SleepType == ASSUME TypeOK, NEW c \in SleepArgs, Sleep(c) PROVE TypeOK'
<1>1. running \in Pids /\ syscall' \in [Pids -> [num : SysCalls, arg : Int]]
  BY EnterType DEF Sleep
<1>2. CASE Answer(DSOS_ESLEEP)
  BY <1>1, <1>2, AnswerType DEF DSOS_ESLEEP
<1>3. CASE ~Answer(DSOS_ESLEEP)
  <2>1. PICK i \in 1..(Len(timers) + 1) :
           timers' = InsertAt(timers, i, [pid |-> running, left |-> c])
    BY <1>3 DEF Sleep
  <2>2. [pid |-> running, left |-> c] \in TimerItem
    BY <1>1, KernelAssumption DEF TimerItem
  <2>3. timers' \in Seq(TimerItem)
    BY <2>1, <2>2, InsertAtProperties DEF TypeOK
  <2>4. GiveUpCpu /\ BlockCaller /\ UNCHANGED <<zombie, family, ret>>
    BY <1>3 DEF Sleep
  <2> QED
    BY <1>1, <2>3, <2>4, GiveUpType, BlockCallerType DEF TypeOK, family
<1> QED
  BY <1>2, <1>3

LEMMA ShutdownType == ASSUME TypeOK, Shutdown PROVE TypeOK'
<1>1. running \in Pids /\ syscall' \in [Pids -> [num : SysCalls, arg : Int]]
  BY EnterType DEF Shutdown
<1> QED
  BY <1>1, StopType DEF Shutdown, KernelModes

LEMMA PopTimersType ==
    ASSUME TypeOK, NEW k \in 0..Len(timers), PopTimers(k)
    PROVE  /\ timers' \in Seq(TimerItem)
           /\ waiting' \subseteq Pids
           /\ Woken(k) \in Seq(Pids)
<1>1. \A i \in 1..Len(timers) : timers[i] \in TimerItem
  BY ElementOfSeq DEF TypeOK
<1>2. Len(timers) \in Nat
  BY LenProperties DEF TypeOK
<1>3. \A i \in 1..(Len(timers) - k) :
         [timers[k + i] EXCEPT !.left = @ - 1] \in TimerItem
  <2> SUFFICES ASSUME NEW i \in 1..(Len(timers) - k)
               PROVE  [timers[k + i] EXCEPT !.left = @ - 1] \in TimerItem
    OBVIOUS
  <2>1. k + i \in 1..Len(timers)
    BY <1>2
  <2>2. timers[k + i] \in TimerItem
    BY <2>1, ElementOfSeq DEF TypeOK
  <2> QED
    BY <2>2 DEF TimerItem
<1>4. timers' \in Seq(TimerItem)
  BY <1>2, <1>3 DEF PopTimers
<1>5. Woken(k) \in Seq(Pids)
  BY <1>1, <1>2 DEF Woken, TimerItem
<1> QED
  BY <1>4, <1>5 DEF PopTimers, TypeOK

LEMMA ScheduleWokenType ==
    ASSUME TypeOK, NEW k \in 0..Len(timers), PopTimers(k), ScheduleWoken(k)
    PROVE  TypeOK'
<1>1. /\ timers' \in Seq(TimerItem)
      /\ waiting' \subseteq Pids
      /\ Woken(k) \in Seq(Pids)
  BY PopTimersType
<1>2. ready \o Woken(k) \in Seq(Pids)
  BY <1>1, ConcatProperties DEF TypeOK
<1>3. Mark(status, Range(Woken(k)), "Ready") \in [Pids -> Statuses]
  BY MarkType, StatusValues DEF TypeOK
<1>4. /\ running' \in Pids \cup {NoProc}
      /\ ready' \in Seq(Pids)
      /\ status' \in [Pids -> Statuses]
  BY <1>2, <1>3, ScheduleType DEF ScheduleWoken, TypeOK
<1>5. kernel' \in KernelModes
  BY DEF ScheduleWoken, KernelModes, Faults
<1>6. UNCHANGED <<zombie, family, syscall, ret>>
  BY DEF ScheduleWoken
<1> QED
  BY <1>1, <1>4, <1>5, <1>6 DEF TypeOK, family

LEMMA InterruptType == ASSUME TypeOK, Interrupt PROVE TypeOK'
<1>1. CASE Tick \/ IdleWake
  BY <1>1, ScheduleWokenType DEF Tick, IdleWake
<1>2. CASE IdleRestart
  <2>1. PICK k \in 0..Len(timers) : PopTimers(k)
    BY <1>2 DEF IdleRestart
  <2>2. timers' \in Seq(TimerItem) /\ waiting' \subseteq Pids
    BY <2>1, PopTimersType
  <2>3. UNCHANGED <<ready, zombie, syscall, ret>>
    BY <1>2 DEF IdleRestart
  <2>4. CASE /\ kernel' = "null_pcb"
             /\ UNCHANGED <<running, status, family>>
    BY <2>2, <2>3, <2>4 DEF TypeOK, family, KernelModes, Faults
  <2>5. CASE /\ running'  = lastPid
             /\ initPcb'  = lastPid
             /\ lastPid'  = lastPid + 1
             /\ status'   = [status EXCEPT ![lastPid] = "Running"]
             /\ parent'   = [parent EXCEPT ![lastPid] = NoProc]
             /\ children' = [children EXCEPT ![lastPid] = {}]
             /\ UNCHANGED <<kernel, ptrs, noCtx>>
    <3>1. lastPid \in Pids /\ lastPid + 1 \in 1..MaxPids
      BY <1>2, KernelAssumption DEF IdleRestart, TypeOK, Pids
    <3>2. status' \in [Pids -> Statuses]
      BY <2>5, <3>1, StatusValues DEF TypeOK
    <3>3. parent' \in [Pids -> Pids \cup {NoProc}]
      BY <2>5, <3>1 DEF TypeOK
    <3>4. children' \in [Pids -> SUBSET Pids]
      BY <2>5, <3>1 DEF TypeOK
    <3> QED
      BY <2>2, <2>3, <2>5, <3>1, <3>2, <3>3, <3>4 DEF TypeOK
  <2> QED
    BY <1>2, <2>4, <2>5 DEF IdleRestart
<1> QED
  BY <1>1, <1>2 DEF Interrupt

LEMMA InitType == Init => TypeOK
<1> SUFFICES ASSUME Init PROVE TypeOK
  OBVIOUS
<1>1. 0 \in Pids /\ 1 \in 1..MaxPids
  BY KernelAssumption DEF Pids
<1>2. status \in [Pids -> Statuses]
  BY StatusValues DEF Init
<1>3. syscall \in [Pids -> [num : SysCalls, arg : Int]]
  BY DEF Init, SysCalls
<1>4. kernel \in KernelModes
  BY DEF Init, KernelModes
<1>5. /\ ready \in Seq(Pids) /\ zombie \in Seq(Pids)
      /\ timers \in Seq(TimerItem)
  BY EmptySeq DEF Init
<1> QED
  BY <1>1, <1>2, <1>3, <1>4, <1>5 DEF Init, TypeOK

LEMMA StepType == TypeOK /\ [Next]_vars => TypeOK'
<1> SUFFICES ASSUME TypeOK, [Next]_vars PROVE TypeOK'
  OBVIOUS
<1>1. CASE UserCall
  BY <1>1, PreemptType, UnimplementedType, NewChildType, ExitType,
     ShutdownType, WaitType, SleepType DEF UserCall, Spawn, Fork
<1>2. CASE Interrupt
  BY <1>2, InterruptType
<1>3. CASE UNCHANGED vars
  BY <1>3 DEF vars, lists, family, TypeOK
<1> QED
  BY <1>1, <1>2, <1>3 DEF Next

\* Every handler keeps the types of the C declarations: pids stay inside the
\* processes created, and no list takes in the null pointer.
THEOREM TypeCorrect == Spec => []TypeOK
<1>1. Init => TypeOK
  BY InitType
<1>2. TypeOK /\ [Next]_vars => TypeOK'
  BY StepType
<1> QED
  BY <1>1, <1>2, PTL DEF Spec

-----------------------------------------------------------------------------
(* OnePlace as a predicate of the values it speaks about, so that it can be *)
(* stated of the state between two steps of one handler.                    *)

Placed(run, rdy, wait, zom, st, last) ==
    /\ IsInjective(rdy) /\ IsInjective(zom)
    /\ run # NoProc => st[run] \in {"Running", "Ready"}
    /\ run \notin Range(rdy)
    /\ \A p \in Pids :
          /\ p \in wait <=> st[p] = "Waiting"
          /\ p \in Range(zom) <=> st[p] = "Zombie"
          /\ p \in Range(rdy) => st[p] = "Ready"
          /\ st[p] \in {"Running", "Ready"} => p = run \/ p \in Range(rdy)
          /\ p >= last => st[p] = "Free"

LEMMA OnePlaceIsPlaced ==
    OnePlace <=> Placed(running, ready, waiting, zombie, status, lastPid)
BY DEF OnePlace, Placed

LEMMA OnePlacePrimed ==
    OnePlace' <=> Placed(running', ready', waiting', zombie', status', lastPid')
BY DEF OnePlace, Placed

LEMMA PidFacts ==
    /\ NoProc \notin Pids
    /\ \A p \in Pids : p \in Int
BY DEF NoProc, Pids

\* internal_schedule moves the head of the ready list to the CPU and the
\* process on the CPU to the end of the list.
LEMMA SchedulePlaced ==
    ASSUME NEW run \in Pids \cup {NoProc}, NEW rdy \in Seq(Pids), NEW wait,
           NEW zom, NEW st \in [Pids -> Statuses], NEW last,
           Placed(run, rdy, wait, zom, st, last), Schedule(run, rdy, st)
    PROVE  Placed(running', ready', wait, zom, status', last)
<1>1. CASE rdy = <<>>
  BY <1>1 DEF Schedule
<1>2. CASE rdy # <<>>
  <2> DEFINE next == Head(rdy)
             old  == IF run = NoProc THEN <<>> ELSE <<run>>
  <2>1. /\ next \in Pids /\ Tail(rdy) \in Seq(Pids)
        /\ next \in Range(rdy)
        /\ IsInjective(Tail(rdy)) /\ Range(Tail(rdy)) = Range(rdy) \ {next}
    BY <1>2, HeadTailProperties, TailInjective DEF Placed
  <2>2. /\ old \in Seq(Pids) /\ IsInjective(old)
        /\ Range(old) = IF run = NoProc THEN {} ELSE {run}
    <3>1. CASE run = NoProc
      BY <3>1 DEF IsInjective, Range
    <3>2. CASE run # NoProc
      BY <3>2, SingletonInjective
    <3> QED
      BY <3>1, <3>2
  <2> HIDE DEF next, old
  <2>3. run \notin Range(rdy)
    BY DEF Placed
  <2>4. IsInjective(Tail(rdy) \o old)
    BY <2>1, <2>2, <2>3, ConcatInjective
  <2>5. Range(Tail(rdy) \o old) = (Range(rdy) \ {next}) \cup Range(old)
    <3> DEFINE rest == Tail(rdy)
    <3>1. rest \in Seq(Pids) /\ Range(rest) = Range(rdy) \ {next}
      BY <2>1
    <3> HIDE DEF rest
    <3>2. Range(rest \o old) = Range(rest) \cup Range(old)
      BY <2>2, <3>1, RangeConcatenation, SMTT(30)
    <3> QED
      BY <3>1, <3>2 DEF rest
  <2>6. /\ running' = next
        /\ ready' = Tail(rdy) \o old
        /\ status' = Mark(Mark(st, {run}, "Ready"), {next}, "Running")
    BY <1>2 DEF Schedule, next, old
  <2>7. \A p \in Pids : status'[p] = IF p = next THEN "Running"
                                     ELSE IF p = run THEN "Ready" ELSE st[p]
    BY <2>6 DEF Mark
  <2>8. next # run /\ st[next] = "Ready"
    BY <2>1, <2>3 DEF Placed
  <2>9. \A p \in Pids : p \in Range(ready') <=>
                           (p \in Range(rdy) /\ p # next) \/ p = run
    BY <2>2, <2>5, <2>6, PidFacts
  <2>10. running' \notin Range(ready')
    BY <2>1, <2>6, <2>8, <2>9
  <2>11. run # NoProc => st[run] \in {"Running", "Ready"}
    BY DEF Placed
  <2>12. ASSUME NEW p \in Pids
         PROVE  /\ p \in wait <=> status'[p] = "Waiting"
                /\ p \in Range(zom) <=> status'[p] = "Zombie"
                /\ p \in Range(ready') => status'[p] = "Ready"
                /\ status'[p] \in {"Running", "Ready"} =>
                      p = running' \/ p \in Range(ready')
                /\ p >= last => status'[p] = "Free"
    <3>1. /\ p \in wait <=> st[p] = "Waiting"
          /\ p \in Range(zom) <=> st[p] = "Zombie"
          /\ p \in Range(rdy) => st[p] = "Ready"
          /\ st[p] \in {"Running", "Ready"} => p = run \/ p \in Range(rdy)
          /\ p >= last => st[p] = "Free"
      BY DEF Placed
    <3>2. CASE p = next
      BY <2>6, <2>7, <2>8, <2>9, <3>1, <3>2
    <3>3. CASE p = run
      BY <2>6, <2>7, <2>8, <2>9, <2>11, <3>1, <3>3, PidFacts
    <3>4. CASE p # next /\ p # run
      BY <2>6, <2>7, <2>9, <3>1, <3>4
    <3> QED
      BY <3>2, <3>3, <3>4
  <2>13. IsInjective(zom) /\ IsInjective(ready') /\ status'[running'] = "Running"
    BY <2>1, <2>4, <2>6, <2>7 DEF Placed
  <2> QED
    BY <2>10, <2>12, <2>13 DEF Placed
<1> QED
  BY <1>1, <1>2

\* What OnePlace says of the process on the CPU when it enters a system call.
LEMMA CallerPlace ==
    ASSUME TypeOK, OnePlace, running \in Pids
    PROVE  /\ status[running] \in {"Running", "Ready"}
           /\ running \notin Range(ready)
           /\ running \notin waiting
           /\ running \notin Range(zombie)
BY PidFacts DEF OnePlace

LEMMA UnmovedPlaced ==
    ASSUME OnePlace, UNCHANGED <<running, ready, waiting, zombie, status, lastPid>>
    PROVE  OnePlace'
BY DEF OnePlace

LEMMA AnswerPlaced == ASSUME OnePlace, NEW v, Answer(v) PROVE OnePlace'
BY UnmovedPlaced DEF Answer, lists, family

LEMMA StopPlaced == ASSUME OnePlace, NEW mode, Stop(mode) PROVE OnePlace'
BY UnmovedPlaced DEF Stop, lists, family

LEMMA PreemptPlaced == ASSUME TypeOK, OnePlace, Preempt PROVE OnePlace'
<1>1. Placed(running, ready, waiting, zombie, status, lastPid)
  BY OnePlaceIsPlaced
<1>2. Placed(running', ready', waiting, zombie, status', lastPid)
  BY <1>1, SchedulePlaced DEF Preempt, TypeOK
<1>3. UNCHANGED <<waiting, zombie, lastPid>>
  BY DEF Preempt, family
<1> QED
  BY <1>2, <1>3, OnePlacePrimed

\* The new pid was on no list, because it was never given out.
LEMMA AddChildPlaced ==
    ASSUME TypeOK, OnePlace, running \in Pids, lastPid < MaxPids,
           NEW lost, AddChild(lost)
    PROVE  OnePlace'
<1>1. lastPid \in Pids /\ lastPid \in Int
  BY KernelAssumption DEF TypeOK, Pids
<1>2. status[lastPid] = "Free"
  BY <1>1 DEF OnePlace
<1>3. lastPid \notin Range(ready) /\ lastPid # running
  BY <1>1, <1>2, CallerPlace DEF OnePlace
<1>4. /\ IsInjective(ready')
      /\ Range(ready') = Range(ready) \cup {lastPid}
  BY <1>1, <1>3, AppendInjectivity, AppendRange DEF AddChild, TypeOK, OnePlace
<1>5. \A p \in Pids : status'[p] = IF p = lastPid THEN "Ready" ELSE status[p]
  BY <1>1 DEF AddChild, TypeOK
<1>6. /\ UNCHANGED <<running, waiting, zombie>>
      /\ lastPid' = lastPid + 1
  BY DEF AddChild
<1>7. ASSUME NEW p \in Pids
      PROVE  /\ p \in waiting' <=> status'[p] = "Waiting"
             /\ p \in Range(zombie') <=> status'[p] = "Zombie"
             /\ p \in Range(ready') => status'[p] = "Ready"
             /\ status'[p] \in {"Running", "Ready"} =>
                   p = running' \/ p \in Range(ready')
             /\ p >= lastPid' => status'[p] = "Free"
  <2>1. /\ p \in waiting <=> status[p] = "Waiting"
        /\ p \in Range(zombie) <=> status[p] = "Zombie"
        /\ p \in Range(ready) => status[p] = "Ready"
        /\ status[p] \in {"Running", "Ready"} => p = running \/ p \in Range(ready)
        /\ p >= lastPid => status[p] = "Free"
    BY DEF OnePlace
  <2>2. CASE p = lastPid
    BY <1>1, <1>2, <1>4, <1>5, <1>6, <2>1, <2>2
  <2>3. CASE p # lastPid
    <3>1. p >= lastPid + 1 => p >= lastPid
      BY <1>1, PidFacts
    <3> QED
      BY <1>4, <1>5, <1>6, <2>1, <2>3, <3>1
  <2> QED
    BY <2>2, <2>3
<1>8. /\ IsInjective(zombie')
      /\ running' \notin Range(ready')
      /\ status'[running'] \in {"Running", "Ready"}
  BY <1>3, <1>4, <1>5, <1>6, CallerPlace DEF OnePlace
<1> QED
  BY <1>4, <1>7, <1>8 DEF OnePlace

LEMMA NewChildPlaced ==
    ASSUME TypeOK, OnePlace, NEW num, NEW lost, NewChild(num, lost)
    PROVE  OnePlace'
<1>1. running \in Pids /\ lastPid < MaxPids
  BY EnterType DEF NewChild
<1>2. Stop("null_pcb") \/ Stop("null_pcb_ptr") \/ AddChild(lost)
  BY DEF NewChild
<1> QED
  BY <1>1, <1>2, StopPlaced, AddChildPlaced

\* Between the moves of exit and its call of internal_schedule the CPU is empty,
\* the caller is a zombie, and the parent it woke is ready.
LEMMA DiePlaced ==
    ASSUME TypeOK, OnePlace, running \in Pids, Die
    PROVE  OnePlace'
<1> DEFINE par   == parent[running]
           woken == IF WaitsFor(par, running) THEN {par} ELSE {}
           rdy   == IF woken = {} THEN ready ELSE Append(ready, par)
           st    == Mark(Mark(status, {running}, "Zombie"), woken, "Ready")
<1>1. /\ zombie' = Append(zombie, running)
      /\ waiting' = waiting \ woken
      /\ Schedule(NoProc, rdy, st)
      /\ lastPid' = lastPid
  BY DEF Die
<1>2. woken # {} => par \in Pids /\ status[par] = "Waiting" /\ woken = {par}
  BY DEF WaitsFor, TypeOK
<1>3. woken # {} => par \notin Range(ready)
  BY <1>2 DEF OnePlace
<1>4. /\ rdy \in Seq(Pids) /\ IsInjective(rdy)
      /\ Range(rdy) = Range(ready) \cup woken
  <2>1. CASE woken = {}
    BY <2>1 DEF TypeOK, OnePlace
  <2>2. CASE woken # {}
    <3>1. Append(ready, par) \in Seq(Pids)
      BY <1>2, <2>2, AppendProperties DEF TypeOK
    <3>2. IsInjective(Append(ready, par))
      BY <1>2, <1>3, <2>2, AppendInjectivity DEF TypeOK, OnePlace
    <3>3. Range(Append(ready, par)) = Range(ready) \cup {par}
      BY <1>2, <2>2, AppendRange DEF TypeOK
    <3> QED
      BY <1>2, <2>2, <3>1, <3>2, <3>3
  <2> QED
    BY <2>1, <2>2
<1>5. /\ st \in [Pids -> Statuses]
      /\ \A p \in Pids : st[p] = IF p \in woken THEN "Ready"
                                 ELSE IF p = running THEN "Zombie" ELSE status[p]
  <2>1. Mark(status, {running}, "Zombie") \in [Pids -> Statuses]
    BY MarkType, StatusValues DEF TypeOK
  <2>2. st \in [Pids -> Statuses]
    BY <2>1, MarkType, StatusValues
  <2> QED
    BY <2>2 DEF Mark
<1> HIDE DEF par, woken, rdy, st
<1>6. /\ IsInjective(zombie')
      /\ Range(zombie') = Range(zombie) \cup {running}
  BY <1>1, CallerPlace, AppendInjectivity, AppendRange DEF TypeOK, OnePlace
<1>7. ASSUME NEW p \in Pids
      PROVE  /\ p \in waiting' <=> st[p] = "Waiting"
             /\ p \in Range(zombie') <=> st[p] = "Zombie"
             /\ p \in Range(rdy) => st[p] = "Ready"
             /\ st[p] \in {"Running", "Ready"} => p = NoProc \/ p \in Range(rdy)
             /\ p >= lastPid => st[p] = "Free"
  <2>1. /\ p \in waiting <=> status[p] = "Waiting"
        /\ p \in Range(zombie) <=> status[p] = "Zombie"
        /\ p \in Range(ready) => status[p] = "Ready"
        /\ status[p] \in {"Running", "Ready"} => p = running \/ p \in Range(ready)
        /\ p >= lastPid => status[p] = "Free"
    BY DEF OnePlace
  <2>2. CASE p \in woken
    BY <1>1, <1>2, <1>4, <1>5, <1>6, <2>1, <2>2, CallerPlace
  <2>3. CASE p = running
    BY <1>1, <1>2, <1>4, <1>5, <1>6, <2>1, <2>3, CallerPlace
  <2>4. CASE p \notin woken /\ p # running
    BY <1>1, <1>4, <1>5, <1>6, <2>1, <2>4
  <2> QED
    BY <2>2, <2>3, <2>4
<1>8. NoProc \notin Range(rdy)
  BY <1>4, PidFacts, RangeOfSeq
<1>9. Placed(NoProc, rdy, waiting', zombie', st, lastPid)
  BY <1>4, <1>6, <1>7, <1>8 DEF Placed
<1>10. Placed(running', ready', waiting', zombie', status', lastPid)
  BY <1>1, <1>4, <1>5, <1>9, SchedulePlaced
<1> QED
  BY <1>1, <1>10, OnePlacePrimed

LEMMA ExitPlaced == ASSUME TypeOK, OnePlace, Exit PROVE OnePlace'
<1>1. running \in Pids
  BY EnterType DEF Exit
<1>2. Stop("hung") \/ Die
  BY DEF Exit
<1> QED
  BY <1>1, <1>2, StopPlaced, DiePlaced

LEMMA ReapPlaced ==
    ASSUME TypeOK, OnePlace, running \in Pids, NEW i \in 1..Len(zombie), ReapAt(i)
    PROVE  OnePlace'
<1> DEFINE child == zombie[i]
<1>1. child \in Pids /\ child \in Range(zombie)
  <2>1. DOMAIN zombie = 1..Len(zombie)
    BY LenProperties DEF TypeOK
  <2> QED
    BY <2>1, ElementOfSeq DEF TypeOK, Range
<1>2. /\ IsInjective(zombie')
      /\ Range(zombie') = Range(zombie) \ {child}
  BY RemoveAtInjective DEF ReapAt, TypeOK, OnePlace
<1>3. \A p \in Pids : status'[p] = IF p = child THEN "Free" ELSE status[p]
  BY <1>1 DEF ReapAt, TypeOK
<1>4. UNCHANGED <<running, ready, waiting, lastPid>>
  BY DEF ReapAt
<1> HIDE DEF child
<1>5. child # running
  BY <1>1, CallerPlace
<1>6. ASSUME NEW p \in Pids
      PROVE  /\ p \in waiting' <=> status'[p] = "Waiting"
             /\ p \in Range(zombie') <=> status'[p] = "Zombie"
             /\ p \in Range(ready') => status'[p] = "Ready"
             /\ status'[p] \in {"Running", "Ready"} =>
                   p = running' \/ p \in Range(ready')
             /\ p >= lastPid' => status'[p] = "Free"
  <2>1. /\ p \in waiting <=> status[p] = "Waiting"
        /\ p \in Range(zombie) <=> status[p] = "Zombie"
        /\ p \in Range(ready) => status[p] = "Ready"
        /\ status[p] \in {"Running", "Ready"} => p = running \/ p \in Range(ready)
        /\ p >= lastPid => status[p] = "Free"
    BY DEF OnePlace
  <2> QED
    BY <1>1, <1>2, <1>3, <1>4, <2>1
<1>7. status'[running'] \in {"Running", "Ready"}
  BY <1>3, <1>4, <1>5, CallerPlace
<1> QED
  BY <1>2, <1>4, <1>6, <1>7 DEF OnePlace

\* The caller blocks, and the head of the ready list, if any, takes the CPU.
LEMMA GiveUpPlaced ==
    ASSUME TypeOK, OnePlace, running \in Pids, GiveUpCpu, BlockCaller,
           UNCHANGED <<zombie, lastPid>>
    PROVE  OnePlace'
<1>1. \A p \in Pids : status'[p] = IF p = running THEN "Waiting" ELSE status[p]
  BY DEF BlockCaller, TypeOK
<1>2. waiting' = waiting \cup {running}
  BY DEF GiveUpCpu
<1>3. ASSUME NEW p \in Pids
      PROVE  /\ p \in waiting <=> status[p] = "Waiting"
             /\ p \in Range(zombie) <=> status[p] = "Zombie"
             /\ p \in Range(ready) => status[p] = "Ready"
             /\ status[p] \in {"Running", "Ready"} => p = running \/ p \in Range(ready)
             /\ p >= lastPid => status[p] = "Free"
  BY DEF OnePlace
<1>4. CASE ready = <<>>
  <2>1. running' = NoProc /\ ready' = <<>> /\ Range(ready) = {}
    BY <1>4 DEF GiveUpCpu, Range
  <2>2. ASSUME NEW p \in Pids
        PROVE  /\ p \in waiting' <=> status'[p] = "Waiting"
               /\ p \in Range(zombie) <=> status'[p] = "Zombie"
               /\ status'[p] \notin {"Running", "Ready"}
               /\ p >= lastPid => status'[p] = "Free"
    BY <1>1, <1>2, <1>3, <2>1, CallerPlace
  <2>3. IsInjective(ready') /\ Range(ready') = {} /\ IsInjective(zombie)
    BY <1>4, <2>1 DEF OnePlace
  <2> QED
    BY <2>1, <2>2, <2>3 DEF OnePlace
<1>5. CASE ready # <<>>
  <2>1. /\ running' = Head(ready) /\ ready' = Tail(ready)
        /\ Head(ready) \in Range(ready) /\ Head(ready) \in Pids
        /\ IsInjective(Tail(ready))
        /\ Range(Tail(ready)) = Range(ready) \ {Head(ready)}
    BY <1>5, TailInjective, HeadTailProperties DEF GiveUpCpu, TypeOK, OnePlace
  <2>2. Head(ready) # running /\ status'[running'] = "Ready"
    BY <1>1, <1>3, <2>1, CallerPlace
  <2>3. ASSUME NEW p \in Pids
        PROVE  /\ p \in waiting' <=> status'[p] = "Waiting"
               /\ p \in Range(zombie) <=> status'[p] = "Zombie"
               /\ p \in Range(ready') => status'[p] = "Ready"
               /\ status'[p] \in {"Running", "Ready"} =>
                     p = running' \/ p \in Range(ready')
               /\ p >= lastPid => status'[p] = "Free"
    BY <1>1, <1>2, <1>3, <2>1, CallerPlace
  <2>4. IsInjective(ready') /\ running' \notin Range(ready') /\ IsInjective(zombie)
    BY <2>1 DEF OnePlace
  <2> QED
    BY <2>2, <2>3, <2>4 DEF OnePlace
<1> QED
  BY <1>4, <1>5

LEMMA WaitPlaced == ASSUME TypeOK, OnePlace, NEW w \in Pids, Wait(w) PROVE OnePlace'
<1>1. running \in Pids
  BY EnterType DEF Wait, Pids
<1>2. CASE Answer(DSOS_EWAIT)
  BY <1>2, AnswerPlaced
<1>3. CASE \E i \in Awaited(w) : ReapAt(i)
  BY <1>1, <1>3, ReapPlaced DEF Awaited
<1>4. CASE Stop("null_ready")
  BY <1>4, StopPlaced
<1>5. CASE GiveUpCpu /\ BlockCaller /\ UNCHANGED <<zombie, timers, family, ret>>
  BY <1>1, <1>5, GiveUpPlaced DEF family
<1> QED
  BY <1>2, <1>3, <1>4, <1>5 DEF Wait

LEMMA SleepPlaced ==
    ASSUME TypeOK, OnePlace, NEW c \in SleepArgs, Sleep(c) PROVE OnePlace'
<1>1. running \in Pids
  BY EnterType DEF Sleep
<1>2. CASE Answer(DSOS_ESLEEP)
  BY <1>2, AnswerPlaced
<1>3. CASE GiveUpCpu /\ BlockCaller /\ UNCHANGED <<zombie, family, ret>>
  BY <1>1, <1>3, GiveUpPlaced DEF family
<1> QED
  BY <1>2, <1>3 DEF Sleep

\* The pids of the items the tick removes: distinct, and all of them sleepers.
LEMMA WokenAreSleepers ==
    ASSUME TypeOK, TimersMatchSleepers, NEW k \in 0..Len(timers)
    PROVE  /\ Woken(k) \in Seq(Pids)
           /\ IsInjective(Woken(k))
           /\ Range(Woken(k)) \subseteq waiting
           /\ Range(Woken(k)) = {timers[i].pid : i \in 1..k}
<1>1. Len(timers) \in Nat /\ \A i \in 1..Len(timers) : timers[i] \in TimerItem
  BY LenProperties, ElementOfSeq DEF TypeOK
<1>2. \A i \in 1..k : i \in 1..Len(timers)
  BY <1>1
<1>3. \A i \in 1..k : timers[i].pid \in Pids /\ timers[i].pid \in waiting
  BY <1>1, <1>2 DEF TimersMatchSleepers, TimerItem
<1>4. DOMAIN Woken(k) = 1..k /\ \A i \in 1..k : Woken(k)[i] = timers[i].pid
  BY DEF Woken
<1>5. Woken(k) \in Seq(Pids)
  BY <1>1, <1>3 DEF Woken
<1>6. IsInjective(Woken(k))
  BY <1>2, <1>4 DEF IsInjective, TimersMatchSleepers
<1>7. Range(Woken(k)) = {timers[i].pid : i \in 1..k}
  BY <1>4 DEF Range
<1> QED
  BY <1>3, <1>5, <1>6, <1>7

\* Between the wake-up loop of timerInterrupt and its choice of a process the
\* woken sleepers follow the others in the ready list.
LEMMA ScheduleWokenPlaced ==
    ASSUME TypeOK, OnePlace, TimersMatchSleepers, NEW k \in 0..Len(timers),
           PopTimers(k), ScheduleWoken(k)
    PROVE  OnePlace'
<1> DEFINE W   == Range(Woken(k))
           rdy == ready \o Woken(k)
           st  == Mark(status, W, "Ready")
<1>1. /\ Woken(k) \in Seq(Pids) /\ IsInjective(Woken(k)) /\ W \subseteq waiting
  BY WokenAreSleepers
<1>2. W \cap Range(ready) = {}
  BY <1>1 DEF OnePlace, TypeOK
<1>3. /\ rdy \in Seq(Pids) /\ IsInjective(rdy)
      /\ Range(rdy) = Range(ready) \cup W
  BY <1>1, <1>2, ConcatProperties, ConcatInjective, RangeConcatenation
     DEF TypeOK, OnePlace
<1>4. st \in [Pids -> Statuses]
  BY MarkType, StatusValues DEF TypeOK
<1>5. \A p \in Pids : st[p] = IF p \in W THEN "Ready" ELSE status[p]
  BY DEF Mark
<1>6. waiting' = waiting \ W /\ Schedule(running, rdy, st)
      /\ zombie' = zombie /\ lastPid' = lastPid
  BY DEF PopTimers, ScheduleWoken, family
<1> HIDE DEF W, rdy, st
<1>7. ASSUME NEW p \in Pids
      PROVE  /\ p \in waiting' <=> st[p] = "Waiting"
             /\ p \in Range(zombie) <=> st[p] = "Zombie"
             /\ p \in Range(rdy) => st[p] = "Ready"
             /\ st[p] \in {"Running", "Ready"} => p = running \/ p \in Range(rdy)
             /\ p >= lastPid => st[p] = "Free"
  <2>1. /\ p \in waiting <=> status[p] = "Waiting"
        /\ p \in Range(zombie) <=> status[p] = "Zombie"
        /\ p \in Range(ready) => status[p] = "Ready"
        /\ status[p] \in {"Running", "Ready"} => p = running \/ p \in Range(ready)
        /\ p >= lastPid => status[p] = "Free"
    BY DEF OnePlace
  <2> QED
    BY <1>1, <1>3, <1>5, <1>6, <2>1
<1>8. /\ running # NoProc => st[running] \in {"Running", "Ready"}
      /\ running \notin Range(rdy)
      /\ IsInjective(zombie)
  <2>1. CASE running = NoProc
    BY <1>3, <2>1, PidFacts, RangeOfSeq DEF OnePlace
  <2>2. CASE running # NoProc
    <3>1. running \in Pids
      BY <2>2 DEF TypeOK
    <3> QED
      BY <1>1, <1>3, <1>5, <3>1, CallerPlace DEF OnePlace
  <2> QED
    BY <2>1, <2>2
<1>9. Placed(running, rdy, waiting', zombie, st, lastPid)
  BY <1>3, <1>7, <1>8 DEF Placed
<1>10. Placed(running', ready', waiting', zombie, status', lastPid)
  BY <1>3, <1>4, <1>6, <1>9, SchedulePlaced DEF TypeOK
<1> QED
  BY <1>6, <1>10, OnePlacePrimed

\* With nobody to run no sleeper was woken either, so starting another init
\* moves only the new pid, which was on no list.
LEMMA IdleRestartPlaced ==
    ASSUME TypeOK, OnePlace, TimersMatchSleepers, IdleRestart
    PROVE  OnePlace'
<1>1. PICK k \in 0..Len(timers) : ready \o Woken(k) = <<>> /\ PopTimers(k)
  BY DEF IdleRestart
<1>2. Woken(k) \in Seq(Pids)
  BY WokenAreSleepers
<1>3. Range(ready \o Woken(k)) = Range(ready) \cup Range(Woken(k))
  BY <1>2, RangeConcatenation DEF TypeOK
<1>4. Range(ready) = {} /\ Range(Woken(k)) = {}
  <2>1. Range(<<>>) = {}
    BY DEF Range
  <2> QED
    BY <1>1, <1>3, <2>1
<1>5. waiting' = waiting /\ ready' = ready /\ zombie' = zombie /\ running = NoProc
  BY <1>1, <1>4 DEF PopTimers, IdleRestart
<1>6. \/ UNCHANGED <<running, status, lastPid>>
      \/ /\ running' = lastPid /\ lastPid' = lastPid + 1
         /\ status' = [status EXCEPT ![lastPid] = "Running"]
  BY DEF IdleRestart, family
<1>7. CASE UNCHANGED <<running, status, lastPid>>
  BY <1>5, <1>7, UnmovedPlaced
<1>8. CASE /\ running' = lastPid /\ lastPid' = lastPid + 1
           /\ status' = [status EXCEPT ![lastPid] = "Running"]
  <2>1. lastPid \in Pids /\ lastPid \in Int
    BY KernelAssumption DEF IdleRestart, TypeOK, Pids
  <2>2. status[lastPid] = "Free"
    BY <2>1 DEF OnePlace
  <2>3. \A p \in Pids : status'[p] = IF p = lastPid THEN "Running" ELSE status[p]
    BY <1>8, <2>1 DEF TypeOK
  <2>4. ASSUME NEW p \in Pids
        PROVE  /\ p \in waiting' <=> status'[p] = "Waiting"
               /\ p \in Range(zombie') <=> status'[p] = "Zombie"
               /\ p \in Range(ready') => status'[p] = "Ready"
               /\ status'[p] \in {"Running", "Ready"} =>
                     p = running' \/ p \in Range(ready')
               /\ p >= lastPid' => status'[p] = "Free"
    <3>1. /\ p \in waiting <=> status[p] = "Waiting"
          /\ p \in Range(zombie) <=> status[p] = "Zombie"
          /\ status[p] \in {"Running", "Ready"} => p = NoProc
          /\ p >= lastPid => status[p] = "Free"
      BY <1>4, <1>5 DEF OnePlace
    <3>2. p >= lastPid' => p >= lastPid /\ p # lastPid
      BY <1>8, <2>1, PidFacts
    <3> QED
      BY <1>4, <1>5, <1>8, <2>2, <2>3, <3>1, <3>2, PidFacts
  <2>5. /\ IsInjective(ready') /\ IsInjective(zombie')
        /\ running' \notin Range(ready')
        /\ status'[running'] \in {"Running", "Ready"}
    BY <1>4, <1>5, <1>8, <2>1, <2>3 DEF OnePlace
  <2> QED
    BY <2>4, <2>5 DEF OnePlace
<1> QED
  BY <1>6, <1>7, <1>8

LEMMA InitPlaced == Init => OnePlace
<1> SUFFICES ASSUME Init PROVE OnePlace
  OBVIOUS
<1>1. 0 \in Pids /\ Range(<<>>) = {} /\ IsInjective(<<>>)
  BY KernelAssumption DEF Pids, Range, IsInjective
<1>2. ASSUME NEW p \in Pids
      PROVE  status[p] = IF p = 0 THEN "Running" ELSE "Free"
  BY DEF Init
<1>3. running = 0 /\ lastPid = 1 /\ ready = <<>> /\ waiting = {} /\ zombie = <<>>
  BY DEF Init
<1> QED
  BY <1>1, <1>2, <1>3, PidFacts DEF OnePlace

LEMMA StepPlaced ==
    ASSUME TypeOK, OnePlace, TimersMatchSleepers, [Next]_vars
    PROVE  OnePlace'
<1>1. CASE UserCall
  BY <1>1, PreemptPlaced, AnswerPlaced, StopPlaced, NewChildPlaced, ExitPlaced,
     WaitPlaced, SleepPlaced DEF UserCall, Spawn, Fork, Unimplemented, Shutdown
<1>2. CASE Interrupt
  BY <1>2, ScheduleWokenPlaced, IdleRestartPlaced DEF Interrupt, Tick, IdleWake
<1>3. CASE UNCHANGED vars
  BY <1>3, UnmovedPlaced DEF vars, lists, family
<1> QED
  BY <1>1, <1>2, <1>3 DEF Next

-----------------------------------------------------------------------------
(* Timers and sleepers. *)

\* The caller was on no list, so a call that neither adds nor wakes a sleeper
\* leaves the correspondence as it was.
LEMMA TimersKept ==
    ASSUME TypeOK, OnePlace, TimersMatchSleepers, running \in Pids,
           NEW num, NEW arg, Enter(num, arg), timers' = timers,
           \A p \in waiting' \ waiting : syscall'[p].num # "sleep",
           \A p \in waiting \ waiting' : syscall[p].num # "sleep"
    PROVE  TimersMatchSleepers'
<1>1. \A p \in waiting : p \in Pids /\ p # running
  BY CallerPlace DEF TypeOK
<1>2. \A p \in waiting : syscall'[p] = syscall[p]
  BY <1>1 DEF Enter, TypeOK
<1>3. {p \in waiting' : syscall'[p].num = "sleep"}
         = {p \in waiting : syscall[p].num = "sleep"}
  BY <1>2
<1> QED
  BY <1>3 DEF TimersMatchSleepers

LEMMA DieTimers ==
    ASSUME TypeOK, OnePlace, TimersMatchSleepers, Enter("exit", 0), Die
    PROVE  TimersMatchSleepers'
<1>1. running \in Pids
  BY EnterType
<1>2. \A p \in waiting \ waiting' : syscall[p].num = "wait"
  BY DEF Die, WaitsFor
<1>3. waiting' \subseteq waiting /\ timers' = timers
  BY DEF Die
<1> QED
  BY <1>1, <1>2, <1>3, TimersKept

LEMMA WaitTimers ==
    ASSUME TypeOK, OnePlace, TimersMatchSleepers, NEW w \in Pids, Wait(w)
    PROVE  TimersMatchSleepers'
<1>1. Enter("wait", w)
  BY DEF Wait
<1>2. running \in Pids /\ syscall'[running].num = "wait"
  BY <1>1, EnterType DEF Enter, TypeOK, Pids
<1>3. CASE Answer(DSOS_EWAIT) \/ Stop("null_ready")
  <2>1. timers' = timers /\ waiting' = waiting
    BY <1>3 DEF Answer, Stop, lists
  <2> QED
    BY <1>1, <1>2, <2>1, TimersKept
<1>4. CASE \E i \in Awaited(w) : ReapAt(i)
  <2>1. timers' = timers /\ waiting' = waiting
    BY <1>4 DEF ReapAt
  <2> QED
    BY <1>1, <1>2, <2>1, TimersKept
<1>5. CASE GiveUpCpu /\ BlockCaller /\ UNCHANGED <<zombie, timers, family, ret>>
  <2>1. timers' = timers /\ waiting' = waiting \cup {running}
    BY <1>5 DEF GiveUpCpu
  <2> QED
    BY <1>1, <1>2, <2>1, TimersKept
<1> QED
  BY <1>3, <1>4, <1>5 DEF Wait

\* Where the new item stands and where the others went.
LEMMA InsertedTimer ==
    ASSUME TypeOK, running \in Pids, NEW c \in Int,
           NEW i \in 1..(Len(timers) + 1),
           timers' = InsertAt(timers, i, [pid |-> running, left |-> c])
    PROVE  /\ Len(timers') = Len(timers) + 1
           /\ timers'[i] = [pid |-> running, left |-> c]
           /\ \A j \in 1..(i - 1) : timers'[j] = timers[j]
           /\ \A j \in (i + 1)..(Len(timers) + 1) : timers'[j] = timers[j - 1]
<1>1. [pid |-> running, left |-> c] \in TimerItem
  BY DEF TimerItem
<1>2. Len(timers) \in Nat
  BY LenProperties DEF TypeOK
<1>3. \A j \in 1..(Len(timers) + 1) :
         timers'[j] = IF j < i THEN timers[j]
                      ELSE IF j = i THEN [pid |-> running, left |-> c]
                      ELSE timers[j - 1]
  <2>1. timers \in Seq(TimerItem)
    BY DEF TypeOK
  <2>2. \A j \in 1..(Len(timers) + 1) :
           InsertAt(timers, i, [pid |-> running, left |-> c])[j]
              = IF j < i THEN timers[j]
                ELSE IF j = i THEN [pid |-> running, left |-> c]
                ELSE timers[j - 1]
    BY ONLY <1>1, <2>1, i \in 1..(Len(timers) + 1), InsertAtProperties
  <2> QED
    BY <2>2
<1>4. Len(timers') = Len(timers) + 1
  BY <1>1, InsertAtProperties DEF TypeOK
<1>5. \A j \in 1..(i - 1) : j \in 1..(Len(timers) + 1) /\ j < i
  BY <1>2
<1>6. \A j \in (i + 1)..(Len(timers) + 1) :
         j \in 1..(Len(timers) + 1) /\ ~(j < i) /\ j # i
  BY <1>2
<1> QED
  BY <1>3, <1>4, <1>5, <1>6

LEMMA SleepTimers ==
    ASSUME TypeOK, OnePlace, TimersMatchSleepers, NEW c \in SleepArgs, Sleep(c)
    PROVE  TimersMatchSleepers'
<1>1. running \in Pids /\ Enter("sleep", 0)
  BY EnterType DEF Sleep
<1>2. CASE Answer(DSOS_ESLEEP)
  <2>1. timers' = timers /\ waiting' = waiting
    BY <1>2 DEF Answer, lists
  <2> QED
    BY <1>1, <2>1, TimersKept
<1>3. CASE ~Answer(DSOS_ESLEEP)
  <2> DEFINE n == Len(timers)
             item == [pid |-> running, left |-> c]
  <2>1. PICK i \in 1..(n + 1) : timers' = InsertAt(timers, i, item)
    BY <1>3 DEF Sleep
  <2>2. waiting' = waiting \cup {running}
    BY <1>3 DEF Sleep, GiveUpCpu
  <2>3. n \in Nat /\ c \in Int
    BY LenProperties, KernelAssumption DEF TypeOK
  <2>4. /\ Len(timers') = n + 1
        /\ timers'[i] = item
        /\ \A j \in 1..(i - 1) : timers'[j] = timers[j]
        /\ \A j \in (i + 1)..(n + 1) : timers'[j] = timers[j - 1]
    BY <1>1, <2>1, <2>3, InsertedTimer
  <2>5. \A j \in 1..n : timers[j].pid # running
    BY CallerPlace, <1>1 DEF TimersMatchSleepers
  <2>6. \A j, m \in 1..n : timers[j].pid = timers[m].pid => j = m
    BY DEF TimersMatchSleepers
  <2> HIDE DEF n
  <2>7. ASSUME NEW j \in 1..(n + 1), j # i
        PROVE  \E m \in 1..n : /\ timers'[j] = timers[m]
                               /\ m = IF j < i THEN j ELSE j - 1
    <3>1. CASE j < i
      <4>1. j \in 1..(i - 1) /\ j \in 1..n
        BY <2>3, <3>1
      <4> QED
        BY <2>4, <3>1, <4>1
    <3>2. CASE ~(j < i)
      <4>1. j \in (i + 1)..(n + 1) /\ j - 1 \in 1..n
        BY <2>3, <2>7, <3>2
      <4> QED
        BY <2>4, <3>2, <4>1
    <3> QED
      BY <3>1, <3>2
  <2>8. ASSUME NEW j \in 1..(n + 1), NEW m \in 1..(n + 1),
               timers'[j].pid = timers'[m].pid
        PROVE  j = m
    <3>1. timers'[i].pid = running
      BY <2>4
    <3>2. CASE j = i \/ m = i
      BY <2>5, <2>7, <2>8, <3>1, <3>2
    <3>3. CASE j # i /\ m # i
      <4>1. PICK a \in 1..n : timers'[j] = timers[a] /\ a = IF j < i THEN j ELSE j - 1
        BY <2>7, <3>3
      <4>2. PICK b \in 1..n : timers'[m] = timers[b] /\ b = IF m < i THEN m ELSE m - 1
        BY <2>7, <3>3
      <4>3. a = b
        BY <2>6, <2>8, <4>1, <4>2
      <4>4. (IF j < i THEN j ELSE j - 1) = (IF m < i THEN m ELSE m - 1)
        BY <4>1, <4>2, <4>3
      <4> QED
        BY <2>3, <3>3, <4>4
    <3> QED
      BY <3>2, <3>3
  <2>9. {timers'[j].pid : j \in 1..(n + 1)} = {timers[j].pid : j \in 1..n} \cup {running}
    <3>1. ASSUME NEW j \in 1..(n + 1)
          PROVE  timers'[j].pid \in {timers[m].pid : m \in 1..n} \cup {running}
      BY <2>4, <2>7
    <3>2. ASSUME NEW m \in 1..n
          PROVE  \E j \in 1..(n + 1) : timers'[j].pid = timers[m].pid
      <4>1. CASE m < i
        <5>1. m \in 1..(i - 1) /\ m \in 1..(n + 1)
          BY <2>3, <4>1
        <5> QED
          BY <2>4, <5>1
      <4>2. CASE ~(m < i)
        <5>1. m + 1 \in (i + 1)..(n + 1) /\ m + 1 \in 1..(n + 1) /\ (m + 1) - 1 = m
          BY <2>3, <4>2
        <5> QED
          BY <2>4, <5>1
      <4> QED
        BY <4>1, <4>2
    <3>3. i \in 1..(n + 1) /\ timers'[i].pid = running
      BY <2>4
    <3> QED
      BY <3>1, <3>2, <3>3
  <2>10. {timers[j].pid : j \in 1..n} = {p \in waiting : syscall[p].num = "sleep"}
    BY DEF TimersMatchSleepers, n
  <2>11. /\ \A p \in waiting : syscall'[p] = syscall[p]
         /\ syscall'[running].num = "sleep"
    BY <1>1, CallerPlace DEF Enter, TypeOK
  <2>12. {timers'[j].pid : j \in 1..(n + 1)}
            = {p \in waiting' : syscall'[p].num = "sleep"}
    BY <2>2, <2>9, <2>10, <2>11
  <2> QED
    BY <2>4, <2>8, <2>12 DEF TimersMatchSleepers
<1> QED
  BY <1>2, <1>3

\* What the wake-up loop leaves in the timer list.
LEMMA PoppedTimers ==
    ASSUME TypeOK, NEW k \in 0..Len(timers), PopTimers(k)
    PROVE  /\ Len(timers) \in Nat
           /\ Len(timers') = Len(timers) - k
           /\ \A j \in 1..(Len(timers) - k) :
                 /\ k + j \in 1..Len(timers)
                 /\ timers'[j].pid = timers[k + j].pid
                 /\ timers'[j].left = timers[k + j].left - 1
<1>1. Len(timers) \in Nat /\ \A j \in 1..Len(timers) : timers[j] \in TimerItem
  BY LenProperties, ElementOfSeq DEF TypeOK
<1>2. timers' \in Seq(TimerItem)
  BY PopTimersType
<1>3. timers' = [j \in 1..(Len(timers) - k) |->
                    [timers[k + j] EXCEPT !.left = @ - 1]]
  BY DEF PopTimers
<1>4. Len(timers) - k \in Nat /\ DOMAIN timers' = 1..(Len(timers) - k)
  BY <1>1, <1>3
<1>5. Len(timers') = Len(timers) - k
  BY <1>2, <1>4, LenProperties
<1>6. ASSUME NEW j \in 1..(Len(timers) - k)
      PROVE  /\ k + j \in 1..Len(timers)
             /\ timers'[j].pid = timers[k + j].pid
             /\ timers'[j].left = timers[k + j].left - 1
  <2>1. k + j \in 1..Len(timers)
    BY <1>1
  <2>2. timers[k + j] \in TimerItem
    BY <1>1, <2>1
  <2>3. timers'[j] = [timers[k + j] EXCEPT !.left = @ - 1]
    BY <1>3
  <2> QED
    BY <2>1, <2>2, <2>3 DEF TimerItem
<1> QED
  BY <1>1, <1>5, <1>6

LEMMA TickTimers ==
    ASSUME TypeOK, TimersMatchSleepers, NEW k \in 0..Len(timers),
           PopTimers(k), syscall' = syscall
    PROVE  TimersMatchSleepers'
<1> DEFINE n == Len(timers)
<1>1. /\ n \in Nat /\ Len(timers') = n - k
      /\ \A j \in 1..(n - k) : /\ k + j \in 1..n
                               /\ timers'[j].pid = timers[k + j].pid
  BY PoppedTimers
<1>2. \A j, m \in 1..n : timers[j].pid = timers[m].pid => j = m
  BY DEF TimersMatchSleepers
<1>3. {timers[j].pid : j \in 1..n} = {p \in waiting : syscall[p].num = "sleep"}
  BY DEF TimersMatchSleepers
<1>4. waiting' = waiting \ {timers[j].pid : j \in 1..k}
  BY WokenAreSleepers DEF PopTimers
<1> HIDE DEF n
<1>5. ASSUME NEW j \in 1..(n - k), NEW m \in 1..(n - k),
             timers'[j].pid = timers'[m].pid
      PROVE  j = m
  <2>1. k + j = k + m
    BY <1>1, <1>2, <1>5
  <2> QED
    BY <1>1, <2>1
<1>6. {timers'[j].pid : j \in 1..(n - k)}
         = {timers[j].pid : j \in 1..n} \ {timers[j].pid : j \in 1..k}
  <2>1. ASSUME NEW j \in 1..(n - k)
        PROVE  timers'[j].pid \in {timers[m].pid : m \in 1..n}
                                     \ {timers[m].pid : m \in 1..k}
    <3>1. \A m \in 1..k : m \in 1..n /\ m # k + j
      BY <1>1
    <3>2. k + j \in 1..n /\ timers'[j].pid = timers[k + j].pid
      BY <1>1
    <3>3. \A m \in 1..k : timers[m].pid # timers[k + j].pid
      BY <1>2, <3>1, <3>2
    <3> QED
      BY <3>2, <3>3
  <2>2. ASSUME NEW m \in 1..n, timers[m].pid \notin {timers[j].pid : j \in 1..k}
        PROVE  \E j \in 1..(n - k) : timers'[j].pid = timers[m].pid
    <3>1. ~(m \in 1..k)
      BY <2>2
    <3>2. m - k \in 1..(n - k) /\ k + (m - k) = m
      BY <1>1, <3>1
    <3>3. timers'[m - k].pid = timers[k + (m - k)].pid
      BY <1>1, <3>2
    <3>4. timers'[m - k].pid = timers[m].pid
      BY <3>2, <3>3, Zenon
    <3> QED
      BY <3>2, <3>4
  <2> QED
    BY <2>1, <2>2, SMTT(30)
<1>7. {timers'[j].pid : j \in 1..(n - k)}
         = {p \in waiting' : syscall'[p].num = "sleep"}
  BY <1>3, <1>4, <1>6
<1> QED
  BY <1>1, <1>5, <1>7 DEF TimersMatchSleepers

LEMMA InitTimers == Init => TimersMatchSleepers
BY DEF Init, TimersMatchSleepers

LEMMA StepTimers ==
    ASSUME TypeOK, OnePlace, TimersMatchSleepers, [Next]_vars
    PROVE  TimersMatchSleepers'
<1>1. CASE UserCall
  <2>1. ASSUME \/ Preempt \/ Unimplemented \/ Shutdown
               \/ \E num \in SysCalls, lost \in BOOLEAN : NewChild(num, lost)
               \/ Exit /\ ~Die
        PROVE  TimersMatchSleepers'
    <3>1. \E num, arg : arg \in Int /\ Enter(num, arg)
      BY <2>1 DEF Preempt, Unimplemented, Shutdown, NewChild, Exit
    <3>2. timers' = timers /\ waiting' = waiting
      BY <2>1 DEF Preempt, Unimplemented, Shutdown, NewChild, Exit, Answer, Stop,
                  AddChild, lists
    <3> QED
      BY <3>1, <3>2, EnterType, TimersKept
  <2>2. CASE Exit /\ Die
    BY <2>2, DieTimers DEF Exit
  <2> QED
    BY <1>1, <2>1, <2>2, WaitTimers, SleepTimers
       DEF UserCall, Spawn, Fork, SysCalls
<1>2. CASE Interrupt
  <2>1. \E k \in 0..Len(timers) : PopTimers(k)
    BY <1>2 DEF Interrupt, Tick, IdleWake, IdleRestart
  <2>2. syscall' = syscall
    BY <1>2 DEF Interrupt, Tick, IdleWake, IdleRestart, ScheduleWoken
  <2> QED
    BY <2>1, <2>2, TickTimers
<1>3. CASE UNCHANGED vars
  BY <1>3 DEF vars, lists, family, TimersMatchSleepers
<1> QED
  BY <1>1, <1>2, <1>3 DEF Next

\* The invariant the two theorems below need each other for: a tick keeps
\* every PCB in one place only because what it wakes was waiting, and the
\* timers stay those of sleepers only because a caller is not waiting already.
Inductive == TypeOK /\ OnePlace /\ TimersMatchSleepers

LEMMA InductiveHolds == Spec => []Inductive
<1>1. Init => Inductive
  BY InitType, InitPlaced, InitTimers DEF Inductive
<1>2. Inductive /\ [Next]_vars => Inductive'
  <2> SUFFICES ASSUME Inductive, [Next]_vars PROVE Inductive'
    OBVIOUS
  <2>1. TypeOK'
    BY StepType DEF Inductive
  <2>2. OnePlace'
    BY StepPlaced DEF Inductive
  <2>3. TimersMatchSleepers'
    BY StepTimers DEF Inductive
  <2> QED
    BY <2>1, <2>2, <2>3 DEF Inductive
<1> QED
  BY <1>1, <1>2, PTL DEF Spec

\* However many processes, pool blocks and timers there are, every allocated PCB
\* is on the CPU or on exactly one list, once, with the status of that list: the
\* List_detach and List_insert pairs of the handlers never lose or double one.
THEOREM EachPcbInOnePlace == Spec => []OnePlace
<1>1. Inductive => OnePlace
  BY DEF Inductive
<1> QED
  BY <1>1, InductiveHolds, PTL

\* The timer items are those of the processes blocked in sleep, one each, for
\* every number of processes and every set of sleep arguments.
THEOREM TimersBelongToSleepers == Spec => []TimersMatchSleepers
<1>1. Inductive => TimersMatchSleepers
  BY DEF Inductive
<1> QED
  BY <1>1, InductiveHolds, PTL

-----------------------------------------------------------------------------
(* The timer list is kept in order of expiry. *)

InOrder == \A i, j \in 1..Len(timers) : i <= j => timers[i].left <= timers[j].left

OnTime == TypeOK /\ InOrder /\ NoOversleep

LEMMA TimerValues ==
    ASSUME TypeOK
    PROVE  /\ Len(timers) \in Nat
           /\ \A i \in 1..Len(timers) : timers[i].left \in Int
<1>1. \A i \in 1..Len(timers) : timers[i] \in TimerItem
  BY ElementOfSeq DEF TypeOK
<1> QED
  BY <1>1, LenProperties DEF TypeOK, TimerItem

LEMMA UnmovedOnTime ==
    ASSUME InOrder, NoOversleep, timers' = timers
    PROVE  InOrder' /\ NoOversleep'
BY DEF InOrder, NoOversleep

\* TimerList_add goes in front of the first item that expires later.
LEMMA SleepOnTime ==
    ASSUME TypeOK, InOrder, NoOversleep, NEW c \in SleepArgs, Sleep(c)
    PROVE  InOrder' /\ NoOversleep'
<1>1. running \in Pids
  BY EnterType DEF Sleep
<1>2. CASE Answer(DSOS_ESLEEP)
  BY <1>2, UnmovedOnTime DEF Answer, lists
<1>3. CASE ~Answer(DSOS_ESLEEP)
  <2> DEFINE n    == Len(timers)
             left == [j \in 1..n |-> timers[j].left]
  <2>1. PICK i \in 1..(n + 1) :
           /\ TimerSlot(c, i)
           /\ timers' = InsertAt(timers, i, [pid |-> running, left |-> c])
    BY <1>3 DEF Sleep
  <2>2. c \in Nat /\ c \in Int
    BY KernelAssumption
  <2>3. n \in Nat /\ \A j \in 1..n : left[j] \in Int /\ left[j] = timers[j].left
    BY TimerValues
  <2>4. /\ Len(timers') = n + 1
        /\ timers'[i].left = c
        /\ \A j \in 1..(i - 1) : timers'[j] = timers[j]
        /\ \A j \in (i + 1)..(n + 1) : timers'[j] = timers[j - 1]
    BY <1>1, <2>1, <2>2, InsertedTimer
  <2>5. \A j, m \in 1..n : j <= m => left[j] <= left[m]
    BY <2>3 DEF InOrder
  <2>6. \A j \in 1..n : left[j] >= 0
    BY <2>3 DEF NoOversleep
  <2>7. /\ \A j \in 1..(i - 1) : j \in 1..n /\ left[j] <= c
        /\ i <= n => left[i] > c
    BY <2>1, <2>3 DEF TimerSlot
  <2> HIDE DEF n, left
  <2>8. \A j \in i..n : left[j] > c
    <3> SUFFICES ASSUME NEW j \in i..n PROVE left[j] > c
      OBVIOUS
    <3>1. i \in 1..n /\ j \in 1..n /\ i <= j
      BY <2>3
    <3>2. left[i] > c /\ left[i] <= left[j] /\ left[i] \in Int /\ left[j] \in Int
      BY <2>3, <2>5, <2>7, <3>1
    <3> QED
      BY <2>2, <3>2
  <2>9. /\ \A j \in 1..(i - 1) : timers'[j].left = left[j]
        /\ \A j \in (i + 1)..(n + 1) : timers'[j].left = left[j - 1]
    <3>1. \A j \in (i + 1)..(n + 1) : j - 1 \in 1..n
      BY <2>3
    <3> QED
      BY <2>3, <2>4, <2>7, <3>1
  <2> DEFINE new == [j \in 1..(n + 1) |-> timers'[j].left]
  <2>10. \A j \in 1..(n + 1) : \/ j < i /\ j \in 1..n /\ new[j] = left[j]
                               \/ j = i /\ new[j] = c
                               \/ j > i /\ j - 1 \in i..n /\ new[j] = left[j - 1]
    <3> SUFFICES ASSUME NEW j \in 1..(n + 1)
                 PROVE  \/ j < i /\ j \in 1..n /\ new[j] = left[j]
                        \/ j = i /\ new[j] = c
                        \/ j > i /\ j - 1 \in i..n /\ new[j] = left[j - 1]
      OBVIOUS
    <3>1. CASE j < i
      <4>1. j \in 1..(i - 1)
        BY <2>3, <3>1
      <4> QED
        BY <2>7, <2>9, <3>1, <4>1
    <3>2. CASE j = i
      BY <2>4, <3>2
    <3>3. CASE j > i
      <4>1. j \in (i + 1)..(n + 1) /\ j - 1 \in i..n
        BY <2>3, <3>3
      <4> QED
        BY <2>9, <3>3, <4>1
    <3> QED
      BY <2>3, <3>1, <3>2, <3>3
  <2>11. \A j \in 1..(n + 1) : new[j] = timers'[j].left
    OBVIOUS
  <2> HIDE DEF new
  <2>12. ASSUME NEW j \in 1..(n + 1), NEW m \in 1..(n + 1), j <= m
         PROVE  new[j] <= new[m]
    <3>1. CASE j < i /\ m < i
      BY <2>3, <2>5, <2>10, <2>12, <3>1
    <3>2. CASE j < i /\ m = i
      <4>1. j \in 1..(i - 1)
        BY <2>3, <3>2
      <4> QED
        BY <2>3, <2>7, <2>10, <3>2, <4>1
    <3>3. CASE j < i /\ m > i
      <4>1. j \in 1..n /\ m - 1 \in 1..n /\ j <= m - 1
        BY <2>3, <3>3
      <4>2. left[j] <= left[m - 1]
        BY <2>5, <4>1
      <4> QED
        BY <2>10, <3>3, <4>2
    <3>4. CASE j = i /\ m = i
      BY <2>2, <2>10, <3>4
    <3>5. CASE j = i /\ m > i
      <4>1. m - 1 \in i..n /\ new[m] = left[m - 1] /\ new[j] = c /\ m - 1 \in 1..n
        BY <2>3, <2>10, <3>5
      <4>2. left[m - 1] > c /\ left[m - 1] \in Int
        BY <2>3, <2>8, <4>1
      <4> QED
        BY <2>2, <4>1, <4>2
    <3>6. CASE j > i /\ m > i
      <4>1. j - 1 \in 1..n /\ m - 1 \in 1..n /\ j - 1 <= m - 1
        BY <2>3, <2>12, <3>6
      <4>2. left[j - 1] <= left[m - 1]
        BY <2>5, <4>1
      <4> QED
        BY <2>10, <3>6, <4>2
    <3> QED
      BY <2>3, <2>12, <3>1, <3>2, <3>3, <3>4, <3>5, <3>6
  <2>13. ASSUME NEW j \in 1..(n + 1)
         PROVE  new[j] >= 0
    <3>1. \A m \in i..n : m \in 1..n
      BY <2>3
    <3> QED
      BY <2>2, <2>6, <2>10, <3>1
  <2> QED
    BY <2>4, <2>11, <2>12, <2>13 DEF InOrder, NoOversleep
<1> QED
  BY <1>2, <1>3

\* The wake-up loop stops at the first item that is not due; in a list in order
\* nothing behind it is due either.
LEMMA TickOnTime ==
    ASSUME TypeOK, InOrder, NEW k \in 0..Len(timers), Expired(k), PopTimers(k)
    PROVE  InOrder' /\ NoOversleep'
<1> DEFINE n    == Len(timers)
           left == [j \in 1..n |-> timers[j].left]
<1>1. n \in Nat /\ \A j \in 1..n : left[j] \in Int /\ left[j] = timers[j].left
  BY TimerValues
<1>2. \A j, m \in 1..n : j <= m => left[j] <= left[m]
  BY <1>1 DEF InOrder
<1>3. k < n => left[k + 1] > 1
  BY <1>1 DEF Expired
<1>4. /\ Len(timers') = n - k
      /\ \A j \in 1..(n - k) : k + j \in 1..n /\ timers'[j].left = left[k + j] - 1
  BY PoppedTimers, <1>1
<1> HIDE DEF n, left
<1>5. ASSUME NEW j \in 1..(n - k)
      PROVE  timers'[j].left >= 0
  <2>1. k < n /\ k + 1 \in 1..n /\ k + j \in 1..n /\ k + 1 <= k + j
    BY <1>1
  <2>2. left[k + 1] <= left[k + j] /\ left[k + 1] \in Int /\ left[k + j] \in Int
    BY <1>1, <1>2, <2>1
  <2> QED
    BY <1>3, <1>4, <2>1, <2>2
<1>6. ASSUME NEW j \in 1..(n - k), NEW m \in 1..(n - k), j <= m
      PROVE  timers'[j].left <= timers'[m].left
  <2>1. k + j \in 1..n /\ k + m \in 1..n /\ k + j <= k + m
    BY <1>1, <1>6
  <2>2. /\ left[k + j] <= left[k + m]
        /\ left[k + j] \in Int /\ left[k + m] \in Int
    BY <1>1, <1>2, <2>1
  <2> QED
    BY <1>4, <2>2
<1> QED
  BY <1>4, <1>5, <1>6 DEF InOrder, NoOversleep

LEMMA StepOnTime ==
    ASSUME TypeOK, InOrder, NoOversleep, [Next]_vars
    PROVE  InOrder' /\ NoOversleep'
<1>1. ASSUME UserCall, \A c \in SleepArgs : ~Sleep(c)
      PROVE  timers' = timers
  BY <1>1 DEF UserCall, Preempt, Unimplemented, Shutdown, Spawn, Fork, NewChild,
              AddChild, Exit, Die, Wait, ReapAt, Answer, Stop, lists
<1>2. CASE UserCall
  BY <1>1, <1>2, SleepOnTime, UnmovedOnTime
<1>3. CASE Interrupt
  BY <1>3, TickOnTime DEF Interrupt, Tick, IdleWake, IdleRestart
<1>4. CASE UNCHANGED vars
  BY <1>4, UnmovedOnTime DEF vars, lists
<1> QED
  BY <1>2, <1>3, <1>4 DEF Next

\* No sleeper is left behind when its time has come, whatever the sleep arguments
\* and however many processes sleep: the early stop of the wake-up loop of
\* timerInterrupt is sound because TimerList_add keeps the list in order.
THEOREM NothingOverslept == Spec => []NoOversleep
<1>1. Init => OnTime
  BY InitType DEF Init, OnTime, InOrder, NoOversleep
<1>2. OnTime /\ [Next]_vars => OnTime'
  <2> SUFFICES ASSUME OnTime, [Next]_vars PROVE OnTime'
    OBVIOUS
  <2>1. TypeOK' /\ InOrder' /\ NoOversleep'
    BY StepType, StepOnTime DEF OnTime
  <2> QED
    BY <2>1 DEF OnTime
<1>3. OnTime => NoOversleep
  BY DEF OnTime
<1> QED
  BY <1>1, <1>2, <1>3, PTL DEF Spec

-----------------------------------------------------------------------------
(* The CPU is empty only when nobody is ready. *)

\* A step either keeps a process on the CPU or leaves the ready list empty.
LEMMA ScheduleConserves ==
    ASSUME NEW run \in Pids \cup {NoProc}, NEW rdy \in Seq(Pids), NEW st,
           Schedule(run, rdy, st)
    PROVE  running' = NoProc => ready' = <<>>
<1>1. CASE rdy = <<>>
  BY <1>1 DEF Schedule
<1>2. CASE rdy # <<>>
  <2>1. running' \in Pids
    BY <1>2, HeadTailProperties DEF Schedule
  <2> QED
    BY <2>1, PidFacts
<1> QED
  BY <1>1, <1>2

LEMMA GiveUpConserves ==
    ASSUME TypeOK, GiveUpCpu
    PROVE  WorkConserving'
<1>1. CASE ready = <<>>
  BY <1>1 DEF GiveUpCpu, WorkConserving
<1>2. CASE ready # <<>>
  <2>1. running' \in Pids
    BY <1>2, HeadTailProperties DEF GiveUpCpu, TypeOK
  <2> QED
    BY <2>1, PidFacts DEF WorkConserving
<1> QED
  BY <1>1, <1>2

LEMMA DieConserves ==
    ASSUME TypeOK, running \in Pids, Die
    PROVE  WorkConserving'
<1> DEFINE par   == parent[running]
           woken == IF WaitsFor(par, running) THEN {par} ELSE {}
           rdy   == IF woken = {} THEN ready ELSE Append(ready, par)
           st    == Mark(Mark(status, {running}, "Zombie"), woken, "Ready")
<1>1. Schedule(NoProc, rdy, st)
  BY DEF Die
<1>2. rdy \in Seq(Pids)
  <2>1. WaitsFor(par, running) => par \in Pids
    BY DEF WaitsFor, TypeOK
  <2> QED
    BY <2>1, AppendProperties DEF TypeOK
<1> HIDE DEF rdy, st
<1> QED
  BY <1>1, <1>2, ScheduleConserves DEF WorkConserving

LEMMA TickConserves ==
    ASSUME TypeOK, NEW k \in 0..Len(timers), PopTimers(k), ScheduleWoken(k)
    PROVE  WorkConserving'
<1> DEFINE rdy == ready \o Woken(k)
           st  == Mark(status, Range(Woken(k)), "Ready")
<1>1. Schedule(running, rdy, st)
  BY DEF ScheduleWoken
<1>2. rdy \in Seq(Pids) /\ running \in Pids \cup {NoProc}
  BY PopTimersType, ConcatProperties DEF TypeOK
<1> HIDE DEF rdy, st
<1> QED
  BY <1>1, <1>2, ScheduleConserves DEF WorkConserving

LEMMA RestartConserves ==
    ASSUME TypeOK, WorkConserving, IdleRestart
    PROVE  WorkConserving'
BY DEF IdleRestart, WorkConserving

LEMMA StepConserves ==
    ASSUME TypeOK, WorkConserving, [Next]_vars
    PROVE  WorkConserving'
<1>1. ASSUME UNCHANGED <<running, ready>>
      PROVE  WorkConserving'
  BY <1>1 DEF WorkConserving
<1>2. CASE UserCall
  <2>1. \A num, arg : Enter(num, arg) => running \in Pids
    BY DEF Enter, TypeOK
  <2>2. ASSUME Preempt PROVE WorkConserving'
    <3>1. Schedule(running, ready, status) /\ running \in Pids \cup {NoProc}
      BY <2>2, <2>1 DEF Preempt
    <3> QED
      BY <3>1, ScheduleConserves DEF WorkConserving, TypeOK
  <2>3. ASSUME Unimplemented \/ Shutdown PROVE WorkConserving'
    BY <1>1, <2>3 DEF Unimplemented, Shutdown, Answer, Stop, lists
  <2>4. ASSUME NEW num, NEW lost, NewChild(num, lost) PROVE WorkConserving'
    <3>1. running' = running /\ running \in Pids
      BY <2>1, <2>4 DEF NewChild, AddChild, Stop
    <3> QED
      BY <3>1, PidFacts DEF WorkConserving
  <2>5. ASSUME Exit PROVE WorkConserving'
    BY <1>1, <2>1, <2>5, DieConserves DEF Exit, Stop, lists
  <2>6. ASSUME NEW w \in Pids, Wait(w) PROVE WorkConserving'
    BY <1>1, <2>6, GiveUpConserves DEF Wait, Answer, ReapAt, Stop, lists
  <2>7. ASSUME NEW c \in SleepArgs, Sleep(c) PROVE WorkConserving'
    BY <1>1, <2>7, GiveUpConserves DEF Sleep, Answer, lists
  <2> QED
    BY <1>2, <2>2, <2>3, <2>4, <2>5, <2>6, <2>7 DEF UserCall, Spawn, Fork
<1>3. CASE Interrupt
  BY <1>3, TickConserves, RestartConserves DEF Interrupt, Tick, IdleWake
<1>4. CASE UNCHANGED vars
  BY <1>1, <1>4 DEF vars, lists
<1> QED
  BY <1>2, <1>3, <1>4 DEF Next

\* The trap never leaves the CPU idle past a process that could run, and no handler
\* makes a process ready while it is idle: the idle path of disastrOS_trap is
\* entered only when every process waits or has exited.
THEOREM NeverIdlePastReady == Spec => []WorkConserving
<1> DEFINE I == TypeOK /\ WorkConserving
<1>1. Init => I
  BY InitType DEF Init, WorkConserving
<1>2. I /\ [Next]_vars => I'
  BY StepType, StepConserves
<1>3. I => WorkConserving
  OBVIOUS
<1> QED
  BY <1>1, <1>2, <1>3, PTL DEF Spec
=============================================================================
