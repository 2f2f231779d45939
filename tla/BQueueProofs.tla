---------------------------- MODULE BQueueProofs ----------------------------
(***************************************************************************)
(* The blocking queues on top of the kernel, for every value of the        *)
(* constants: what the kernel promises still holds with queue calls among  *)
(* its own, the wait lists hold the processes blocked on a queue, the      *)
(* buffers keep their shape and their blocks, and the queues implement the *)
(* FIFO channel.                                                           *)
(***************************************************************************)
EXTENDS BQueue, KernelFamily, FunctionTheorems

-----------------------------------------------------------------------------
(* What a queue call does to the kernel: it answers or stops the machine,  *)
(* it serves a blocked process, or it takes the caller off the CPU.        *)

Replies == (\E v \in Int : Answer(v)) \/ (\E mode \in KernelModes : Stop(mode))

\* Block, without what it does to the queues.
LeaveCpu ==
    /\ GiveUpCpu
    /\ status' = Mark([status EXCEPT ![running] = "Waiting"],
                      IF ready = <<>> THEN {} ELSE {Head(ready)}, "Running")
    /\ ptrs' = ptrs + 1
    /\ UNCHANGED <<zombie, timers, initPcb, lastPid, parent, children, noCtx, ret>>

LEMMA RepliesFacts ==
    ASSUME TypeOK, OnePlace, TimersMatchSleepers, NEW num, NEW arg \in Int,
           Enter(num, arg), Replies
    PROVE  /\ TypeOK' /\ OnePlace' /\ TimersMatchSleepers'
           /\ FamilyKept /\ ptrs' = ptrs
           /\ waiting' = waiting
<1>1. /\ running \in Pids
      /\ syscall' \in [Pids -> [num : SysCalls, arg : Int]]
  BY EnterType
<1>2. TypeOK' /\ OnePlace'
  BY <1>1, AnswerType, StopType, AnswerPlaced, StopPlaced DEF Replies
<1>3. FamilyKept /\ ptrs' = ptrs
  BY AnswerKept, StopKept DEF Replies, Quiet
<1>4. waiting' = waiting /\ timers' = timers
  BY DEF Replies, Answer, Stop, lists
<1>5. TimersMatchSleepers'
  BY <1>1, <1>4, TimersKept
<1> QED
  BY <1>2, <1>3, <1>4, <1>5

LEMMA AnswerPut ==
    ASSUME NEW f \in [Pids -> Int], NEW p, NEW v \in Int
    PROVE  [f EXCEPT ![p] = v] \in [Pids -> Int]
OBVIOUS

\* A process blocked on a queue becomes ready, and nothing else moves.
LEMMA ServeFacts ==
    ASSUME TypeOK, OnePlace, TimersMatchSleepers, NEW num, NEW arg \in Int,
           Enter(num, arg), NEW p \in waiting, syscall[p].num # "sleep", Serve(p)
    PROVE  /\ TypeOK' /\ OnePlace' /\ TimersMatchSleepers'
           /\ FamilyKept /\ ptrs' = ptrs - 1
           /\ waiting' = waiting \ {p}
<1>1. /\ running \in Pids /\ p \in Pids
      /\ syscall' \in [Pids -> [num : SysCalls, arg : Int]]
  BY EnterType DEF TypeOK
<1>2. /\ waiting' = waiting \ {p} /\ ready' = Append(ready, p)
      /\ status' = [status EXCEPT ![p] = "Ready"]
      /\ ret' = [ret EXCEPT ![p] = 0, ![running] = 0]
      /\ ptrs' = ptrs - 1
      /\ UNCHANGED <<kernel, running, zombie, timers,
                     initPcb, lastPid, parent, children, noCtx>>
  BY DEF Serve
<1>3. \A q \in Pids : status'[q] = IF q = p THEN "Ready" ELSE status[q]
  BY <1>1, <1>2 DEF TypeOK
<1>4. /\ status[p] = "Waiting" /\ p \notin Range(ready) /\ p # running
      /\ p \notin Range(zombie)
  BY <1>1, CallerPlace DEF OnePlace
<1>5. /\ ready' \in Seq(Pids) /\ IsInjective(ready')
      /\ Range(ready') = Range(ready) \cup {p}
  BY <1>1, <1>2, <1>4, AppendProperties, AppendInjectivity, AppendRange
     DEF TypeOK, OnePlace
<1>6. TypeOK'
  <2>1. status' \in [Pids -> Statuses]
    <3>1. status \in [Pids -> Statuses] /\ "Ready" \in Statuses
      BY StatusValues DEF TypeOK
    <3> QED
      BY <1>2, <3>1
  <2>2. ret' \in [Pids -> Int]
    <3>1. ret \in [Pids -> Int]
      BY DEF TypeOK
    <3> DEFINE first == [ret EXCEPT ![p] = 0]
    <3>2. first \in [Pids -> Int]
      BY <3>1, AnswerPut
    <3>3. ret' = [first EXCEPT ![running] = 0]
      BY <1>2
    <3> HIDE DEF first
    <3> QED
      BY <3>2, <3>3, AnswerPut
  <2>3. ptrs' \in Int /\ waiting' \subseteq Pids
    BY <1>2 DEF TypeOK
  <2> QED
    BY <1>1, <1>2, <1>5, <2>1, <2>2, <2>3 DEF TypeOK
<1>7. OnePlace'
  <2>1. ASSUME NEW q \in Pids
        PROVE  /\ q \in waiting' <=> status'[q] = "Waiting"
               /\ q \in Range(zombie') <=> status'[q] = "Zombie"
               /\ q \in Range(ready') => status'[q] = "Ready"
               /\ status'[q] \in {"Running", "Ready"} =>
                     q = running' \/ q \in Range(ready')
               /\ q >= lastPid' => status'[q] = "Free"
    <3>1. /\ q \in waiting <=> status[q] = "Waiting"
          /\ q \in Range(zombie) <=> status[q] = "Zombie"
          /\ q \in Range(ready) => status[q] = "Ready"
          /\ status[q] \in {"Running", "Ready"} => q = running \/ q \in Range(ready)
          /\ q >= lastPid => status[q] = "Free"
      BY DEF OnePlace
    <3>2. zombie' = zombie /\ lastPid' = lastPid /\ running' = running
      BY <1>2
    <3> QED
      BY <1>2, <1>3, <1>4, <1>5, <3>1, <3>2
  <2>2. /\ status'[running'] \in {"Running", "Ready"}
        /\ running' \notin Range(ready') /\ IsInjective(zombie')
    BY <1>1, <1>2, <1>3, <1>4, <1>5, CallerPlace DEF OnePlace
  <2> QED
    BY <1>5, <2>1, <2>2 DEF OnePlace
<1>8. TimersMatchSleepers'
  BY <1>1, <1>2, TimersKept
<1>9. FamilyKept
  BY <1>2, <1>3, <1>4 DEF FamilyKept, Live
<1> QED
  BY <1>2, <1>6, <1>7, <1>8, <1>9

\* The caller waits, and the process at the head of the ready list runs.
LEMMA LeaveFacts ==
    ASSUME TypeOK, OnePlace, TimersMatchSleepers, NEW num, NEW arg \in Int,
           Enter(num, arg), num # "sleep", LeaveCpu
    PROVE  /\ TypeOK' /\ OnePlace' /\ TimersMatchSleepers'
           /\ FamilyKept /\ ptrs' = ptrs + 1
           /\ waiting' = waiting \cup {running}
<1> DEFINE next == IF ready = <<>> THEN {} ELSE {Head(ready)}
<1>1. /\ running \in Pids
      /\ syscall' \in [Pids -> [num : SysCalls, arg : Int]]
  BY EnterType
<1>2. /\ GiveUpCpu /\ waiting' = waiting \cup {running}
      /\ status' = Mark([status EXCEPT ![running] = "Waiting"], next, "Running")
      /\ ptrs' = ptrs + 1
      /\ UNCHANGED <<zombie, timers, initPcb, lastPid, parent, children, noCtx, ret>>
  BY DEF LeaveCpu, GiveUpCpu
<1>3. next \subseteq Range(ready) /\ next \subseteq Pids
  BY HeadTailProperties, HeadInRange DEF TypeOK
<1> HIDE DEF next
<1>4. \A q \in Pids : status'[q] = IF q \in next THEN "Running"
                                   ELSE IF q = running THEN "Waiting" ELSE status[q]
  BY <1>1, <1>2 DEF Mark, TypeOK
<1>5. \A q \in next : q \in Pids /\ status[q] = "Ready" /\ q # running
  BY <1>1, <1>3, CallerPlace DEF OnePlace
<1>6. TypeOK'
  <2>1. [status EXCEPT ![running] = "Waiting"] \in [Pids -> Statuses]
    BY <1>1, StatusValues DEF TypeOK
  <2>2. status' \in [Pids -> Statuses]
    BY <1>2, <2>1, MarkType, StatusValues
  <2>3. /\ kernel' \in KernelModes
        /\ running' \in Pids \cup {NoProc}
        /\ ready' \in Seq(Pids)
        /\ waiting' \subseteq Pids
    BY <1>1, <1>2, GiveUpType
  <2>4. ptrs' \in Int
    BY <1>2 DEF TypeOK
  <2> QED
    BY <1>1, <1>2, <2>2, <2>3, <2>4 DEF TypeOK
<1>7. /\ IsInjective(ready') /\ Range(ready') = Range(ready) \ next
      /\ running' # NoProc => running' \in next
      /\ next \subseteq {running'}
  <2>1. CASE ready = <<>>
    BY <2>1, <1>2 DEF GiveUpCpu, next, OnePlace
  <2>2. CASE ready # <<>>
    BY <2>2, <1>2, TailInjective DEF GiveUpCpu, next, TypeOK, OnePlace
  <2> QED
    BY <2>1, <2>2
<1>8. ASSUME NEW q \in Pids
      PROVE  /\ q \in waiting' <=> status'[q] = "Waiting"
             /\ q \in Range(zombie') <=> status'[q] = "Zombie"
             /\ q \in Range(ready') => status'[q] = "Ready"
             /\ status'[q] \in {"Running", "Ready"} =>
                   q = running' \/ q \in Range(ready')
             /\ q >= lastPid' => status'[q] = "Free"
  <2>1. /\ q \in waiting <=> status[q] = "Waiting"
        /\ q \in Range(zombie) <=> status[q] = "Zombie"
        /\ q \in Range(ready) => status[q] = "Ready"
        /\ status[q] \in {"Running", "Ready"} => q = running \/ q \in Range(ready)
        /\ q >= lastPid => status[q] = "Free"
    BY DEF OnePlace
  <2>2. zombie' = zombie /\ lastPid' = lastPid
    BY <1>2
  <2>3. CASE q \in next
    BY <1>2, <1>4, <1>5, <1>7, <2>1, <2>2, <2>3
  <2>4. CASE q = running
    BY <1>1, <1>2, <1>4, <1>5, <1>7, <2>1, <2>2, <2>4, CallerPlace
  <2>5. CASE q \notin next /\ q # running
    BY <1>2, <1>4, <1>7, <2>1, <2>2, <2>5
  <2> QED
    BY <2>3, <2>4, <2>5
<1>9. /\ running' # NoProc => status'[running'] \in {"Running", "Ready"}
      /\ running' \notin Range(ready') /\ IsInjective(zombie')
  <2>1. IsInjective(zombie')
    BY <1>2 DEF OnePlace
  <2>2. NoProc \notin Range(ready)
    BY PidFacts, RangeOfSeq DEF TypeOK
  <2> QED
    BY <1>4, <1>5, <1>7, <2>1, <2>2
<1>10. OnePlace'
  BY <1>7, <1>8, <1>9 DEF OnePlace
<1>11. TimersMatchSleepers'
  <2>1. syscall'[running].num # "sleep"
    BY <1>1 DEF Enter, TypeOK
  <2> QED
    BY <1>1, <1>2, <2>1, TimersKept
<1>12. FamilyKept
  BY <1>1, <1>2, <1>4, <1>5, CallerPlace DEF FamilyKept, Live
<1> QED
  BY <1>2, <1>6, <1>10, <1>11, <1>12

-----------------------------------------------------------------------------
(* The inductive invariant. *)

KernelPart == Inductive /\ FamilyTree /\ MissedOnlyByInit

\* The processes that hold a PCBPtr block of a wait list.
QueueCallers == {p \in waiting : syscall[p].num \in {"bq_put", "bq_get"}}
QueuePtrs    == OtherPtrs = Cardinality(QueueCallers)

\* What a blocked put left in its arguments is a value.
PutValues == \A p \in Callers("bq_put") : syscall[p].arg \in Values

\* A queue is empty while it does not exist.
UnusedEmpty ==
    \A q \in QIds \ registry :
       items[q] = <<>> /\ getters[q] = <<>> /\ putters[q] = <<>>

ItemsInPool == IsFiniteSet(Stored) /\ ItemAccounting /\ itemsUsed <= NumItems

BuffersOK ==
    /\ BQTypeOK
    /\ QueueShape
    /\ \A q \in registry : capacity[q] > 0
    /\ UnusedEmpty
    /\ ItemsInPool

\* The parts need each other: whom a wait list names is waiting, so serving it
\* keeps every PCB in one place and frees a block that is in use; a blocked
\* producer means a full buffer, and a full buffer is not empty.
QueueInductive ==
    /\ KernelPart
    /\ QueuePtrs
    /\ PutValues
    /\ WaitersMatchCalls
    /\ BuffersOK

-----------------------------------------------------------------------------
(* What a step does to the kernel's half of the invariant.  G and P are the *)
(* processes blocked in a get and in a put afterwards.                      *)

KernelEffect(G, P) ==
    /\ KernelPart' /\ PutValues' /\ QueuePtrs'
    /\ Callers("bq_get")' = G
    /\ Callers("bq_put")' = P
    /\ \A p \in waiting \cap waiting' : syscall'[p] = syscall[p]

QueueCalls == {"bq_create", "bq_delete", "bq_put", "bq_get", "bq_dump"}

LEMMA CallerRecords ==
    ASSUME TypeOK, OnePlace, NEW num, NEW arg \in Int, Enter(num, arg)
    PROVE  /\ running \in Pids /\ running \notin waiting
           /\ syscall'[running].num = num /\ syscall'[running].arg = arg
           /\ \A p \in waiting : p \in Pids /\ syscall'[p] = syscall[p]
<1>1. /\ running \in Pids
      /\ syscall' = [syscall EXCEPT ![running] = [num |-> num, arg |-> arg]]
  BY EnterType
<1>2. running \notin waiting
  BY <1>1, CallerPlace
<1>3. syscall'[running] = [num |-> num, arg |-> arg]
  BY <1>1 DEF TypeOK
<1>4. \A p \in waiting : p \in Pids /\ syscall'[p] = syscall[p]
  BY <1>1, <1>2 DEF TypeOK
<1> QED
  BY <1>1, <1>2, <1>3, <1>4

\* A queue call blocks nobody in a wait and buries nobody.
LEMMA CallKernelPart ==
    ASSUME KernelPart, NEW num \in QueueCalls, NEW arg \in Int, Enter(num, arg),
           TypeOK', OnePlace', TimersMatchSleepers', FamilyKept,
           waiting' \subseteq waiting \cup {running}
    PROVE  KernelPart'
<1>1. FamilyTree'
  BY KeptTree DEF KernelPart
<1>2. MissedOnlyByInit'
  <2> SUFFICES ASSUME NEW p \in waiting', NEW z \in Range(zombie'), Missed(p, z)'
               PROVE  parent'[p] = NoProc
    BY DEF MissedOnlyByInit, Missed
  <2>1. TypeOK /\ OnePlace /\ MissedOnlyByInit
    BY DEF KernelPart, Inductive
  <2>2. zombie' = zombie /\ parent' = parent
    BY DEF FamilyKept
  <2>3. syscall'[running].num # "wait"
    <3>1. syscall'[running].num = num
      BY <2>1, CallerRecords
    <3> QED
      BY <3>1 DEF QueueCalls
  <2>4. p \in waiting
    BY <2>3 DEF Missed
  <2>5. Missed(p, z)
    BY <2>1, <2>2, <2>4, CallerRecords DEF Missed
  <2> QED
    BY <2>1, <2>2, <2>4, <2>5, MissedDef
<1> QED
  BY <1>1, <1>2 DEF KernelPart, Inductive

LEMMA FiniteCallers ==
    ASSUME TypeOK
    PROVE  /\ IsFiniteSet(QueueCallers)
           /\ Cardinality(QueueCallers) \in Nat
<1>1. QueueCallers \in SUBSET Pids
  BY DEF QueueCallers, TypeOK
<1> QED
  BY <1>1, FinitePids

LEMMA KeptPtrs ==
    ASSUME FamilyKept PROVE Linked' = Linked
BY KeptFacts DEF Linked

LEMMA OtherPtrsInt == ASSUME TypeOK PROVE ptrs \in Int /\ Cardinality(Linked) \in Int
<1>1. Linked \in SUBSET Pids
  BY AllocPids DEF Linked
<1> QED
  BY <1>1, FinitePids DEF TypeOK

LEMMA RepliesEffect ==
    ASSUME KernelPart, QueuePtrs, PutValues,
           NEW num \in QueueCalls, NEW arg \in Int, Enter(num, arg), Replies
    PROVE  KernelEffect(Callers("bq_get"), Callers("bq_put"))
<1>0. TypeOK /\ OnePlace /\ TimersMatchSleepers
  BY DEF KernelPart, Inductive
<1>1. /\ TypeOK' /\ OnePlace' /\ TimersMatchSleepers'
      /\ FamilyKept /\ ptrs' = ptrs /\ waiting' = waiting
  BY <1>0, RepliesFacts
<1>2. \A p \in waiting : syscall'[p] = syscall[p]
  BY <1>0, CallerRecords
<1>3. KernelPart'
  BY <1>1, CallKernelPart
<1>4. \A call : Callers(call)' = Callers(call)
  BY <1>1, <1>2 DEF Callers
<1>5. PutValues'
  BY <1>1, <1>2, <1>4 DEF PutValues, Callers
<1>6. QueuePtrs'
  <2>1. QueueCallers' = QueueCallers
    BY <1>1, <1>2 DEF QueueCallers
  <2> QED
    BY <1>1, <2>1, KeptPtrs DEF QueuePtrs, OtherPtrs
<1> QED
  BY <1>2, <1>3, <1>4, <1>5, <1>6 DEF KernelEffect

LEMMA ServeEffect ==
    ASSUME KernelPart, QueuePtrs, PutValues,
           NEW num \in QueueCalls, NEW arg \in Int, Enter(num, arg),
           NEW p \in QueueCallers, Serve(p)
    PROVE  KernelEffect(Callers("bq_get") \ {p}, Callers("bq_put") \ {p})
<1>0. TypeOK /\ OnePlace /\ TimersMatchSleepers
  BY DEF KernelPart, Inductive
<1>1. p \in waiting /\ syscall[p].num # "sleep"
  BY DEF QueueCallers
<1>2. /\ TypeOK' /\ OnePlace' /\ TimersMatchSleepers'
      /\ FamilyKept /\ ptrs' = ptrs - 1 /\ waiting' = waiting \ {p}
  BY <1>0, <1>1, ServeFacts
<1>3. \A q \in waiting : syscall'[q] = syscall[q]
  BY <1>0, CallerRecords
<1>4. KernelPart'
  BY <1>2, CallKernelPart
<1>5. \A call : Callers(call)' = Callers(call) \ {p}
  BY <1>2, <1>3 DEF Callers
<1>6. PutValues'
  BY <1>2, <1>3, <1>5 DEF PutValues, Callers
<1>7. QueuePtrs'
  <2>1. QueueCallers' = QueueCallers \ {p}
    BY <1>2, <1>3 DEF QueueCallers
  <2>2. Cardinality(QueueCallers') = Cardinality(QueueCallers) - 1
    BY <1>0, <2>1, FiniteCallers, FS_RemoveElement
  <2>3. Linked' = Linked
    BY <1>2, KeptPtrs
  <2> QED
    BY <1>0, <1>2, <2>2, <2>3, OtherPtrsInt DEF QueuePtrs, OtherPtrs
<1> QED
  BY <1>2, <1>3, <1>4, <1>5, <1>6, <1>7 DEF KernelEffect

LEMMA LeaveEffect ==
    ASSUME KernelPart, QueuePtrs, PutValues,
           NEW num \in {"bq_get", "bq_put"}, NEW arg \in Int, Enter(num, arg),
           num = "bq_put" => arg \in Values, LeaveCpu
    PROVE  KernelEffect(
              Callers("bq_get") \cup (IF num = "bq_get" THEN {running} ELSE {}),
              Callers("bq_put") \cup (IF num = "bq_put" THEN {running} ELSE {}))
<1>0. TypeOK /\ OnePlace /\ TimersMatchSleepers /\ num \in QueueCalls
  BY DEF KernelPart, Inductive, QueueCalls
<1>1. /\ TypeOK' /\ OnePlace' /\ TimersMatchSleepers'
      /\ FamilyKept /\ ptrs' = ptrs + 1 /\ waiting' = waiting \cup {running}
  BY <1>0, LeaveFacts
<1>2. /\ \A q \in waiting : syscall'[q] = syscall[q]
      /\ syscall'[running].num = num /\ syscall'[running].arg = arg
      /\ running \notin waiting
  BY <1>0, CallerRecords
<1>3. KernelPart'
  BY <1>0, <1>1, CallKernelPart
<1>4. \A call : Callers(call)' = Callers(call)
                                   \cup (IF num = call THEN {running} ELSE {})
  BY <1>1, <1>2 DEF Callers
<1>5. PutValues'
  <2> SUFFICES ASSUME NEW q \in Callers("bq_put")' PROVE syscall'[q].arg \in Values
    BY DEF PutValues
  <2>1. CASE q = running
    <3>1. num = "bq_put"
      BY <1>2, <2>1 DEF Callers
    <3> QED
      BY <1>2, <2>1, <3>1
  <2>2. CASE q # running
    <3>1. q \in waiting /\ q \in Callers("bq_put")
      BY <1>1, <1>2, <2>2 DEF Callers
    <3> QED
      BY <1>2, <3>1 DEF PutValues
  <2> QED
    BY <2>1, <2>2
<1>6. QueuePtrs'
  <2>1. QueueCallers' = QueueCallers \cup {running} /\ running \notin QueueCallers
    BY <1>1, <1>2 DEF QueueCallers
  <2>2. Cardinality(QueueCallers') = Cardinality(QueueCallers) + 1
    BY <1>0, <2>1, FiniteCallers, FS_AddElement
  <2>3. Linked' = Linked
    BY <1>1, KeptPtrs
  <2> QED
    BY <1>0, <1>1, <2>2, <2>3, OtherPtrsInt DEF QueuePtrs, OtherPtrs
<1> QED
  BY <1>1, <1>2, <1>3, <1>4, <1>5, <1>6 DEF KernelEffect

\* A step of the kernel wakes and blocks nobody on a queue.
LEMMA StepWaker ==
    ASSUME Inductive, [Next]_vars, NEW p \in waiting \ waiting'
    PROVE  syscall[p].num \in {"sleep", "wait"}
<1>0. TypeOK /\ OnePlace /\ TimersMatchSleepers
  BY DEF Inductive
<1>1. CASE Exit
  <2>1. CASE Stop("hung")
    BY <2>1 DEF Stop, lists
  <2>2. CASE Die
    BY <2>2 DEF Die, WaitsFor
  <2> QED
    BY <1>1, <2>1, <2>2 DEF Exit
<1>2. CASE Interrupt
  <2>1. PICK k \in 0..Len(timers) : Expired(k) /\ PopTimers(k)
    BY <1>2 DEF Interrupt, Tick, IdleWake, IdleRestart
  <2> QED
    BY <1>0, <2>1, PopCause
<1>3. CASE Preempt \/ Unimplemented \/ Spawn \/ Fork \/ Shutdown
  <2>1. waiting' = waiting
    BY <1>3 DEF Preempt, Unimplemented, Spawn, Fork, NewChild, AddChild,
                Shutdown, Answer, Stop, lists
  <2> QED
    BY <2>1
<1>4. CASE (\E w \in Pids : Wait(w)) \/ (\E c \in SleepArgs : Sleep(c))
  <2>1. waiting \subseteq waiting'
    BY <1>4 DEF Wait, Sleep, Answer, Stop, ReapAt, GiveUpCpu, lists
  <2> QED
    BY <2>1
<1>5. CASE UNCHANGED vars
  BY <1>5 DEF vars, lists
<1> QED
  BY <1>1, <1>2, <1>3, <1>4, <1>5 DEF Next, UserCall

LEMMA KernelStepEffect ==
    ASSUME KernelPart, QueuePtrs, PutValues, [Next]_vars
    PROVE  KernelEffect(Callers("bq_get"), Callers("bq_put"))
<1>0. Inductive /\ FamilyTree /\ MissedOnlyByInit
  BY DEF KernelPart
<1>1. Inductive'
  <2>1. TypeOK /\ OnePlace /\ TimersMatchSleepers
    BY <1>0 DEF Inductive
  <2> QED
    BY <2>1, StepType, StepPlaced, StepTimers DEF Inductive
<1>2. KernelPart'
  BY <1>0, <1>1, StepTree, StepMissed DEF KernelPart
<1>3. \A p \in waiting \ waiting' : syscall[p].num \in {"sleep", "wait"}
  BY <1>0, StepWaker
<1>4. /\ \A p \in waiting : syscall'[p] = syscall[p]
      /\ \A p \in waiting' \ waiting : syscall'[p].num \in {"sleep", "wait"}
  BY <1>0, StepCalls DEF CallsKept, Blocked
<1>5. /\ Callers("bq_get")' = Callers("bq_get")
      /\ Callers("bq_put")' = Callers("bq_put")
      /\ QueueCallers' = QueueCallers
  BY <1>3, <1>4 DEF Callers, QueueCallers
<1>6. PutValues'
  BY <1>4, <1>5 DEF PutValues, Callers
<1>7. QueuePtrs'
  BY <1>0, <1>5, StepLinks DEF QueuePtrs
<1> QED
  BY <1>2, <1>4, <1>5, <1>6, <1>7 DEF KernelEffect

-----------------------------------------------------------------------------
(* Wait lists and buffers. *)

LEMMA ListedParts ==
    ASSUME NEW w, NEW S, Listed(w, S), NEW q \in QIds
    PROVE  /\ Range(w[q]) \subseteq S /\ IsInjective(w[q])
           /\ \A p \in S : \E r \in QIds : p \in Range(w[r])
           /\ \A r \in QIds : r # q => Range(w[r]) \cap Range(w[q]) = {}
BY DEF Listed

\* The process that is first in one of the lists leaves it.
LEMMA ListedServe ==
    ASSUME NEW w \in [QIds -> Seq(Pids)], NEW S, Listed(w, S), NEW q \in QIds,
           w[q] # <<>>
    PROVE  /\ Head(w[q]) \in S
           /\ Listed([w EXCEPT ![q] = Tail(@)], S \ {Head(w[q])})
           /\ [w EXCEPT ![q] = Tail(@)] \in [QIds -> Seq(Pids)]
<1> DEFINE p == Head(w[q])
           t == Tail(w[q])
           v == [w EXCEPT ![q] = Tail(@)]
<1>1. /\ p \in Range(w[q]) /\ t \in Seq(Pids) /\ IsInjective(t)
      /\ Range(t) = Range(w[q]) \ {p}
  <2>1. w[q] \in Seq(Pids) /\ IsInjective(w[q])
    BY ListedParts
  <2> QED
    BY <2>1, TailInjective, HeadTailProperties
<1>2. v = [w EXCEPT ![q] = t]
  OBVIOUS
<1> HIDE DEF p, t, v
<1>3. \A r \in QIds : v[r] = IF r = q THEN t ELSE w[r]
  BY <1>2
<1>4. v \in [QIds -> Seq(Pids)]
  BY <1>1, <1>2
<1>5. ASSUME NEW r \in QIds PROVE Range(v[r]) = Range(w[r]) \ {p}
  <2>1. CASE r = q
    BY <1>1, <1>3, <2>1
  <2>2. CASE r # q
    <3>1. p \notin Range(w[r])
      BY <1>1, <2>2, ListedParts
    <3> QED
      BY <1>3, <2>2, <3>1
  <2> QED
    BY <2>1, <2>2
<1>6. UNION {Range(v[r]) : r \in QIds} = S \ {p}
  BY <1>5 DEF Listed
<1>7. \A r \in QIds : IsInjective(v[r])
  BY <1>1, <1>3 DEF Listed
<1>8. \A r, u \in QIds : r # u => Range(v[r]) \cap Range(v[u]) = {}
  BY <1>5 DEF Listed
<1>9. Listed(v, S \ {p})
  BY <1>6, <1>7, <1>8 DEF Listed
<1> QED
  BY <1>1, <1>4, <1>9, ListedParts DEF p, v

\* A process that is in none of the lists joins one of them.
LEMMA ListedJoin ==
    ASSUME NEW w \in [QIds -> Seq(Pids)], NEW S, Listed(w, S), NEW q \in QIds,
           NEW p \in Pids, p \notin S
    PROVE  /\ Listed([w EXCEPT ![q] = Append(@, p)], S \cup {p})
           /\ [w EXCEPT ![q] = Append(@, p)] \in [QIds -> Seq(Pids)]
<1> DEFINE t == Append(w[q], p)
           v == [w EXCEPT ![q] = Append(@, p)]
<1>1. /\ t \in Seq(Pids) /\ IsInjective(t)
      /\ Range(t) = Range(w[q]) \cup {p}
  <2>1. w[q] \in Seq(Pids) /\ IsInjective(w[q]) /\ p \notin Range(w[q])
    BY ListedParts
  <2> QED
    BY <2>1, AppendInjectivity, AppendRange, AppendProperties
<1>2. v = [w EXCEPT ![q] = t]
  OBVIOUS
<1> HIDE DEF t, v
<1>3. \A r \in QIds : v[r] = IF r = q THEN t ELSE w[r]
  BY <1>2
<1>4. v \in [QIds -> Seq(Pids)]
  BY <1>1, <1>2
<1>5. \A r \in QIds : Range(v[r]) = IF r = q THEN Range(w[r]) \cup {p}
                                    ELSE Range(w[r])
  BY <1>1, <1>3
<1>6. UNION {Range(v[r]) : r \in QIds} = S \cup {p}
  <2>1. \A x : (\E r \in QIds : x \in Range(v[r])) <=>
               (\E r \in QIds : x \in Range(w[r])) \/ x = p
    BY <1>5
  <2>2. \A x : x \in S <=> \E r \in QIds : x \in Range(w[r])
    BY DEF Listed
  <2> QED
    BY <2>1, <2>2
<1>7. \A r \in QIds : IsInjective(v[r])
  BY <1>1, <1>3 DEF Listed
<1>8. ASSUME NEW r \in QIds, NEW u \in QIds, r # u
      PROVE  Range(v[r]) \cap Range(v[u]) = {}
  <2>1. Range(w[r]) \cap Range(w[u]) = {} /\ p \notin Range(w[r]) /\ p \notin Range(w[u])
    BY <1>8, ListedParts
  <2> QED
    BY <1>5, <1>8, <2>1
<1>9. Listed(v, S \cup {p})
  BY <1>6, <1>7, <1>8 DEF Listed
<1> QED
  BY <1>4, <1>9 DEF v

\* The places of buffers of the sizes n, for the queues of R.
Places(R, n) == UNION {{<<q, i>> : i \in 1..n[q]} : q \in R}

LEMMA PlacesMembers ==
    ASSUME NEW R, NEW n
    PROVE  \A x : x \in Places(R, n) <=> \E q \in R : \E i \in 1..n[q] : x = <<q, i>>
BY DEF Places

LEMMA PlacesGrow ==
    ASSUME NEW R \in SUBSET QIds, NEW n \in [QIds -> Int], NEW q \in R,
           n[q] >= 0, IsFiniteSet(Places(R, n))
    PROVE  LET m == [n EXCEPT ![q] = @ + 1] IN
           /\ IsFiniteSet(Places(R, m))
           /\ Cardinality(Places(R, m)) = Cardinality(Places(R, n)) + 1
<1> DEFINE m == [n EXCEPT ![q] = @ + 1]
           k == n[q] + 1
<1>1. /\ k \in Int /\ k >= 1 /\ n[q] = k - 1
      /\ \A r \in R : m[r] = IF r = q THEN k ELSE n[r]
  OBVIOUS
<1> HIDE DEF m, k
<1>2. 1..m[q] = 1..n[q] \cup {k} /\ k \notin 1..n[q]
  BY <1>1
<1>3. <<q, k>> \notin Places(R, n)
  BY <1>2, PlacesMembers
<1>4. Places(R, m) = Places(R, n) \cup {<<q, k>>}
  <2>1. ASSUME NEW x PROVE x \in Places(R, m) => x \in Places(R, n) \cup {<<q, k>>}
    BY <1>1, <1>2, PlacesMembers
  <2>2. ASSUME NEW x PROVE x \in Places(R, n) \cup {<<q, k>>} => x \in Places(R, m)
    BY <1>1, <1>2, PlacesMembers
  <2> QED
    BY <2>1, <2>2
<1>5. /\ IsFiniteSet(Places(R, m))
      /\ Cardinality(Places(R, m)) = Cardinality(Places(R, n)) + 1
  BY <1>3, <1>4, FS_AddElement
<1> QED
  BY <1>5 DEF m

LEMMA PlacesShrink ==
    ASSUME NEW R \in SUBSET QIds, NEW n \in [QIds -> Int], NEW q \in R,
           n[q] > 0, IsFiniteSet(Places(R, n))
    PROVE  LET m == [n EXCEPT ![q] = @ - 1] IN
           /\ IsFiniteSet(Places(R, m))
           /\ Cardinality(Places(R, m)) = Cardinality(Places(R, n)) - 1
<1> DEFINE m == [n EXCEPT ![q] = @ - 1]
<1>0. q \in QIds /\ n[q] \in Int
  OBVIOUS
<1>1. /\ m \in [QIds -> Int] /\ m[q] = n[q] - 1
      /\ \A r \in QIds : r # q => m[r] = n[r]
  BY <1>0
<1> HIDE DEF m
<1>2. n = [m EXCEPT ![q] = @ + 1]
  <2>1. m[q] + 1 = n[q]
    BY <1>0, <1>1
  <2> QED
    BY <1>1, <2>1
<1>3. Places(R, m) \subseteq Places(R, n)
  <2>1. 1..m[q] \subseteq 1..n[q]
    BY <1>1
  <2> QED
    BY <1>1, <2>1, PlacesMembers
<1>4. IsFiniteSet(Places(R, m))
  BY <1>3, FS_Subset
<1>5. Cardinality(Places(R, n)) = Cardinality(Places(R, m)) + 1
  <2>1. m[q] >= 0
    BY <1>0, <1>1
  <2>2. Cardinality(Places(R, [m EXCEPT ![q] = @ + 1])) = Cardinality(Places(R, m)) + 1
    BY <1>1, <1>4, <2>1, PlacesGrow
  <2> QED
    BY <1>2, <2>2
<1>6. Cardinality(Places(R, m)) \in Nat
  BY <1>4, FS_CardinalityType
<1> QED
  BY <1>4, <1>5, <1>6 DEF m

LEMMA PlacesDrop ==
    ASSUME NEW R \in SUBSET QIds, NEW n \in [QIds -> Int], NEW q \in R,
           n[q] >= 0, IsFiniteSet(Places(R, n))
    PROVE  LET m == [n EXCEPT ![q] = 0] IN
           /\ IsFiniteSet(Places(R \ {q}, m))
           /\ Cardinality(Places(R \ {q}, m)) = Cardinality(Places(R, n)) - n[q]
<1> DEFINE m    == [n EXCEPT ![q] = 0]
           mine == {<<q, i>> : i \in 1..n[q]}
<1>1. \A r \in R \ {q} : m[r] = n[r]
  OBVIOUS
<1> HIDE DEF m
<1>2. Places(R \ {q}, m) = Places(R, n) \ mine
  <2>1. ASSUME NEW x PROVE x \in Places(R \ {q}, m) => x \in Places(R, n) \ mine
    BY <1>1, PlacesMembers
  <2>2. ASSUME NEW x PROVE x \in Places(R, n) \ mine => x \in Places(R \ {q}, m)
    BY <1>1, PlacesMembers
  <2> QED
    BY <2>1, <2>2
<1>3. mine \subseteq Places(R, n)
  BY PlacesMembers
<1>4. IsFiniteSet(mine) /\ Cardinality(mine) = n[q]
  <2> DEFINE f == [i \in 1..n[q] |-> <<q, i>>]
  <2>1. IsFiniteSet(1..n[q]) /\ Cardinality(1..n[q]) = n[q]
    <3>1. n[q] \in Int
      OBVIOUS
    <3> QED
      BY <3>1, FS_Interval
  <2>2. f \in Bijection(1..n[q], mine)
    BY Fun_IsBij
  <2>3. ExistsBijection(1..n[q], mine)
    BY <2>2, Fun_ExistsBij
  <2> QED
    BY <2>1, <2>3, FS_Bijection
<1>5. /\ IsFiniteSet(Places(R, n) \ mine)
      /\ Cardinality(Places(R, n) \ mine)
            = Cardinality(Places(R, n)) - Cardinality(Places(R, n) \cap mine)
  BY FS_Difference
<1>6. Places(R, n) \cap mine = mine
  BY <1>3
<1> QED
  BY <1>2, <1>4, <1>5, <1>6 DEF m

LEMMA PlacesOpen ==
    ASSUME NEW R \in SUBSET QIds, NEW n \in [QIds -> Int], NEW q \in QIds, q \notin R
    PROVE  Places(R \cup {q}, [n EXCEPT ![q] = 0]) = Places(R, n)
<1> DEFINE m == [n EXCEPT ![q] = 0]
<1>1. m[q] = 0 /\ \A r \in R : m[r] = n[r]
  OBVIOUS
<1> HIDE DEF m
<1>2. 1..m[q] = {}
  BY <1>1
<1>3. \A x : x \in Places(R \cup {q}, m) <=> x \in Places(R, n)
  BY <1>1, <1>2, PlacesMembers
<1> QED
  BY <1>3 DEF m

-----------------------------------------------------------------------------
(* The queues' half of the invariant, one queue at a time. *)

Shaped(q) ==
    /\ size[q] = Len(items[q]) /\ size[q] <= capacity[q] /\ capacity[q] > 0
    /\ putters[q] # <<>> => size[q] = capacity[q]
    /\ getters[q] # <<>> => items[q] = <<>> /\ putters[q] = <<>>

EmptyQueue(q) == items[q] = <<>> /\ getters[q] = <<>> /\ putters[q] = <<>>

\* Every queue but q is left alone.
OnlyAt(q) ==
    /\ registry' \ {q} = registry \ {q}
    /\ \A r \in QIds \ {q} :
          /\ capacity'[r] = capacity[r] /\ size'[r] = size[r]
          /\ items'[r] = items[r]
          /\ getters'[r] = getters[r] /\ putters'[r] = putters[r]

LEMMA ShapedQueues ==
    ASSUME BuffersOK
    PROVE  /\ \A q \in registry : q \in QIds /\ Shaped(q)
           /\ \A q \in QIds \ registry : EmptyQueue(q)
           /\ Stored = Places(registry, size)
<1>1. \A q \in registry : q \in QIds /\ Shaped(q)
  BY DEF BuffersOK, QueueShape, BQTypeOK, Shaped
<1>2. \A q \in QIds \ registry : EmptyQueue(q)
  BY DEF BuffersOK, UnusedEmpty, EmptyQueue
<1>3. \A q \in registry : size[q] = Len(items[q])
  BY <1>1 DEF Shaped
<1>4. Stored = Places(registry, size)
  BY <1>3 DEF Stored, Places
<1> QED
  BY <1>1, <1>2, <1>4

LEMMA ShapeMoved ==
    ASSUME BuffersOK, NEW q \in QIds, OnlyAt(q), BQTypeOK',
           q \in registry' => Shaped(q)',
           q \notin registry' => EmptyQueue(q)'
    PROVE  /\ QueueShape' /\ UnusedEmpty'
           /\ \A r \in registry' : capacity'[r] > 0
           /\ Stored' = Places(registry', size')
<1>0. registry' \subseteq QIds
  BY DEF BQTypeOK
<1>1. ASSUME NEW r \in registry' PROVE Shaped(r)'
  <2>1. CASE r = q
    BY <1>1, <2>1
  <2>2. CASE r # q
    <3>1. r \in QIds \ {q} /\ r \in registry
      BY <1>0, <1>1, <2>2 DEF OnlyAt
    <3>2. Shaped(r)
      BY <3>1, ShapedQueues
    <3> QED
      BY <3>1, <3>2 DEF OnlyAt, Shaped
  <2> QED
    BY <2>1, <2>2
<1>2. ASSUME NEW r \in QIds \ registry' PROVE EmptyQueue(r)'
  <2>1. CASE r = q
    BY <1>2, <2>1
  <2>2. CASE r # q
    <3>1. r \in QIds \ {q} /\ r \in QIds \ registry
      BY <1>2, <2>2 DEF OnlyAt
    <3>2. EmptyQueue(r)
      BY <3>1, ShapedQueues
    <3> QED
      BY <3>1, <3>2 DEF OnlyAt, EmptyQueue
  <2> QED
    BY <2>1, <2>2
<1>3. QueueShape' /\ \A r \in registry' : capacity'[r] > 0
  BY <1>1 DEF QueueShape, Shaped
<1>4. UnusedEmpty'
  BY <1>2 DEF UnusedEmpty, EmptyQueue
<1>5. \A r \in registry' : size'[r] = Len(items'[r])
  BY <1>1 DEF Shaped
<1>6. Stored' = Places(registry', size')
  BY <1>5 DEF Stored, Places
<1> QED
  BY <1>3, <1>4, <1>6

\* A step that moves no value of the buffers.
LEMMA BuffersKept ==
    ASSUME BuffersOK, NEW q \in QIds, OnlyAt(q), BQTypeOK',
           q \in registry' => Shaped(q)',
           q \notin registry' => EmptyQueue(q)',
           Places(registry', size') = Places(registry, size),
           itemsUsed' = itemsUsed
    PROVE  BuffersOK'
<1>1. /\ QueueShape' /\ UnusedEmpty' /\ \A r \in registry' : capacity'[r] > 0
      /\ Stored' = Stored
  BY ShapeMoved, ShapedQueues
<1>2. ItemsInPool'
  BY <1>1 DEF BuffersOK, ItemsInPool, ItemAccounting
<1> QED
  BY <1>1, <1>2 DEF BuffersOK

LEMMA StoredFacts ==
    ASSUME BuffersOK
    PROVE  /\ IsFiniteSet(Places(registry, size))
           /\ itemsUsed = Cardinality(Places(registry, size))
           /\ itemsUsed <= NumItems /\ itemsUsed \in Nat
           /\ size \in [QIds -> Int] /\ registry \in SUBSET QIds
<1>1. Stored = Places(registry, size)
  BY ShapedQueues
<1>2. IsFiniteSet(Stored) /\ itemsUsed = Cardinality(Stored) /\ itemsUsed <= NumItems
  BY DEF BuffersOK, ItemsInPool, ItemAccounting
<1>3. itemsUsed \in Nat
  BY <1>2, FS_CardinalityType
<1> QED
  BY <1>1, <1>2, <1>3 DEF BuffersOK, BQTypeOK

\* A step that changes the size of q and gives or takes blocks accordingly.
LEMMA BuffersMoved ==
    ASSUME BuffersOK, NEW q \in QIds, OnlyAt(q), BQTypeOK',
           q \in registry' => Shaped(q)',
           q \notin registry' => EmptyQueue(q)',
           IsFiniteSet(Places(registry', size')),
           Cardinality(Places(registry', size')) = itemsUsed',
           itemsUsed' <= NumItems
    PROVE  BuffersOK'
<1>1. /\ QueueShape' /\ UnusedEmpty' /\ \A r \in registry' : capacity'[r] > 0
      /\ Stored' = Places(registry', size')
  BY ShapeMoved
<1>2. ItemsInPool'
  BY <1>1 DEF ItemsInPool, ItemAccounting
<1> QED
  BY <1>1, <1>2 DEF BuffersOK

LEMMA Assembled ==
    ASSUME NEW G, NEW P, KernelEffect(G, P), Listed(getters', G),
           Listed(putters', P), BuffersOK'
    PROVE  QueueInductive'
BY DEF KernelEffect, QueueInductive, WaitersMatchCalls

\* A process at the head of a wait list is blocked in the call of that list.
LEMMA HeadCallers ==
    ASSUME QueueInductive, NEW q \in QIds
    PROVE  /\ getters[q] # <<>> =>
                 /\ Head(getters[q]) \in Callers("bq_get")
                 /\ Head(getters[q]) \in QueueCallers
                 /\ Head(getters[q]) \notin Callers("bq_put")
           /\ putters[q] # <<>> =>
                 /\ Head(putters[q]) \in Callers("bq_put")
                 /\ Head(putters[q]) \in QueueCallers
                 /\ Head(putters[q]) \notin Callers("bq_get")
<1>1. /\ getters \in [QIds -> Seq(Pids)] /\ putters \in [QIds -> Seq(Pids)]
      /\ Listed(getters, Callers("bq_get")) /\ Listed(putters, Callers("bq_put"))
  BY DEF QueueInductive, BuffersOK, BQTypeOK, WaitersMatchCalls
<1>2. getters[q] # <<>> => Head(getters[q]) \in Callers("bq_get")
  BY <1>1, ListedServe
<1>3. putters[q] # <<>> => Head(putters[q]) \in Callers("bq_put")
  BY <1>1, ListedServe
<1> QED
  BY <1>2, <1>3 DEF Callers, QueueCallers

\* What the result pointers point at stays a value.
LEMMA StoreType ==
    ASSUME out \in [Pids -> Values \cup {0}], NEW p \in Pids, NEW outp,
           NEW v \in Values, Store(p, outp, v)
    PROVE  out' \in [Pids -> Values \cup {0}]
BY DEF Store

-----------------------------------------------------------------------------
(* The steps of the queue calls. *)

LEMMA QueueParts ==
    ASSUME QueueInductive
    PROVE  /\ KernelPart /\ QueuePtrs /\ PutValues /\ BuffersOK /\ BQTypeOK
           /\ TypeOK /\ OnePlace
           /\ Listed(getters, Callers("bq_get"))
           /\ Listed(putters, Callers("bq_put"))
BY DEF QueueInductive, WaitersMatchCalls, KernelPart, Inductive, BuffersOK

LEMMA UnmovedStep ==
    ASSUME QueueInductive, UNCHANGED queues,
           KernelEffect(Callers("bq_get"), Callers("bq_put"))
    PROVE  QueueInductive'
<1>1. UNCHANGED <<registry, capacity, size, items, getters, putters, itemsUsed, out>>
  BY DEF queues
<1>2. BuffersOK'
  <2>1. BQTypeOK' /\ QueueShape' /\ UnusedEmpty'
    BY <1>1, QueueParts DEF BuffersOK, BQTypeOK, QueueShape, UnusedEmpty
  <2>2. ItemsInPool' /\ \A q \in registry' : capacity'[q] > 0
    BY <1>1, QueueParts DEF BuffersOK, ItemsInPool, ItemAccounting, Stored
  <2> QED
    BY <2>1, <2>2 DEF BuffersOK
<1> QED
  BY <1>1, <1>2, QueueParts, Assembled

\* A new queue takes the place of an empty one.
LEMMA OpenedStep ==
    ASSUME QueueInductive, NEW q \in QIds, NEW cap \in Int, cap > 0,
           q \notin registry,
           registry' = registry \cup {q},
           capacity' = [capacity EXCEPT ![q] = cap],
           size'     = [size EXCEPT ![q] = 0],
           items'    = [items EXCEPT ![q] = <<>>],
           getters'  = [getters EXCEPT ![q] = <<>>],
           putters'  = [putters EXCEPT ![q] = <<>>],
           UNCHANGED <<itemsUsed, out>>,
           KernelEffect(Callers("bq_get"), Callers("bq_put"))
    PROVE  QueueInductive'
<1>1. BQTypeOK /\ BuffersOK /\ EmptyQueue(q)
  BY QueueParts, ShapedQueues
<1>2. UNCHANGED <<items, getters, putters>>
  BY <1>1 DEF BQTypeOK, EmptyQueue
<1>3. /\ capacity'[q] = cap /\ size'[q] = 0 /\ items'[q] = <<>>
      /\ getters'[q] = <<>> /\ putters'[q] = <<>>
  BY <1>1 DEF BQTypeOK
<1>4. BQTypeOK'
  <2>1. capacity' \in [QIds -> Int] /\ size' \in [QIds -> Int]
    BY <1>1 DEF BQTypeOK
  <2> QED
    BY <1>1, <1>2, <2>1 DEF BQTypeOK
<1>5. OnlyAt(q)
  BY <1>1, <1>2 DEF BQTypeOK, OnlyAt
<1>6. Shaped(q)'
  BY <1>3 DEF Shaped
<1>7. Places(registry', size') = Places(registry, size)
  BY <1>1, PlacesOpen DEF BQTypeOK
<1>8. BuffersOK'
  BY <1>1, <1>4, <1>5, <1>6, <1>7, BuffersKept
<1> QED
  BY <1>2, <1>8, QueueParts, Assembled

\* A deleted queue gives back the blocks of its items.
LEMMA ClosedStep ==
    ASSUME QueueInductive, NEW q \in QIds, q \in registry, ~InUse(q), FreeQueue(q),
           UNCHANGED <<capacity, getters, putters, out>>,
           KernelEffect(Callers("bq_get"), Callers("bq_put"))
    PROVE  QueueInductive'
<1>1. BQTypeOK /\ BuffersOK /\ Shaped(q)
  BY QueueParts, ShapedQueues
<1>2. /\ registry' = registry \ {q}
      /\ itemsUsed' = itemsUsed - Len(items[q])
      /\ items' = [items EXCEPT ![q] = <<>>]
      /\ size' = [size EXCEPT ![q] = 0]
      /\ getters[q] = <<>> /\ putters[q] = <<>>
  BY DEF FreeQueue, InUse
<1>3. items'[q] = <<>> /\ EmptyQueue(q)'
  BY <1>1, <1>2 DEF BQTypeOK, EmptyQueue
<1>4. size[q] = Len(items[q]) /\ size[q] \in Nat
  <2>1. items[q] \in Seq(Values)
    BY <1>1 DEF BQTypeOK
  <2> QED
    BY <1>1, <2>1, LenProperties DEF Shaped
<1>5. BQTypeOK'
  <2>1. items' \in [QIds -> Seq(Values)]
    BY <1>1, <1>2 DEF BQTypeOK
  <2>2. size' \in [QIds -> Int]
    BY <1>1, <1>2 DEF BQTypeOK
  <2>3. itemsUsed' \in Int
    BY <1>1, <1>2, <1>4 DEF BQTypeOK
  <2> QED
    BY <1>1, <1>2, <2>1, <2>2, <2>3 DEF BQTypeOK
<1>6. OnlyAt(q)
  BY <1>1, <1>2 DEF BQTypeOK, OnlyAt
<1>7. /\ IsFiniteSet(Places(registry', size'))
      /\ Cardinality(Places(registry', size')) = itemsUsed - size[q]
  <2>1. size[q] >= 0
    BY <1>4
  <2>2. /\ IsFiniteSet(Places(registry \ {q}, [size EXCEPT ![q] = 0]))
        /\ Cardinality(Places(registry \ {q}, [size EXCEPT ![q] = 0]))
              = Cardinality(Places(registry, size)) - size[q]
    BY <1>1, <2>1, PlacesDrop, StoredFacts
  <2> QED
    BY <1>1, <1>2, <2>2, StoredFacts
<1>8. itemsUsed' = itemsUsed - size[q] /\ itemsUsed' <= NumItems
  BY <1>1, <1>2, <1>4, StoredFacts, BQueueAssumption
<1>9. BuffersOK'
  BY <1>1, <1>2, <1>3, <1>5, <1>6, <1>7, <1>8, BuffersMoved
<1> QED
  BY <1>9, QueueParts, Assembled

\* The value of a put goes past the empty buffer to a blocked consumer.
LEMMA HandedStep ==
    ASSUME QueueInductive, NEW q \in QIds, NEW v \in Values, q \in registry,
           Enter("bq_put", v), getters[q] # <<>>, PutToGetter(q, v)
    PROVE  QueueInductive'
<1> DEFINE getter == Head(getters[q])
<1>1. BQTypeOK /\ BuffersOK /\ Shaped(q)
  BY QueueParts, ShapedQueues
<1>2. /\ getters' = [getters EXCEPT ![q] = Tail(@)]
      /\ Store(getter, syscall[getter].arg, v)
      /\ Serve(getter)
      /\ UNCHANGED <<registry, capacity, size, items, putters, itemsUsed>>
  BY DEF PutToGetter
<1>3. /\ getter \in Callers("bq_get") /\ getter \in QueueCallers
      /\ getter \notin Callers("bq_put")
  BY HeadCallers
<1>4. KernelEffect(Callers("bq_get") \ {getter}, Callers("bq_put") \ {getter})
  <2>1. v \in Int /\ "bq_put" \in QueueCalls
    BY BQueueAssumption DEF QueueCalls
  <2> QED
    BY <1>2, <1>3, <2>1, QueueParts, ServeEffect
<1>5. /\ Listed(getters', Callers("bq_get") \ {getter})
      /\ getters' \in [QIds -> Seq(Pids)]
  BY <1>1, <1>2, QueueParts, ListedServe DEF BQTypeOK
<1>6. Listed(putters', Callers("bq_put") \ {getter})
  <2>1. Callers("bq_put") \ {getter} = Callers("bq_put")
    BY <1>3
  <2> QED
    BY <1>2, <2>1, QueueParts
<1>7. BQTypeOK'
  <2>1. getter \in Pids
    BY <1>3, QueueParts DEF Callers, TypeOK
  <2>2. out' \in [Pids -> Values \cup {0}]
    BY <1>1, <1>2, <2>1, StoreType DEF BQTypeOK
  <2> QED
    BY <1>1, <1>2, <1>5, <2>2 DEF BQTypeOK
<1>8. OnlyAt(q)
  BY <1>1, <1>2 DEF BQTypeOK, OnlyAt
<1>9. Shaped(q)'
  BY <1>1, <1>2 DEF Shaped
<1>10. BuffersOK'
  BY <1>1, <1>2, <1>7, <1>8, <1>9, BuffersKept
<1> QED
  BY <1>4, <1>5, <1>6, <1>10, Assembled

\* The value of a put is stored.
LEMMA StoredStep ==
    ASSUME QueueInductive, NEW q \in QIds, NEW v \in Values, q \in registry,
           Enter("bq_put", v), getters[q] = <<>>, size[q] < capacity[q],
           itemsUsed < NumItems, PutToBuffer(q, v)
    PROVE  QueueInductive'
<1>1. BQTypeOK /\ BuffersOK /\ Shaped(q)
  BY QueueParts, ShapedQueues
<1>2. /\ items' = [items EXCEPT ![q] = Append(@, v)]
      /\ size' = [size EXCEPT ![q] = @ + 1]
      /\ itemsUsed' = itemsUsed + 1
      /\ Answer(0)
      /\ UNCHANGED <<registry, capacity, getters, putters, out>>
  BY DEF PutToBuffer
<1>3. KernelEffect(Callers("bq_get"), Callers("bq_put"))
  <2>1. v \in Int /\ "bq_put" \in QueueCalls /\ Replies
    BY <1>2, BQueueAssumption DEF QueueCalls, Replies
  <2> QED
    BY <2>1, QueueParts, RepliesEffect
<1>4. /\ items[q] \in Seq(Values) /\ Append(items[q], v) \in Seq(Values)
      /\ Len(Append(items[q], v)) = Len(items[q]) + 1 /\ Len(items[q]) \in Nat
  <2>1. items[q] \in Seq(Values)
    BY <1>1 DEF BQTypeOK
  <2> QED
    BY <2>1, AppendProperties, LenProperties
<1>5. /\ items'[q] = Append(items[q], v) /\ size'[q] = size[q] + 1
      /\ size[q] \in Int /\ capacity[q] \in Int /\ capacity'[q] = capacity[q]
  BY <1>1, <1>2 DEF BQTypeOK
<1>6. BQTypeOK'
  <2>1. items' \in [QIds -> Seq(Values)]
    BY <1>1, <1>2, <1>4 DEF BQTypeOK
  <2>2. size' \in [QIds -> Int]
    BY <1>1, <1>2 DEF BQTypeOK
  <2>3. itemsUsed' \in Int
    BY <1>1, <1>2 DEF BQTypeOK
  <2> QED
    BY <1>1, <1>2, <2>1, <2>2, <2>3 DEF BQTypeOK
<1>7. OnlyAt(q)
  BY <1>1, <1>2 DEF BQTypeOK, OnlyAt
<1>8. putters[q] = <<>> /\ size[q] = Len(items[q]) /\ capacity[q] > 0
  BY <1>1, <1>5 DEF Shaped
<1>9. Shaped(q)'
  <2>1. size'[q] = Len(items'[q])
    BY <1>4, <1>5, <1>8
  <2>2. size'[q] <= capacity'[q] /\ capacity'[q] > 0
    BY <1>5, <1>8
  <2> QED
    BY <1>2, <1>8, <2>1, <2>2 DEF Shaped
<1>10. /\ IsFiniteSet(Places(registry', size'))
       /\ Cardinality(Places(registry', size')) = itemsUsed + 1
  <2>1. size[q] >= 0
    BY <1>4, <1>8
  <2> QED
    BY <1>1, <1>2, <2>1, PlacesGrow, StoredFacts
<1>11. itemsUsed' <= NumItems
  BY <1>1, <1>2, StoredFacts, BQueueAssumption
<1>12. BuffersOK'
  BY <1>1, <1>2, <1>6, <1>7, <1>9, <1>10, <1>11, BuffersMoved
<1> QED
  BY <1>2, <1>3, <1>12, QueueParts, Assembled

\* A producer joins the wait list of a full queue.
LEMMA PutBlockedStep ==
    ASSUME QueueInductive, NEW q \in QIds, NEW v \in Values, q \in registry,
           Enter("bq_put", v), getters[q] = <<>>, size[q] >= capacity[q],
           LeaveCpu, getters' = getters,
           putters' = [putters EXCEPT ![q] = Append(@, running)],
           UNCHANGED <<registry, capacity, size, items, itemsUsed, out>>
    PROVE  QueueInductive'
<1>1. BQTypeOK /\ BuffersOK /\ Shaped(q)
  BY QueueParts, ShapedQueues
<1>2. v \in Int
  BY BQueueAssumption
<1>3. running \in Pids /\ running \notin Callers("bq_put")
  BY <1>2, QueueParts, CallerRecords DEF Callers
<1>4. KernelEffect(Callers("bq_get") \cup {}, Callers("bq_put") \cup {running})
  <2> DEFINE num == "bq_put"
  <2>1. num \in {"bq_get", "bq_put"} /\ num # "bq_get" /\ Enter(num, v)
    OBVIOUS
  <2>2. KernelEffect(
           Callers("bq_get") \cup (IF num = "bq_get" THEN {running} ELSE {}),
           Callers("bq_put") \cup (IF num = "bq_put" THEN {running} ELSE {}))
    BY <1>2, <2>1, QueueParts, LeaveEffect
  <2> QED
    BY <2>2 DEF KernelEffect
<1>5. /\ Listed(putters', Callers("bq_put") \cup {running})
      /\ putters' \in [QIds -> Seq(Pids)]
  BY <1>1, <1>3, QueueParts, ListedJoin DEF BQTypeOK
<1>6. Listed(getters', Callers("bq_get") \cup {})
  BY QueueParts
<1>7. BQTypeOK'
  BY <1>1, <1>5 DEF BQTypeOK
<1>8. OnlyAt(q)
  BY <1>1 DEF BQTypeOK, OnlyAt
<1>9. Shaped(q)'
  <2>1. size[q] \in Int /\ capacity[q] \in Int
    BY <1>1 DEF BQTypeOK
  <2>2. size[q] = capacity[q]
    BY <1>1, <2>1 DEF Shaped
  <2> QED
    BY <1>1, <2>2 DEF Shaped
<1>10. BuffersOK'
  BY <1>1, <1>7, <1>8, <1>9, BuffersKept
<1> QED
  BY <1>4, <1>5, <1>6, <1>10, Assembled

\* A consumer joins the wait list of an empty queue.
LEMMA GetBlockedStep ==
    ASSUME QueueInductive, NEW q \in QIds, NEW outp \in Int, q \in registry,
           Enter("bq_get", outp), items[q] = <<>>, putters[q] = <<>>,
           LeaveCpu, putters' = putters,
           getters' = [getters EXCEPT ![q] = Append(@, running)],
           UNCHANGED <<registry, capacity, size, items, itemsUsed, out>>
    PROVE  QueueInductive'
<1>1. BQTypeOK /\ BuffersOK /\ Shaped(q)
  BY QueueParts, ShapedQueues
<1>3. running \in Pids /\ running \notin Callers("bq_get")
  BY QueueParts, CallerRecords DEF Callers
<1>4. KernelEffect(Callers("bq_get") \cup {running}, Callers("bq_put") \cup {})
  <2> DEFINE num == "bq_get"
  <2>1. num \in {"bq_get", "bq_put"} /\ num # "bq_put" /\ Enter(num, outp)
    OBVIOUS
  <2>2. KernelEffect(
           Callers("bq_get") \cup (IF num = "bq_get" THEN {running} ELSE {}),
           Callers("bq_put") \cup (IF num = "bq_put" THEN {running} ELSE {}))
    BY <2>1, QueueParts, LeaveEffect
  <2> QED
    BY <2>2 DEF KernelEffect
<1>5. /\ Listed(getters', Callers("bq_get") \cup {running})
      /\ getters' \in [QIds -> Seq(Pids)]
  BY <1>1, <1>3, QueueParts, ListedJoin DEF BQTypeOK
<1>6. Listed(putters', Callers("bq_put") \cup {})
  BY QueueParts
<1>7. BQTypeOK'
  BY <1>1, <1>5 DEF BQTypeOK
<1>8. OnlyAt(q)
  BY <1>1 DEF BQTypeOK, OnlyAt
<1>9. Shaped(q)'
  BY <1>1 DEF Shaped
<1>10. BuffersOK'
  BY <1>1, <1>7, <1>8, <1>9, BuffersKept
<1> QED
  BY <1>4, <1>5, <1>6, <1>10, Assembled

\* A consumer takes the first item of a buffer no producer waits for.
LEMMA TakenStep ==
    ASSUME QueueInductive, NEW q \in QIds, NEW outp \in Int, q \in registry,
           Enter("bq_get", outp), items[q] # <<>>, putters[q] = <<>>,
           Take(q, outp)
    PROVE  QueueInductive'
<1>1. BQTypeOK /\ BuffersOK /\ Shaped(q)
  BY QueueParts, ShapedQueues
<1>2. /\ Store(running, outp, Head(items[q]))
      /\ items' = [items EXCEPT ![q] = Tail(@)]
      /\ size' = [size EXCEPT ![q] = @ - 1]
      /\ itemsUsed' = itemsUsed - 1
      /\ Answer(0)
      /\ UNCHANGED <<registry, capacity, getters, putters>>
  BY DEF Take
<1>3. KernelEffect(Callers("bq_get"), Callers("bq_put"))
  <2>1. "bq_get" \in QueueCalls /\ Replies
    BY <1>2 DEF QueueCalls, Replies
  <2> QED
    BY <2>1, QueueParts, RepliesEffect
<1>4. /\ items[q] \in Seq(Values) /\ Tail(items[q]) \in Seq(Values)
      /\ Head(items[q]) \in Values
      /\ Len(Tail(items[q])) = Len(items[q]) - 1 /\ Len(items[q]) \in Nat \ {0}
  <2>1. items[q] \in Seq(Values)
    BY <1>1 DEF BQTypeOK
  <2> QED
    BY <2>1, HeadTailProperties, LenProperties, EmptySeq
<1>5. /\ items'[q] = Tail(items[q]) /\ size'[q] = size[q] - 1
      /\ size[q] \in Int /\ capacity[q] \in Int /\ capacity'[q] = capacity[q]
  BY <1>1, <1>2 DEF BQTypeOK
<1>6. BQTypeOK'
  <2>1. items' \in [QIds -> Seq(Values)]
    BY <1>1, <1>2, <1>4 DEF BQTypeOK
  <2>2. size' \in [QIds -> Int]
    BY <1>1, <1>2 DEF BQTypeOK
  <2>3. itemsUsed' \in Int
    BY <1>1, <1>2 DEF BQTypeOK
  <2>4. running \in Pids
    BY QueueParts, CallerRecords
  <2>5. out' \in [Pids -> Values \cup {0}]
    BY <1>1, <1>2, <1>4, <2>4, StoreType DEF BQTypeOK
  <2> QED
    BY <1>1, <1>2, <2>1, <2>2, <2>3, <2>5 DEF BQTypeOK
<1>7. OnlyAt(q)
  BY <1>1, <1>2 DEF BQTypeOK, OnlyAt
<1>8. /\ getters[q] = <<>> /\ size[q] = Len(items[q])
      /\ size[q] <= capacity[q] /\ capacity[q] > 0
  BY <1>1 DEF Shaped
<1>9. Shaped(q)'
  <2>1. size'[q] = Len(items'[q])
    BY <1>4, <1>5, <1>8
  <2>2. size'[q] <= capacity'[q] /\ capacity'[q] > 0
    BY <1>5, <1>8
  <2> QED
    BY <1>2, <1>8, <2>1, <2>2 DEF Shaped
<1>10. /\ IsFiniteSet(Places(registry', size'))
       /\ Cardinality(Places(registry', size')) = itemsUsed - 1
  <2>1. size[q] > 0
    BY <1>4, <1>8
  <2> QED
    BY <1>1, <1>2, <2>1, PlacesShrink, StoredFacts
<1>11. itemsUsed' <= NumItems
  BY <1>1, <1>2, StoredFacts, BQueueAssumption
<1>12. BuffersOK'
  BY <1>1, <1>2, <1>6, <1>7, <1>9, <1>10, <1>11, BuffersMoved
<1> QED
  BY <1>2, <1>3, <1>12, QueueParts, Assembled

\* The block that the consumer frees is there for the producer it serves.
LEMMA RefillDone ==
    ASSUME BuffersOK, NEW q, NEW outp, TakeAndRefill(q, outp)
    PROVE  /\ Store(running, outp, Head(items[q]))
           /\ items' = [items EXCEPT ![q] = Append(Tail(@), syscall[Head(putters[q])].arg)]
           /\ putters' = [putters EXCEPT ![q] = Tail(@)]
           /\ Serve(Head(putters[q]))
           /\ UNCHANGED <<registry, capacity, size, getters, itemsUsed>>
<1>1. itemsUsed - 1 < NumItems
  BY StoredFacts, BQueueAssumption
<1>2. size \in [QIds -> Int]
  BY StoredFacts
<1>3. size' = [size EXCEPT ![q] = @]
  BY <1>1 DEF TakeAndRefill
<1> QED
  BY <1>1, <1>2, <1>3 DEF TakeAndRefill

\* A consumer takes the first item, and the first blocked producer refills.
LEMMA ExchangedStep ==
    ASSUME QueueInductive, NEW q \in QIds, NEW outp \in Int, q \in registry,
           Enter("bq_get", outp), items[q] # <<>>, putters[q] # <<>>,
           TakeAndRefill(q, outp)
    PROVE  QueueInductive'
<1> DEFINE producer == Head(putters[q])
           v        == syscall[producer].arg
<1>1. BQTypeOK /\ BuffersOK /\ Shaped(q)
  BY QueueParts, ShapedQueues
<1>2. /\ Store(running, outp, Head(items[q]))
      /\ items' = [items EXCEPT ![q] = Append(Tail(@), v)]
      /\ putters' = [putters EXCEPT ![q] = Tail(@)]
      /\ Serve(producer)
      /\ UNCHANGED <<registry, capacity, size, getters, itemsUsed>>
  BY <1>1, RefillDone
<1>3. /\ producer \in Callers("bq_put") /\ producer \in QueueCallers
      /\ producer \notin Callers("bq_get") /\ v \in Values
  BY HeadCallers, QueueParts DEF PutValues
<1> HIDE DEF v
<1>4. KernelEffect(Callers("bq_get") \ {producer}, Callers("bq_put") \ {producer})
  <2>1. "bq_get" \in QueueCalls
    BY DEF QueueCalls
  <2> QED
    BY <1>2, <1>3, <2>1, QueueParts, ServeEffect
<1>5. /\ Listed(putters', Callers("bq_put") \ {producer})
      /\ putters' \in [QIds -> Seq(Pids)]
  BY <1>1, <1>2, QueueParts, ListedServe DEF BQTypeOK
<1>6. Listed(getters', Callers("bq_get") \ {producer})
  <2>1. Callers("bq_get") \ {producer} = Callers("bq_get")
    BY <1>3
  <2> QED
    BY <1>2, <2>1, QueueParts
<1>7. /\ items[q] \in Seq(Values) /\ Append(Tail(items[q]), v) \in Seq(Values)
      /\ Head(items[q]) \in Values
      /\ Len(Append(Tail(items[q]), v)) = Len(items[q])
  <2>1. items[q] \in Seq(Values)
    BY <1>1 DEF BQTypeOK
  <2>2. /\ Tail(items[q]) \in Seq(Values) /\ Head(items[q]) \in Values
        /\ Len(Tail(items[q])) = Len(items[q]) - 1 /\ Len(items[q]) \in Nat
    BY <2>1, HeadTailProperties, LenProperties
  <2>3. /\ Append(Tail(items[q]), v) \in Seq(Values)
        /\ Len(Append(Tail(items[q]), v)) = Len(Tail(items[q])) + 1
    BY <1>3, <2>2, AppendProperties
  <2> QED
    BY <2>1, <2>2, <2>3
<1>8. items'[q] = Append(Tail(items[q]), v)
  BY <1>1, <1>2 DEF BQTypeOK
<1>9. BQTypeOK'
  <2>1. items' \in [QIds -> Seq(Values)]
    BY <1>1, <1>2, <1>7 DEF BQTypeOK
  <2>2. running \in Pids
    BY QueueParts, CallerRecords
  <2>3. out' \in [Pids -> Values \cup {0}]
    BY <1>1, <1>2, <1>7, <2>2, StoreType DEF BQTypeOK
  <2> QED
    BY <1>1, <1>2, <1>5, <2>1, <2>3 DEF BQTypeOK
<1>10. OnlyAt(q)
  BY <1>1, <1>2 DEF BQTypeOK, OnlyAt
<1>11. Shaped(q)'
  <2>1. /\ size'[q] = size[q] /\ capacity'[q] = capacity[q]
        /\ getters'[q] = getters[q]
    BY <1>2
  <2>2. /\ getters[q] = <<>> /\ size[q] = capacity[q] /\ size[q] = Len(items[q])
        /\ size[q] <= capacity[q] /\ capacity[q] > 0
    BY <1>1 DEF Shaped
  <2>3. Len(items'[q]) = Len(items[q])
    BY <1>7, <1>8
  <2> QED
    BY <2>1, <2>2, <2>3 DEF Shaped
<1>12. BuffersOK'
  BY <1>1, <1>2, <1>9, <1>10, <1>11, BuffersKept
<1> QED
  BY <1>4, <1>5, <1>6, <1>12, Assembled

-----------------------------------------------------------------------------
(* Every step keeps the invariant. *)

LEMMA ArgFacts ==
    /\ QIds \subseteq Int /\ Values \subseteq Int /\ Capacities \subseteq Int
    /\ ResultPtrs \subseteq Int
BY BQueueAssumption

\* A call that changes no queue.
LEMMA AnsweredStep ==
    ASSUME QueueInductive, NEW num \in QueueCalls, NEW arg \in Int, Enter(num, arg),
           Replies, UNCHANGED queues
    PROVE  QueueInductive'
BY QueueParts, RepliesEffect, UnmovedStep

LEMMA NoSuchStep ==
    ASSUME QueueInductive, NEW num \in QueueCalls, NEW arg \in Int, Enter(num, arg),
           NEW q \in QIds, NoSuchQueue(q)
    PROVE  QueueInductive'
<1>1. Replies /\ UNCHANGED queues
  BY DEF NoSuchQueue, Replies, DSOS_ERESOURCENOFD
<1> QED
  BY <1>1, AnsweredStep

LEMMA CreateStep ==
    ASSUME QueueInductive, NEW q \in QIds, NEW cap \in Capacities, BqCreate(q, cap)
    PROVE  QueueInductive'
<1>1. cap \in Int /\ "bq_create" \in QueueCalls /\ Enter("bq_create", cap)
  BY ArgFacts DEF QueueCalls, BqCreate
<1>2. CASE Replies /\ UNCHANGED queues
  BY <1>1, <1>2, AnsweredStep
<1>3. CASE /\ cap > 0 /\ q \notin registry
           /\ registry' = registry \cup {q}
           /\ capacity' = [capacity EXCEPT ![q] = cap]
           /\ size'     = [size EXCEPT ![q] = 0]
           /\ items'    = [items EXCEPT ![q] = <<>>]
           /\ getters'  = [getters EXCEPT ![q] = <<>>]
           /\ putters'  = [putters EXCEPT ![q] = <<>>]
           /\ Answer(0)
           /\ UNCHANGED <<itemsUsed, out>>
  <2>1. Replies
    BY <1>3 DEF Replies
  <2>2. KernelEffect(Callers("bq_get"), Callers("bq_put"))
    BY <1>1, <2>1, QueueParts, RepliesEffect
  <2> QED
    BY <1>1, <1>3, <2>2, OpenedStep
<1> QED
  BY <1>2, <1>3 DEF BqCreate, Replies, DSOS_ESYSCALL_ARGUMENT_OUT_OF_BOUNDS,
                    DSOS_EEXIST, DSOS_ESYSCALL_NOT_IMPLEMENTED

LEMMA DeleteStep ==
    ASSUME QueueInductive, NEW q \in QIds, BqDelete(q)
    PROVE  QueueInductive'
<1>1. q \in Int /\ "bq_delete" \in QueueCalls /\ Enter("bq_delete", q)
  BY ArgFacts DEF QueueCalls, BqDelete
<1>2. CASE NoSuchQueue(q)
  BY <1>1, <1>2, NoSuchStep
<1>3. CASE Answer(DSOS_ERESOURCEINUSE) /\ UNCHANGED queues
  BY <1>1, <1>3, AnsweredStep DEF Replies, DSOS_ERESOURCEINUSE
<1>4. CASE /\ q \in registry /\ ~InUse(q)
           /\ FreeQueue(q)
           /\ Answer(0)
           /\ UNCHANGED <<capacity, getters, putters, out>>
  <2>1. KernelEffect(Callers("bq_get"), Callers("bq_put"))
    BY <1>1, <1>4, QueueParts, RepliesEffect DEF Replies
  <2> QED
    BY <1>4, <2>1, ClosedStep
<1> QED
  BY <1>2, <1>3, <1>4 DEF BqDelete

LEMMA BlockCases ==
    ASSUME NEW newGetters, NEW newPutters, Block(newGetters, newPutters)
    PROVE  \/ Replies /\ UNCHANGED queues
           \/ /\ LeaveCpu
              /\ getters' = newGetters
              /\ putters' = newPutters
              /\ UNCHANGED <<registry, capacity, size, items, itemsUsed, out>>
<1>1. "null_pcb_ptr" \in KernelModes
  BY DEF KernelModes, Faults
<1> QED
  BY <1>1 DEF Block, LeaveCpu, Replies

LEMMA PutStep ==
    ASSUME QueueInductive, NEW q \in QIds, NEW v \in Values, BqPut(q, v)
    PROVE  QueueInductive'
<1>1. v \in Int /\ "bq_put" \in QueueCalls /\ Enter("bq_put", v)
  BY ArgFacts DEF QueueCalls, BqPut
<1>2. CASE NoSuchQueue(q)
  BY <1>1, <1>2, NoSuchStep
<1>3. CASE Replies /\ UNCHANGED queues
  BY <1>1, <1>3, AnsweredStep
<1>4. CASE q \in registry /\ getters[q] # <<>> /\ PutToGetter(q, v)
  BY <1>1, <1>4, HandedStep
<1>5. CASE /\ q \in registry /\ getters[q] = <<>> /\ size[q] < capacity[q]
           /\ itemsUsed < NumItems /\ PutToBuffer(q, v)
  BY <1>1, <1>5, StoredStep
<1>6. CASE /\ q \in registry /\ getters[q] = <<>> /\ size[q] >= capacity[q]
           /\ Block(getters, [putters EXCEPT ![q] = Append(@, running)])
  BY <1>1, <1>3, <1>6, BlockCases, PutBlockedStep
<1> QED
  BY <1>2, <1>3, <1>4, <1>5, <1>6
     DEF BqPut, ItemLeft, Replies, DSOS_ESYSCALL_NOT_IMPLEMENTED

LEMMA FullNotEmpty ==
    ASSUME BuffersOK, NEW q \in registry, putters[q] # <<>>
    PROVE  items[q] # <<>>
<1>1. Shaped(q)
  BY ShapedQueues
<1>2. Len(items[q]) > 0
  BY <1>1 DEF Shaped
<1> QED
  BY <1>2

LEMMA GetStep ==
    ASSUME QueueInductive, NEW q \in QIds, NEW outp \in ResultPtrs, BqGet(q, outp)
    PROVE  QueueInductive'
<1>1. outp \in Int /\ "bq_get" \in QueueCalls /\ Enter("bq_get", outp)
  BY ArgFacts DEF QueueCalls, BqGet
<1>2. CASE NoSuchQueue(q)
  BY <1>1, <1>2, NoSuchStep
<1>3. CASE q \in registry /\ items[q] # <<>> /\ putters[q] # <<>>
           /\ TakeAndRefill(q, outp)
  BY <1>1, <1>3, ExchangedStep
<1>4. CASE q \in registry /\ items[q] # <<>> /\ putters[q] = <<>> /\ Take(q, outp)
  BY <1>1, <1>4, TakenStep
<1>5. CASE /\ q \in registry /\ items[q] = <<>>
           /\ IF putters[q] # <<>>
              THEN GetFromPutter(q, outp)
              ELSE Block([getters EXCEPT ![q] = Append(@, running)], putters)
  <2>1. putters[q] = <<>>
    BY <1>5, QueueParts, FullNotEmpty
  <2>2. CASE Replies /\ UNCHANGED queues
    BY <1>1, <2>2, AnsweredStep
  <2>3. CASE /\ LeaveCpu
             /\ getters' = [getters EXCEPT ![q] = Append(@, running)]
             /\ putters' = putters
             /\ UNCHANGED <<registry, capacity, size, items, itemsUsed, out>>
    BY <1>1, <1>5, <2>1, <2>3, GetBlockedStep
  <2> QED
    BY <1>5, <2>1, <2>2, <2>3, BlockCases
<1> QED
  BY <1>2, <1>3, <1>4, <1>5 DEF BqGet

LEMMA DumpStep ==
    ASSUME QueueInductive, NEW q \in QIds, BqDump(q)
    PROVE  QueueInductive'
<1>1. q \in Int /\ "bq_dump" \in QueueCalls /\ Enter("bq_dump", q)
  BY ArgFacts DEF QueueCalls, BqDump
<1>2. CASE NoSuchQueue(q)
  BY <1>1, <1>2, NoSuchStep
<1>3. CASE Answer(0) /\ UNCHANGED queues
  BY <1>1, <1>3, AnsweredStep DEF Replies
<1> QED
  BY <1>2, <1>3 DEF BqDump

LEMMA KernelStepKeeps ==
    ASSUME QueueInductive, [Next]_vars, UNCHANGED queues PROVE QueueInductive'
BY QueueParts, KernelStepEffect, UnmovedStep

LEMMA QueuesStep == QueueInductive /\ [BQNext]_bqvars => QueueInductive'
<1> SUFFICES ASSUME QueueInductive, [BQNext]_bqvars PROVE QueueInductive'
  OBVIOUS
<1>1. CASE QueueCall
  BY <1>1, CreateStep, DeleteStep, PutStep, GetStep, DumpStep DEF QueueCall
<1>2. CASE Next /\ UNCHANGED queues
  BY <1>2, KernelStepKeeps
<1>3. CASE UNCHANGED bqvars
  BY <1>3, KernelStepKeeps DEF bqvars
<1> QED
  BY <1>1, <1>2, <1>3 DEF BQNext

LEMMA QueuesInit == BQInit => QueueInductive
<1> SUFFICES ASSUME BQInit PROVE QueueInductive
  OBVIOUS
<1>1. /\ Init /\ waiting = {} /\ registry = {}
      /\ \A q \in QIds : /\ items[q] = <<>> /\ getters[q] = <<>>
                         /\ putters[q] = <<>>
  BY DEF BQInit, Init
<1>2. TypeOK /\ FamilyInductive
  BY <1>1, InitType, InitFamily
<1>3. KernelPart
  BY <1>1, <1>2, InitPlaced, InitTimers
     DEF KernelPart, Inductive, FamilyInductive
<1>4. QueuePtrs
  <2>1. QueueCallers = {}
    BY <1>1 DEF QueueCallers
  <2> QED
    BY <1>2, <2>1, CountedIsNoOther, FS_EmptySet DEF QueuePtrs, FamilyInductive
<1>5. /\ PutValues /\ Callers("bq_get") = {} /\ Callers("bq_put") = {}
  BY <1>1 DEF PutValues, Callers
<1>6. WaitersMatchCalls
  <2>1. Range(<<>>) = {} /\ IsInjective(<<>>)
    BY DEF Range, IsInjective
  <2> QED
    BY <1>1, <1>5, <2>1 DEF WaitersMatchCalls, Listed
<1>7. BuffersOK
  <2>1. BQTypeOK
    <3>1. \A S : <<>> \in Seq(S)
      BY EmptySeq
    <3> QED
      BY <3>1 DEF BQInit, BQTypeOK
  <2>2. QueueShape /\ UnusedEmpty /\ \A q \in registry : capacity[q] > 0
    BY <1>1 DEF QueueShape, UnusedEmpty
  <2>3. Stored = {}
    BY <1>1 DEF Stored
  <2>4. itemsUsed = 0
    BY DEF BQInit
  <2>5. ItemsInPool
    BY <2>3, <2>4, FS_EmptySet, BQueueAssumption DEF ItemsInPool, ItemAccounting
  <2> QED
    BY <2>1, <2>2, <2>5 DEF BuffersOK
<1> QED
  BY <1>3, <1>4, <1>5, <1>6, <1>7 DEF QueueInductive

LEMMA QueuesHold == BQSpec => []QueueInductive
BY QueuesInit, QueuesStep, PTL DEF BQSpec

-----------------------------------------------------------------------------
(* What a queue call does to the processes of the kernel's properties. *)

CallMoves ==
    \E num \in QueueCalls, arg \in Int :
       /\ Enter(num, arg)
       /\ Replies \/ LeaveCpu \/ \E p \in QueueCallers : Serve(p)

LEMMA NoSuchReplies == ASSUME NEW q, NoSuchQueue(q) PROVE Replies
BY DEF NoSuchQueue, Replies, DSOS_ERESOURCENOFD

LEMMA CallKind == ASSUME QueueInductive, QueueCall PROVE CallMoves
<1>1. ASSUME NEW q \in QIds, NEW cap \in Capacities, BqCreate(q, cap)
      PROVE  CallMoves
  <2>1. cap \in Int /\ "bq_create" \in QueueCalls /\ Enter("bq_create", cap)
    BY <1>1, ArgFacts DEF QueueCalls, BqCreate
  <2>2. Replies
    BY <1>1 DEF BqCreate, Replies, DSOS_ESYSCALL_ARGUMENT_OUT_OF_BOUNDS,
                DSOS_EEXIST, DSOS_ESYSCALL_NOT_IMPLEMENTED
  <2> QED
    BY <2>1, <2>2 DEF CallMoves
<1>2. ASSUME NEW q \in QIds, BqDelete(q) PROVE CallMoves
  <2>1. q \in Int /\ "bq_delete" \in QueueCalls /\ Enter("bq_delete", q)
    BY <1>2, ArgFacts DEF QueueCalls, BqDelete
  <2>2. Replies
    BY <1>2, NoSuchReplies DEF BqDelete, Replies, DSOS_ERESOURCEINUSE
  <2> QED
    BY <2>1, <2>2 DEF CallMoves
<1>3. ASSUME NEW q \in QIds, BqDump(q) PROVE CallMoves
  <2>1. q \in Int /\ "bq_dump" \in QueueCalls /\ Enter("bq_dump", q)
    BY <1>3, ArgFacts DEF QueueCalls, BqDump
  <2>2. Replies
    BY <1>3, NoSuchReplies DEF BqDump, Replies
  <2> QED
    BY <2>1, <2>2 DEF CallMoves
<1>4. ASSUME NEW q \in QIds, NEW v \in Values, BqPut(q, v) PROVE CallMoves
  <2>1. v \in Int /\ "bq_put" \in QueueCalls /\ Enter("bq_put", v)
    BY <1>4, ArgFacts DEF QueueCalls, BqPut
  <2>2. Replies \/ LeaveCpu \/ \E p \in QueueCallers : Serve(p)
    <3>1. CASE Replies \/ NoSuchQueue(q)
      BY <3>1, NoSuchReplies
    <3>2. CASE getters[q] # <<>> /\ PutToGetter(q, v)
      BY <3>2, HeadCallers DEF PutToGetter
    <3>3. CASE PutToBuffer(q, v)
      BY <3>3 DEF PutToBuffer, Replies
    <3>4. CASE Block(getters, [putters EXCEPT ![q] = Append(@, running)])
      BY <3>4, BlockCases
    <3> QED
      BY <1>4, <3>1, <3>2, <3>3, <3>4
         DEF BqPut, Replies, DSOS_ESYSCALL_NOT_IMPLEMENTED
  <2> QED
    BY <2>1, <2>2 DEF CallMoves
<1>5. ASSUME NEW q \in QIds, NEW outp \in ResultPtrs, BqGet(q, outp) PROVE CallMoves
  <2>1. outp \in Int /\ "bq_get" \in QueueCalls /\ Enter("bq_get", outp)
    BY <1>5, ArgFacts DEF QueueCalls, BqGet
  <2>2. Replies \/ LeaveCpu \/ \E p \in QueueCallers : Serve(p)
    <3>1. CASE NoSuchQueue(q)
      BY <3>1, NoSuchReplies
    <3>2. CASE putters[q] # <<>> /\ (TakeAndRefill(q, outp) \/ GetFromPutter(q, outp))
      BY <3>2, HeadCallers DEF TakeAndRefill, GetFromPutter
    <3>3. CASE Take(q, outp)
      BY <3>3 DEF Take, Replies
    <3>4. CASE Block([getters EXCEPT ![q] = Append(@, running)], putters)
      BY <3>4, BlockCases
    <3> QED
      BY <1>5, <3>1, <3>2, <3>3, <3>4 DEF BqGet
  <2> QED
    BY <2>1, <2>2 DEF CallMoves
<1> QED
  BY <1>1, <1>2, <1>3, <1>4, <1>5 DEF QueueCall

\* A queue call leaves the family alone and wakes only whom a queue call blocked.
LEMMA CallGentle ==
    ASSUME QueueInductive, QueueCall
    PROVE  /\ FamilyKept
           /\ \A p \in waiting \ waiting' : p \in QueueCallers
           /\ \A p \in waiting : syscall'[p] = syscall[p]
<1> PICK num \in QueueCalls, arg \in Int :
           /\ Enter(num, arg)
           /\ Replies \/ LeaveCpu \/ \E p \in QueueCallers : Serve(p)
  BY CallKind DEF CallMoves
<1>1. TypeOK /\ OnePlace /\ TimersMatchSleepers
  BY QueueParts DEF KernelPart, Inductive
<1>2. \A p \in waiting : syscall'[p] = syscall[p]
  BY <1>1, CallerRecords
<1>3. CASE Replies
  BY <1>1, <1>2, <1>3, RepliesFacts
<1>4. CASE LeaveCpu
  <2>1. num # "sleep"
    BY DEF QueueCalls
  <2> QED
    BY <1>1, <1>2, <1>4, <2>1, LeaveFacts
<1>5. CASE \E p \in QueueCallers : Serve(p)
  <2> PICK p \in QueueCallers : Serve(p)
    BY <1>5
  <2>1. p \in waiting /\ syscall[p].num # "sleep"
    BY DEF QueueCallers
  <2> QED
    BY <1>1, <1>2, <2>1, ServeFacts
<1> QED
  BY <1>3, <1>4, <1>5

\* It starts and ends no sleep, so it leaves the timers, and it moves the ready
\* list while a process stays on the CPU, or by taking the caller off.
LEMMA CallClock ==
    ASSUME QueueInductive, QueueCall
    PROVE  timers' = timers /\ (WorkConserving => WorkConserving')
<1> PICK num \in QueueCalls, arg \in Int :
           /\ Enter(num, arg)
           /\ Replies \/ LeaveCpu \/ \E p \in QueueCallers : Serve(p)
  BY CallKind DEF CallMoves
<1>1. TypeOK
  BY QueueParts DEF KernelPart, Inductive
<1>2. CASE Replies
  BY <1>2 DEF Replies, Answer, Stop, lists, WorkConserving
<1>3. CASE LeaveCpu
  BY <1>1, <1>3, GiveUpConserves DEF LeaveCpu
<1>4. CASE \E p \in QueueCallers : Serve(p)
  BY <1>4 DEF Enter, Serve, WorkConserving
<1> QED
  BY <1>2, <1>3, <1>4

-----------------------------------------------------------------------------
(* The channel that the queues implement. *)

LEMMA PendingValues ==
    ASSUME QueueInductive, NEW q \in QIds
    PROVE  /\ Pending(q) \in Seq(Values)
           /\ Len(Pending(q)) = Len(putters[q]) /\ Len(putters[q]) \in Nat
           /\ \A i \in 1..Len(putters[q]) :
                 /\ putters[q][i] \in Callers("bq_put")
                 /\ Pending(q)[i] = syscall[putters[q][i]].arg
<1>1. putters[q] \in Seq(Pids) /\ Range(putters[q]) \subseteq Callers("bq_put")
  BY QueueParts, ListedParts DEF BQTypeOK
<1> DEFINE n == Len(putters[q])
<1>2. n \in Nat /\ DOMAIN putters[q] = 1..n
  BY <1>1, LenProperties
<1>3. \A i \in 1..n : putters[q][i] \in Callers("bq_put")
  BY <1>1, <1>2 DEF Range
<1>4. \A i \in 1..n : syscall[putters[q][i]].arg \in Values
  BY <1>3, QueueParts DEF PutValues
<1>5. Pending(q) = [i \in 1..n |-> syscall[putters[q][i]].arg]
  BY DEF Pending
<1> HIDE DEF n
<1>6. Pending(q) \in Seq(Values)
  BY <1>2, <1>4, <1>5, SeqDef
<1>7. Len(Pending(q)) = n
  BY <1>2, <1>5, <1>6, LenProperties
<1>8. \A i \in 1..n : Pending(q)[i] = syscall[putters[q][i]].arg
  BY <1>5
<1> QED
  BY <1>2, <1>3, <1>6, <1>7, <1>8 DEF n

\* The value of a blocked put stays where it is.
LEMMA PendingKept ==
    ASSUME QueueInductive, NEW q \in QIds, putters'[q] = putters[q],
           \A p \in waiting : syscall'[p] = syscall[p]
    PROVE  Pending(q)' = Pending(q)
<1>1. \A i \in 1..Len(putters[q]) :
         syscall'[putters[q][i]].arg = syscall[putters[q][i]].arg
  BY PendingValues DEF Callers
<1> QED
  BY <1>1 DEF Pending

LEMMA ChanType ==
    ASSUME QueueInductive
    PROVE  /\ Chan \in [QIds -> Seq(Values)]
           /\ \A q \in QIds : Chan[q] = items[q] \o Pending(q)
<1>1. \A q \in QIds : items[q] \o Pending(q) \in Seq(Values)
  BY PendingValues, QueueParts, ConcatProperties DEF BQTypeOK
<1> QED
  BY <1>1 DEF Chan

\* The channel changes only where a step changes the items or the producers.
LEMMA ChanMoved ==
    ASSUME QueueInductive, NEW q \in QIds, OnlyAt(q),
           \A p \in waiting : syscall'[p] = syscall[p]
    PROVE  Chan' = [Chan EXCEPT ![q] = items'[q] \o Pending(q)']
<1>1. \A r \in QIds \ {q} : items'[r] \o Pending(r)' = items[r] \o Pending(r)
  BY PendingKept DEF OnlyAt
<1>2. Chan' = [r \in QIds |-> items'[r] \o Pending(r)']
  BY DEF Chan
<1> QED
  BY <1>1, <1>2 DEF Chan

LEMMA ChanUnmoved ==
    ASSUME QueueInductive, \A q \in QIds : items'[q] = items[q],
           \A q \in QIds : putters'[q] = putters[q],
           \A p \in waiting : syscall'[p] = syscall[p]
    PROVE  Chan' = Chan
<1>1. \A r \in QIds : items'[r] \o Pending(r)' = items[r] \o Pending(r)
  BY PendingKept
<1> QED
  BY <1>1 DEF Chan

LEMMA NonePending ==
    ASSUME NEW q, putters[q] = <<>> PROVE Pending(q) = <<>>
<1>1. Len(putters[q]) = 0
  OBVIOUS
<1> QED
  BY <1>1 DEF Pending

\* Facts about sequences that the cases below meet.
LEMMA HeadOntoTail ==
    ASSUME NEW S, NEW s \in Seq(S), s # <<>>
    PROVE  <<Head(s)>> \o Tail(s) = s
<1> DEFINE n == Len(s)
           u == <<Head(s)>>
           t == Tail(s)
<1>1. /\ n \in Nat /\ n > 0 /\ t \in Seq(S) /\ Len(t) = n - 1 /\ Head(s) = s[1]
      /\ \A i \in 1..(n - 1) : t[i] = s[i + 1]
  BY LenProperties, HeadTailProperties, EmptySeq
<1>2. u \in Seq(S) /\ Len(u) = 1 /\ u[1] = s[1]
  BY HeadTailProperties
<1>3. /\ u \o t \in Seq(S) /\ Len(u \o t) = 1 + (n - 1)
      /\ \A i \in 1..(1 + (n - 1)) :
            (u \o t)[i] = IF i <= 1 THEN u[i] ELSE t[i - 1]
  BY <1>1, <1>2, ConcatProperties
<1> HIDE DEF n, u, t
<1>4. ASSUME NEW i \in 1..n PROVE (u \o t)[i] = s[i]
  <2>1. CASE i = 1
    BY <1>1, <1>2, <1>3, <2>1
  <2>2. CASE i # 1
    <3>1. i - 1 \in 1..(n - 1) /\ ~(i <= 1) /\ i \in 1..(1 + (n - 1)) /\ i - 1 + 1 = i
      BY <1>1, <2>2
    <3> QED
      BY <1>1, <1>3, <3>1
  <2> QED
    BY <2>1, <2>2
<1>5. Len(u \o t) = n
  BY <1>1, <1>3
<1> QED
  BY <1>3, <1>4, <1>5, SeqEqual DEF n, u, t

LEMMA ConcatAppend ==
    ASSUME NEW S, NEW s \in Seq(S), NEW t \in Seq(S), NEW e \in S
    PROVE  s \o Append(t, e) = Append(s \o t, e)
<1>1. <<e>> \in Seq(S) /\ s \o t \in Seq(S)
  BY ConcatProperties
<1>2. Append(t, e) = t \o <<e>> /\ Append(s \o t, e) = (s \o t) \o <<e>>
  BY <1>1, AppendIsConcat
<1> QED
  BY <1>1, <1>2, ConcatAssociative

LEMMA HeadOfConcat ==
    ASSUME NEW S, NEW s \in Seq(S), NEW t \in Seq(S), s # <<>>
    PROVE  /\ s \o t # <<>> /\ Head(s \o t) = Head(s)
           /\ Tail(s \o t) = Tail(s) \o t
<1> DEFINE n == Len(s)
           m == Len(t)
           u == s \o t
           w == Tail(s) \o t
<1>1. n \in Nat /\ n > 0 /\ m \in Nat
  BY LenProperties, EmptySeq
<1>2. /\ u \in Seq(S) /\ Len(u) = n + m
      /\ \A i \in 1..(n + m) : u[i] = IF i <= n THEN s[i] ELSE t[i - n]
  BY ConcatProperties
<1>3. /\ Tail(s) \in Seq(S) /\ Len(Tail(s)) = n - 1 /\ Head(s) = s[1]
      /\ \A i \in 1..(n - 1) : Tail(s)[i] = s[i + 1]
  BY HeadTailProperties
<1>4. /\ w \in Seq(S) /\ Len(w) = n - 1 + m
      /\ \A i \in 1..(n - 1 + m) :
            w[i] = IF i <= n - 1 THEN Tail(s)[i] ELSE t[i - (n - 1)]
  BY <1>3, ConcatProperties
<1>5. u # <<>>
  BY <1>1, <1>2
<1>6. /\ Head(u) = u[1] /\ Tail(u) \in Seq(S) /\ Len(Tail(u)) = n + m - 1
      /\ \A i \in 1..(n + m - 1) : Tail(u)[i] = u[i + 1]
  BY <1>2, <1>5, HeadTailProperties
<1> HIDE DEF n, m, u, w
<1>7. Head(u) = Head(s)
  BY <1>1, <1>2, <1>3, <1>6
<1>8. ASSUME NEW i \in 1..(n + m - 1) PROVE Tail(u)[i] = w[i]
  <2> DEFINE k == i + 1
  <2>1. Tail(u)[i] = u[k]
    BY <1>6
  <2>2. /\ k \in 1..(n + m) /\ i \in 1..(n - 1 + m) /\ k - n = i - (n - 1)
        /\ i <= n - 1 => k <= n /\ i \in 1..(n - 1)
        /\ ~(i <= n - 1) => ~(k <= n)
    BY <1>1
  <2>3. i \in 1..(n - 1) => Tail(s)[i] = s[k]
    BY <1>3
  <2> HIDE DEF k
  <2>4. u[k] = IF k <= n THEN s[k] ELSE t[k - n]
    BY <1>2, <2>2
  <2>5. w[i] = IF i <= n - 1 THEN Tail(s)[i] ELSE t[i - (n - 1)]
    BY <1>4, <2>2
  <2>6. CASE i <= n - 1
    BY <2>1, <2>2, <2>3, <2>4, <2>5, <2>6, Zenon
  <2>7. CASE ~(i <= n - 1)
    BY <2>1, <2>2, <2>4, <2>5, <2>7, Zenon
  <2> QED
    BY <2>6, <2>7
<1>9. Tail(u) = w
  <2>1. Len(Tail(u)) = Len(w)
    BY <1>1, <1>4, <1>6
  <2> QED
    BY <1>4, <1>6, <1>8, <2>1, SeqEqual
<1> QED
  BY <1>5, <1>7, <1>9 DEF u, w

-----------------------------------------------------------------------------
(* Each step of the queues is a step of the channel, or none. *)

FifoStep == Fifo!Next

\* The pointers of the blocked callers stay as they were passed.
LEMMA CallsFifo ==
    ASSUME QueueInductive, \A p \in waiting : syscall'[p] = syscall[p]
    PROVE  Fifo!Calls
<1>1. ASSUME NEW q \in QIds, NEW i \in 1..Len(getters[q])
      PROVE  getters[q][i] \in Null' <=> getters[q][i] \in Null
  <2>1. getters[q] \in Seq(Pids) /\ Range(getters[q]) \subseteq Callers("bq_get")
    BY QueueParts, ListedParts DEF BQTypeOK
  <2>2. getters[q][i] \in Range(getters[q])
    BY <2>1, LenProperties DEF Range
  <2>3. getters[q][i] \in waiting
    BY <2>1, <2>2 DEF Callers
  <2> QED
    BY <2>3 DEF Null
<1>2. Null' \in SUBSET Pids
  BY DEF Null
<1> QED
  BY <1>1, <1>2 DEF Fifo!Calls

\* A value handed to the oldest getter is stored where that get asked for it.
LEMMA HandedValue ==
    ASSUME QueueInductive, NEW q \in QIds, NEW v, getters[q] # <<>>,
           Store(Head(getters[q]), syscall[Head(getters[q])].arg, v),
           \A p \in waiting : syscall'[p] = syscall[p]
    PROVE  Fifo!Deliver(Head(getters[q]), v)
<1>1. getters[q] \in Seq(Pids) /\ Range(getters[q]) \subseteq Callers("bq_get")
  BY QueueParts, ListedParts DEF BQTypeOK
<1>2. Head(getters[q]) \in Range(getters[q]) /\ Head(getters[q]) \in Pids
  BY <1>1, HeadTailProperties, LenProperties, EmptySeq DEF Range
<1> DEFINE g == Head(getters[q])
<1>3. g \in waiting /\ syscall[g].num = "bq_get" /\ g \in Pids
  BY <1>1, <1>2 DEF Callers
<1>4. g \in Null' <=> syscall[g].arg = 0
  BY <1>3 DEF Null
<1> QED
  BY <1>4 DEF Fifo!Deliver, Store

\* A value the caller takes is stored where this call asks for it.
LEMMA TakenValue ==
    ASSUME NEW v, NEW outp, running \in Pids,
           syscall'[running].num = "bq_get", syscall'[running].arg = outp,
           Store(running, outp, v)
    PROVE  Fifo!Deliver(running, v)
<1>1. running \in Null' <=> outp = 0
  BY DEF Null
<1> QED
  BY <1>1 DEF Fifo!Deliver, Store

LEMMA StutterFifo ==
    ASSUME QueueInductive, UNCHANGED queues,
           \A p \in waiting : syscall'[p] = syscall[p]
    PROVE  FifoStep
<1>1. UNCHANGED <<registry, items, getters, putters, out>>
  BY DEF queues
<1>2. Chan' = Chan
  BY <1>1, ChanUnmoved
<1> QED
  BY <1>1, <1>2, CallsFifo DEF FifoStep, Fifo!Next, Fifo!NoEffect

LEMMA OpenFifo ==
    ASSUME QueueInductive, NEW q \in QIds, q \notin registry,
           registry' = registry \cup {q},
           items'    = [items EXCEPT ![q] = <<>>],
           getters'  = [getters EXCEPT ![q] = <<>>],
           putters'  = [putters EXCEPT ![q] = <<>>],
           out' = out,
           \A p \in waiting : syscall'[p] = syscall[p]
    PROVE  FifoStep
<1>1. UNCHANGED <<items, getters, putters>>
  BY QueueParts, ShapedQueues DEF EmptyQueue, BQTypeOK
<1>2. Chan' = Chan
  BY <1>1, ChanUnmoved
<1>3. Fifo!Open(q)
  BY <1>1, <1>2 DEF Fifo!Open
<1> QED
  BY <1>3, CallsFifo DEF FifoStep, Fifo!Next

LEMMA CloseFifo ==
    ASSUME QueueInductive, NEW q \in QIds, q \in registry, ~InUse(q), FreeQueue(q),
           UNCHANGED <<capacity, getters, putters, out>>,
           \A p \in waiting : syscall'[p] = syscall[p]
    PROVE  FifoStep
<1>1. /\ registry' = registry \ {q} /\ items'[q] = <<>>
      /\ getters[q] = <<>> /\ putters'[q] = <<>>
  BY QueueParts DEF FreeQueue, InUse, BQTypeOK
<1>2. OnlyAt(q)
  BY QueueParts DEF FreeQueue, BQTypeOK, OnlyAt
<1>3. items'[q] \o Pending(q)' = <<>>
  <2>1. Len(putters'[q]) = 0
    BY <1>1
  <2>2. Pending(q)' = <<>>
    BY <2>1 DEF Pending
  <2>3. <<>> \o <<>> = <<>>
    BY EmptySeq, ConcatEmptySeq
  <2> QED
    BY <1>1, <2>2, <2>3
<1>4. Chan' = [Chan EXCEPT ![q] = <<>>]
  BY <1>2, <1>3, ChanMoved
<1>5. Fifo!Close(q)
  BY <1>1, <1>4 DEF Fifo!Close
<1> QED
  BY <1>5, CallsFifo DEF FifoStep, Fifo!Next

LEMMA HandedFifo ==
    ASSUME QueueInductive, NEW q \in QIds, NEW v \in Values, q \in registry,
           getters[q] # <<>>, PutToGetter(q, v),
           \A p \in waiting : syscall'[p] = syscall[p]
    PROVE  FifoStep
<1>1. /\ getters' = [getters EXCEPT ![q] = Tail(@)]
      /\ Fifo!Deliver(Head(getters[q]), v)
      /\ UNCHANGED <<registry, items, putters>>
  BY HandedValue DEF PutToGetter
<1>2. Chan' = Chan
  BY <1>1, ChanUnmoved
<1>3. Fifo!Send(q, v)
  BY <1>1, <1>2 DEF Fifo!Send
<1> QED
  BY <1>3, CallsFifo DEF FifoStep, Fifo!Next

LEMMA StoredFifo ==
    ASSUME QueueInductive, NEW q \in QIds, NEW v \in Values, q \in registry,
           getters[q] = <<>>, size[q] < capacity[q], PutToBuffer(q, v),
           \A p \in waiting : syscall'[p] = syscall[p]
    PROVE  FifoStep
<1>1. /\ items'[q] = Append(items[q], v) /\ items[q] \in Seq(Values)
      /\ UNCHANGED <<registry, getters, putters, out>>
  BY QueueParts DEF PutToBuffer, BQTypeOK
<1>2. OnlyAt(q)
  BY QueueParts DEF PutToBuffer, BQTypeOK, OnlyAt
<1>3. putters[q] = <<>>
  <2>1. size[q] \in Int /\ capacity[q] \in Int /\ Shaped(q)
    BY QueueParts, ShapedQueues DEF BQTypeOK
  <2> QED
    BY <2>1 DEF Shaped
<1>4. Pending(q) = <<>> /\ Pending(q)' = <<>>
  BY <1>1, <1>3, PendingKept, NonePending
<1>5. Append(items[q], v) \in Seq(Values)
  BY <1>1, AppendProperties
<1>6. Chan[q] = items[q] /\ items'[q] \o Pending(q)' = Append(items[q], v)
  BY <1>1, <1>4, <1>5, ChanType, ConcatEmptySeq
<1>7. Chan' = [Chan EXCEPT ![q] = Append(@, v)]
  BY <1>2, <1>6, ChanMoved
<1>8. Fifo!Send(q, v)
  BY <1>1, <1>7 DEF Fifo!Send
<1> QED
  BY <1>8, CallsFifo DEF FifoStep, Fifo!Next

\* The value of a put that blocks is the last of the channel already.
LEMMA PutBlockedFifo ==
    ASSUME QueueInductive, NEW q \in QIds, NEW v \in Values, q \in registry,
           getters[q] = <<>>, running \in Pids, syscall'[running].arg = v,
           putters' = [putters EXCEPT ![q] = Append(@, running)],
           UNCHANGED <<registry, capacity, size, items, getters, out>>,
           \A p \in waiting : syscall'[p] = syscall[p]
    PROVE  FifoStep
<1>1. OnlyAt(q)
  BY QueueParts DEF BQTypeOK, OnlyAt
<1>2. Pending(q)' = Append(Pending(q), v)
  <2> DEFINE s == putters[q]
             n == Len(s)
             t == Append(s, running)
  <2>1. s \in Seq(Pids) /\ putters'[q] = t
    BY QueueParts DEF BQTypeOK
  <2>2. /\ Len(t) = n + 1 /\ n \in Nat /\ t[n + 1] = running
        /\ \A i \in 1..n : t[i] = s[i]
    BY <2>1, AppendProperties, LenProperties
  <2>3. /\ Pending(q) \in Seq(Values) /\ Len(Pending(q)) = n
        /\ \A i \in 1..n : /\ s[i] \in waiting
                           /\ Pending(q)[i] = syscall[s[i]].arg
    BY PendingValues DEF Callers
  <2>4. /\ Append(Pending(q), v) \in Seq(Values)
        /\ Len(Append(Pending(q), v)) = n + 1
        /\ \A i \in 1..n : Append(Pending(q), v)[i] = Pending(q)[i]
        /\ Append(Pending(q), v)[n + 1] = v
    BY <2>3, AppendProperties
  <2>5. Pending(q)' = [i \in 1..(n + 1) |-> syscall'[t[i]].arg]
    <3>1. Pending(q)' = [i \in 1..Len(t) |-> syscall'[t[i]].arg]
      BY <2>1 DEF Pending
    <3> QED
      BY <2>2, <3>1
  <2> HIDE DEF s, n, t
  <2>6. ASSUME NEW i \in 1..(n + 1)
        PROVE  syscall'[t[i]].arg = Append(Pending(q), v)[i]
    <3>1. CASE i = n + 1
      BY <2>2, <2>4, <3>1
    <3>2. CASE i # n + 1
      <4>1. i \in 1..n
        BY <2>2, <3>2
      <4> QED
        BY <2>2, <2>3, <2>4, <4>1
    <3> QED
      BY <3>1, <3>2
  <2>7. Append(Pending(q), v) = [i \in 1..(n + 1) |-> Append(Pending(q), v)[i]]
    BY <2>4, LenProperties
  <2> QED
    BY <2>5, <2>6, <2>7
<1>3. items'[q] \o Pending(q)' = Append(Chan[q], v)
  <2> DEFINE it == items[q]
             P  == Pending(q)
  <2>1. it \in Seq(Values) /\ P \in Seq(Values)
    BY QueueParts, PendingValues DEF BQTypeOK
  <2>2. Chan[q] = it \o P /\ items'[q] = it /\ Pending(q)' = Append(P, v)
    BY <1>2, ChanType
  <2> HIDE DEF it, P
  <2>3. it \o Append(P, v) = Append(it \o P, v)
    BY <2>1, ConcatAppend
  <2> QED
    BY <2>2, <2>3
<1>4. Chan' = [Chan EXCEPT ![q] = Append(@, v)]
  BY <1>1, <1>3, ChanMoved
<1>5. Fifo!Send(q, v)
  BY <1>4 DEF Fifo!Send
<1> QED
  BY <1>5, CallsFifo DEF FifoStep, Fifo!Next

LEMMA TakenFifo ==
    ASSUME QueueInductive, NEW q \in QIds, NEW outp, q \in registry, running \in Pids,
           items[q] # <<>>, putters[q] = <<>>, Take(q, outp),
           syscall'[running].num = "bq_get", syscall'[running].arg = outp,
           \A p \in waiting : syscall'[p] = syscall[p]
    PROVE  FifoStep
<1>1. /\ items'[q] = Tail(items[q]) /\ items[q] \in Seq(Values)
      /\ Fifo!Deliver(running, Head(items[q]))
      /\ UNCHANGED <<registry, getters, putters>>
  BY QueueParts, TakenValue DEF Take, BQTypeOK
<1>2. OnlyAt(q)
  BY QueueParts DEF Take, BQTypeOK, OnlyAt
<1>3. Pending(q) = <<>> /\ Pending(q)' = <<>>
  BY <1>1, PendingKept, NonePending
<1>4. Tail(items[q]) \in Seq(Values)
  BY <1>1, HeadTailProperties
<1>5. Chan[q] = items[q] /\ items'[q] \o Pending(q)' = Tail(items[q])
  BY <1>1, <1>3, <1>4, ChanType, ConcatEmptySeq
<1>6. Chan' = [Chan EXCEPT ![q] = Tail(@)]
  BY <1>2, <1>5, ChanMoved
<1>7. Fifo!Receive(q, running)
  BY <1>1, <1>5, <1>6 DEF Fifo!Receive
<1> QED
  BY <1>7, CallsFifo DEF FifoStep, Fifo!Next

\* The refill moves a value from a blocked put to the end of the buffer, which
\* is no step of the channel.
LEMMA ExchangedFifo ==
    ASSUME QueueInductive, NEW q \in QIds, NEW outp, q \in registry, running \in Pids,
           items[q] # <<>>, putters[q] # <<>>, TakeAndRefill(q, outp),
           syscall'[running].num = "bq_get", syscall'[running].arg = outp,
           \A p \in waiting : syscall'[p] = syscall[p]
    PROVE  FifoStep
<1> DEFINE s == putters[q]
           n == Len(s)
           a == syscall[Head(s)].arg
           P == Pending(q)
           R == Pending(q)'
<1>1. /\ Fifo!Deliver(running, Head(items[q]))
      /\ items' = [items EXCEPT ![q] = Append(Tail(@), a)]
      /\ putters' = [putters EXCEPT ![q] = Tail(@)]
      /\ UNCHANGED <<registry, capacity, size, getters>>
  BY QueueParts, RefillDone, TakenValue
<1>2. OnlyAt(q)
  BY <1>1, QueueParts DEF BQTypeOK, OnlyAt
<1>3. /\ items[q] \in Seq(Values) /\ items'[q] = Append(Tail(items[q]), a)
      /\ s \in Seq(Pids) /\ putters'[q] = Tail(s)
  BY <1>1, QueueParts DEF BQTypeOK
<1>4. /\ n \in Nat /\ n > 0 /\ Head(s) = s[1] /\ Len(Tail(s)) = n - 1
      /\ \A i \in 1..(n - 1) : Tail(s)[i] = s[i + 1]
  BY <1>3, HeadTailProperties, LenProperties, EmptySeq
<1>5. /\ P \in Seq(Values) /\ Len(P) = n
      /\ \A i \in 1..n : s[i] \in waiting /\ P[i] = syscall[s[i]].arg
  BY PendingValues DEF Callers
<1>6. R = [i \in 1..(n - 1) |-> syscall'[Tail(s)[i]].arg]
  <2>1. R = [i \in 1..Len(Tail(s)) |-> syscall'[Tail(s)[i]].arg]
    BY <1>3 DEF Pending
  <2> QED
    BY <1>4, <2>1
<1>7. a = syscall[s[1]].arg
  BY <1>4
<1> HIDE DEF s, n, a, P, R
<1>8. P # <<>> /\ a = Head(P) /\ a \in Values
  <2>1. 1 \in 1..n /\ P # <<>>
    BY <1>4, <1>5, EmptySeq
  <2> QED
    BY <1>5, <1>7, <2>1, HeadTailProperties
<1>9. R = Tail(P)
  <2>1. /\ Tail(P) \in Seq(Values) /\ Len(Tail(P)) = n - 1
        /\ \A i \in 1..(n - 1) : Tail(P)[i] = P[i + 1]
    BY <1>5, <1>8, HeadTailProperties
  <2>2. ASSUME NEW i \in 1..(n - 1) PROVE syscall'[Tail(s)[i]].arg = Tail(P)[i]
    <3>1. i + 1 \in 1..n
      BY <1>4
    <3> QED
      BY <1>4, <1>5, <2>1, <3>1
  <2>3. Tail(P) = [i \in 1..(n - 1) |-> Tail(P)[i]]
    BY <2>1, LenProperties
  <2> QED
    BY <1>6, <2>2, <2>3
<1>10. items'[q] \o R = Tail(Chan[q]) /\ Chan[q] # <<>> /\ Head(Chan[q]) = Head(items[q])
  <2> DEFINE it  == items[q]
             t   == Tail(it)
             one == <<a>>
  <2>1. /\ it \in Seq(Values) /\ it # <<>> /\ t \in Seq(Values)
        /\ one \in Seq(Values)
    BY <1>3, <1>8, HeadTailProperties
  <2>2. R \in Seq(Values)
    BY <1>5, <1>8, <1>9, HeadTailProperties
  <2>3. Chan[q] = it \o P
    BY ChanType DEF P
  <2>4. items'[q] = t \o one
    BY <1>3, <1>8, <2>1, AppendIsConcat
  <2>5. one \o R = P
    BY <1>4, <1>5, <1>8, <1>9, HeadOntoTail
  <2>6. Tail(it \o P) = t \o P /\ it \o P # <<>> /\ Head(it \o P) = Head(it)
    BY <1>5, <2>1, HeadOfConcat
  <2> HIDE DEF t, one
  <2>7. (t \o one) \o R = t \o (one \o R)
    BY <2>1, <2>2, ConcatAssociative
  <2> QED
    BY <2>3, <2>4, <2>5, <2>6, <2>7
<1>11. Chan' = [Chan EXCEPT ![q] = Tail(@)]
  BY <1>2, <1>10, ChanMoved DEF R
<1>12. Fifo!Receive(q, running)
  BY <1>1, <1>10, <1>11 DEF Fifo!Receive
<1> QED
  BY <1>12, CallsFifo DEF FifoStep, Fifo!Next

LEMMA GetBlockedFifo ==
    ASSUME QueueInductive, NEW q \in QIds, q \in registry, running \in Pids,
           items[q] = <<>>, putters[q] = <<>>,
           getters' = [getters EXCEPT ![q] = Append(@, running)],
           UNCHANGED <<registry, items, putters, out>>,
           \A p \in waiting : syscall'[p] = syscall[p]
    PROVE  FifoStep
<1>1. Chan' = Chan
  BY ChanUnmoved
<1>2. Chan[q] = <<>>
  BY ChanType, NonePending, EmptySeq, ConcatEmptySeq
<1>3. ASSUME NEW r \in QIds, NEW i \in 1..Len(getters[r])
      PROVE  getters[r][i] # running
  <2>1. getters[r] \in Seq(Pids) /\ Range(getters[r]) \subseteq Callers("bq_get")
    BY QueueParts, ListedParts DEF BQTypeOK
  <2>2. getters[r][i] \in Range(getters[r])
    BY <2>1, LenProperties DEF Range
  <2>3. running \notin waiting
    BY QueueParts, CallerPlace
  <2> QED
    BY <2>1, <2>2, <2>3 DEF Callers
<1>4. Fifo!Receive(q, running)
  BY <1>1, <1>2, <1>3 DEF Fifo!Receive
<1> QED
  BY <1>4, CallsFifo DEF FifoStep, Fifo!Next

LEMMA CreateFifo ==
    ASSUME QueueInductive, NEW q \in QIds, NEW cap \in Capacities, BqCreate(q, cap)
    PROVE  FifoStep
<1>1. \A p \in waiting : syscall'[p] = syscall[p]
  BY CallGentle DEF QueueCall
<1>2. CASE UNCHANGED queues
  BY <1>1, <1>2, StutterFifo
<1>3. CASE /\ q \notin registry
           /\ registry' = registry \cup {q}
           /\ items'    = [items EXCEPT ![q] = <<>>]
           /\ getters'  = [getters EXCEPT ![q] = <<>>]
           /\ putters'  = [putters EXCEPT ![q] = <<>>]
           /\ out' = out
  BY <1>1, <1>3, OpenFifo
<1> QED
  BY <1>2, <1>3 DEF BqCreate

LEMMA DeleteFifo ==
    ASSUME QueueInductive, NEW q \in QIds, BqDelete(q)
    PROVE  FifoStep
<1>1. \A p \in waiting : syscall'[p] = syscall[p]
  BY CallGentle DEF QueueCall
<1>2. CASE UNCHANGED queues
  BY <1>1, <1>2, StutterFifo
<1>3. CASE /\ q \in registry /\ ~InUse(q) /\ FreeQueue(q)
           /\ UNCHANGED <<capacity, getters, putters, out>>
  BY <1>1, <1>3, CloseFifo
<1> QED
  BY <1>2, <1>3 DEF BqDelete, NoSuchQueue

LEMMA PutFifo ==
    ASSUME QueueInductive, NEW q \in QIds, NEW v \in Values, BqPut(q, v)
    PROVE  FifoStep
<1>1. \A p \in waiting : syscall'[p] = syscall[p]
  BY CallGentle DEF QueueCall
<1>2. running \in Pids /\ syscall'[running].arg = v
  <2>1. v \in Int /\ Enter("bq_put", v)
    BY ArgFacts DEF BqPut
  <2> QED
    BY <2>1, QueueParts, CallerRecords
<1>3. CASE UNCHANGED queues
  BY <1>1, <1>3, StutterFifo
<1>4. CASE q \in registry /\ getters[q] # <<>> /\ PutToGetter(q, v)
  BY <1>1, <1>4, HandedFifo
<1>5. CASE /\ q \in registry /\ getters[q] = <<>> /\ size[q] < capacity[q]
           /\ PutToBuffer(q, v)
  BY <1>1, <1>5, StoredFifo
<1>6. CASE /\ q \in registry /\ getters[q] = <<>>
           /\ getters' = getters
           /\ putters' = [putters EXCEPT ![q] = Append(@, running)]
           /\ UNCHANGED <<registry, capacity, size, items, itemsUsed, out>>
  BY <1>1, <1>2, <1>6, PutBlockedFifo
<1> QED
  BY <1>3, <1>4, <1>5, <1>6, BlockCases DEF BqPut, NoSuchQueue

LEMMA GetFifo ==
    ASSUME QueueInductive, NEW q \in QIds, NEW outp \in ResultPtrs, BqGet(q, outp)
    PROVE  FifoStep
<1>1. \A p \in waiting : syscall'[p] = syscall[p]
  BY CallGentle DEF QueueCall
<1>2. /\ running \in Pids
      /\ syscall'[running].num = "bq_get" /\ syscall'[running].arg = outp
  <2>1. outp \in Int /\ Enter("bq_get", outp)
    BY ArgFacts DEF BqGet
  <2> QED
    BY <2>1, QueueParts, CallerRecords
<1>3. CASE UNCHANGED queues
  BY <1>1, <1>3, StutterFifo
<1>4. CASE /\ q \in registry /\ items[q] # <<>> /\ putters[q] # <<>>
           /\ TakeAndRefill(q, outp)
  BY <1>1, <1>2, <1>4, ExchangedFifo
<1>5. CASE q \in registry /\ items[q] # <<>> /\ putters[q] = <<>> /\ Take(q, outp)
  BY <1>1, <1>2, <1>5, TakenFifo
<1>6. CASE /\ q \in registry /\ items[q] = <<>>
           /\ IF putters[q] # <<>>
              THEN GetFromPutter(q, outp)
              ELSE Block([getters EXCEPT ![q] = Append(@, running)], putters)
  <2>1. putters[q] = <<>>
    BY <1>6, QueueParts, FullNotEmpty
  <2>2. CASE /\ getters' = [getters EXCEPT ![q] = Append(@, running)]
             /\ putters' = putters
             /\ UNCHANGED <<registry, capacity, size, items, itemsUsed, out>>
    BY <1>1, <1>2, <1>6, <2>1, <2>2, GetBlockedFifo
  <2> QED
    BY <1>3, <1>6, <2>1, <2>2, BlockCases
<1> QED
  BY <1>3, <1>4, <1>5, <1>6 DEF BqGet, NoSuchQueue

LEMMA QueuesFifo ==
    ASSUME QueueInductive, [BQNext]_bqvars PROVE FifoStep
<1>1. CASE QueueCall
  <2>1. CASE \E q \in QIds : BqDump(q)
    <3>1. UNCHANGED queues
      BY <2>1 DEF BqDump, NoSuchQueue
    <3> QED
      BY <1>1, <3>1, CallGentle, StutterFifo
  <2> QED
    BY <1>1, <2>1, CreateFifo, DeleteFifo, PutFifo, GetFifo DEF QueueCall
<1>2. CASE [Next]_vars /\ UNCHANGED queues
  <2>1. \A p \in waiting : syscall'[p] = syscall[p]
    BY <1>2, QueueParts, StepCalls DEF KernelPart, CallsKept
  <2> QED
    BY <1>2, <2>1, StutterFifo
<1> QED
  BY <1>1, <1>2 DEF BQNext, bqvars

LEMMA FifoInit == BQInit => Fifo!Init
<1> SUFFICES ASSUME BQInit PROVE Fifo!Init
  OBVIOUS
<1>1. \A q \in QIds : items[q] \o Pending(q) = <<>>
  <2>1. \A q \in QIds : items[q] = <<>> /\ putters[q] = <<>>
    BY DEF BQInit
  <2>2. <<>> \o <<>> = <<>>
    BY EmptySeq, ConcatEmptySeq
  <2> QED
    BY <2>1, <2>2, NonePending
<1>2. Chan = [q \in QIds |-> <<>>]
  BY <1>1 DEF Chan
<1>3. registry = {} /\ getters = [q \in QIds |-> <<>>]
  BY DEF BQInit
<1>4. out \in [Pids -> Values \cup {0}]
  BY DEF BQInit
<1>5. Null = {}
  BY DEF BQInit, Init, Null
<1> QED
  BY <1>2, <1>3, <1>4, <1>5 DEF Fifo!Init

-----------------------------------------------------------------------------
(* The theorems. *)

\* For every number of processes, queues and blocks: the fields of a queue and
\* the values at the result pointers keep their types; above all a value that a
\* blocked put left in its arguments is still a value when a get collects it.
THEOREM QueuesTypeCorrect == BQSpec => []BQTypeOK
<1>1. QueueInductive => BQTypeOK
  BY DEF QueueInductive, BuffersOK
<1> QED
  BY <1>1, QueuesHold, PTL

\* For every capacity: producers are blocked on full queues only, consumers on
\* empty ones only, and the branch of internal_bq_get that looks for a blocked
\* producer behind an empty buffer is never taken.
THEOREM BuffersAlwaysShaped == BQSpec => []QueueShape
<1>1. QueueInductive => QueueShape
  BY DEF QueueInductive, BuffersOK
<1> QED
  BY <1>1, QueuesHold, PTL

\* For every number of processes and queues: the two wait lists of the queues
\* hold exactly the processes blocked in put and in get, each once, whatever
\* sleeps, waits and exits happen in between.
THEOREM WaitListsMatchCalls == BQSpec => []WaitersMatchCalls
<1>1. QueueInductive => WaitersMatchCalls
  BY DEF QueueInductive
<1> QED
  BY <1>1, QueuesHold, PTL

\* For every size of the item pool: the blocks out of it are those that hold the
\* values of registered queues.
THEOREM ItemsAlwaysCounted == BQSpec => []ItemAccounting
<1>1. QueueInductive => ItemAccounting
  BY DEF QueueInductive, BuffersOK, ItemsInPool
<1> QED
  BY <1>1, QueuesHold, PTL

\* For every number of processes: with queue calls among its calls, too, the
\* kernel keeps each PCB in one place and each timer item to its sleeper.
THEOREM QueuesKeepPlaces == BQSpec => [](OnePlace /\ TimersMatchSleepers)
<1>1. QueueInductive => OnePlace /\ TimersMatchSleepers
  BY DEF QueueInductive, KernelPart, Inductive
<1> QED
  BY <1>1, QueuesHold, PTL

\* For every number of processes and queues: the PCBPtr blocks out of their pool
\* are one for each child link and one for each process in a wait list.
THEOREM QueuesKeepPtrs == BQSpec => []PtrAccounting
<1>1. QueueInductive => PtrAccounting
  <2> SUFFICES ASSUME QueueInductive PROVE PtrAccounting
    OBVIOUS
  <2>0. TypeOK
    BY QueueParts
  <2>1. /\ ptrs \in Int /\ Cardinality(Linked) \in Int
        /\ Cardinality(QueueCallers) \in Nat
    BY <2>0, OtherPtrsInt, FiniteCallers
  <2>2. ptrs - Cardinality(Linked) = Cardinality(QueueCallers)
    BY QueueParts DEF QueuePtrs, OtherPtrs
  <2>3. ptrs = Cardinality(Linked) + Cardinality(QueueCallers)
    BY <2>1, <2>2
  <2> QED
    BY <2>3 DEF PtrAccounting, Linked, QueueCallers
<1> QED
  BY <1>1, QueuesHold, PTL

\* For every number of processes and queues: no put and no get wakes a process
\* that sleeps or waits for a child.
THEOREM QueuesWakeForCause == BQSpec => WokenForCause
<1>1. QueueInductive /\ [BQNext]_bqvars =>
         [\A p \in waiting \ waiting' :
             /\ syscall[p].num = "sleep" =>
                   \E i \in 1..Len(timers) : timers[i].pid = p /\ timers[i].left <= 1
             /\ syscall[p].num = "wait" =>
                   /\ parent[running] = p /\ status'[running] = "Zombie"
                   /\ syscall[p].arg \in {0, running}]_vars
  <2> SUFFICES ASSUME QueueInductive, [BQNext]_bqvars, NEW p \in waiting \ waiting'
               PROVE  Cause(p)
    BY DEF Cause
  <2>1. CASE QueueCall
    <3>1. syscall[p].num \in {"bq_put", "bq_get"}
      BY <2>1, CallGentle DEF QueueCallers
    <3> QED
      BY <3>1 DEF Cause
  <2>2. CASE [Next]_vars
    BY <2>2, QueueParts, StepCause DEF KernelPart
  <2> QED
    BY <2>1, <2>2 DEF BQNext, bqvars
<1> QED
  BY <1>1, QueuesHold, PTL DEF BQSpec, WokenForCause

\* Nor do the queues touch the family: parent and children stay inverse to each
\* other, and still only an init can be blocked past a zombie it waits for.
THEOREM QueuesKeepFamily == BQSpec => [](FamilyTree /\ MissedOnlyByInit)
<1>1. QueueInductive => FamilyTree /\ MissedOnlyByInit
  BY QueueParts DEF KernelPart
<1> QED
  BY <1>1, QueuesHold, PTL

\* With processes that leave the CPU and come back through the queues: no timer is
\* overdue, since a queue call never touches the timer list.
THEOREM QueuesOversleepNothing == BQSpec => []NoOversleep
<1> DEFINE I == QueueInductive /\ InOrder /\ NoOversleep
<1>1. BQInit => InOrder /\ NoOversleep
  BY DEF BQInit, Init, InOrder, NoOversleep
<1>2. I /\ [BQNext]_bqvars => InOrder' /\ NoOversleep'
  <2> SUFFICES ASSUME I, [BQNext]_bqvars PROVE InOrder' /\ NoOversleep'
    OBVIOUS
  <2>1. CASE QueueCall
    BY <2>1, CallClock, UnmovedOnTime
  <2>2. CASE [Next]_vars
    BY <2>2, QueueParts, StepOnTime DEF KernelPart, Inductive
  <2> QED
    BY <2>1, <2>2 DEF BQNext, bqvars
<1> QED
  BY <1>1, <1>2, QueuesHold, PTL DEF BQSpec

\* A put or get that blocks dispatches the head of the ready list, and nobody is
\* served while the CPU is idle: with queues as well the CPU is idle only with
\* nobody ready.
THEOREM QueuesNeverIdlePastReady == BQSpec => []WorkConserving
<1>1. BQInit => WorkConserving
  BY DEF BQInit, Init, WorkConserving
<1>2. QueueInductive /\ WorkConserving /\ [BQNext]_bqvars => WorkConserving'
  <2> SUFFICES ASSUME QueueInductive, WorkConserving, [BQNext]_bqvars
               PROVE  WorkConserving'
    OBVIOUS
  <2>1. CASE QueueCall
    BY <2>1, CallClock
  <2>2. CASE [Next]_vars
    BY <2>2, QueueParts, StepConserves DEF KernelPart, Inductive
  <2> QED
    BY <2>1, <2>2 DEF BQNext, bqvars
<1> QED
  BY <1>1, <1>2, QueuesHold, PTL DEF BQSpec

\* The wake-ups of the queues, too, dispatch nobody who has exited: a process
\* that exits is on no wait list.
THEOREM QueuesWakeNoDead == BQSpec => NoResurrection
<1>1. QueueInductive /\ [BQNext]_bqvars =>
         [\A p \in 0..(lastPid - 1) :
             status[p] \in {"Zombie", "Free"} =>
                status'[p] \in {status[p], "Free"}]_vars
  <2> SUFFICES ASSUME QueueInductive, [BQNext]_bqvars, NEW p \in 0..(lastPid - 1),
                      status[p] \in {"Zombie", "Free"}
               PROVE  status'[p] \in {status[p], "Free"}
    OBVIOUS
  <2>0. TypeOK /\ Inductive
    BY QueueParts DEF KernelPart, Inductive
  <2>1. CASE QueueCall
    <3>1. FamilyKept
      BY <2>1, CallGentle
    <3>2. p \in Pids
      BY <2>0, KernelAssumption DEF TypeOK, Pids
    <3> QED
      BY <3>1, <3>2 DEF FamilyKept, Live
  <2>2. CASE [Next]_vars
    BY <2>0, <2>2, StepFate
  <2> QED
    BY <2>1, <2>2 DEF BQNext, bqvars
<1> QED
  BY <1>1, QueuesHold, PTL DEF BQSpec, NoResurrection

\* For every number of processes, queues, blocks and capacities: the queues
\* implement the FIFO channel.  The order in which values arrive is the order in
\* which the puts were called, although a value may wait in the arguments of a
\* blocked process before it reaches the buffer.
THEOREM QueuesAreFifo == BQSpec => ImplementsFifo
<1>1. QueueInductive /\ [BQNext]_bqvars => [Fifo!Next]_Fifo!fvars
  BY QueuesFifo DEF FifoStep
<1> QED
  BY <1>1, FifoInit, QueuesHold, PTL DEF BQSpec, ImplementsFifo, Fifo!Spec
=============================================================================
