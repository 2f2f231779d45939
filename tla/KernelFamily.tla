---------------------------- MODULE KernelFamily ----------------------------
(***************************************************************************)
(* The family tree, the PCBPtr pool and the causes of a wake-up, for every *)
(* value of the constants.  The steps of the kernel fall into five kinds:  *)
(* a new child, a death, the reaping of a zombie, a new init process, and  *)
(* everything else, which leaves the family and the zombies alone.         *)
(***************************************************************************)
EXTENDS KernelSafety, FiniteSetTheorems

Live == {"Running", "Ready", "Waiting"}

\* What every step but a birth, a death and a reaping does.
FamilyKept ==
    /\ UNCHANGED <<initPcb, lastPid, parent, children, zombie>>
    /\ \A p \in Pids : \/ status'[p] = status[p]
                       \/ status[p] \in Live /\ status'[p] \in Live

Quiet == FamilyKept /\ ptrs' = ptrs

Birth == running \in Pids /\ lastPid \in Pids /\ \E lost \in BOOLEAN : AddChild(lost)

Death ==
    /\ running \in Pids
    /\ running # initPcb \/ children[running] = {}
    /\ Die

Burial(i) ==
    /\ i \in 1..Len(zombie) /\ running \in Pids
    /\ parent[zombie[i]] = running
    /\ ReapAt(i)

NewInit ==
    /\ lastPid \in Pids
    /\ initPcb'  = lastPid
    /\ lastPid'  = lastPid + 1
    /\ status'   = [status EXCEPT ![lastPid] = "Running"]
    /\ parent'   = [parent EXCEPT ![lastPid] = NoProc]
    /\ children' = [children EXCEPT ![lastPid] = {}]
    /\ UNCHANGED <<zombie, ptrs>>

FamilyStep ==
    Quiet \/ Birth \/ Death \/ (\E i \in 1..Len(zombie) : Burial(i)) \/ NewInit

-----------------------------------------------------------------------------
(* The kinds of steps. *)

LEMMA HeadInRange ==
    ASSUME NEW S, NEW s \in Seq(S), s # <<>> PROVE Head(s) \in Range(s)
<1>1. Len(s) \in Nat \ {0} /\ DOMAIN s = 1..Len(s)
  BY LenProperties, EmptySeq
<1>2. 1 \in DOMAIN s /\ Head(s) = s[1]
  BY <1>1
<1> QED
  BY <1>2 DEF Range

\* internal_schedule exchanges two processes that can run; it touches no other.
LEMMA ScheduleFate ==
    ASSUME NEW run \in Pids \cup {NoProc}, NEW rdy \in Seq(Pids),
           NEW st \in [Pids -> Statuses], Schedule(run, rdy, st),
           run # NoProc => st[run] \in {"Running", "Ready"},
           \A p \in Range(rdy) : st[p] = "Ready"
    PROVE  \A p \in Pids : \/ status'[p] = st[p]
                           \/ /\ st[p] \in {"Running", "Ready"}
                              /\ status'[p] \in {"Running", "Ready"}
<1>1. CASE rdy = <<>>
  BY <1>1 DEF Schedule
<1>2. CASE rdy # <<>>
  <2> DEFINE next == Head(rdy)
  <2>1. next \in Pids /\ next \in Range(rdy)
    BY <1>2, HeadTailProperties, HeadInRange
  <2>2. status' = Mark(Mark(st, {run}, "Ready"), {next}, "Running")
    BY <1>2 DEF Schedule
  <2> HIDE DEF next
  <2>3. \A p \in Pids : status'[p] = IF p = next THEN "Running"
                                     ELSE IF p = run THEN "Ready" ELSE st[p]
    BY <2>2 DEF Mark
  <2> QED
    BY <2>1, <2>3, PidFacts
<1> QED
  BY <1>1, <1>2

LEMMA UnmovedKept ==
    ASSUME UNCHANGED <<family, zombie, status>> PROVE Quiet
BY DEF Quiet, family, FamilyKept

LEMMA AnswerKept == ASSUME NEW v, Answer(v) PROVE Quiet
BY UnmovedKept DEF Answer, lists

LEMMA StopKept == ASSUME NEW mode, Stop(mode) PROVE Quiet
BY UnmovedKept DEF Stop, lists

LEMMA PreemptKept == ASSUME TypeOK, OnePlace, Preempt PROVE Quiet
<1>1. running \in Pids
  BY EnterType DEF Preempt
<1>2. \A p \in Range(ready) : status[p] = "Ready"
  BY RangeOfSeq DEF OnePlace, TypeOK
<1>3. Schedule(running, ready, status) /\ UNCHANGED <<family, zombie>>
  BY DEF Preempt
<1>4. \A p \in Pids : \/ status'[p] = status[p]
                      \/ /\ status[p] \in {"Running", "Ready"}
                         /\ status'[p] \in {"Running", "Ready"}
  BY <1>1, <1>2, <1>3, CallerPlace, ScheduleFate DEF TypeOK
<1> QED
  BY <1>3, <1>4 DEF Quiet, family, FamilyKept, Live

LEMMA NewChildKind ==
    ASSUME TypeOK, NEW num, NEW lost \in BOOLEAN, NewChild(num, lost)
    PROVE  Quiet \/ Birth
<1>0. running \in Pids
  BY EnterType DEF NewChild
<1>1. lastPid \in Pids
  BY KernelAssumption DEF NewChild, TypeOK, Pids
<1>2. Stop("null_pcb") \/ Stop("null_pcb_ptr") \/ AddChild(lost)
  BY DEF NewChild
<1> QED
  BY <1>0, <1>1, <1>2, StopKept DEF Birth

LEMMA ExitKind == ASSUME TypeOK, Exit PROVE Quiet \/ Death
<1>1. running \in Pids
  BY EnterType DEF Exit
<1>2. Stop("hung") \/ ((running # initPcb \/ children[running] = {}) /\ Die)
  BY DEF Exit
<1> QED
  BY <1>1, <1>2, StopKept DEF Death

LEMMA BlockKept ==
    ASSUME TypeOK, OnePlace, running \in Pids, BlockCaller,
           UNCHANGED <<family, zombie>>
    PROVE  Quiet
<1>1. \A p \in Pids : status'[p] = IF p = running THEN "Waiting" ELSE status[p]
  BY DEF BlockCaller, TypeOK
<1> QED
  BY <1>1, CallerPlace DEF Quiet, family, FamilyKept, Live

LEMMA WaitKind ==
    ASSUME TypeOK, OnePlace, NEW w \in Pids, Wait(w)
    PROVE  Quiet \/ \E i \in 1..Len(zombie) : Burial(i)
<1>1. running \in Pids
  BY EnterType DEF Wait, Pids
<1>2. CASE Answer(DSOS_EWAIT) \/ Stop("null_ready")
  BY <1>2, AnswerKept, StopKept
<1>3. CASE \E i \in Awaited(w) : ReapAt(i)
  BY <1>1, <1>3 DEF Awaited, Burial
<1>4. CASE GiveUpCpu /\ BlockCaller /\ UNCHANGED <<zombie, timers, family, ret>>
  BY <1>1, <1>4, BlockKept
<1> QED
  BY <1>2, <1>3, <1>4 DEF Wait

LEMMA SleepKept ==
    ASSUME TypeOK, OnePlace, NEW c \in SleepArgs, Sleep(c) PROVE Quiet
<1>1. running \in Pids
  BY EnterType DEF Sleep
<1>2. CASE Answer(DSOS_ESLEEP)
  BY <1>2, AnswerKept
<1>3. CASE GiveUpCpu /\ BlockCaller /\ UNCHANGED <<zombie, family, ret>>
  BY <1>1, <1>3, BlockKept
<1> QED
  BY <1>2, <1>3 DEF Sleep

\* A tick makes ready only what was waiting.
LEMMA TickKept ==
    ASSUME TypeOK, OnePlace, TimersMatchSleepers, NEW k \in 0..Len(timers),
           ScheduleWoken(k)
    PROVE  Quiet
<1> DEFINE W   == Range(Woken(k))
           rdy == ready \o Woken(k)
           st  == Mark(status, W, "Ready")
<1>1. Woken(k) \in Seq(Pids) /\ W \subseteq waiting
  BY WokenAreSleepers
<1>2. rdy \in Seq(Pids) /\ Range(rdy) = Range(ready) \cup W
  BY <1>1, ConcatProperties, RangeConcatenation DEF TypeOK
<1>3. st \in [Pids -> Statuses]
  BY MarkType, StatusValues DEF TypeOK
<1>4. \A p \in Pids : st[p] = IF p \in W THEN "Ready" ELSE status[p]
  BY DEF Mark
<1>5. Schedule(running, rdy, st) /\ UNCHANGED <<zombie, family>>
  BY DEF ScheduleWoken
<1> HIDE DEF W, rdy, st
<1>6. \A p \in Range(rdy) : st[p] = "Ready"
  <2>1. Range(rdy) \subseteq Pids
    BY <1>2, RangeOfSeq
  <2> QED
    BY <1>2, <1>4, <2>1 DEF OnePlace
<1>7. running # NoProc => st[running] \in {"Running", "Ready"}
  BY <1>1, <1>4, CallerPlace DEF TypeOK
<1>8. \A p \in Pids : \/ status'[p] = st[p]
                      \/ /\ st[p] \in {"Running", "Ready"}
                         /\ status'[p] \in {"Running", "Ready"}
  <2>1. running \in Pids \cup {NoProc}
    BY DEF TypeOK
  <2> QED
    BY <1>2, <1>3, <1>5, <1>6, <1>7, <2>1, ScheduleFate
<1>9. \A p \in W : status[p] = "Waiting"
  BY <1>1 DEF OnePlace, TypeOK
<1> QED
  BY <1>4, <1>5, <1>8, <1>9 DEF Quiet, family, FamilyKept, Live

LEMMA IdleRestartKind == ASSUME TypeOK, IdleRestart PROVE Quiet \/ NewInit
<1>1. lastPid \in Pids /\ zombie' = zombie
  BY KernelAssumption DEF IdleRestart, TypeOK, Pids
<1>2. CASE UNCHANGED <<running, status, family>>
  BY <1>1, <1>2, UnmovedKept
<1>3. CASE ~UNCHANGED <<running, status, family>>
  BY <1>1, <1>3 DEF IdleRestart, NewInit
<1> QED
  BY <1>2, <1>3

LEMMA StepKind == ASSUME Inductive, [Next]_vars PROVE FamilyStep
<1>0. TypeOK /\ OnePlace /\ TimersMatchSleepers
  BY DEF Inductive
<1>1. CASE UserCall
  BY <1>0, <1>1, PreemptKept, AnswerKept, StopKept, NewChildKind, ExitKind,
     WaitKind, SleepKept
     DEF UserCall, Spawn, Fork, Unimplemented, Shutdown, FamilyStep
<1>2. CASE Interrupt
  BY <1>0, <1>2, TickKept, IdleRestartKind
     DEF Interrupt, Tick, IdleWake, FamilyStep
<1>3. CASE UNCHANGED vars
  BY <1>3, UnmovedKept DEF vars, lists, FamilyStep
<1> QED
  BY <1>1, <1>2, <1>3 DEF Next

-----------------------------------------------------------------------------
(* What each kind of step does, process by process. *)

LEMMA AllocPids == Alloc \subseteq Pids
BY DEF Alloc

\* The family and the zombies are as they were.
LEMMA KeptFacts ==
    ASSUME FamilyKept
    PROVE  /\ Alloc' = Alloc
           /\ \A p \in Pids : status'[p] = "Zombie" <=> status[p] = "Zombie"
           /\ UNCHANGED <<initPcb, lastPid, parent, children, zombie>>
<1>1. \A p \in Pids : /\ status'[p] = "Free" <=> status[p] = "Free"
                      /\ status'[p] = "Zombie" <=> status[p] = "Zombie"
  BY DEF FamilyKept, Live
<1> QED
  BY <1>1 DEF FamilyKept, Alloc

\* The newborn is a process that was on no list and in no pool's records.
LEMMA BirthFacts ==
    ASSUME TypeOK, OnePlace, Birth
    PROVE  /\ lastPid \in Pids /\ lastPid \notin Alloc
           /\ running \in Alloc /\ status[running] # "Zombie"
           /\ Alloc' = Alloc \cup {lastPid}
           /\ \A p \in Pids : status'[p] = "Zombie" <=> status[p] = "Zombie"
           /\ \A p \in Pids : parent'[p] = IF p = lastPid THEN running ELSE parent[p]
           /\ \A p \in Pids :
                 children'[p] = IF p = running THEN children[p] \cup {lastPid}
                                ELSE IF p = lastPid THEN {} ELSE children[p]
           /\ ptrs' = ptrs + 1
           /\ UNCHANGED <<initPcb, zombie, waiting>>
<1>1. lastPid \in Pids /\ running \in Pids
  BY DEF Birth
<1>2. status[lastPid] = "Free"
  BY <1>1, PidFacts DEF OnePlace
<1>3. status[running] \in {"Running", "Ready"}
  BY <1>1, CallerPlace
<1>4. \A p \in Pids : status'[p] = IF p = lastPid THEN "Ready" ELSE status[p]
  BY <1>1 DEF Birth, AddChild, TypeOK
<1>5. Alloc' = Alloc \cup {lastPid}
  BY <1>1, <1>4 DEF Alloc
<1>6. \A p \in Pids : parent'[p] = IF p = lastPid THEN running ELSE parent[p]
  BY <1>1 DEF Birth, AddChild, TypeOK
<1>7. \A p \in Pids :
         children'[p] = IF p = running THEN children[p] \cup {lastPid}
                        ELSE IF p = lastPid THEN {} ELSE children[p]
  BY <1>1, <1>2, <1>3 DEF Birth, AddChild, TypeOK
<1>8. ptrs' = ptrs + 1 /\ UNCHANGED <<initPcb, zombie, waiting>>
  BY DEF Birth, AddChild
<1> QED
  BY <1>1, <1>2, <1>3, <1>4, <1>5, <1>6, <1>7, <1>8 DEF Alloc

\* The dying process is a zombie afterwards, and nobody else becomes one.
LEMMA DeathFacts ==
    ASSUME TypeOK, OnePlace, Death
    PROVE  /\ running \in Alloc
           /\ Alloc' = Alloc
           /\ \A p \in Pids :
                 status'[p] = "Zombie" <=> p = running \/ status[p] = "Zombie"
           /\ \A p \in Pids :
                 parent'[p] = IF p \in children[running] THEN initPcb ELSE parent[p]
           /\ \A p \in Pids :
                 children'[p] = IF p = running THEN {}
                                ELSE IF p = initPcb
                                     THEN children[p] \cup children[running]
                                     ELSE children[p]
           /\ UNCHANGED <<initPcb, ptrs>>
           /\ Range(zombie') = Range(zombie) \cup {running}
           /\ waiting' = waiting \ (IF WaitsFor(parent[running], running)
                                    THEN {parent[running]} ELSE {})
<1> DEFINE par   == parent[running]
           woken == IF WaitsFor(par, running) THEN {par} ELSE {}
           rdy   == IF woken = {} THEN ready ELSE Append(ready, par)
           st    == Mark(Mark(status, {running}, "Zombie"), woken, "Ready")
<1>1. /\ zombie' = Append(zombie, running)
      /\ waiting' = waiting \ woken
      /\ Schedule(NoProc, rdy, st)
      /\ UNCHANGED <<initPcb, ptrs>>
      /\ Reparent
      /\ running \in Pids
  BY DEF Death, Die
<1>2. woken # {} => par \in Pids /\ status[par] = "Waiting" /\ woken = {par}
  BY <1>1 DEF WaitsFor, TypeOK
<1>3. rdy \in Seq(Pids) /\ Range(rdy) = Range(ready) \cup woken
  <2>1. CASE woken = {}
    BY <2>1 DEF TypeOK
  <2>2. CASE woken # {}
    <3>1. Append(ready, par) \in Seq(Pids)
      BY <1>2, <2>2, AppendProperties DEF TypeOK
    <3>2. Range(Append(ready, par)) = Range(ready) \cup {par}
      BY <1>2, <2>2, AppendRange DEF TypeOK
    <3> QED
      BY <1>2, <2>2, <3>1, <3>2
  <2> QED
    BY <2>1, <2>2
<1>4. /\ st \in [Pids -> Statuses]
      /\ \A p \in Pids : st[p] = IF p \in woken THEN "Ready"
                                 ELSE IF p = running THEN "Zombie" ELSE status[p]
  <2>1. Mark(status, {running}, "Zombie") \in [Pids -> Statuses]
    BY MarkType, StatusValues DEF TypeOK
  <2>2. st \in [Pids -> Statuses]
    BY <2>1, MarkType, StatusValues
  <2> QED
    BY <2>2 DEF Mark
<1> HIDE DEF woken, rdy, st
<1>5. status[running] \in {"Running", "Ready"} /\ running \notin Range(ready)
  BY <1>1, CallerPlace
<1>6. \A p \in Range(rdy) : st[p] = "Ready"
  <2> SUFFICES ASSUME NEW p \in Range(rdy) PROVE st[p] = "Ready"
    OBVIOUS
  <2>1. p \in Pids
    BY <1>3, RangeOfSeq
  <2>2. CASE p \in woken
    BY <1>4, <2>1, <2>2
  <2>3. CASE p \notin woken
    <3>1. p \in Range(ready) /\ p # running
      BY <1>3, <1>5, <2>3
    <3> QED
      BY <1>4, <2>1, <2>3, <3>1 DEF OnePlace
  <2> QED
    BY <2>2, <2>3
<1>7. \A p \in Pids : \/ status'[p] = st[p]
                      \/ /\ st[p] \in {"Running", "Ready"}
                         /\ status'[p] \in {"Running", "Ready"}
  BY <1>1, <1>3, <1>4, <1>6, ScheduleFate
<1>8. running \notin woken
  BY <1>2, <1>5
<1>9. \A p \in Pids : /\ status'[p] = "Zombie" <=> p = running \/ status[p] = "Zombie"
                      /\ status'[p] = "Free" <=> status[p] = "Free"
  <2> SUFFICES ASSUME NEW p \in Pids
               PROVE  /\ status'[p] = "Zombie" <=> p = running \/ status[p] = "Zombie"
                      /\ status'[p] = "Free" <=> status[p] = "Free"
    OBVIOUS
  <2>1. st[p] = IF p \in woken THEN "Ready"
                ELSE IF p = running THEN "Zombie" ELSE status[p]
    BY <1>4
  <2>2. status'[p] = st[p] \/ (st[p] \in {"Running", "Ready"}
                               /\ status'[p] \in {"Running", "Ready"})
    BY <1>7
  <2>3. CASE p \in woken
    BY <1>2, <1>8, <2>1, <2>2, <2>3
  <2>4. CASE p \notin woken
    BY <1>5, <2>1, <2>2, <2>4
  <2> QED
    BY <2>3, <2>4
<1>10. Alloc' = Alloc /\ running \in Alloc
  BY <1>1, <1>5, <1>9 DEF Alloc
<1>11. \A p \in Pids :
          parent'[p] = IF p \in children[running] THEN initPcb ELSE parent[p]
  BY <1>1 DEF Reparent
<1>12. \A p \in Pids :
          children'[p] = IF p = running THEN {}
                         ELSE IF p = initPcb
                              THEN children[p] \cup children[running]
                              ELSE children[p]
  BY <1>1 DEF Reparent, TypeOK
<1>13. Range(zombie') = Range(zombie) \cup {running}
  BY <1>1, AppendRange DEF TypeOK
<1> QED
  BY <1>1, <1>9, <1>10, <1>11, <1>12, <1>13 DEF woken

\* The block of the zombie and the link to it are free again.
LEMMA BurialFacts ==
    ASSUME TypeOK, OnePlace, NEW i \in 1..Len(zombie), Burial(i)
    PROVE  LET child == zombie[i] IN
           /\ child \in Pids /\ status[child] = "Zombie" /\ child # running
           /\ running \in Alloc /\ status[running] # "Zombie"
           /\ parent[child] = running
           /\ Alloc' = Alloc \ {child}
           /\ \A p \in Pids : p # child => status'[p] = status[p]
           /\ \A p \in Pids :
                 children'[p] = IF p = running THEN children[p] \ {child}
                                ELSE children[p]
           /\ ptrs' = IF child \in children[running] THEN ptrs - 1 ELSE ptrs
           /\ UNCHANGED <<initPcb, parent, waiting>>
           /\ Range(zombie') = Range(zombie) \ {child}
<1> DEFINE child == zombie[i]
<1>1. child \in Pids /\ child \in Range(zombie)
  <2>1. DOMAIN zombie = 1..Len(zombie)
    BY LenProperties DEF TypeOK
  <2> QED
    BY <2>1, ElementOfSeq DEF TypeOK, Range
<1>2. running \in Pids /\ parent[child] = running
  BY DEF Burial
<1>3. Range(zombie') = Range(zombie) \ {child}
  BY RemoveAtInjective DEF Burial, ReapAt, TypeOK, OnePlace
<1>4. \A p \in Pids : status'[p] = IF p = child THEN "Free" ELSE status[p]
  BY <1>1 DEF Burial, ReapAt, TypeOK
<1>5. /\ children' = [children EXCEPT ![running] = @ \ {child}]
      /\ ptrs' = IF child \in children[running] THEN ptrs - 1 ELSE ptrs
      /\ UNCHANGED <<initPcb, parent, waiting>>
  BY DEF Burial, ReapAt, Unlink
<1> HIDE DEF child
<1>6. status[child] = "Zombie" /\ child # running
  BY <1>1, <1>2, CallerPlace DEF OnePlace
<1>7. running \in Alloc /\ status[running] # "Zombie"
  BY <1>2, CallerPlace DEF Alloc
<1>8. Alloc' = Alloc \ {child}
  BY <1>4 DEF Alloc
<1>9. \A p \in Pids : children'[p] = IF p = running THEN children[p] \ {child}
                                     ELSE children[p]
  BY <1>2, <1>5 DEF TypeOK
<1> QED
  BY <1>1, <1>2, <1>3, <1>4, <1>5, <1>6, <1>7, <1>8, <1>9 DEF child

LEMMA NewInitFacts ==
    ASSUME TypeOK, OnePlace, NewInit
    PROVE  /\ lastPid \in Pids /\ lastPid \notin Alloc
           /\ initPcb' = lastPid
           /\ Alloc' = Alloc \cup {lastPid}
           /\ \A p \in Pids : status'[p] = "Zombie" <=> status[p] = "Zombie"
           /\ \A p \in Pids : parent'[p] = IF p = lastPid THEN NoProc ELSE parent[p]
           /\ \A p \in Pids : children'[p] = IF p = lastPid THEN {} ELSE children[p]
           /\ UNCHANGED <<ptrs, zombie>>
<1>1. lastPid \in Pids
  BY DEF NewInit
<1>2. status[lastPid] = "Free"
  BY <1>1, PidFacts DEF OnePlace
<1>3. \A p \in Pids : status'[p] = IF p = lastPid THEN "Running" ELSE status[p]
  BY <1>1 DEF NewInit, TypeOK
<1>4. Alloc' = Alloc \cup {lastPid}
  BY <1>1, <1>3 DEF Alloc
<1>5. \A p \in Pids : parent'[p] = IF p = lastPid THEN NoProc ELSE parent[p]
  BY <1>1 DEF NewInit, TypeOK
<1>6. \A p \in Pids : children'[p] = IF p = lastPid THEN {} ELSE children[p]
  BY <1>1 DEF NewInit, TypeOK
<1> QED
  BY <1>1, <1>2, <1>3, <1>4, <1>5, <1>6 DEF NewInit, Alloc

-----------------------------------------------------------------------------
(* The family tree. *)

\* FamilyTree over its own values, so that its parts can be cited one by one.
LEMMA FamilyTreeParts ==
    ASSUME FamilyTree
    PROVE  /\ initPcb \in Alloc /\ parent[initPcb] = NoProc
           /\ \A c \in Alloc : parent[c] # NoProc => parent[c] \in Alloc
           /\ \A c \in Alloc : parent[c] # NoProc => c \in children[parent[c]]
           /\ \A c \in Alloc : parent[c] # NoProc /\ status[parent[c]] = "Zombie"
                                  => parent[parent[c]] = NoProc
           /\ \A p \in Alloc : \A c \in children[p] : c \in Alloc /\ parent[c] = p
BY DEF FamilyTree

LEMMA InitTree == Init => FamilyTree
<1> SUFFICES ASSUME Init PROVE FamilyTree
  OBVIOUS
<1>1. 0 \in Pids
  BY KernelAssumption DEF Pids
<1>2. Alloc \subseteq Pids /\ 0 \in Alloc
  BY <1>1 DEF Init, Alloc
<1>3. \A p \in Pids : parent[p] = NoProc /\ children[p] = {}
  BY DEF Init
<1>4. initPcb = 0
  BY DEF Init
<1> QED
  BY <1>2, <1>3, <1>4 DEF FamilyTree

LEMMA KeptTree == ASSUME FamilyTree, FamilyKept PROVE FamilyTree'
<1>1. /\ Alloc' = Alloc
      /\ \A p \in Alloc : status'[p] = "Zombie" <=> status[p] = "Zombie"
      /\ UNCHANGED <<initPcb, parent, children>>
  BY KeptFacts, AllocPids
<1> QED
  BY <1>1 DEF FamilyTree

\* The newborn was nobody's child and nobody's parent.
LEMMA BirthTree == ASSUME TypeOK, OnePlace, FamilyTree, Birth PROVE FamilyTree'
<1> DEFINE new == lastPid
<1>1. /\ new \in Pids /\ new \notin Alloc
      /\ running \in Alloc /\ status[running] # "Zombie"
      /\ Alloc' = Alloc \cup {new}
      /\ \A p \in Pids : status'[p] = "Zombie" <=> status[p] = "Zombie"
      /\ \A p \in Pids : parent'[p] = IF p = new THEN running ELSE parent[p]
      /\ \A p \in Pids :
            children'[p] = IF p = running THEN children[p] \cup {new}
                           ELSE IF p = new THEN {} ELSE children[p]
      /\ initPcb' = initPcb
  BY BirthFacts
<1> HIDE DEF new
<1>2. \A c \in Alloc : /\ c \in Pids /\ c # new
                       /\ parent'[c] = parent[c]
                       /\ children[c] \subseteq children'[c]
                       /\ children'[c] \subseteq children[c] \cup {new}
  BY <1>1, AllocPids
<1>3. initPcb' \in Alloc' /\ parent'[initPcb'] = NoProc
  BY <1>1, <1>2, FamilyTreeParts
<1>4. ASSUME NEW c \in Alloc', parent'[c] # NoProc
      PROVE  /\ parent'[c] \in Alloc'
             /\ c \in children'[parent'[c]]
             /\ status'[parent'[c]] = "Zombie" => parent'[parent'[c]] = NoProc
  <2>1. CASE c = new
    BY <1>1, <2>1, AllocPids
  <2>2. CASE c # new
    <3>1. c \in Alloc /\ parent'[c] = parent[c]
      BY <1>1, <1>2, <2>2
    <3>2. parent[c] \in Alloc /\ c \in children[parent[c]]
      BY <1>4, <3>1, FamilyTreeParts
    <3>3. status[parent[c]] = "Zombie" => parent[parent[c]] = NoProc
      BY <1>4, <3>1, FamilyTreeParts
    <3> QED
      BY <1>1, <1>2, <3>1, <3>2, <3>3
  <2> QED
    BY <2>1, <2>2
<1>5. ASSUME NEW p \in Alloc', NEW c \in children'[p]
      PROVE  c \in Alloc' /\ parent'[c] = p
  <2>1. CASE p = new
    BY <1>1, <1>5, <2>1
  <2>2. CASE p # new /\ c = new
    <3>1. p \in Alloc /\ p \in Pids
      BY <1>1, <2>2, AllocPids
    <3>2. p # running => c \in children[p]
      BY <1>1, <1>5, <2>2, <3>1
    <3>3. p = running
      BY <1>1, <2>2, <3>1, <3>2, FamilyTreeParts
    <3> QED
      BY <1>1, <2>2, <3>3
  <2>3. CASE p # new /\ c # new
    <3>1. p \in Alloc /\ c \in children[p]
      BY <1>1, <1>2, <1>5, <2>3
    <3>2. c \in Alloc /\ parent[c] = p
      BY <3>1, FamilyTreeParts
    <3> QED
      BY <1>1, <1>2, <3>2
  <2> QED
    BY <2>1, <2>2, <2>3
<1> QED
  BY <1>3, <1>4, <1>5 DEF FamilyTree

\* Nobody is left with the dying process as parent, and init has none itself.
LEMMA DeathTree == ASSUME TypeOK, OnePlace, FamilyTree, Death PROVE FamilyTree'
<1> DEFINE mine == children[running]
<1>1. /\ running \in Alloc /\ running \in Pids
      /\ Alloc' = Alloc
      /\ \A p \in Pids :
            status'[p] = "Zombie" <=> p = running \/ status[p] = "Zombie"
      /\ \A p \in Pids :
            parent'[p] = IF p \in mine THEN initPcb ELSE parent[p]
      /\ \A p \in Pids :
            children'[p] = IF p = running THEN {}
                           ELSE IF p = initPcb THEN children[p] \cup mine
                           ELSE children[p]
      /\ initPcb' = initPcb
  BY DeathFacts DEF Death
<1>2. running # initPcb \/ mine = {}
  BY DEF Death
<1>3. \A c \in Alloc : c \in Pids /\ (c \in mine <=> parent[c] = running)
  <2>1. running # NoProc
    BY <1>1, PidFacts
  <2> QED
    BY <1>1, <2>1, FamilyTreeParts, AllocPids
<1> HIDE DEF mine
<1>4. initPcb \in Alloc /\ parent[initPcb] = NoProc /\ parent'[initPcb] = NoProc
  <2>1. initPcb \in Alloc /\ parent[initPcb] = NoProc
    BY FamilyTreeParts
  <2> QED
    BY <1>1, <1>3, <2>1, PidFacts
<1>5. ASSUME NEW c \in Alloc', parent'[c] # NoProc
      PROVE  /\ parent'[c] \in Alloc'
             /\ c \in children'[parent'[c]]
             /\ status'[parent'[c]] = "Zombie" => parent'[parent'[c]] = NoProc
  <2>1. CASE c \in mine
    <3>1. parent'[c] = initPcb /\ running # initPcb
      BY <1>1, <1>2, <1>3, <2>1
    <3>2. c \in children'[initPcb]
      BY <1>1, <1>3, <1>4, <2>1, <3>1
    <3> QED
      BY <1>1, <1>4, <3>1, <3>2
  <2>2. CASE c \notin mine
    <3> DEFINE q == parent[c]
    <3>1. parent'[c] = q /\ q # running /\ q # NoProc
      BY <1>1, <1>3, <1>5, <2>2
    <3>2. /\ q \in Alloc /\ c \in children[q]
          /\ status[q] = "Zombie" => parent[q] = NoProc
      BY <1>1, <3>1, FamilyTreeParts
    <3> HIDE DEF q
    <3>3. q \in Pids /\ c \in children'[q]
      BY <1>1, <1>3, <3>1, <3>2
    <3>4. status'[q] = "Zombie" => parent'[q] = NoProc
      BY <1>1, <1>3, <3>1, <3>2, <3>3, PidFacts
    <3> QED
      BY <1>1, <3>1, <3>2, <3>3, <3>4
  <2> QED
    BY <2>1, <2>2
<1>6. ASSUME NEW p \in Alloc', NEW c \in children'[p]
      PROVE  c \in Alloc' /\ parent'[c] = p
  <2>1. p \in Alloc /\ p \in Pids /\ p # running
    BY <1>1, <1>3, <1>6
  <2>2. CASE c \in mine
    <3>1. c \in Alloc /\ parent[c] = running
      BY <1>1, <2>2, FamilyTreeParts DEF mine
    <3>2. p = initPcb
      <4>1. p # initPcb => c \in children[p]
        BY <1>1, <1>6, <2>1
      <4> QED
        BY <2>1, <3>1, <4>1, FamilyTreeParts
    <3> QED
      BY <1>1, <1>3, <2>2, <3>1, <3>2
  <2>3. CASE c \notin mine
    <3>1. c \in children[p]
      BY <1>1, <1>6, <2>1, <2>3
    <3>2. c \in Alloc /\ parent[c] = p
      BY <2>1, <3>1, FamilyTreeParts
    <3> QED
      BY <1>1, <1>3, <2>3, <3>2
  <2> QED
    BY <2>2, <2>3
<1> QED
  BY <1>1, <1>4, <1>5, <1>6 DEF FamilyTree

\* A zombie whose parent is alive to reap it has no children left.
LEMMA BurialTree ==
    ASSUME TypeOK, OnePlace, FamilyTree, NEW i \in 1..Len(zombie), Burial(i)
    PROVE  FamilyTree'
<1> DEFINE dead == zombie[i]
<1>1. /\ dead \in Pids /\ status[dead] = "Zombie" /\ dead # running
      /\ running \in Alloc /\ running \in Pids /\ parent[dead] = running
      /\ Alloc' = Alloc \ {dead}
      /\ \A p \in Pids : p # dead => status'[p] = status[p]
      /\ \A p \in Pids :
            children'[p] = IF p = running THEN children[p] \ {dead}
                           ELSE children[p]
      /\ UNCHANGED <<initPcb, parent>>
  BY BurialFacts DEF Burial
<1> HIDE DEF dead
<1>2. running # NoProc
  BY <1>1, PidFacts
<1>3. \A c \in Alloc : c \in Pids /\ parent[c] # dead
  <2> SUFFICES ASSUME NEW c \in Alloc, parent[c] = dead PROVE FALSE
    BY AllocPids
  <2>1. parent[c] # NoProc
    BY <1>1, PidFacts
  <2> QED
    BY <1>1, <1>2, <2>1, FamilyTreeParts
<1>4. initPcb' \in Alloc' /\ parent'[initPcb'] = NoProc
  BY <1>1, <1>2, FamilyTreeParts
<1>5. ASSUME NEW c \in Alloc', parent'[c] # NoProc
      PROVE  /\ parent'[c] \in Alloc'
             /\ c \in children'[parent'[c]]
             /\ status'[parent'[c]] = "Zombie" => parent'[parent'[c]] = NoProc
  <2> DEFINE q == parent[c]
  <2>1. c \in Alloc /\ c # dead /\ parent'[c] = q /\ q # NoProc /\ q # dead
    BY <1>1, <1>3, <1>5
  <2>2. /\ q \in Alloc /\ c \in children[q]
        /\ status[q] = "Zombie" => parent[q] = NoProc
    BY <2>1, FamilyTreeParts
  <2> HIDE DEF q
  <2> QED
    BY <1>1, <1>3, <2>1, <2>2
<1>6. ASSUME NEW p \in Alloc', NEW c \in children'[p]
      PROVE  c \in Alloc' /\ parent'[c] = p
  <2>1. p \in Alloc /\ p \in Pids /\ c \in children[p]
    BY <1>1, <1>3, <1>6
  <2>2. c \in Alloc /\ parent[c] = p
    BY <2>1, FamilyTreeParts
  <2>3. c # dead
    BY <1>1, <1>6, <2>1, <2>2
  <2> QED
    BY <1>1, <2>2, <2>3
<1> QED
  BY <1>4, <1>5, <1>6 DEF FamilyTree

\* The new init starts a family of its own.
LEMMA NewInitTree == ASSUME TypeOK, OnePlace, FamilyTree, NewInit PROVE FamilyTree'
<1> DEFINE new == lastPid
<1>1. /\ new \in Pids /\ new \notin Alloc
      /\ initPcb' = new
      /\ Alloc' = Alloc \cup {new}
      /\ \A p \in Pids : status'[p] = "Zombie" <=> status[p] = "Zombie"
      /\ \A p \in Pids : parent'[p] = IF p = new THEN NoProc ELSE parent[p]
      /\ \A p \in Pids : children'[p] = IF p = new THEN {} ELSE children[p]
  BY NewInitFacts
<1> HIDE DEF new
<1>2. \A c \in Alloc : /\ c \in Pids /\ c # new
                       /\ parent'[c] = parent[c] /\ children'[c] = children[c]
  BY <1>1, AllocPids
<1>3. ASSUME NEW c \in Alloc', parent'[c] # NoProc
      PROVE  /\ parent'[c] \in Alloc'
             /\ c \in children'[parent'[c]]
             /\ status'[parent'[c]] = "Zombie" => parent'[parent'[c]] = NoProc
  <2> DEFINE q == parent[c]
  <2>1. c \in Alloc /\ parent'[c] = q /\ q # NoProc
    BY <1>1, <1>2, <1>3
  <2>2. /\ q \in Alloc /\ c \in children[q]
        /\ status[q] = "Zombie" => parent[q] = NoProc
    BY <2>1, FamilyTreeParts
  <2> HIDE DEF q
  <2> QED
    BY <1>1, <1>2, <2>1, <2>2
<1>4. ASSUME NEW p \in Alloc', NEW c \in children'[p]
      PROVE  c \in Alloc' /\ parent'[c] = p
  <2>1. p \in Alloc /\ c \in children[p]
    BY <1>1, <1>2, <1>4
  <2>2. c \in Alloc /\ parent[c] = p
    BY <2>1, FamilyTreeParts
  <2> QED
    BY <1>1, <1>2, <2>2
<1> QED
  BY <1>1, <1>3, <1>4 DEF FamilyTree

LEMMA StepTree ==
    ASSUME Inductive, FamilyTree, [Next]_vars PROVE FamilyTree'
<1>1. TypeOK /\ OnePlace
  BY DEF Inductive
<1> QED
  BY <1>1, StepKind, KeptTree, BirthTree, DeathTree, BurialTree, NewInitTree
     DEF FamilyStep, Quiet

-----------------------------------------------------------------------------
(* Who starts to wait, and what for. *)

\* Who joins the waiting list sleeps, or waits while no awaited zombie exists.
Blocked(p) ==
    \/ syscall'[p].num = "sleep"
    \/ /\ FamilyKept /\ p = running /\ p \in Pids
       /\ syscall'[p].num = "wait"
       /\ Awaited(syscall'[p].arg) = {}

\* A process that waits makes no call, so the one it made stays on record.
CallsKept ==
    /\ \A p \in waiting : syscall'[p] = syscall[p]
    /\ \A p \in waiting' \ waiting : Blocked(p)

LEMMA EnterCalls ==
    ASSUME TypeOK, OnePlace, NEW num, NEW arg, Enter(num, arg), running \in Pids,
           waiting' \subseteq waiting
    PROVE  CallsKept
<1>1. \A p \in waiting : p \in Pids /\ p # running
  BY CallerPlace DEF TypeOK
<1> QED
  BY <1>1 DEF Enter, TypeOK, CallsKept

LEMMA WaitCalls ==
    ASSUME TypeOK, OnePlace, NEW w \in Pids, Wait(w) PROVE CallsKept
<1>1. Enter("wait", w) /\ running \in Pids
  BY EnterType DEF Wait, Pids
<1>2. CASE Answer(DSOS_EWAIT) \/ Stop("null_ready")
  BY <1>1, <1>2, EnterCalls DEF Answer, Stop, lists
<1>3. CASE \E i \in Awaited(w) : ReapAt(i)
  BY <1>1, <1>3, EnterCalls DEF ReapAt
<1>4. CASE /\ Awaited(w) = {} /\ GiveUpCpu /\ BlockCaller
           /\ UNCHANGED <<zombie, timers, family, ret>>
  <2>1. waiting' \ waiting \subseteq {running}
    BY <1>4 DEF GiveUpCpu
  <2>2. syscall'[running] = [num |-> "wait", arg |-> w]
    BY <1>1 DEF Enter, TypeOK
  <2>3. FamilyKept
    BY <1>1, <1>4, BlockKept DEF Quiet
  <2>4. Blocked(running)
    BY <1>1, <1>4, <2>2, <2>3 DEF Blocked
  <2>5. \A p \in waiting : syscall'[p] = syscall[p]
    BY <1>1, CallerPlace DEF Enter, TypeOK
  <2> QED
    BY <2>1, <2>4, <2>5 DEF CallsKept
<1> QED
  BY <1>2, <1>3, <1>4 DEF Wait

LEMMA SleepCalls ==
    ASSUME TypeOK, OnePlace, NEW c \in SleepArgs, Sleep(c) PROVE CallsKept
<1>1. Enter("sleep", 0) /\ running \in Pids
  BY EnterType DEF Sleep
<1>2. CASE Answer(DSOS_ESLEEP)
  BY <1>1, <1>2, EnterCalls DEF Answer, lists
<1>3. CASE GiveUpCpu
  <2>1. waiting' \ waiting \subseteq {running}
    BY <1>3 DEF GiveUpCpu
  <2>2. syscall'[running].num = "sleep"
    BY <1>1 DEF Enter, TypeOK
  <2>3. \A p \in waiting : syscall'[p] = syscall[p]
    BY <1>1, CallerPlace DEF Enter, TypeOK
  <2> QED
    BY <2>1, <2>2, <2>3 DEF CallsKept, Blocked
<1> QED
  BY <1>2, <1>3 DEF Sleep

LEMMA OtherCalls ==
    ASSUME TypeOK, OnePlace, NEW num, Enter(num, 0), waiting' \subseteq waiting
    PROVE  CallsKept
<1>1. running \in Pids
  BY EnterType
<1> QED
  BY <1>1, EnterCalls

LEMMA StepCalls == ASSUME Inductive, [Next]_vars PROVE CallsKept
<1>0. TypeOK /\ OnePlace
  BY DEF Inductive
<1>1. CASE \E w \in Pids : Wait(w)
  BY <1>0, <1>1, WaitCalls
<1>2. CASE \E c \in SleepArgs : Sleep(c)
  BY <1>0, <1>2, SleepCalls
<1>3. CASE Preempt \/ Unimplemented \/ Spawn \/ Fork \/ Exit \/ Shutdown
  <2>1. waiting' \subseteq waiting
    BY <1>3 DEF Preempt, Unimplemented, Spawn, Fork, NewChild, AddChild, Exit,
                Die, Shutdown, Answer, Stop, lists
  <2>2. CASE Preempt
    BY <1>0, <2>1, <2>2, OtherCalls DEF Preempt
  <2>3. CASE Unimplemented
    BY <1>0, <2>1, <2>3, OtherCalls DEF Unimplemented
  <2>4. CASE Spawn \/ Fork
    BY <1>0, <2>1, <2>4, OtherCalls DEF Spawn, Fork, NewChild
  <2>5. CASE Exit
    BY <1>0, <2>1, <2>5, OtherCalls DEF Exit
  <2>6. CASE Shutdown
    BY <1>0, <2>1, <2>6, OtherCalls DEF Shutdown
  <2> QED
    BY <1>3, <2>2, <2>3, <2>4, <2>5, <2>6
<1>4. CASE Interrupt
  <2>1. waiting' \subseteq waiting /\ syscall' = syscall
    BY <1>4 DEF Interrupt, Tick, IdleWake, IdleRestart, PopTimers, ScheduleWoken
  <2> QED
    BY <2>1 DEF CallsKept
<1>5. CASE UNCHANGED vars
  BY <1>5 DEF vars, lists, CallsKept
<1> QED
  BY <1>1, <1>2, <1>3, <1>4, <1>5 DEF Next, UserCall

\* No call of this module leaves its caller on a queue.
WaitingCalls == \A p \in waiting : syscall[p].num \in {"wait", "sleep"}

LEMMA StepWaitingCalls ==
    ASSUME Inductive, WaitingCalls, [Next]_vars PROVE WaitingCalls'
<1>1. CallsKept
  BY StepCalls
<1> QED
  BY <1>1 DEF CallsKept, Blocked, WaitingCalls

-----------------------------------------------------------------------------
(* The PCBPtr pool. *)

\* The processes that stand in some children list.
Linked == {p \in Alloc : parent[p] # NoProc}

LinksCounted == ptrs = Cardinality(Linked)

LEMMA FinitePids ==
    /\ IsFiniteSet(Pids)
    /\ \A S \in SUBSET Pids : IsFiniteSet(S) /\ Cardinality(S) \in Nat
<1>1. 0 \in Int /\ MaxPids - 1 \in Int
  BY KernelAssumption
<1>2. IsFiniteSet(Pids)
  BY <1>1, FS_Interval DEF Pids
<1>3. \A S \in SUBSET Pids : IsFiniteSet(S)
  BY <1>2, FS_Subset
<1> QED
  BY <1>2, <1>3, FS_CardinalityType

\* The blocks that are no links, which no step of this module touches.
OtherPtrs == ptrs - Cardinality(Linked)

LEMMA StepLinks ==
    ASSUME Inductive, FamilyTree, [Next]_vars
    PROVE  OtherPtrs' = OtherPtrs
<1>0. TypeOK /\ OnePlace /\ ptrs \in Int
  BY DEF Inductive, TypeOK
<1>1. IsFiniteSet(Linked) /\ Cardinality(Linked) \in Nat
  BY FinitePids, AllocPids DEF Linked
<1>2. CASE Quiet
  BY <1>2, KeptFacts DEF Quiet, Linked, OtherPtrs
<1>3. CASE Birth
  <2> DEFINE new == lastPid
  <2>1. /\ new \in Pids /\ new \notin Alloc /\ running \in Pids
        /\ Alloc' = Alloc \cup {new} /\ ptrs' = ptrs + 1
        /\ \A p \in Pids : parent'[p] = IF p = new THEN running ELSE parent[p]
    BY <1>0, <1>3, BirthFacts DEF Birth
  <2> HIDE DEF new
  <2>2. Linked' = Linked \cup {new} /\ new \notin Linked
    BY <2>1, AllocPids, PidFacts DEF Linked
  <2>3. Cardinality(Linked') = Cardinality(Linked) + 1
    BY <1>1, <2>2, FS_AddElement
  <2> QED
    BY <1>0, <1>1, <2>1, <2>3 DEF OtherPtrs
<1>4. CASE Death
  <2>1. /\ Alloc' = Alloc /\ ptrs' = ptrs /\ running \in Pids
        /\ running \in Alloc /\ initPcb \in Pids
        /\ \A p \in Pids : parent'[p] = IF p \in children[running] THEN initPcb
                                        ELSE parent[p]
    BY <1>0, <1>4, DeathFacts DEF Death, TypeOK
  <2>2. \A p \in Alloc : parent'[p] = NoProc <=> parent[p] = NoProc
    BY <2>1, FamilyTreeParts, AllocPids, PidFacts
  <2> QED
    BY <2>1, <2>2 DEF Linked, OtherPtrs
<1>5. CASE \E i \in 1..Len(zombie) : Burial(i)
  <2> PICK i \in 1..Len(zombie) : Burial(i)
    BY <1>5
  <2> DEFINE dead == zombie[i]
  <2>1. /\ dead \in Pids /\ status[dead] = "Zombie" /\ running \in Pids
        /\ parent[dead] = running /\ parent' = parent
        /\ Alloc' = Alloc \ {dead}
        /\ ptrs' = IF dead \in children[running] THEN ptrs - 1 ELSE ptrs
    BY <1>0, BurialFacts DEF Burial
  <2> HIDE DEF dead
  <2>2. dead \in Alloc /\ dead \in children[running]
    BY <2>1, FamilyTreeParts, PidFacts DEF Alloc
  <2>3. Linked' = Linked \ {dead} /\ dead \in Linked
    BY <2>1, <2>2, PidFacts DEF Linked
  <2>4. Cardinality(Linked') = Cardinality(Linked) - 1
    BY <1>1, <2>3, FS_RemoveElement
  <2> QED
    BY <1>0, <1>1, <2>1, <2>2, <2>4 DEF OtherPtrs
<1>6. CASE NewInit
  <2>1. /\ lastPid \notin Alloc /\ Alloc' = Alloc \cup {lastPid} /\ ptrs' = ptrs
        /\ lastPid \in Pids
        /\ \A p \in Pids : parent'[p] = IF p = lastPid THEN NoProc ELSE parent[p]
    BY <1>0, <1>6, NewInitFacts
  <2>2. Linked' = Linked
    BY <2>1, AllocPids DEF Linked
  <2> QED
    BY <2>1, <2>2 DEF OtherPtrs
<1> QED
  BY <1>2, <1>3, <1>4, <1>5, <1>6, StepKind DEF FamilyStep

LEMMA CountedIsNoOther == ASSUME TypeOK PROVE LinksCounted <=> OtherPtrs = 0
<1>1. ptrs \in Int /\ Cardinality(Linked) \in Nat
  BY FinitePids, AllocPids DEF TypeOK, Linked
<1> QED
  BY <1>1 DEF LinksCounted, OtherPtrs

LEMMA StepLinksCounted ==
    ASSUME Inductive, FamilyTree, LinksCounted, [Next]_vars
    PROVE  LinksCounted'
<1>1. TypeOK /\ TypeOK'
  BY StepType DEF Inductive
<1>2. OtherPtrs' = 0
  BY <1>1, StepLinks, CountedIsNoOther
<1>3. ptrs' \in Int /\ Cardinality(Linked') \in Nat
  <2>1. Alloc' \subseteq Pids
    BY DEF Alloc
  <2>2. Linked' \subseteq Pids
    BY <2>1 DEF Linked
  <2> QED
    BY <1>1, <2>2, FinitePids DEF TypeOK
<1> QED
  BY <1>2, <1>3 DEF LinksCounted, OtherPtrs

\* The initial process of the newest family is allocated and has no parent.
LEMMA LinksBelowPcbs ==
    ASSUME FamilyTree
    PROVE  /\ Cardinality(Linked) <= Cardinality(Alloc) - 1
           /\ Cardinality(Linked) \in Nat /\ Cardinality(Alloc) \in Nat
<1>1. /\ IsFiniteSet(Alloc) /\ Cardinality(Alloc) \in Nat
      /\ Cardinality(Linked) \in Nat
  BY FinitePids, AllocPids DEF Linked
<1>2. Linked \subseteq Alloc \ {initPcb} /\ initPcb \in Alloc
  BY FamilyTreeParts DEF Linked
<1>3. /\ IsFiniteSet(Alloc \ {initPcb})
      /\ Cardinality(Alloc \ {initPcb}) = Cardinality(Alloc) - 1
  BY <1>1, <1>2, FS_RemoveElement
<1>4. Cardinality(Linked) <= Cardinality(Alloc \ {initPcb})
  BY <1>2, <1>3, FS_Subset
<1> QED
  BY <1>1, <1>3, <1>4

\* Only a new child can find the PCBPtr pool empty.
LEMMA PtrFault ==
    ASSUME Inductive, [Next]_vars, kernel # "null_pcb_ptr",
           kernel' = "null_pcb_ptr"
    PROVE  ~PcbPoolFull /\ PtrPoolFull
<1>1. CASE Spawn \/ Fork
  BY <1>1 DEF Spawn, Fork, NewChild, Stop, AddChild
<1>2. CASE Preempt \/ Unimplemented \/ Exit \/ Shutdown
  BY <1>2 DEF Preempt, Unimplemented, Exit, Shutdown, Answer, Stop, Die,
              TrapExit, Inductive
<1>3. CASE \E w \in Pids : Wait(w)
  BY <1>3 DEF Wait, Answer, Stop, ReapAt, GiveUpCpu, TrapExit
<1>4. CASE \E c \in SleepArgs : Sleep(c)
  BY <1>4 DEF Sleep, Answer, GiveUpCpu, TrapExit
<1>5. CASE Interrupt
  BY <1>5 DEF Interrupt, Tick, IdleWake, IdleRestart, ScheduleWoken
<1>6. CASE UNCHANGED vars
  BY <1>6 DEF vars
<1> QED
  BY <1>1, <1>2, <1>3, <1>4, <1>5, <1>6 DEF Next, UserCall

LEMMA StepPtrPool ==
    ASSUME Inductive, FamilyTree, LinksCounted, PtrPoolSuffices, [Next]_vars
    PROVE  PtrPoolSuffices'
<1> SUFFICES ASSUME NumPtrs >= NumPcbs - 1, kernel' = "null_pcb_ptr"
             PROVE  FALSE
  BY DEF PtrPoolSuffices
<1>1. ~PcbPoolFull /\ PtrPoolFull
  BY PtrFault DEF PtrPoolSuffices
<1>2. /\ Cardinality(Linked) <= Cardinality(Alloc) - 1
      /\ Cardinality(Linked) \in Nat /\ Cardinality(Alloc) \in Nat
  BY LinksBelowPcbs
<1> DEFINE links == Cardinality(Linked)
           pcbs  == Cardinality(Alloc)
<1>3. /\ links <= pcbs - 1 /\ links \in Nat /\ pcbs \in Nat
      /\ ~(pcbs >= NumPcbs) /\ links >= NumPtrs
  BY <1>1, <1>2 DEF PcbPoolFull, PtrPoolFull, LinksCounted
<1> HIDE DEF links, pcbs
<1> QED
  BY <1>3, KernelAssumption

-----------------------------------------------------------------------------
(* Zombies that a waiting parent missed. *)

LEMMA AwaitedEmpty ==
    ASSUME TypeOK, NEW w, Awaited(w) = {}, NEW z \in Range(zombie),
           parent[z] = running
    PROVE  w \notin {0, z}
<1>1. PICK i \in 1..Len(zombie) : zombie[i] = z
  <2>1. DOMAIN zombie = 1..Len(zombie)
    BY LenProperties DEF TypeOK
  <2> QED
    BY <2>1 DEF Range
<1>2. i \notin Awaited(w)
  OBVIOUS
<1> QED
  BY <1>1, <1>2 DEF Awaited

\* p waits for the zombie z, which is its child.
Missed(p, z) ==
    parent[z] = p /\ syscall[p].num = "wait" /\ syscall[p].arg \in {0, z}

LEMMA MissedDef ==
    MissedOnlyByInit <=>
       \A p \in waiting, z \in Range(zombie) : Missed(p, z) => parent[p] = NoProc
BY DEF MissedOnlyByInit, Missed

LEMMA DeathMissed ==
    ASSUME Inductive, FamilyTree, MissedOnlyByInit, CallsKept, Death,
           NEW p \in waiting', NEW z \in Range(zombie'), Missed(p, z)'
    PROVE  parent'[p] = NoProc
<1>0. TypeOK /\ OnePlace
  BY DEF Inductive
<1> DEFINE mine  == children[running]
           woken == IF WaitsFor(parent[running], running)
                    THEN {parent[running]} ELSE {}
<1>1. /\ running \in Pids /\ running \in Alloc
      /\ \A q \in Pids : parent'[q] = IF q \in mine THEN initPcb ELSE parent[q]
      /\ Range(zombie') = Range(zombie) \cup {running}
      /\ waiting' = waiting \ woken
  BY <1>0, DeathFacts DEF Death
<1>2. /\ p \in waiting /\ p \in Pids /\ p \notin woken /\ status[p] = "Waiting"
      /\ syscall'[p] = syscall[p]
  BY <1>0, <1>1 DEF CallsKept, TypeOK, OnePlace
<1>3. z \in Pids
  <2>1. Range(zombie) \subseteq Pids
    BY <1>0, RangeOfSeq DEF TypeOK
  <2> QED
    BY <1>1, <2>1
<1>4. initPcb \in Pids /\ parent[initPcb] = NoProc /\ initPcb \notin mine
  BY <1>1, FamilyTreeParts, AllocPids, PidFacts
<1>5. parent'[z] = p /\ syscall[p].num = "wait" /\ syscall[p].arg \in {0, z}
  BY <1>2 DEF Missed
<1>6. CASE z \in mine
  BY <1>1, <1>3, <1>4, <1>5, <1>6
<1>7. CASE z \notin mine
  <2>1. parent[z] = p
    BY <1>1, <1>3, <1>5, <1>7
  <2>2. z # running
    <3> SUFFICES ASSUME z = running PROVE FALSE
      OBVIOUS
    <3>1. WaitsFor(p, running)
      BY <1>2, <1>5, PidFacts DEF WaitsFor
    <3> QED
      BY <1>2, <2>1, <3>1
  <2>3. parent[p] = NoProc
    <3>1. z \in Range(zombie)
      BY <1>1, <2>2
    <3> QED
      BY <1>2, <1>5, <2>1, <3>1, MissedDef DEF Missed
  <2>4. p \notin mine
    BY <1>1, <2>3, FamilyTreeParts, PidFacts
  <2> QED
    BY <1>1, <1>2, <2>3, <2>4
<1> QED
  BY <1>6, <1>7

LEMMA StepMissed ==
    ASSUME Inductive, FamilyTree, MissedOnlyByInit, [Next]_vars
    PROVE  MissedOnlyByInit'
<1>0. TypeOK /\ OnePlace /\ CallsKept
  BY StepCalls DEF Inductive
<1>1. SUFFICES ASSUME NEW p \in waiting', NEW z \in Range(zombie'), Missed(p, z)'
               PROVE  parent'[p] = NoProc
  BY DEF MissedOnlyByInit, Missed
<1>2. /\ parent'[z] = p /\ syscall'[p].num = "wait"
      /\ syscall'[p].arg \in {0, z}
  BY <1>1 DEF Missed
<1>3. Range(zombie) \subseteq Alloc /\ waiting \subseteq Alloc
  <2>1. Range(zombie) \subseteq Pids
    BY <1>0, RangeOfSeq DEF TypeOK
  <2> QED
    BY <1>0, <2>1 DEF Alloc, OnePlace, TypeOK
\* What waits for z already, in a step that gives neither of them a new parent.
<1>4. ASSUME p \in waiting, z \in Range(zombie),
             parent'[z] = parent[z], parent'[p] = parent[p]
      PROVE  parent'[p] = NoProc
  <2>1. Missed(p, z)
    BY <1>0, <1>2, <1>4 DEF Missed, CallsKept
  <2> QED
    BY <1>4, <2>1, MissedDef
<1>5. CASE FamilyKept
  <2>1. z \in Range(zombie) /\ parent' = parent
    BY <1>5, KeptFacts
  <2>2. CASE p \in waiting
    BY <1>4, <2>1, <2>2
  <2>3. CASE p \notin waiting
    <3>1. p = running /\ Awaited(syscall'[p].arg) = {}
      BY <1>0, <1>2, <2>3 DEF CallsKept, Blocked
    <3>2. syscall'[p].arg \notin {0, z}
      BY <1>0, <1>2, <2>1, <3>1, AwaitedEmpty
    <3> QED
      BY <1>2, <3>2
  <2> QED
    BY <2>2, <2>3
<1>6. CASE Birth
  <2>1. /\ waiting' = waiting /\ zombie' = zombie /\ lastPid \notin Alloc
        /\ \A q \in Pids : q # lastPid => parent'[q] = parent[q]
    BY <1>0, <1>6, BirthFacts
  <2> QED
    BY <1>3, <1>4, <2>1, AllocPids
<1>7. CASE Death
  BY <1>0, <1>1, <1>7, DeathMissed
<1>8. CASE \E i \in 1..Len(zombie) : Burial(i)
  <2>1. /\ waiting' = waiting /\ parent' = parent
        /\ Range(zombie') \subseteq Range(zombie)
    BY <1>0, <1>8, BurialFacts
  <2> QED
    BY <1>4, <2>1
<1>9. CASE NewInit
  <2>1. /\ zombie' = zombie /\ lastPid \notin Alloc /\ lastPid \in Pids
        /\ \A q \in Pids : parent'[q] = IF q = lastPid THEN NoProc ELSE parent[q]
    BY <1>0, <1>9, NewInitFacts
  <2>2. CASE p \in waiting
    BY <1>3, <1>4, <2>1, <2>2, AllocPids
  <2>3. CASE p \notin waiting /\ p = lastPid
    BY <2>1, <2>3
  <2>4. CASE p \notin waiting /\ p # lastPid
    <3>1. FamilyKept
      BY <1>0, <1>2, <2>4 DEF CallsKept, Blocked
    <3> QED
      BY <1>5, <3>1
  <2> QED
    BY <2>2, <2>3, <2>4
<1> QED
  BY <1>5, <1>6, <1>7, <1>8, <1>9, StepKind DEF FamilyStep, Quiet

-----------------------------------------------------------------------------
(* What ends a wait. *)

\* The pids that a tick takes from the waiting list are sleepers whose item is
\* due.
LEMMA PopCause ==
    ASSUME TypeOK, TimersMatchSleepers, NEW k \in 0..Len(timers),
           Expired(k), PopTimers(k), NEW p \in waiting \ waiting'
    PROVE  /\ syscall[p].num = "sleep"
           /\ \E i \in 1..Len(timers) : timers[i].pid = p /\ timers[i].left <= 1
<1>1. Range(Woken(k)) = {timers[i].pid : i \in 1..k}
  BY WokenAreSleepers
<1>2. p \in Range(Woken(k))
  BY DEF PopTimers
<1>3. PICK i \in 1..k : timers[i].pid = p
  BY <1>1, <1>2
<1>4. i \in 1..Len(timers) /\ timers[i].left <= 1
  <2>1. Len(timers) \in Nat
    BY LenProperties DEF TypeOK
  <2> QED
    BY <2>1 DEF Expired
<1> QED
  BY <1>3, <1>4 DEF TimersMatchSleepers

Cause(p) ==
    /\ syscall[p].num = "sleep" =>
          \E i \in 1..Len(timers) : timers[i].pid = p /\ timers[i].left <= 1
    /\ syscall[p].num = "wait" =>
          /\ parent[running] = p /\ status'[running] = "Zombie"
          /\ syscall[p].arg \in {0, running}

LEMMA StepCause ==
    ASSUME Inductive, [Next]_vars, NEW p \in waiting \ waiting'
    PROVE  Cause(p)
<1>0. TypeOK /\ OnePlace /\ TimersMatchSleepers
  BY DEF Inductive
<1>1. CASE Exit
  <2>1. running \in Pids /\ Death
    <3>1. Stop("hung") => waiting' = waiting
      BY DEF Stop, lists
    <3> QED
      BY <1>0, <1>1, <3>1, EnterType DEF Exit, Death
  <2>2. status'[running] = "Zombie" /\ p = parent[running] /\ WaitsFor(p, running)
    BY <1>0, <2>1, DeathFacts
  <2> QED
    BY <2>2 DEF WaitsFor, Cause
<1>2. CASE Interrupt
  <2>1. PICK k \in 0..Len(timers) : Expired(k) /\ PopTimers(k)
    BY <1>2 DEF Interrupt, Tick, IdleWake, IdleRestart
  <2> QED
    BY <1>0, <2>1, PopCause DEF Cause
<1>3. CASE Preempt \/ Unimplemented \/ Spawn \/ Fork \/ Shutdown
  <2>1. waiting' = waiting
    BY <1>3 DEF Preempt, Unimplemented, Spawn, Fork, NewChild, AddChild,
                Shutdown, Answer, Stop, lists
  <2> QED
    BY <2>1
<1>4. CASE (\E w \in Pids : Wait(w)) \/ (\E c \in SleepArgs : Sleep(c))
  <2>1. waiting \subseteq waiting'
    BY <1>4 DEF Wait, Sleep, Answer, Stop, ReapAt, GiveUpCpu, lists
  <2> QED
    BY <2>1
<1>5. CASE UNCHANGED vars
  BY <1>5 DEF vars, lists
<1> QED
  BY <1>1, <1>2, <1>3, <1>4, <1>5 DEF Next, UserCall

\* A zombie stays one until it is freed, a free block stays free but for the
\* next pid.
LEMMA StepFate ==
    ASSUME Inductive, [Next]_vars, NEW p \in 0..(lastPid - 1),
           status[p] \in {"Zombie", "Free"}
    PROVE  status'[p] \in {status[p], "Free"}
<1>0. TypeOK /\ OnePlace /\ p \in Pids /\ p # lastPid
  <2>1. TypeOK /\ OnePlace
    BY DEF Inductive
  <2>2. lastPid \in 1..MaxPids /\ MaxPids \in Nat
    BY <2>1, KernelAssumption DEF TypeOK
  <2>3. p \in Pids /\ p # lastPid
    BY <2>2 DEF Pids
  <2> QED
    BY <2>1, <2>3
<1>1. CASE FamilyKept
  BY <1>0, <1>1 DEF FamilyKept, Live
<1>2. CASE Birth
  BY <1>0, <1>2 DEF Birth, AddChild, TypeOK
<1>3. CASE Death
  <2>1. /\ status'[p] = "Zombie" <=> p = running \/ status[p] = "Zombie"
        /\ Alloc' = Alloc /\ running \in Pids
    BY <1>0, <1>3, DeathFacts DEF Death
  <2>2. p # running
    BY <1>0, <2>1, CallerPlace
  <2> QED
    BY <1>0, <2>1, <2>2 DEF Alloc
<1>4. CASE \E i \in 1..Len(zombie) : Burial(i)
  <2> PICK i \in 1..Len(zombie) : Burial(i)
    BY <1>4
  <2>1. zombie[i] \in Pids
    BY <1>0, BurialFacts
  <2> QED
    BY <1>0, <2>1 DEF Burial, ReapAt, TypeOK
<1>5. CASE NewInit
  BY <1>0, <1>5 DEF NewInit, TypeOK
<1> QED
  BY <1>1, <1>2, <1>3, <1>4, <1>5, StepKind DEF FamilyStep, Quiet

-----------------------------------------------------------------------------
(* The theorems. *)

\* The parts need each other: the links are counted right only because the
\* children lists and the parent pointers agree, and a wait is missed only by
\* init because a dying process hands its children to init.
FamilyInductive ==
    /\ FamilyTree
    /\ WaitingCalls
    /\ LinksCounted
    /\ PtrPoolSuffices
    /\ MissedOnlyByInit

LEMMA InitFamily == Init => FamilyInductive
<1> SUFFICES ASSUME Init PROVE FamilyInductive
  OBVIOUS
<1>1. FamilyTree
  BY InitTree
<1>2. WaitingCalls /\ MissedOnlyByInit
  BY DEF Init, WaitingCalls, MissedOnlyByInit
<1>3. Linked = {} /\ ptrs = 0
  BY DEF Init, Linked, Alloc
<1>4. LinksCounted
  BY <1>3, FS_EmptySet DEF LinksCounted
<1>5. PtrPoolSuffices
  BY DEF Init, PtrPoolSuffices
<1> QED
  BY <1>1, <1>2, <1>4, <1>5 DEF FamilyInductive

LEMMA FamilyHolds == Spec => [](Inductive /\ FamilyInductive)
<1>1. FamilyInductive /\ Inductive /\ [Next]_vars => FamilyInductive'
  BY StepTree, StepWaitingCalls, StepLinksCounted, StepPtrPool, StepMissed
     DEF FamilyInductive
<1> QED
  BY <1>1, InitFamily, InductiveHolds, PTL DEF Spec

\* For every number of processes: parent pointers and children lists are
\* inverse to each other, and none leads to a block that went back to its pool,
\* although exit rewrites the parent of every child while some of them are
\* zombies that wait to be reaped.
THEOREM FamilyAlwaysTree == Spec => []FamilyTree
<1>1. FamilyInductive => FamilyTree
  BY DEF FamilyInductive
<1> QED
  BY <1>1, FamilyHolds, PTL

\* For every number of processes: as many PCBPtr blocks are out of their pool as
\* there are processes with a parent, so spawn, exit's hand-over and reap_child
\* neither leak a block nor free one twice.
THEOREM LinksAlwaysCounted == Spec => []PtrAccounting
<1>1. FamilyInductive => PtrAccounting
  <2> SUFFICES ASSUME FamilyInductive PROVE PtrAccounting
    OBVIOUS
  <2> DEFINE onQueue == {p \in waiting : syscall[p].num \in {"bq_put", "bq_get"}}
  <2>1. onQueue = {}
    BY DEF FamilyInductive, WaitingCalls
  <2>2. Cardinality(onQueue) = 0
    BY <2>1, FS_EmptySet
  <2>3. ptrs = Cardinality(Linked) /\ Cardinality(Linked) \in Nat
    BY FinitePids, AllocPids DEF FamilyInductive, LinksCounted, Linked
  <2>4. ptrs = Cardinality(Linked) + Cardinality(onQueue)
    BY <2>2, <2>3
  <2> QED
    BY <2>4 DEF PtrAccounting, Linked
<1> QED
  BY <1>1, FamilyHolds, PTL

\* For every size of the two pools: if the PCBPtr pool has at most one block
\* less than the PCB pool, spawn and fork find it empty only after they found
\* the PCB pool empty, so the missing test of PCBPtr_alloc's result is harmless.
THEOREM PtrPoolAlwaysSuffices == Spec => []PtrPoolSuffices
<1>1. FamilyInductive => PtrPoolSuffices
  BY DEF FamilyInductive
<1> QED
  BY <1>1, FamilyHolds, PTL

\* For every number of processes: a process other than an initial one is never
\* blocked in a wait that a zombie in the list would end.
THEOREM OnlyInitMisses == Spec => []MissedOnlyByInit
<1>1. FamilyInductive => MissedOnlyByInit
  BY DEF FamilyInductive
<1> QED
  BY <1>1, FamilyHolds, PTL

\* For every number of processes and timers: nobody but a due timer ends a sleep,
\* and nobody but an awaited child ends a wait.
THEOREM AlwaysWokenForCause == Spec => WokenForCause
<1>1. Inductive /\ [Next]_vars => [\A p \in waiting \ waiting' : Cause(p)]_vars
  BY StepCause
<1>2. [\A p \in waiting \ waiting' : Cause(p)]_vars <=>
      [\A p \in waiting \ waiting' :
          /\ syscall[p].num = "sleep" =>
                \E i \in 1..Len(timers) : timers[i].pid = p /\ timers[i].left <= 1
          /\ syscall[p].num = "wait" =>
                /\ parent[running] = p /\ status'[running] = "Zombie"
                /\ syscall[p].arg \in {0, running}]_vars
  BY DEF Cause
<1> QED
  BY <1>1, <1>2, InductiveHolds, PTL DEF Spec, WokenForCause

\* For every number of processes: what has exited is dispatched by no wake-up,
\* and a pid that was reaped is not given out again.
THEOREM DeadStayDead == Spec => NoResurrection
<1>1. Inductive /\ [Next]_vars =>
         [\A p \in 0..(lastPid - 1) :
             status[p] \in {"Zombie", "Free"} =>
                status'[p] \in {status[p], "Free"}]_vars
  BY StepFate
<1> QED
  BY <1>1, InductiveHolds, PTL DEF Spec, NoResurrection
=============================================================================
