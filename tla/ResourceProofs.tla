--------------------------- MODULE ResourceProofs ---------------------------
(***************************************************************************)
(* Resources and descriptors, for every value of the constants: the two    *)
(* lists a descriptor is in, the fds of a process, the two descriptor      *)
(* pools, and what an open that fails leaves behind.                       *)
(***************************************************************************)
EXTENDS Resources, KernelFamily

-----------------------------------------------------------------------------
(* The kernel under a resource call, and under its own steps. *)

\* A resource call reads the process lists and leaves them alone.
KernelStill ==
    /\ kernel' \in KernelModes
    /\ ret' \in [Pids -> Int]
    /\ UNCHANGED <<running, lists, family, status>>

LEMMA AnswerStill == ASSUME TypeOK, running \in Pids, NEW v \in Int, Answer(v) PROVE KernelStill
BY DEF Answer, Return, KernelStill, TypeOK

LEMMA StopStill == ASSUME TypeOK, NEW mode \in KernelModes, Stop(mode) PROVE KernelStill
BY DEF Stop, KernelStill, TypeOK

LEMMA StillKeeps ==
    ASSUME Inductive, NEW num, Enter(num, 0), KernelStill
    PROVE  Inductive'
<1>1. TypeOK /\ OnePlace /\ TimersMatchSleepers
  BY DEF Inductive
<1>2. /\ running \in Pids
      /\ syscall' \in [Pids -> [num : SysCalls, arg : Int]]
  BY <1>1, EnterType
<1>3. TypeOK'
  BY <1>1, <1>2 DEF TypeOK, KernelStill, lists, family
<1>4. OnePlace'
  BY <1>1, UnmovedPlaced DEF KernelStill, lists, family
<1>5. TimersMatchSleepers'
  BY <1>1, <1>2, TimersKept DEF KernelStill, lists
<1> QED
  BY <1>3, <1>4, <1>5 DEF Inductive

LEMMA CallerIsOld ==
    ASSUME Inductive, NEW num, NEW arg \in Int, Enter(num, arg)
    PROVE  running \in Pids /\ ~(running >= lastPid)
<1>1. TypeOK /\ OnePlace
  BY DEF Inductive
<1>2. running \in Pids
  BY <1>1, EnterType
<1>3. status[running] # "Free"
  BY <1>1, <1>2, CallerPlace
<1> QED
  BY <1>1, <1>2, <1>3 DEF OnePlace

\* last_pid never falls.
LEMMA LastPidGrows ==
    ASSUME Inductive, [Next]_vars PROVE lastPid' \in Nat /\ lastPid' >= lastPid
<1>1. lastPid \in Nat
  BY KernelAssumption DEF Inductive, TypeOK
<1>2. lastPid' = lastPid \/ lastPid' = lastPid + 1
  BY StepKind DEF FamilyStep, Quiet, FamilyKept, Birth, AddChild, Death, Die,
                  Burial, ReapAt, NewInit
<1> QED
  BY <1>1, <1>2

\* At most one process is born in a step; it gets the next pid, and nobody else
\* gets a PCB.
LEMMA BornIsNext ==
    ASSUME Inductive, [Next]_vars, NEW p \in Born
    PROVE  p \in Pids /\ p = lastPid /\ lastPid' = p + 1 /\ Alloc' = Alloc \cup {p}
<1>0. TypeOK /\ OnePlace /\ p \in Pids /\ p \notin Alloc /\ p \in Alloc'
  BY DEF Inductive, Born, Alloc
<1>1. CASE Quiet
  BY <1>0, <1>1 DEF Quiet, FamilyKept, Live, Alloc
<1>2. CASE Birth
  <2>1. Alloc' = Alloc \cup {lastPid}
    BY <1>0, <1>2, BirthFacts
  <2>2. lastPid' = lastPid + 1
    BY <1>2 DEF Birth, AddChild
  <2> QED
    BY <1>0, <2>1, <2>2
<1>3. CASE Death
  <2>1. Alloc' = Alloc
    BY <1>0, <1>3, DeathFacts
  <2> QED
    BY <1>0, <2>1
<1>4. ASSUME NEW i \in 1..Len(zombie), Burial(i) PROVE FALSE
  <2>1. Alloc' = Alloc \ {zombie[i]}
    BY <1>0, <1>4, BurialFacts
  <2> QED
    BY <1>0, <2>1
<1>5. CASE NewInit
  <2>1. Alloc' = Alloc \cup {lastPid}
    BY <1>0, <1>5, NewInitFacts
  <2>2. lastPid' = lastPid + 1
    BY <1>5 DEF NewInit
  <2> QED
    BY <1>0, <2>1, <2>2
<1> QED
  BY <1>1, <1>2, <1>3, <1>4, <1>5, StepKind DEF FamilyStep

\* The kernel itself takes no DescriptorPtr.
LEMMA NoDesptrFault ==
    ASSUME [Next]_vars, kernel # "null_desptr" PROVE kernel' # "null_desptr"
<1>1. CASE Spawn \/ Fork
  BY <1>1 DEF Spawn, Fork, NewChild, Stop, AddChild
<1>2. CASE Preempt \/ Unimplemented \/ Exit \/ Shutdown
  BY <1>2 DEF Preempt, Unimplemented, Exit, Shutdown, Answer, Stop, Die, TrapExit
<1>3. CASE \E w \in Pids : Wait(w)
  BY <1>3 DEF Wait, Answer, Stop, ReapAt, GiveUpCpu, TrapExit
<1>4. CASE \E c \in SleepArgs : Sleep(c)
  BY <1>4 DEF Sleep, Answer, GiveUpCpu, TrapExit
<1>5. CASE Interrupt
  BY <1>5 DEF Interrupt, Tick, IdleWake, IdleRestart, ScheduleWoken
<1>6. CASE UNCHANGED vars
  BY <1>6 DEF vars
<1> QED
  BY <1>1, <1>2, <1>3, <1>4, <1>5, <1>6 DEF Next, UserCall

-----------------------------------------------------------------------------
(* The inductive invariant. *)

\* ListsInverse for every fd, the ones the bound of the model excludes included.
SidesAgree ==
    /\ \A s \in Slots, p \in Pids, fd \in Nat :
          Kept(p) => ([pid |-> p, fd |-> fd] \in users[s] <=>
                      [fd |-> fd, slot |-> s] \in owned[block[p]])
    /\ \A s \in Slots : users[s] # {} => s \in listed

\* A process has a block once it is born, and keeps it to itself while it lives
\* or is a zombie.
BlocksOK ==
    /\ \A p \in Pids : p >= lastPid => block[p] = 0
    /\ \A p \in Alloc : Kept(p)

\* Nobody opens anything before it is born.
NoneUnborn == \A s \in Slots : \A u \in users[s] : block[u.pid] # 0

\* The two pools count the same blocks; what is counted is finite.
Counted == IsFiniteSet(Descriptors) /\ DescriptorAccounting

\* The parts need each other: the list of a PCB says what its process has open
\* only because the block is nobody else's, fds stay unique only because the new
\* owner of a block goes on with its last_fd, the list of a new resource is empty
\* only because no descriptor outlives its resource, and a block goes back to
\* each pool for each descriptor only because a descriptor is in both lists.
ResInductive ==
    Inductive /\ ResTypeOK /\ BlocksOK /\ SidesAgree /\ NoneUnborn /\ FdsUnique /\ Counted

\* Descriptors, of a given function of lists.
Listing(us) == UNION {{[slot |-> s, pid |-> u.pid, fd |-> u.fd] : u \in us[s]} : s \in Slots}

LEMMA ListingIs ==
    ASSUME NEW us \in [Slots -> SUBSET [pid : Pids, fd : Nat]]
    PROVE  /\ Listing(us) \subseteq [slot : Slots, pid : Pids, fd : Nat]
           /\ \A x \in [slot : Slots, pid : Pids, fd : Nat] :
                 x \in Listing(us) <=> [pid |-> x.pid, fd |-> x.fd] \in us[x.slot]
<1>1. \A s \in Slots : \A u \in us[s] :
         u = [pid |-> u.pid, fd |-> u.fd] /\ u.pid \in Pids /\ u.fd \in Nat
  OBVIOUS
<1>2. Listing(us) \subseteq [slot : Slots, pid : Pids, fd : Nat]
  BY <1>1 DEF Listing
<1>3. ASSUME NEW x \in [slot : Slots, pid : Pids, fd : Nat]
      PROVE  x \in Listing(us) <=> [pid |-> x.pid, fd |-> x.fd] \in us[x.slot]
  <2>1. ASSUME x \in Listing(us) PROVE [pid |-> x.pid, fd |-> x.fd] \in us[x.slot]
    <3>1. PICK s \in Slots : \E u \in us[s] : x = [slot |-> s, pid |-> u.pid, fd |-> u.fd]
      BY <2>1 DEF Listing
    <3>2. PICK u \in us[s] : x = [slot |-> s, pid |-> u.pid, fd |-> u.fd]
      BY <3>1
    <3>3. x.slot = s /\ x.pid = u.pid /\ x.fd = u.fd
      BY <3>2
    <3> QED
      BY <1>1, <3>3
  <2>2. ASSUME [pid |-> x.pid, fd |-> x.fd] \in us[x.slot] PROVE x \in Listing(us)
    <3> DEFINE u == [pid |-> x.pid, fd |-> x.fd]
    <3>1. x = [slot |-> x.slot, pid |-> u.pid, fd |-> u.fd] /\ x.slot \in Slots
      OBVIOUS
    <3>2. u \in us[x.slot]
      BY <2>2
    <3> HIDE DEF u
    <3> QED
      BY <3>1, <3>2 DEF Listing
  <2> QED
    BY <2>1, <2>2
<1> QED
  BY <1>2, <1>3

\* Two processes that hold PCBs hold different ones.
LEMMA KeptApart ==
    ASSUME NEW p \in Pids, NEW q \in Pids, Kept(p), Kept(q), block[p] = block[q] PROVE p = q
<1>1. p <= q /\ q <= p
  BY DEF Kept
<1> QED
  BY <1>1, KernelAssumption DEF Pids

\* Where the kernel's test finds a PCB in the pool there is a block for it.
LEMMA BlockLeft ==
    ASSUME Inductive, ResTypeOK, BlocksOK, ~PcbPoolFull PROVE FreeBlocks # {}
<1> SUFFICES ASSUME FreeBlocks = {} PROVE FALSE
  OBVIOUS
<1> DEFINE held == [p \in Alloc |-> block[p]]
<1>1. IsFiniteSet(Alloc)
  BY FinitePids, AllocPids, FS_Subset
<1>2. held \in [Alloc -> PcbBlocks]
  BY AllocPids DEF BlocksOK, Kept, ResTypeOK
<1>3. \A b \in PcbBlocks : \E p \in Alloc : held[p] = b
  BY DEF FreeBlocks
<1>4. held \in Surjection(Alloc, PcbBlocks)
  BY <1>2, <1>3 DEF Surjection
<1> HIDE DEF held
<1>5. Cardinality(PcbBlocks) <= Cardinality(Alloc)
  BY <1>1, <1>4, FS_Surjection
<1>6. Cardinality(PcbBlocks) = NumPcbs
  BY FS_Interval, KernelAssumption DEF PcbBlocks
<1>7. Cardinality(Alloc) \in Nat /\ NumPcbs \in Nat
  BY <1>1, FS_CardinalityType, KernelAssumption
<1> QED
  BY <1>5, <1>6, <1>7 DEF PcbPoolFull

LEMMA ResInitInductive == ResInit => ResInductive
<1> SUFFICES ASSUME ResInit PROVE ResInductive
  OBVIOUS
<1>1. Inductive /\ TypeOK
  BY InitType, InitPlaced, InitTimers DEF ResInit, Inductive
<1>2. /\ 0 \in Pids /\ 1 \in PcbBlocks
      /\ lastPid = 1 /\ Alloc = {0}
      /\ \A p \in Pids : block[p] = IF p = 0 THEN 1 ELSE 0
  BY KernelAssumption DEF ResInit, Init, Alloc, Pids, PcbBlocks
<1>3. ResTypeOK
  BY <1>2, ResourceAssumption DEF ResInit, ResTypeOK
<1>4. BlocksOK
  BY <1>2 DEF BlocksOK, Kept, Pids
<1>5. SidesAgree /\ NoneUnborn
  <2>1. \A p \in Pids : Kept(p) => block[p] \in PcbBlocks
    BY <1>2 DEF Kept
  <2> QED
    BY <2>1 DEF ResInit, SidesAgree, NoneUnborn
<1>6. Descriptors = {}
  BY DEF ResInit, Descriptors
<1>7. kernel = "up" /\ descs = 0 /\ desptrs = 0
  BY DEF ResInit, Init
<1>8. Counted /\ FdsUnique
  BY <1>6, <1>7, FS_EmptySet DEF Counted, DescriptorAccounting, FdsUnique
<1> QED
  BY <1>1, <1>3, <1>4, <1>5, <1>8 DEF ResInductive

-----------------------------------------------------------------------------
(* The kernel's own steps. *)

\* Nobody is born: nothing happens to the PCB blocks.
LEMMA NoBirthRes ==
    ASSUME ResInductive, Next, Born = {}, UNCHANGED resources
    PROVE  BlocksOK' /\ SidesAgree' /\ NoneUnborn' /\ FdsUnique'
<1>0. /\ Inductive /\ BlocksOK /\ SidesAgree /\ NoneUnborn /\ FdsUnique
      /\ UNCHANGED <<listed, users, block, owned, lastFd>>
  BY DEF ResInductive, resources
<1>1. Alloc' \subseteq Alloc
  BY DEF Born, Alloc
<1>2. \A p \in Pids : p >= lastPid' => p >= lastPid
  <2>1. lastPid' \in Nat /\ lastPid' >= lastPid
    BY <1>0, LastPidGrows
  <2>2. lastPid \in Int /\ Pids \subseteq Int
    BY <1>0, KernelAssumption DEF Pids, Inductive, TypeOK
  <2> QED
    BY <2>1, <2>2
<1>3. \A p \in Pids : Kept(p)' <=> Kept(p)
  BY <1>0 DEF Kept
<1>4. BlocksOK'
  BY <1>0, <1>1, <1>2, <1>3, AllocPids DEF BlocksOK
<1>5. SidesAgree' /\ NoneUnborn'
  BY <1>0, <1>3 DEF SidesAgree, NoneUnborn
<1>6. FdsUnique'
  BY <1>0 DEF FdsUnique, Descriptors
<1> QED
  BY <1>4, <1>5, <1>6

\* p is born in block b, whose last owner, if any, is gone.
LEMMA BirthRes ==
    ASSUME ResInductive, Next, NEW p \in Born, NEW b \in FreeBlocks, TakeBlock(p, b),
           UNCHANGED <<listed, users>>
    PROVE  /\ BlocksOK' /\ SidesAgree' /\ NoneUnborn' /\ FdsUnique'
           /\ block' \in [Pids -> {0} \cup PcbBlocks]
           /\ owned' \in [PcbBlocks -> SUBSET [fd : Nat, slot : Slots]]
<1>0. /\ Inductive /\ ResTypeOK /\ BlocksOK /\ SidesAgree /\ NoneUnborn /\ FdsUnique
      /\ lastFd' = lastFd
  BY DEF ResInductive, TakeBlock
<1>1. /\ p \in Pids /\ p = lastPid /\ lastPid' = p + 1 /\ Alloc' = Alloc \cup {p}
  BY <1>0, BornIsNext
<1>2. b \in PcbBlocks /\ b # 0 /\ \A q \in Alloc : block[q] # b
  BY KernelAssumption DEF FreeBlocks, PcbBlocks
<1>3. /\ \A q \in Pids : block'[q] = IF q = p THEN b ELSE block[q]
      /\ \A c \in PcbBlocks : owned'[c] = IF c = b THEN {} ELSE owned[c]
      /\ block' \in [Pids -> {0} \cup PcbBlocks]
      /\ owned' \in [PcbBlocks -> SUBSET [fd : Nat, slot : Slots]]
  BY <1>0, <1>1, <1>2 DEF TakeBlock, ResTypeOK
<1>4. Pids \subseteq Int /\ p \in Int
  BY <1>1, KernelAssumption DEF Pids
<1>5. \A q \in Pids : q >= p => block[q] = 0
  BY <1>0, <1>1 DEF BlocksOK
<1>6. Kept(p)'
  <2> SUFFICES ASSUME NEW q \in Pids, block'[q] = block'[p] PROVE q <= p
    BY <1>1, <1>2, <1>3 DEF Kept
  <2> QED
    BY <1>1, <1>2, <1>3, <1>4, <1>5
<1>7. \A q \in Pids : Kept(q)' /\ q # p => Kept(q) /\ block[q] # b
  <2> SUFFICES ASSUME NEW q \in Pids, Kept(q)', q # p PROVE Kept(q) /\ block[q] # b
    OBVIOUS
  <2>1. block'[q] = block[q] /\ block[q] # 0 /\ ~(q >= p)
    BY <1>3, <1>5 DEF Kept
  <2>2. block[q] # b
    BY <1>1, <1>3, <1>4, <2>1 DEF Kept
  <2>3. ASSUME NEW r \in Pids, block[r] = block[q] PROVE r <= q
    <3>1. r # p
      BY <1>1, <1>4, <1>5, <2>1, <2>3
    <3> QED
      BY <1>3, <2>1, <2>3, <3>1 DEF Kept
  <2> QED
    BY <2>1, <2>2, <2>3 DEF Kept
<1>8. BlocksOK'
  <2>1. \A q \in Alloc : Kept(q)'
    <3> SUFFICES ASSUME NEW q \in Alloc PROVE Kept(q)'
      OBVIOUS
    <3>1. q \in Pids /\ Kept(q) /\ block[q] # b
      BY <1>0, <1>2, AllocPids DEF BlocksOK
    <3>2. q # p /\ block[q] # 0
      BY <1>1, <1>4, <1>5, <3>1 DEF Kept
    <3> QED
      BY <1>3, <3>1, <3>2 DEF Kept
  <2>2. \A q \in Pids : q >= lastPid' => block'[q] = 0
    BY <1>1, <1>3, <1>4, <1>5
  <2> QED
    BY <1>1, <1>6, <2>1, <2>2 DEF BlocksOK
<1>9. \A s \in Slots : \A u \in users[s] : u.pid \in Pids /\ u.pid # p
  BY <1>0, <1>1, <1>4, <1>5 DEF ResTypeOK, NoneUnborn
<1>10. NoneUnborn'
  BY <1>0, <1>3, <1>9 DEF NoneUnborn
<1>11. SidesAgree'
  <2>1. ASSUME NEW s \in Slots, NEW q \in Pids, NEW fd \in Nat, Kept(q)'
        PROVE  [pid |-> q, fd |-> fd] \in users[s] <=>
               [fd |-> fd, slot |-> s] \in owned'[block'[q]]
    <3>1. CASE q = p
      <4>1. owned'[block'[q]] = {}
        BY <1>1, <1>2, <1>3, <3>1
      <4>2. [pid |-> q, fd |-> fd].pid = p
        BY <3>1
      <4> QED
        BY <1>9, <4>1, <4>2
    <3>2. CASE q # p
      <4>1. Kept(q) /\ block[q] # b /\ block'[q] = block[q] /\ block[q] \in PcbBlocks
        BY <1>0, <1>3, <1>7, <2>1, <3>2 DEF ResTypeOK, Kept
      <4>2. owned'[block'[q]] = owned[block[q]]
        BY <1>3, <4>1
      <4> QED
        BY <1>0, <4>1, <4>2 DEF SidesAgree
    <3> QED
      BY <3>1, <3>2
  <2> QED
    BY <1>0, <2>1 DEF SidesAgree
<1>12. FdsUnique'
  <2>1. Descriptors' = Descriptors
    BY DEF Descriptors
  <2>2. \A x \in Descriptors : block'[x.pid] = block[x.pid]
    <3> SUFFICES ASSUME NEW x \in Descriptors PROVE block'[x.pid] = block[x.pid]
      OBVIOUS
    <3>1. PICK s \in Slots : \E u \in users[s] : x = [slot |-> s, pid |-> u.pid, fd |-> u.fd]
      BY DEF Descriptors
    <3>2. PICK u \in users[s] : x.pid = u.pid
      BY <3>1
    <3> QED
      BY <1>3, <1>9, <3>2
  <2> QED
    BY <1>0, <2>1, <2>2 DEF FdsUnique
<1> QED
  BY <1>3, <1>8, <1>10, <1>11, <1>12

LEMMA KernelStepRes ==
    ASSUME ResInductive, Next, FollowPcbs PROVE ResInductive'
<1>0. /\ Inductive /\ ResTypeOK /\ Counted
      /\ UNCHANGED <<listed, resId, resType, users, descs, desptrs>>
  BY DEF ResInductive, FollowPcbs
<1>1. Inductive'
  BY <1>0, StepType, StepPlaced, StepTimers DEF Inductive
<1>2. Counted'
  <2>1. kernel' # "null_desptr"
    BY <1>0, NoDesptrFault DEF Counted, DescriptorAccounting
  <2>2. Descriptors' = Descriptors
    BY <1>0 DEF Descriptors
  <2> QED
    BY <1>0, <2>1, <2>2 DEF Counted, DescriptorAccounting
<1>3. CASE Born = {} /\ UNCHANGED <<block, owned, lastFd>>
  <2>1. BlocksOK' /\ SidesAgree' /\ NoneUnborn' /\ FdsUnique'
    BY <1>0, <1>3, NoBirthRes DEF resources
  <2>2. ResTypeOK'
    BY <1>0, <1>3 DEF ResTypeOK
  <2> QED
    BY <1>1, <1>2, <2>1, <2>2 DEF ResInductive
<1>4. ASSUME NEW p \in Born, NEW b \in FreeBlocks, TakeBlock(p, b) PROVE ResInductive'
  <2>1. /\ BlocksOK' /\ SidesAgree' /\ NoneUnborn' /\ FdsUnique'
        /\ block' \in [Pids -> {0} \cup PcbBlocks]
        /\ owned' \in [PcbBlocks -> SUBSET [fd : Nat, slot : Slots]]
    BY <1>0, <1>4, BirthRes
  <2>2. ResTypeOK'
    BY <1>0, <1>4, <2>1 DEF ResTypeOK, TakeBlock
  <2> QED
    BY <1>1, <1>2, <2>1, <2>2 DEF ResInductive
<1> QED
  BY <1>3, <1>4 DEF FollowPcbs

-----------------------------------------------------------------------------
(* Calls that change no list of descriptors. *)

\* A call on resources gives and takes no PCB.
LEMMA StillBlocks ==
    ASSUME BlocksOK, KernelStill, block' = block
    PROVE  BlocksOK' /\ \A p \in Pids : Kept(p)' <=> Kept(p)
BY DEF BlocksOK, Kept, KernelStill, Alloc, family

\* The caller holds its PCB.
LEMMA CallerKept ==
    ASSUME Inductive, ResTypeOK, BlocksOK, NEW num, NEW arg \in Int, Enter(num, arg)
    PROVE  running \in Pids /\ Kept(running) /\ block[running] \in PcbBlocks
<1>1. running \in Pids /\ TypeOK /\ OnePlace
  BY CallerIsOld DEF Inductive
<1>2. running \in Alloc
  BY <1>1, CallerPlace DEF Alloc
<1>3. Kept(running) /\ block[running] # 0
  BY <1>2 DEF BlocksOK, Kept
<1> QED
  BY <1>1, <1>3 DEF ResTypeOK

\* A resource may come or go, if nobody has it open.
LEMMA StillRes ==
    ASSUME ResInductive, NEW num, Enter(num, 0), KernelStill,
           kernel' # "null_desptr",
           UNCHANGED <<users, block, owned, lastFd, descs, desptrs>>,
           listed' \subseteq Slots,
           \A s \in listed \ listed' : users[s] = {}
    PROVE  ResInductive'
<1>0. /\ Inductive /\ ResTypeOK /\ BlocksOK /\ SidesAgree /\ NoneUnborn /\ FdsUnique
      /\ Counted
  BY DEF ResInductive
<1>1. Inductive'
  BY <1>0, StillKeeps
<1>2. BlocksOK' /\ \A p \in Pids : Kept(p)' <=> Kept(p)
  BY <1>0, StillBlocks
<1>3. ResTypeOK' /\ NoneUnborn'
  BY <1>0 DEF ResTypeOK, NoneUnborn
<1>4. Descriptors' = Descriptors
  BY DEF Descriptors
<1>5. FdsUnique' /\ Counted'
  BY <1>0, <1>4 DEF FdsUnique, Counted, DescriptorAccounting
<1>6. SidesAgree'
  <2>1. \A s \in Slots : users[s] # {} => s \in listed'
    BY <1>0 DEF SidesAgree
  <2> QED
    BY <1>0, <1>2, <2>1 DEF SidesAgree
<1> QED
  BY <1>1, <1>2, <1>3, <1>5, <1>6 DEF ResInductive

LEMMA FailRes ==
    ASSUME ResInductive, NEW num, Enter(num, 0), NEW v \in Int, Fail(v)
    PROVE  ResInductive'
<1>1. Inductive /\ TypeOK /\ kernel # "null_desptr"
  BY DEF ResInductive, Inductive, Counted, DescriptorAccounting
<1>2. KernelStill /\ kernel' = kernel
  BY <1>1, AnswerStill, CallerIsOld DEF Fail, Answer
<1> QED
  BY <1>1, <1>2, StillRes DEF Fail, resources, ResInductive, ResTypeOK

-----------------------------------------------------------------------------
(* A descriptor more. *)

\* The resource of a free block has no descriptors.
LEMMA FreshHasNone ==
    ASSUME SidesAgree, NEW s \in Slots \ listed PROVE users[s] = {}
BY DEF SidesAgree

\* The lists of descriptors after a new one of fd for the resource in block s.
LEMMA AttachInverse ==
    ASSUME ResTypeOK, SidesAgree, running \in Pids, Kept(running),
           block[running] \in PcbBlocks, block' = block,
           NEW s \in listed', NEW others, others = users[s], NEW fd \in Nat,
           listed \subseteq listed', listed' \subseteq Slots,
           users' = [users EXCEPT ![s] = others \cup {[pid |-> running, fd |-> fd]}],
           owned' = [owned EXCEPT ![block[running]] = @ \cup {[fd |-> fd, slot |-> s]}]
    PROVE  SidesAgree'
<1>1. s \in Slots
  OBVIOUS
<1>2. \A r \in Slots : users'[r] = IF r = s
                                   THEN users[s] \cup {[pid |-> running, fd |-> fd]}
                                   ELSE users[r]
  BY <1>1 DEF ResTypeOK
<1>3. \A b \in PcbBlocks : owned'[b] = IF b = block[running]
                                       THEN owned[b] \cup {[fd |-> fd, slot |-> s]}
                                       ELSE owned[b]
  BY DEF ResTypeOK
<1>4. ASSUME NEW r \in Slots, NEW p \in Pids, NEW f \in Nat, Kept(p)'
      PROVE  [pid |-> p, fd |-> f] \in users'[r] <=>
             [fd |-> f, slot |-> r] \in owned'[block'[p]]
  <2>0. Kept(p) /\ block[p] \in PcbBlocks
    BY <1>4 DEF Kept, ResTypeOK
  <2>1. [pid |-> p, fd |-> f] \in users[r] <=> [fd |-> f, slot |-> r] \in owned[block[p]]
    BY <2>0 DEF SidesAgree
  <2>2. [pid |-> p, fd |-> f] = [pid |-> running, fd |-> fd] <=> p = running /\ f = fd
    OBVIOUS
  <2>3. [fd |-> f, slot |-> r] = [fd |-> fd, slot |-> s] <=> f = fd /\ r = s
    OBVIOUS
  <2>4. [pid |-> p, fd |-> f] \in users'[r] <=>
           [pid |-> p, fd |-> f] \in users[r] \/ (r = s /\ p = running /\ f = fd)
    BY <1>2, <2>2
  <2>5. block[p] = block[running] <=> p = running
    BY <2>0, KeptApart
  <2>6. [fd |-> f, slot |-> r] \in owned'[block[p]] <=>
           [fd |-> f, slot |-> r] \in owned[block[p]] \/ (r = s /\ p = running /\ f = fd)
    BY <1>3, <2>0, <2>3, <2>5
  <2> QED
    BY <2>1, <2>4, <2>6
<1>5. \A r \in Slots : users'[r] # {} => r \in listed'
  BY <1>2 DEF SidesAgree
<1> QED
  BY <1>4, <1>5 DEF SidesAgree

\* The descriptors after it.
LEMMA AttachDescriptors ==
    ASSUME ResTypeOK, running \in Pids, NEW s \in Slots, NEW fd \in Nat,
           users' = [users EXCEPT ![s] = users[s] \cup {[pid |-> running, fd |-> fd]}]
    PROVE  /\ users' \in [Slots -> SUBSET [pid : Pids, fd : Nat]]
           /\ Descriptors' = Descriptors \cup {[slot |-> s, pid |-> running, fd |-> fd]}
<1> DEFINE new == [slot |-> s, pid |-> running, fd |-> fd]
           u0  == [pid |-> running, fd |-> fd]
<1>0. users \in [Slots -> SUBSET [pid : Pids, fd : Nat]]
  BY DEF ResTypeOK
<1>1. u0 \in [pid : Pids, fd : Nat]
  OBVIOUS
<1>2. /\ users' \in [Slots -> SUBSET [pid : Pids, fd : Nat]]
      /\ \A r \in Slots : users'[r] = IF r = s THEN users[s] \cup {u0} ELSE users[r]
  <2> HIDE DEF u0
  <2> QED
    BY <1>0, <1>1 DEF u0
<1>3. Descriptors = Listing(users) /\ Descriptors' = Listing(users')
  BY DEF Descriptors, Listing
<1>4. ASSUME NEW x \in [slot : Slots, pid : Pids, fd : Nat]
      PROVE  x \in Listing(users') <=> x \in Listing(users) \/ x = new
  <2>1. x \in Listing(users') <=> [pid |-> x.pid, fd |-> x.fd] \in users'[x.slot]
    BY <1>2, ListingIs
  <2>2. x \in Listing(users) <=> [pid |-> x.pid, fd |-> x.fd] \in users[x.slot]
    BY <1>0, ListingIs
  <2>3. x = new <=> x.slot = s /\ x.pid = running /\ x.fd = fd
    OBVIOUS
  <2>4. [pid |-> x.pid, fd |-> x.fd] = u0 <=> x.pid = running /\ x.fd = fd
    OBVIOUS
  <2> HIDE DEF new, u0
  <2> QED
    BY <1>2, <2>1, <2>2, <2>3, <2>4
<1>5. Listing(users') = Listing(users) \cup {new}
  <2>1. /\ Listing(users) \subseteq [slot : Slots, pid : Pids, fd : Nat]
        /\ Listing(users') \subseteq [slot : Slots, pid : Pids, fd : Nat]
    BY <1>0, <1>2, ListingIs
  <2>2. new \in [slot : Slots, pid : Pids, fd : Nat]
    OBVIOUS
  <2> HIDE DEF new
  <2> QED
    BY <1>4, <2>1, <2>2
<1> QED
  BY <1>2, <1>3, <1>5

LEMMA AttachUnique ==
    ASSUME ResTypeOK, NoneUnborn, FdsUnique, running \in Pids, NEW s \in Slots,
           block[running] \in PcbBlocks, block' = block,
           users' = [users EXCEPT ![s] =
                        users[s] \cup {[pid |-> running, fd |-> lastFd[block[running]]]}],
           lastFd' = [lastFd EXCEPT ![block[running]] = lastFd[block[running]] + 1]
    PROVE  FdsUnique' /\ [slot |-> s, pid |-> running, fd |-> lastFd[block[running]]]
                             \notin Descriptors
<1> DEFINE b   == block[running]
           fd  == lastFd[b]
           new == [slot |-> s, pid |-> running, fd |-> fd]
<1>1. fd \in Nat /\ new.fd = fd /\ new.pid = running
  BY DEF ResTypeOK
<1>2. Descriptors' = Descriptors \cup {new}
  BY <1>1, AttachDescriptors
<1>3. \A c \in PcbBlocks : lastFd'[c] = IF c = b THEN fd + 1 ELSE lastFd[c]
  BY DEF ResTypeOK
<1>4. \A x \in Descriptors : /\ x.fd \in Nat /\ x.fd < lastFd[block[x.pid]]
                             /\ block[x.pid] \in PcbBlocks
  <2> SUFFICES ASSUME NEW x \in Descriptors
               PROVE  /\ x.fd \in Nat /\ x.fd < lastFd[block[x.pid]]
                      /\ block[x.pid] \in PcbBlocks
    OBVIOUS
  <2>1. PICK r \in Slots : \E u \in users[r] : x = [slot |-> r, pid |-> u.pid, fd |-> u.fd]
    BY DEF Descriptors
  <2>2. PICK u \in users[r] : x.pid = u.pid /\ x.fd = u.fd
    BY <2>1
  <2>3. u.pid \in Pids /\ u.fd \in Nat /\ block[u.pid] # 0
    BY DEF ResTypeOK, NoneUnborn
  <2> QED
    BY <2>2, <2>3 DEF FdsUnique, ResTypeOK
<1>5. \A x, y \in Descriptors : x.fd = y.fd /\ block[x.pid] = block[y.pid] => x = y
  BY DEF FdsUnique
<1>6. \A x \in Descriptors : block[x.pid] = b => x.fd < fd
  BY <1>4
<1>7. \A c \in PcbBlocks : lastFd[c] \in Nat
  BY DEF ResTypeOK
<1>8. b \in PcbBlocks /\ block[new.pid] = b
  BY <1>1
<1> HIDE DEF b, fd, new
<1>9. \A x \in Descriptors' : x.fd < lastFd'[block[x.pid]]
  BY <1>1, <1>2, <1>3, <1>4, <1>6, <1>7, <1>8
<1>10. \A x, y \in Descriptors' : x.fd = y.fd /\ block[x.pid] = block[y.pid] => x = y
  BY <1>1, <1>2, <1>4, <1>5, <1>6, <1>8
<1>11. new \notin Descriptors
  BY <1>1, <1>6, <1>8
<1> QED
  BY <1>9, <1>10, <1>11 DEF FdsUnique, new, fd, b

LEMMA AttachCounted ==
    ASSUME ResTypeOK, Counted, NEW new, new \notin Descriptors,
           Descriptors' = Descriptors \cup {new},
           descs < NumDescs, descs' = descs + 1, desptrs' = desptrs + 1,
           kernel' = IF desptrs >= NumDescs THEN "null_desptr" ELSE kernel
    PROVE  Counted' /\ descs' \in 0..NumDescs /\ desptrs' \in 0..NumDescs
<1>1. /\ descs \in Nat /\ desptrs = descs /\ NumDescs \in Nat
      /\ kernel # "null_desptr"
      /\ IsFiniteSet(Descriptors) /\ descs = Cardinality(Descriptors)
  BY ResourceAssumption DEF ResTypeOK, Counted, DescriptorAccounting
<1>2. IsFiniteSet(Descriptors') /\ Cardinality(Descriptors') = Cardinality(Descriptors) + 1
  BY <1>1, FS_AddElement
<1> QED
  BY <1>1, <1>2 DEF Counted, DescriptorAccounting

LEMMA AttachRes ==
    ASSUME ResInductive, NEW s \in listed', NEW others,
           Enter("open", 0), others = users[s],
           listed \subseteq listed', listed' \subseteq Slots,
           descs < NumDescs, Attach(s, others)
    PROVE  ResInductive'
<1> DEFINE b  == block[running]
           fd == lastFd[b]
<1>0. /\ Inductive /\ TypeOK /\ ResTypeOK /\ BlocksOK /\ SidesAgree /\ NoneUnborn
      /\ FdsUnique /\ Counted
  BY DEF ResInductive, Inductive
<1>1. running \in Pids /\ Kept(running) /\ b \in PcbBlocks
  BY <1>0, CallerKept
<1>2. fd \in Nat /\ b # 0 /\ s \in Slots
  BY <1>0, <1>1 DEF ResTypeOK, Kept
<1>3. /\ users' = [users EXCEPT ![s] = users[s] \cup {[pid |-> running, fd |-> fd]}]
      /\ owned' = [owned EXCEPT ![b] = @ \cup {[fd |-> fd, slot |-> s]}]
      /\ lastFd' = [lastFd EXCEPT ![b] = fd + 1]
      /\ descs' = descs + 1 /\ desptrs' = desptrs + 1
      /\ kernel' = IF desptrs >= NumDescs THEN "null_desptr" ELSE kernel
      /\ Return(fd)
      /\ UNCHANGED <<running, lists, family, status, block>>
  BY DEF Attach
<1>4. KernelStill
  <2>1. kernel' \in KernelModes
    BY <1>0, <1>3 DEF TypeOK, KernelModes, Faults
  <2>2. ret' \in [Pids -> Int]
    BY <1>0, <1>1, <1>2, <1>3 DEF TypeOK, Return
  <2> QED
    BY <1>3, <2>1, <2>2 DEF KernelStill
<1>5. Inductive' /\ BlocksOK'
  BY <1>0, <1>3, <1>4, StillKeeps, StillBlocks
<1>6. SidesAgree'
  BY <1>0, <1>1, <1>2, <1>3, AttachInverse
<1>7. FdsUnique' /\ [slot |-> s, pid |-> running, fd |-> fd] \notin Descriptors
  BY <1>0, <1>1, <1>2, <1>3, AttachUnique
<1>8. /\ users' \in [Slots -> SUBSET [pid : Pids, fd : Nat]]
      /\ Descriptors' = Descriptors \cup {[slot |-> s, pid |-> running, fd |-> fd]}
  BY <1>0, <1>1, <1>2, <1>3, AttachDescriptors
<1>9. Counted' /\ descs' \in 0..NumDescs /\ desptrs' \in 0..NumDescs
  BY <1>0, <1>3, <1>7, <1>8, AttachCounted
<1>10. NoneUnborn'
  <2>1. \A r \in Slots : \A u \in users'[r] : u \in users[r] \/ u.pid = running
    BY <1>0, <1>2, <1>3 DEF ResTypeOK
  <2> QED
    BY <1>0, <1>2, <1>3, <2>1 DEF NoneUnborn
<1>11. ResTypeOK'
  <2>1. [fd |-> fd, slot |-> s] \in [fd : Nat, slot : Slots]
    BY <1>2
  <2>2. fd + 1 \in Nat
    BY <1>2
  <2> HIDE DEF fd, b
  <2>3. owned' \in [PcbBlocks -> SUBSET [fd : Nat, slot : Slots]]
    BY <1>0, <1>1, <1>3, <2>1 DEF ResTypeOK
  <2>4. lastFd' \in [PcbBlocks -> Nat]
    BY <1>0, <1>3, <2>2 DEF ResTypeOK
  <2> QED
    BY <1>0, <1>3, <1>8, <1>9, <2>3, <2>4 DEF ResTypeOK
<1> QED
  BY <1>5, <1>6, <1>7, <1>9, <1>10, <1>11 DEF ResInductive

-----------------------------------------------------------------------------
(* A descriptor less. *)

LEMMA DetachInverse ==
    ASSUME ResTypeOK, SidesAgree, running \in Pids, Kept(running),
           block[running] \in PcbBlocks, block' = block,
           NEW s \in Slots, NEW fd \in Nat, listed' = listed,
           users' = [users EXCEPT ![s] = @ \ {[pid |-> running, fd |-> fd]}],
           owned' = [owned EXCEPT ![block[running]] = @ \ {[fd |-> fd, slot |-> s]}]
    PROVE  SidesAgree'
<1>1. \A r \in Slots : users'[r] = IF r = s
                                   THEN users[s] \ {[pid |-> running, fd |-> fd]}
                                   ELSE users[r]
  BY DEF ResTypeOK
<1>2. \A b \in PcbBlocks : owned'[b] = IF b = block[running]
                                       THEN owned[b] \ {[fd |-> fd, slot |-> s]}
                                       ELSE owned[b]
  BY DEF ResTypeOK
<1>3. ASSUME NEW r \in Slots, NEW p \in Pids, NEW f \in Nat, Kept(p)'
      PROVE  [pid |-> p, fd |-> f] \in users'[r] <=>
             [fd |-> f, slot |-> r] \in owned'[block'[p]]
  <2>0. Kept(p) /\ block[p] \in PcbBlocks
    BY <1>3 DEF Kept, ResTypeOK
  <2>1. [pid |-> p, fd |-> f] \in users[r] <=> [fd |-> f, slot |-> r] \in owned[block[p]]
    BY <2>0 DEF SidesAgree
  <2>2. [pid |-> p, fd |-> f] = [pid |-> running, fd |-> fd] <=> p = running /\ f = fd
    OBVIOUS
  <2>3. [fd |-> f, slot |-> r] = [fd |-> fd, slot |-> s] <=> f = fd /\ r = s
    OBVIOUS
  <2>4. [pid |-> p, fd |-> f] \in users'[r] <=>
           [pid |-> p, fd |-> f] \in users[r] /\ ~(r = s /\ p = running /\ f = fd)
    BY <1>1, <2>2
  <2>5. block[p] = block[running] <=> p = running
    BY <2>0, KeptApart
  <2>6. [fd |-> f, slot |-> r] \in owned'[block[p]] <=>
           [fd |-> f, slot |-> r] \in owned[block[p]] /\ ~(r = s /\ p = running /\ f = fd)
    BY <1>2, <2>0, <2>3, <2>5
  <2> QED
    BY <2>1, <2>4, <2>6
<1>4. \A r \in Slots : users'[r] # {} => r \in listed'
  BY <1>1 DEF SidesAgree
<1> QED
  BY <1>3, <1>4 DEF SidesAgree

LEMMA DetachDescriptors ==
    ASSUME ResTypeOK, running \in Pids, NEW s \in Slots, NEW fd \in Nat,
           users' = [users EXCEPT ![s] = @ \ {[pid |-> running, fd |-> fd]}]
    PROVE  /\ users' \in [Slots -> SUBSET [pid : Pids, fd : Nat]]
           /\ \A r \in Slots : users'[r] \subseteq users[r]
           /\ Descriptors' = Descriptors \ {[slot |-> s, pid |-> running, fd |-> fd]}
<1> DEFINE gone == [slot |-> s, pid |-> running, fd |-> fd]
           u0   == [pid |-> running, fd |-> fd]
<1>0. users \in [Slots -> SUBSET [pid : Pids, fd : Nat]]
  BY DEF ResTypeOK
<1>1. /\ users' \in [Slots -> SUBSET [pid : Pids, fd : Nat]]
      /\ \A r \in Slots : users'[r] = IF r = s THEN users[s] \ {u0} ELSE users[r]
  <2> HIDE DEF u0
  <2> QED
    BY <1>0 DEF u0
<1>2. Descriptors = Listing(users) /\ Descriptors' = Listing(users')
  BY DEF Descriptors, Listing
<1>3. ASSUME NEW x \in [slot : Slots, pid : Pids, fd : Nat]
      PROVE  x \in Listing(users') <=> x \in Listing(users) /\ x # gone
  <2>1. x \in Listing(users') <=> [pid |-> x.pid, fd |-> x.fd] \in users'[x.slot]
    BY <1>1, ListingIs
  <2>2. x \in Listing(users) <=> [pid |-> x.pid, fd |-> x.fd] \in users[x.slot]
    BY <1>0, ListingIs
  <2>3. x = gone <=> x.slot = s /\ x.pid = running /\ x.fd = fd
    OBVIOUS
  <2>4. [pid |-> x.pid, fd |-> x.fd] = u0 <=> x.pid = running /\ x.fd = fd
    OBVIOUS
  <2> HIDE DEF gone, u0
  <2> QED
    BY <1>1, <2>1, <2>2, <2>3, <2>4
<1>4. Listing(users') = Listing(users) \ {gone}
  <2>1. /\ Listing(users) \subseteq [slot : Slots, pid : Pids, fd : Nat]
        /\ Listing(users') \subseteq [slot : Slots, pid : Pids, fd : Nat]
    BY <1>0, <1>1, ListingIs
  <2> HIDE DEF gone
  <2> QED
    BY <1>3, <2>1
<1> QED
  BY <1>1, <1>2, <1>4

LEMMA DetachCounted ==
    ASSUME ResTypeOK, Counted, NEW gone \in Descriptors,
           Descriptors' = Descriptors \ {gone},
           descs' = descs - 1, desptrs' = desptrs - 1, kernel' = kernel
    PROVE  Counted' /\ descs' \in 0..NumDescs /\ desptrs' \in 0..NumDescs
<1>1. /\ descs \in Nat /\ desptrs = descs /\ NumDescs \in Nat /\ descs <= NumDescs
      /\ kernel # "null_desptr"
      /\ IsFiniteSet(Descriptors) /\ descs = Cardinality(Descriptors)
  BY ResourceAssumption DEF ResTypeOK, Counted, DescriptorAccounting
<1>2. IsFiniteSet(Descriptors') /\ Cardinality(Descriptors') = Cardinality(Descriptors) - 1
  BY <1>1, FS_RemoveElement
<1>3. Cardinality(Descriptors') \in Nat
  BY <1>2, FS_CardinalityType
<1> QED
  BY <1>1, <1>2, <1>3 DEF Counted, DescriptorAccounting

LEMMA CloseRes ==
    ASSUME ResInductive, NEW fd \in Nat, Close(fd) PROVE ResInductive'
<1>0. /\ Inductive /\ TypeOK /\ ResTypeOK /\ BlocksOK /\ SidesAgree /\ NoneUnborn
      /\ FdsUnique /\ Counted /\ Enter("close", 0)
  BY DEF ResInductive, Inductive, Close
<1>1. running \in Pids /\ Kept(running) /\ block[running] \in PcbBlocks
  BY <1>0, CallerKept
<1>2. CASE Fail(DSOS_ERESOURCECLOSE)
  BY <1>0, <1>2, FailRes DEF DSOS_ERESOURCECLOSE
<1>3. CASE \E d \in owned[block[running]] :
              /\ d.fd = fd /\ Detach(d) /\ Answer(0)
              /\ UNCHANGED <<listed, resId, resType, block, lastFd>>
  <2> PICK d \in owned[block[running]] :
              /\ d.fd = fd /\ Detach(d) /\ Answer(0)
              /\ UNCHANGED <<listed, resId, resType, block, lastFd>>
    BY <1>3
  <2> DEFINE s == d.slot
             gone == [slot |-> s, pid |-> running, fd |-> fd]
  <2>1. s \in Slots /\ d = [fd |-> fd, slot |-> s]
    <3>1. d \in [fd : Nat, slot : Slots]
      BY <1>0, <1>1 DEF ResTypeOK
    <3> QED
      BY <3>1
  <2>2. /\ owned' = [owned EXCEPT ![block[running]] = @ \ {[fd |-> fd, slot |-> s]}]
        /\ users' = [users EXCEPT ![s] = @ \ {[pid |-> running, fd |-> fd]}]
        /\ descs' = descs - 1 /\ desptrs' = desptrs - 1
        /\ [fd |-> fd, slot |-> s] \in owned[block[running]]
    BY <2>1 DEF Detach
  <2>3. UNCHANGED <<listed, block, lastFd>> /\ kernel' = kernel
    BY DEF Answer
  <2> HIDE DEF s
  <2>4. KernelStill
    BY <1>0, <1>1, AnswerStill
  <2>5. Inductive' /\ BlocksOK'
    BY <1>0, <2>3, <2>4, StillKeeps, StillBlocks
  <2>6. SidesAgree'
    BY <1>0, <1>1, <2>1, <2>2, <2>3, DetachInverse
  <2>7. /\ users' \in [Slots -> SUBSET [pid : Pids, fd : Nat]]
        /\ \A r \in Slots : users'[r] \subseteq users[r]
        /\ Descriptors' = Descriptors \ {gone}
    BY <1>0, <1>1, <2>1, <2>2, DetachDescriptors
  <2>8. gone \in Descriptors
    <3>1. [pid |-> running, fd |-> fd] \in users[s]
      BY <1>0, <1>1, <2>1, <2>2 DEF SidesAgree
    <3>2. gone \in [slot : Slots, pid : Pids, fd : Nat] /\ gone.slot = s
          /\ gone.pid = running /\ gone.fd = fd
      BY <1>1, <2>1
    <3>3. Descriptors = Listing(users)
      BY DEF Descriptors, Listing
    <3> HIDE DEF gone
    <3> QED
      BY <1>0, <3>1, <3>2, <3>3, ListingIs DEF ResTypeOK
  <2> HIDE DEF gone
  <2>9. Counted' /\ descs' \in 0..NumDescs /\ desptrs' \in 0..NumDescs
    BY <1>0, <2>2, <2>3, <2>7, <2>8, DetachCounted
  <2>10. owned' \in [PcbBlocks -> SUBSET [fd : Nat, slot : Slots]]
    BY <1>0, <2>2 DEF ResTypeOK
  <2>11. ResTypeOK'
    BY <1>0, <2>3, <2>7, <2>9, <2>10 DEF ResTypeOK
  <2>12. NoneUnborn' /\ FdsUnique'
    BY <1>0, <2>3, <2>7 DEF NoneUnborn, FdsUnique
  <2> QED
    BY <2>5, <2>6, <2>9, <2>11, <2>12 DEF ResInductive
<1> QED
  BY <1>2, <1>3 DEF Close

-----------------------------------------------------------------------------
(* Open and destroy. *)

LEMMA OpenInRes ==
    ASSUME ResInductive, Enter("open", 0), NEW s \in listed', NEW others,
           others = users[s], listed \subseteq listed', listed' \subseteq Slots,
           OpenIn(s, others)
    PROVE  ResInductive'
<1>1. CASE descs < NumDescs /\ Attach(s, others)
  BY <1>1, AttachRes
<1>2. CASE /\ Answer(DSOS_ERESOURCENOFD)
           /\ users' = [users EXCEPT ![s] = others]
           /\ UNCHANGED <<block, owned, lastFd, descs, desptrs>>
  <2>1. Inductive /\ TypeOK /\ ResTypeOK /\ kernel # "null_desptr"
    BY DEF ResInductive, Inductive, Counted, DescriptorAccounting
  <2>2. users' = users
    BY <1>2, <2>1 DEF ResTypeOK
  <2>3. KernelStill /\ kernel' = kernel
    BY <1>2, <2>1, AnswerStill, CallerIsOld DEF Answer, DSOS_ERESOURCENOFD
  <2>4. \A r \in listed \ listed' : users[r] = {}
    OBVIOUS
  <2> QED
    BY <1>2, <2>1, <2>2, <2>3, <2>4, StillRes
<1> QED
  BY <1>1, <1>2 DEF OpenIn

LEMMA OpenRes ==
    ASSUME ResInductive, NEW id, NEW type, NEW mode, Open(id, type, mode)
    PROVE  ResInductive'
<1>0. /\ Inductive /\ TypeOK /\ ResTypeOK /\ SidesAgree /\ kernel # "null_desptr"
      /\ Enter("open", 0)
  BY DEF ResInductive, Inductive, Counted, DescriptorAccounting, Open
<1>1. listed \subseteq Slots
  BY <1>0 DEF ResTypeOK
<1>2. ASSUME NEW v \in Int, Fail(v) PROVE ResInductive'
  BY <1>0, <1>2, FailRes
<1>3. CASE OpenNew(id, type)
  <2>1. CASE Stop("null_resource") /\ UNCHANGED resources
    <3>1. KernelStill /\ kernel' # "null_desptr"
      BY <1>0, <2>1, StopStill DEF Stop, KernelModes, Faults
    <3> QED
      BY <1>0, <1>1, <2>1, <3>1, StillRes DEF resources
  <2>2. ASSUME NEW s \in Slots \ listed, listed' = listed \cup {s}, OpenIn(s, {})
        PROVE  ResInductive'
    <3>1. users[s] = {}
      BY <1>0, FreshHasNone
    <3> QED
      BY <1>0, <1>1, <2>2, <3>1, OpenInRes
  <2> QED
    BY <1>3, <2>1, <2>2 DEF OpenNew
<1>4. ASSUME NEW s \in ById(id), OpenOld(s, type, mode) PROVE ResInductive'
  <2>1. s \in listed
    BY DEF ById
  <2>2. CASE OpenIn(s, users[s]) /\ UNCHANGED <<listed, resId, resType>>
    BY <1>0, <1>1, <2>1, <2>2, OpenInRes
  <2> QED
    BY <1>2, <1>4, <2>2 DEF OpenOld, DSOS_ERESOURCEOPEN, DSOS_ERESOURCENOEXCL
<1> QED
  BY <1>2, <1>3, <1>4 DEF Open, DSOS_ERESOURCECREATE, DSOS_ERESOURCEOPEN

LEMMA DestroyRes == ASSUME ResInductive, NEW id, Destroy(id) PROVE ResInductive'
<1>0. /\ Inductive /\ TypeOK /\ ResTypeOK /\ kernel # "null_desptr"
      /\ Enter("destroy", 0) /\ listed \subseteq Slots
  BY DEF ResInductive, Inductive, Counted, DescriptorAccounting, Destroy, ResTypeOK
<1>1. CASE Fail(DSOS_ERESOURCECLOSE) \/ Fail(DSOS_ERESOURCEINUSE)
  BY <1>0, <1>1, FailRes DEF DSOS_ERESOURCECLOSE, DSOS_ERESOURCEINUSE
<1>2. ASSUME NEW s, ~Used(s), listed' = listed \ {s}, Answer(0),
             UNCHANGED <<users, block, owned, lastFd, descs, desptrs>>
      PROVE  ResInductive'
  <2>1. KernelStill /\ kernel' = kernel
    BY <1>0, <1>2, AnswerStill, CallerIsOld DEF Answer
  <2>2. \A r \in listed \ listed' : users[r] = {}
    BY <1>2 DEF Used
  <2> QED
    BY <1>0, <1>2, <2>1, <2>2, StillRes
<1> QED
  BY <1>1, <1>2 DEF Destroy

LEMMA ResStep == ResInductive /\ [ResNext]_resvars => ResInductive'
<1> SUFFICES ASSUME ResInductive, [ResNext]_resvars PROVE ResInductive'
  OBVIOUS
<1>1. CASE ResourceCall
  <2>1. \A fd \in 0..MaxFd : fd \in Nat
    BY ResourceAssumption
  <2> QED
    BY <1>1, <2>1, OpenRes, CloseRes, DestroyRes DEF ResourceCall
<1>2. CASE Next /\ FollowPcbs
  BY <1>2, KernelStepRes
<1>3. CASE UNCHANGED resvars
  <2>1. UNCHANGED vars /\ UNCHANGED resources
    BY <1>3 DEF resvars
  <2>2. Inductive'
    BY <2>1, StepType, StepPlaced, StepTimers DEF ResInductive, Inductive
  <2>3. ResTypeOK' /\ BlocksOK' /\ SidesAgree' /\ NoneUnborn'
    BY <2>1 DEF ResInductive, ResTypeOK, BlocksOK, Kept, Alloc, SidesAgree, NoneUnborn,
                vars, family, resources
  <2>4. FdsUnique' /\ Counted'
    BY <2>1 DEF ResInductive, FdsUnique, Counted, DescriptorAccounting, Descriptors,
                vars, resources
  <2> QED
    BY <2>2, <2>3, <2>4 DEF ResInductive
<1> QED
  BY <1>1, <1>2, <1>3 DEF ResNext

LEMMA ResHolds == ResSpec => []ResInductive
BY ResInitInductive, ResStep, PTL DEF ResSpec

-----------------------------------------------------------------------------
(* The theorems. *)

\* For every number of processes, resources and descriptors: every variable of
\* the resources keeps its type, and neither pool counts below zero or past its
\* size.
THEOREM ResourcesTypeCorrect == ResSpec => []ResTypeOK
<1>1. ResInductive => ResTypeOK
  BY DEF ResInductive
<1> QED
  BY <1>1, ResHolds, PTL

\* For every number of processes, PCB blocks and resources: what the list of a PCB
\* has in it is what its last owner has open, and nothing the owner before it left
\* behind; what is left behind stays on the list of its resource, which lives.
THEOREM ListsAlwaysInverse == ResSpec => []ListsInverse
<1>1. ResInductive => ListsInverse
  BY ResourceAssumption DEF ResInductive, SidesAgree, ListsInverse
<1> QED
  BY <1>1, ResHolds, PTL

\* However often PCB blocks, with the last_fd they keep, are used again, and
\* whatever their owners leave open: no two descriptors in the system have the
\* same PCB block and the same fd.
THEOREM FdsAlwaysUnique == ResSpec => []FdsUnique
<1>1. ResInductive => FdsUnique
  BY DEF ResInductive
<1> QED
  BY <1>1, ResHolds, PTL

\* For every size of the pools: they hold one block per descriptor each, and
\* the DescriptorPtr taken without a look at its pool is never null.
THEOREM DescriptorsAlwaysCounted == ResSpec => []DescriptorAccounting
<1>1. ResInductive => DescriptorAccounting
  BY DEF ResInductive, Counted
<1> QED
  BY <1>1, ResHolds, PTL

\* A call on resources moves no process: with them among the calls the kernel
\* still keeps every PCB in one place and every timer item to its sleeper.
THEOREM ResourcesKeepPlaces == ResSpec => [](OnePlace /\ TimersMatchSleepers)
<1>1. ResInductive => OnePlace /\ TimersMatchSleepers
  BY DEF ResInductive, Inductive
<1> QED
  BY <1>1, ResHolds, PTL

\* The calls of the kernel leave another number than open's in syscall_num, and
\* a tick takes no PCB.
LEMMA KernelNotOpen ==
    ASSUME Inductive, Next, running # NoProc, syscall'[running].num = "open"
    PROVE  Born = {}
<1>0. TypeOK /\ OnePlace /\ TimersMatchSleepers /\ running \in Pids
  BY DEF Inductive, TypeOK
<1>1. ASSUME NEW num, NEW arg, Enter(num, arg) PROVE num = "open"
  BY <1>0, <1>1 DEF Enter, TypeOK
<1>2. Tick
  BY <1>0, <1>1 DEF Next, UserCall, Interrupt, Preempt, Unimplemented, Spawn, Fork,
     NewChild, Exit, Shutdown, Wait, Sleep, IdleWake, IdleRestart
<1>3. FamilyKept
  BY <1>0, <1>2, TickKept DEF Tick, Quiet
<1> QED
  BY <1>3 DEF FamilyKept, Live, Born

LEMMA OpenInClean ==
    ASSUME ResTypeOK, running \in Pids, block[running] \in PcbBlocks,
           ret \in [Pids -> Int], NEW s \in listed',
           listed' \subseteq Slots, NEW others, others = users[s],
           OpenIn(s, others), ret'[running] < 0
    PROVE  /\ UNCHANGED <<owned, lastFd, descs, desptrs>>
           /\ users' = users /\ descs = NumDescs
<1>1. CASE Attach(s, others)
  <2>1. ret'[running] = lastFd[block[running]] /\ lastFd[block[running]] \in Nat
    BY <1>1 DEF Attach, Return, ResTypeOK
  <2> QED
    BY <2>1
<1>2. CASE /\ descs >= NumDescs
           /\ users' = [users EXCEPT ![s] = others]
           /\ UNCHANGED <<block, owned, lastFd, descs, desptrs>>
  BY <1>2, ResourceAssumption DEF ResTypeOK
<1> QED
  BY <1>1, <1>2 DEF OpenIn

\* For every size of the pools: an open that fails changes nothing, but that it
\* may leave a new resource, open to nobody, when no descriptor is left.
THEOREM FailedOpenAlwaysClean == ResSpec => FailedOpenIsClean
<1> DEFINE Clean == /\ UNCHANGED <<owned, lastFd, descs, desptrs>>
                    /\ \A s \in listed : users'[s] = users[s]
                    /\ listed' # listed => /\ descs = NumDescs
                                           /\ \A s \in listed' \ listed : users'[s] = {}
           Failed == running # NoProc /\ syscall'[running].num = "open"
                        /\ ret'[running] < 0
<1>1. ResInductive /\ [ResNext]_resvars => [Failed => Clean]_resvars
  <2> SUFFICES ASSUME ResInductive, [ResNext]_resvars, Failed PROVE Clean \/ UNCHANGED resvars
    OBVIOUS
  <2>0. /\ Inductive /\ TypeOK /\ ResTypeOK /\ BlocksOK /\ SidesAgree /\ running \in Pids
        /\ ret \in [Pids -> Int] /\ listed \subseteq Slots
    BY DEF ResInductive, Inductive, TypeOK, ResTypeOK
  <2>1. UNCHANGED resources => Clean
    BY DEF resources
  <2>2. ASSUME NEW id, NEW type, NEW mode, Open(id, type, mode) PROVE Clean
    <3>0. block[running] \in PcbBlocks
      BY <2>0, <2>2, CallerKept DEF Open
    <3>1. ASSUME NEW v, Fail(v) PROVE Clean
      BY <2>1, <3>1 DEF Fail
    <3>2. CASE OpenNew(id, type)
      <4>1. CASE UNCHANGED resources
        BY <2>1, <4>1
      <4>2. ASSUME NEW s \in Slots \ listed, listed' = listed \cup {s}, OpenIn(s, {})
            PROVE  Clean
        <5>1. users[s] = {}
          BY <2>0, FreshHasNone
        <5>2. /\ UNCHANGED <<owned, lastFd, descs, desptrs>>
              /\ users' = users /\ descs = NumDescs
          BY <2>0, <3>0, <4>2, <5>1, OpenInClean
        <5> QED
          BY <4>2, <5>1, <5>2
      <4> QED
        BY <3>2, <4>1, <4>2 DEF OpenNew
    <3>3. ASSUME NEW s \in ById(id), OpenOld(s, type, mode) PROVE Clean
      <4>1. CASE OpenIn(s, users[s]) /\ UNCHANGED <<listed, resId, resType>>
        BY <2>0, <3>0, <4>1, OpenInClean DEF ById
      <4> QED
        BY <3>1, <3>3, <4>1 DEF OpenOld
    <3> QED
      BY <2>2, <3>1, <3>2, <3>3 DEF Open
  <2>3. ASSUME NEW num, Enter(num, 0) PROVE num = "open"
    BY <2>0, <2>3 DEF Enter, TypeOK
  <2>4. CASE ResourceCall
    BY <2>2, <2>3, <2>4 DEF ResourceCall, Close, Destroy
  <2>5. CASE Next /\ FollowPcbs
    <3>1. Born = {}
      BY <2>0, <2>5, KernelNotOpen
    <3> QED
      BY <2>5, <3>1 DEF FollowPcbs
  <2> QED
    BY <2>4, <2>5 DEF ResNext
<1> QED
  BY <1>1, ResHolds, PTL DEF ResSpec, FailedOpenIsClean
=============================================================================
