----------------------------- MODULE Resources -----------------------------
(***************************************************************************)
(* Resources and descriptors (disastrOS_open_resource.c and its siblings)  *)
(* on top of the process kernel.  A resource is named by its block, so     *)
(* that one destroyed and one created again under the same id differ; a    *)
(* descriptor is an element of its process's list and, through its         *)
(* DescriptorPtr, of its resource's.  Neither list's order matters.  Here  *)
(* a PCB is the block it is stored in as well as a pid, since both its     *)
(* descriptor list and its last_fd survive the process.                    *)
(***************************************************************************)
EXTENDS Kernel

CONSTANTS
    Ids,         \* resource ids user code uses
    Types,       \* resource types user code uses
    OpenModes,   \* modes user code passes to disastrOS_openResource
    MaxFd,       \* bound: fds given out per process block
    NumResources,\* blocks of _resources_allocator (MAX_NUM_RESOURCES)
    NumDescs     \* blocks of _descriptor_allocator and of
                 \* _descriptor_ptr_allocator (both MAX_NUM_PROCESSES)

ASSUME ResourceAssumption ==
    /\ OpenModes \subseteq Nat
    /\ MaxFd \in Nat
    /\ NumResources \in Nat
    /\ NumDescs \in Nat

DSOS_ERESOURCECREATE == -8
DSOS_ERESOURCEOPEN   == -9
DSOS_ERESOURCENOEXCL == -10
DSOS_ERESOURCENOFD   == -11
DSOS_ERESOURCECLOSE  == -12
DSOS_ERESOURCEINUSE  == -13

\* open_mode & DSOS_CREATE, with DSOS_CREATE = 1, which DSOS_WRITE = 3 also
\* contains; open_mode & DSOS_EXCL, with DSOS_EXCL = 4.
Creates(mode)   == mode % 2 = 1
Exclusive(mode) == (mode \div 4) % 2 = 1

Slots     == 1..NumResources
PcbBlocks == 1..NumPcbs

VARIABLES
    listed,    \* blocks in resources_list
    resId,     \* Resource.id
    resType,   \* Resource.type
    users,     \* Resource.descriptors_ptrs: the descriptors they point at,
               \* each with its fd and the process that opened it
    block,     \* the PCB block a process has or had; 0 for one not yet born
    owned,     \* PCB.descriptors, by PCB block
    lastFd,    \* PCB.last_fd, by PCB block
    descs,     \* Descriptor blocks out of their pool
    desptrs    \* DescriptorPtr blocks out of theirs

resources == <<listed, resId, resType, users, block, owned, lastFd, descs, desptrs>>
resvars   == <<vars, resources>>
-----------------------------------------------------------------------------
(* System calls of the running process *)

Fail(v) == Answer(v) /\ UNCHANGED resources

\* ResourceList_byId.
ById(id) == {s \in listed : resId[s] = id}

\* The caller gets a new descriptor of the resource in block s, which has the
\* descriptors others; the DescriptorPtr is taken without a look at the pool.
Attach(s, others) ==
    LET b  == block[running]
        fd == lastFd[b]
    IN  /\ fd < MaxFd
        /\ users' = [users EXCEPT ![s] = others \cup {[pid |-> running, fd |-> fd]}]
        /\ owned' = [owned EXCEPT ![b] = @ \cup {[fd |-> fd, slot |-> s]}]
        /\ lastFd' = [lastFd EXCEPT ![b] = fd + 1]
        /\ descs' = descs + 1
        /\ desptrs' = desptrs + 1
        /\ kernel' = IF desptrs >= NumDescs THEN "null_desptr" ELSE kernel
        /\ Return(fd)
        /\ UNCHANGED <<running, lists, family, status, block>>

\* Mutants: the test of the descriptor pool is off by one; the fd is counted
\* before the descriptor is there.
OpenInLate(s, others) ==
    \/ /\ descs > NumDescs
       /\ Answer(DSOS_ERESOURCENOFD)
       /\ users' = [users EXCEPT ![s] = others]
       /\ UNCHANGED <<block, owned, lastFd, descs, desptrs>>
    \/ descs <= NumDescs /\ Attach(s, others)
OpenInBumps(s, others) ==
    \/ /\ descs >= NumDescs /\ lastFd[block[running]] < MaxFd
       /\ Answer(DSOS_ERESOURCENOFD)
       /\ users' = [users EXCEPT ![s] = others]
       /\ lastFd' = [lastFd EXCEPT ![block[running]] = @ + 1]
       /\ UNCHANGED <<block, owned, descs, desptrs>>
    \/ descs < NumDescs /\ Attach(s, others)

\* The last part of internal_openResource, for the resource in block s.
OpenIn(s, others) ==
    \/ /\ descs >= NumDescs
       /\ Answer(DSOS_ERESOURCENOFD)
       /\ users' = [users EXCEPT ![s] = others]
       /\ UNCHANGED <<block, owned, lastFd, descs, desptrs>>
    \/ descs < NumDescs /\ Attach(s, others)

\* A new resource in a block the pool chooses; nothing takes it back when the
\* open fails after this.
OpenNew(id, type) ==
    \/ listed = Slots /\ Stop("null_resource") /\ UNCHANGED resources
    \/ \E s \in Slots \ listed :
          /\ listed' = listed \cup {s}
          /\ resId' = [resId EXCEPT ![s] = id]
          /\ resType' = [resType EXCEPT ![s] = type]
          /\ OpenIn(s, {})

OpenOld(s, type, mode) ==
    \/ resType[s] # type /\ Fail(DSOS_ERESOURCEOPEN)
    \/ /\ resType[s] = type /\ Exclusive(mode) /\ users[s] # {}
       /\ Fail(DSOS_ERESOURCENOEXCL)
    \/ /\ resType[s] = type /\ ~(Exclusive(mode) /\ users[s] # {})
       /\ OpenIn(s, users[s])
       /\ UNCHANGED <<listed, resId, resType>>

Open(id, type, mode) ==
    /\ Enter("open", 0)
    /\ \/ Creates(mode) /\ ById(id) # {} /\ Fail(DSOS_ERESOURCECREATE)
       \/ Creates(mode) /\ ById(id) = {} /\ OpenNew(id, type)
       \/ ~Creates(mode) /\ ById(id) = {} /\ Fail(DSOS_ERESOURCEOPEN)
       \/ ~Creates(mode) /\ \E s \in ById(id) : OpenOld(s, type, mode)

\* Mutant: the block of the DescriptorPtr is not released.
DetachLeaks(d) ==
    /\ owned' = [owned EXCEPT ![block[running]] = @ \ {d}]
    /\ users' = [users EXCEPT ![d.slot] = @ \ {[pid |-> running, fd |-> d.fd]}]
    /\ descs' = descs - 1
    /\ UNCHANGED desptrs

\* A descriptor leaves both lists and both its blocks go back.
Detach(d) ==
    /\ owned' = [owned EXCEPT ![block[running]] = @ \ {d}]
    /\ users' = [users EXCEPT ![d.slot] = @ \ {[pid |-> running, fd |-> d.fd]}]
    /\ descs' = descs - 1
    /\ desptrs' = desptrs - 1

Close(fd) ==
    /\ Enter("close", 0)
    /\ \/ (\A d \in owned[block[running]] : d.fd # fd) /\ Fail(DSOS_ERESOURCECLOSE)
       \/ /\ \E d \in owned[block[running]] : d.fd = fd /\ Detach(d)
          /\ Answer(0)
          /\ UNCHANGED <<listed, resId, resType, block, lastFd>>

Used(s) == users[s] # {}

Destroy(id) ==
    /\ Enter("destroy", 0)
    /\ \/ ById(id) = {} /\ Fail(DSOS_ERESOURCECLOSE)
       \/ \E s \in ById(id) :
             \/ Used(s) /\ Fail(DSOS_ERESOURCEINUSE)
             \/ /\ ~Used(s)
                /\ listed' = listed \ {s}
                /\ resId' = [resId EXCEPT ![s] = 0]
                /\ resType' = [resType EXCEPT ![s] = 0]
                /\ Answer(0)
                /\ UNCHANGED <<users, block, owned, lastFd, descs, desptrs>>
-----------------------------------------------------------------------------
(* The rest of the kernel *)

\* The process a kernel step takes a PCB for, if any, and the blocks the pool
\* may give it.
Born       == {p \in Pids : status[p] = "Free" /\ status'[p] # "Free"}
FreeBlocks == PcbBlocks \ {block[p] : p \in Alloc}

\* Mutants: PCB_alloc empties no list; PCB_alloc starts last_fd at 0.
KeepList(p, b) ==
    block' = [block EXCEPT ![p] = b] /\ UNCHANGED <<owned, lastFd>>
ResetFd(p, b) ==
    /\ block' = [block EXCEPT ![p] = b]
    /\ owned' = [owned EXCEPT ![b] = {}]
    /\ lastFd' = [lastFd EXCEPT ![b] = 0]

\* PCB_alloc, for p in block b: it empties the descriptor list, whatever is in
\* it, and does not set last_fd, so a process starts counting where the last
\* owner of its block stopped.
TakeBlock(p, b) ==
    /\ block' = [block EXCEPT ![p] = b]
    /\ owned' = [owned EXCEPT ![b] = {}]
    /\ UNCHANGED lastFd

\* What a kernel step does to the PCB blocks.  None closes a descriptor, and
\* PCB_free leaves everything in the block.
FollowPcbs ==
    /\ \/ Born = {} /\ UNCHANGED <<block, owned, lastFd>>
       \/ \E p \in Born, b \in FreeBlocks : TakeBlock(p, b)
    /\ UNCHANGED <<listed, resId, resType, users, descs, desptrs>>

ResInit ==
    /\ Init
    /\ listed = {}
    /\ resId = [s \in Slots |-> 0]
    /\ resType = [s \in Slots |-> 0]
    /\ users = [s \in Slots |-> {}]
    /\ block = [p \in Pids |-> IF p = 0 THEN 1 ELSE 0]
    /\ owned = [b \in PcbBlocks |-> {}]
    /\ lastFd = [b \in PcbBlocks |-> 0]
    /\ descs = 0 /\ desptrs = 0

ResourceCall ==
    \/ \E id \in Ids : \/ Destroy(id)
                       \/ \E t \in Types, m \in OpenModes : Open(id, t, m)
    \/ \E fd \in 0..MaxFd : Close(fd)

ResNext == ResourceCall \/ (Next /\ FollowPcbs)

ResSpec == ResInit /\ [][ResNext]_resvars
-----------------------------------------------------------------------------
(* Properties *)

\* The descriptors in the system, those of dead processes included: each is on
\* the list of its resource.
Descriptors == UNION {{[slot |-> s, pid |-> u.pid, fd |-> u.fd] : u \in users[s]} :
                      s \in Slots}

\* The PCB block of p was not given to another process since.
Kept(p) == /\ block[p] # 0
           /\ \A q \in Pids : block[q] = block[p] => q <= p

\* Every variable of the resources has the type its C declaration gives it.
ResTypeOK ==
    /\ listed \subseteq Slots
    /\ users \in [Slots -> SUBSET [pid : Pids, fd : Nat]]
    /\ block \in [Pids -> {0} \cup PcbBlocks]
    /\ owned \in [PcbBlocks -> SUBSET [fd : Nat, slot : Slots]]
    /\ lastFd \in [PcbBlocks -> Nat]
    /\ descs \in 0..NumDescs /\ desptrs \in 0..NumDescs

\* Until its PCB block is used again, a descriptor is in the list of its process
\* if and only if the resource it points at lists it: close never detaches from
\* a list the item is not in, and no process finds in its list what the owner of
\* its block before it had left open.  No descriptor outlives its resource.
ListsInverse ==
    /\ \A s \in Slots, p \in Pids, fd \in 0..MaxFd :
          Kept(p) => ([pid |-> p, fd |-> fd] \in users[s] <=>
                      [fd |-> fd, slot |-> s] \in owned[block[p]])
    /\ \A s \in Slots : users[s] # {} => s \in listed

\* A descriptor is known by its PCB block and fd (this is the pair that the list
\* of a resource prints, and the fd is what close finds it by) even when it was
\* left open by a process whose block another one has: last_fd is inherited, so
\* it is past every fd ever given out in that block.
FdsUnique ==
    \A x, y \in Descriptors :
       /\ x.fd < lastFd[block[x.pid]]
       /\ x.fd = y.fd /\ block[x.pid] = block[y.pid] => x = y

\* Both descriptor pools hold one block per descriptor, so the DescriptorPtr
\* that open takes without a look is never null.  The descriptors an exited
\* process left open are among them.
DescriptorAccounting ==
    /\ descs = Cardinality(Descriptors) /\ desptrs = descs
    /\ kernel # "null_desptr"

\* An open that fails leaves everything as it was, unless it is the descriptor
\* pool that is exhausted: then a resource just created stays, open to nobody.
FailedOpenIsClean ==
    [][running # NoProc /\ syscall'[running].num = "open" /\ ret'[running] < 0 =>
          /\ UNCHANGED <<owned, lastFd, descs, desptrs>>
          /\ \A s \in listed : users'[s] = users[s]
          /\ listed' # listed => /\ descs = NumDescs
                                 /\ \A s \in listed' \ listed : users'[s] = {}]_resvars
=============================================================================
