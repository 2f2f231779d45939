----------------------------- MODULE TestProofs -----------------------------
(***************************************************************************)
(* The program of disastrOS_test_bqueue.c, for every number of producers,  *)
(* consumers and places that fit together (TestSizes): each of its calls   *)
(* is one of those BQueue allows, only its last assertion can fail, its    *)
(* consumers get the values of its producers, and its processes never      *)
(* block one another for good.                                             *)
(***************************************************************************)
EXTENDS TestBQueue, BQueueProofs

-----------------------------------------------------------------------------
(* Where each process is in its program. *)

\* The children of init, by the order in which it spawns them.
NumWorkers == NPROD_PROCS + NCONS_PROCS
Workers    == 1..NumWorkers
Producers  == (halfC + 1)..(halfC + NPROD_PROCS)
Consumers  == Workers \ Producers

\* initFunction from its k-th call on, and the next call of init.
Total   == 2 * NumWorkers + 10
From(k) == [i \in 1..(Total + 1 - k) |-> initFunction[k + i - 1]]
At      == Total + 1 - Len(todo[0])

\* Where init spawns, waits and deletes.
FirstSpawn == 9
FirstWait  == 9 + NumWorkers
LastDelete == 9 + 2 * NumWorkers

\* A worker has its one call on the queue to make, or that is behind it.
Plan(p)   == IF p \in Producers THEN producer ELSE consumer
AfterCall == << Call("dump", CONC_QID, 0, "any", 0), Plain("exit") >>
Rests(p)  == {Plan(p), AfterCall, << Plain("exit") >>, <<>>}
OwnCall(p) == IF p \in Producers THEN [num |-> "bq_put", arg |-> CONC_VAL]
              ELSE [num |-> "bq_get", arg |-> 1]

Spawned == {p \in Workers : p < lastPid}

InitWhere ==
    /\ At \in 1..(Total + 1) /\ todo[0] = From(At)
    /\ kernel \in {"up", "down"} /\ (kernel = "up" <=> At <= Total)
    /\ running # NoProc
    /\ lastPid = IF At <= FirstSpawn THEN 1
                 ELSE IF At <= FirstWait THEN At - 8 ELSE NumWorkers + 1

WorkersWhere ==
    /\ \A p \in Pids : p >= lastPid => todo[p] = <<>>
    /\ \A p \in Spawned :
          /\ todo[p] \in Rests(p)
          /\ todo[p] = <<>> <=> status[p] \in {"Zombie", "Free"}
          /\ p \in waiting => todo[p] = AfterCall
          /\ todo[p] = AfterCall => syscall[p] = OwnCall(p)

\* init has one generation of children, and waits only for one that lives.
FamilyFlat ==
    /\ initPcb = 0 /\ timers = <<>> /\ noCtx = {}
    /\ status[0] \in Live
    /\ \A p \in Spawned : status[p] # "Free" => parent[p] = 0 /\ children[p] = {}
    /\ 0 \in waiting =>
          /\ At > FirstWait /\ At <= LastDelete
          /\ syscall[0] = [num |-> "wait", arg |-> 0]
          /\ zombie = <<>> /\ children[0] # {}

-----------------------------------------------------------------------------
(* What the queues hold. *)

UnitItems(k) == IF k = 4 THEN <<111>> ELSE IF k = 5 THEN <<111, 222>>
                ELSE IF k = 6 THEN <<222>> ELSE <<>>

Phases ==
    /\ At \in {1, 8} => registry = {}
    /\ At \in 2..7 =>
          /\ registry = {UNIT_QID} /\ capacity[UNIT_QID] = UNIT_CAP
          /\ items[UNIT_QID] = UnitItems(At)
    /\ At \in 9..LastDelete => registry = {CONC_QID}
    /\ At > LastDelete => registry \subseteq {CONC_QID}
    /\ At > 8 /\ CONC_QID \in registry => capacity[CONC_QID] = CAP
    /\ Range(items[CONC_QID]) \subseteq {CONC_VAL}

\* The workers whose call on the queue has returned.
PutDone == {p \in Producers : p < lastPid /\ todo[p] # producer /\ p \notin waiting}
GetDone == {p \in Consumers : p < lastPid /\ todo[p] # consumer /\ p \notin waiting}

\* A value put is in the buffer or was taken.
Balanced ==
    CONC_QID \in registry =>
       Cardinality(PutDone) = Cardinality(GetDone) + Len(items[CONC_QID])

AllServed ==
    \A p \in Spawned : todo[p] = AfterCall /\ p \in Consumers /\ p \notin waiting =>
       \/ ret[p] = 0 /\ out[p] = CONC_VAL
       \/ ret[p] = DSOS_ERESOURCENOFD /\ CONC_QID \notin registry /\ At > LastDelete

TestInductive ==
    /\ InitWhere
    /\ WorkersWhere
    /\ FamilyFlat
    /\ Phases
    /\ Balanced
    /\ AllServed
    /\ OnlyDeleteFails
-----------------------------------------------------------------------------
(* Reading the program. *)

CallSet ==
    {test_unitario_bq[k] : k \in 1..7} \cup
    {Call("create", CONC_QID, CAP, "ok", 0), Call("delete", CONC_QID, 0, "ok", 0),
     Plain("producer"), Plain("consumer"), Plain("wait"), Plain("shutdown")}

LEMMA Sizes ==
    /\ NPROD_PROCS \in Nat /\ NCONS_PROCS \in Nat
    /\ halfC \in Nat /\ halfC <= NCONS_PROCS
    /\ NumWorkers \in Nat /\ NumWorkers = NPROD_PROCS + NCONS_PROCS
    /\ Total \in Nat /\ Total = 2 * NumWorkers + 10
    /\ Producers \subseteq Workers /\ Consumers \subseteq Workers
    /\ UNIT_QID \in Int /\ CONC_QID \in Int /\ CAP \in Nat
<1>1. NPROD_PROCS \in Nat /\ NCONS_PROCS \in Nat /\ CAP \in Nat
  BY TestAssumption
<1>2. halfC \in Nat /\ halfC <= NCONS_PROCS
  BY <1>1 DEF halfC
<1>3. NumWorkers \in Nat /\ NumWorkers = NPROD_PROCS + NCONS_PROCS
  BY <1>1 DEF NumWorkers
<1>4. Total \in Nat /\ Total = 2 * NumWorkers + 10
  BY <1>3 DEF Total
<1>5. Producers \subseteq Workers
  BY <1>1, <1>2, <1>3 DEF Producers, Workers
<1>6. Consumers \subseteq Workers
  BY DEF Consumers
<1>7. UNIT_QID \in Int /\ CONC_QID \in Int
  BY TestAssumption, BQueueAssumption
<1> QED
  BY <1>1, <1>2, <1>3, <1>4, <1>5, <1>6, <1>7

LEMMA TimesFacts ==
    ASSUME NEW C, NEW n \in Nat, NEW c \in C
    PROVE  /\ Times(n, c) \in Seq(C) /\ Len(Times(n, c)) = n
           /\ \A i \in 1..n : Times(n, c)[i] = c
BY DEF Times

\* What init calls, by the number of the call.
LEMMA InitCalls ==
    /\ initFunction \in Seq(CallSet) /\ Len(initFunction) = Total
    /\ \A k \in 1..7 : initFunction[k] = test_unitario_bq[k]
    /\ initFunction[8] = Call("create", CONC_QID, CAP, "ok", 0)
    /\ \A k \in 9..(8 + NumWorkers) :
          initFunction[k] = IF k - 8 \in Producers THEN Plain("producer") ELSE Plain("consumer")
    /\ \A k \in (9 + NumWorkers)..(8 + 2 * NumWorkers) : initFunction[k] = Plain("wait")
    /\ initFunction[9 + 2 * NumWorkers] = Call("delete", CONC_QID, 0, "ok", 0)
    /\ initFunction[10 + 2 * NumWorkers] = Plain("shutdown")
<1> DEFINE m  == NCONS_PROCS - halfC
           s1 == << Call("create", CONC_QID, CAP, "ok", 0) >>
           s2 == Times(halfC, Plain("consumer"))
           s3 == Times(NPROD_PROCS, Plain("producer"))
           s4 == Times(m, Plain("consumer"))
           s5 == Times(NPROD_PROCS + NCONS_PROCS, Plain("wait"))
           s6 == << Call("delete", CONC_QID, 0, "ok", 0) >>
           s7 == << Plain("shutdown") >>
           t2 == s1 \o s2
           t3 == t2 \o s3
           t4 == t3 \o s4
           t5 == t4 \o s5
           t6 == t5 \o s6
           t7 == test_unitario_bq \o t6
<1>1. /\ halfC \in Nat /\ m \in Nat /\ NPROD_PROCS \in Nat /\ NCONS_PROCS \in Nat
      /\ NumWorkers = halfC + NPROD_PROCS + m
      /\ NumWorkers = NPROD_PROCS + NCONS_PROCS
  BY Sizes
<1>2. /\ Plain("consumer") \in CallSet /\ Plain("producer") \in CallSet
      /\ Plain("wait") \in CallSet /\ Plain("shutdown") \in CallSet
      /\ Call("create", CONC_QID, CAP, "ok", 0) \in CallSet
      /\ Call("delete", CONC_QID, 0, "ok", 0) \in CallSet
  BY DEF CallSet
<1>3. /\ s2 \in Seq(CallSet) /\ Len(s2) = halfC
      /\ \A i \in 1..halfC : s2[i] = Plain("consumer")
  BY <1>1, <1>2, TimesFacts
<1>4. /\ s3 \in Seq(CallSet) /\ Len(s3) = NPROD_PROCS
      /\ \A i \in 1..NPROD_PROCS : s3[i] = Plain("producer")
  BY <1>1, <1>2, TimesFacts
<1>5. /\ s4 \in Seq(CallSet) /\ Len(s4) = m
      /\ \A i \in 1..m : s4[i] = Plain("consumer")
  BY <1>1, <1>2, TimesFacts
<1>6. /\ s5 \in Seq(CallSet) /\ Len(s5) = NumWorkers
      /\ \A i \in 1..NumWorkers : s5[i] = Plain("wait")
  <2>1. NPROD_PROCS + NCONS_PROCS \in Nat
    BY <1>1
  <2> QED
    BY <1>1, <1>2, <2>1, TimesFacts
<1>7. /\ s1 \in Seq(CallSet) /\ Len(s1) = 1
      /\ s1[1] = Call("create", CONC_QID, CAP, "ok", 0)
      /\ s6 \in Seq(CallSet) /\ Len(s6) = 1
      /\ s6[1] = Call("delete", CONC_QID, 0, "ok", 0)
      /\ s7 \in Seq(CallSet) /\ Len(s7) = 1 /\ s7[1] = Plain("shutdown")
  BY <1>2
<1>8. test_unitario_bq \in Seq(CallSet) /\ Len(test_unitario_bq) = 7
  <2>1. \A k \in 1..7 : test_unitario_bq[k] \in CallSet
    BY DEF CallSet
  <2> QED
    BY <2>1 DEF test_unitario_bq
<1>9. initFunction = t7 \o s7
  BY DEF initFunction, test_mini_concorrente
<1> HIDE DEF m, s1, s2, s3, s4, s5, s6, s7
<1>10. /\ t2 \in Seq(CallSet) /\ Len(t2) = 1 + halfC
       /\ t2[1] = s1[1]
       /\ \A k \in 2..(1 + halfC) : t2[k] = Plain("consumer")
  <2>1. /\ t2 \in Seq(CallSet) /\ Len(t2) = Len(s1) + Len(s2)
        /\ \A i \in 1..(Len(s1) + Len(s2)) :
              t2[i] = IF i <= Len(s1) THEN s1[i] ELSE s2[i - Len(s1)]
    BY <1>3, <1>7, ConcatProperties
  <2> QED
    BY <1>1, <1>3, <1>7, <2>1
<1> HIDE DEF t2
<1>11. /\ t3 \in Seq(CallSet) /\ Len(t3) = 1 + halfC + NPROD_PROCS
       /\ t3[1] = s1[1]
       /\ \A k \in 2..(1 + halfC) : t3[k] = Plain("consumer")
       /\ \A k \in (2 + halfC)..(1 + halfC + NPROD_PROCS) : t3[k] = Plain("producer")
  <2>1. /\ t3 \in Seq(CallSet) /\ Len(t3) = Len(t2) + Len(s3)
        /\ \A i \in 1..(Len(t2) + Len(s3)) :
              t3[i] = IF i <= Len(t2) THEN t2[i] ELSE s3[i - Len(t2)]
    BY <1>4, <1>10, ConcatProperties
  <2> QED
    BY <1>1, <1>4, <1>10, <2>1
<1> HIDE DEF t3
<1>12. /\ t4 \in Seq(CallSet) /\ Len(t4) = 1 + NumWorkers
       /\ t4[1] = s1[1]
       /\ \A k \in 2..(1 + NumWorkers) :
             t4[k] = IF k \in (2 + halfC)..(1 + halfC + NPROD_PROCS)
                     THEN Plain("producer") ELSE Plain("consumer")
  <2>1. /\ t4 \in Seq(CallSet) /\ Len(t4) = Len(t3) + Len(s4)
        /\ \A i \in 1..(Len(t3) + Len(s4)) :
              t4[i] = IF i <= Len(t3) THEN t3[i] ELSE s4[i - Len(t3)]
    BY <1>5, <1>11, ConcatProperties
  <2> QED
    BY <1>1, <1>5, <1>11, <2>1
<1> HIDE DEF t4
<1>13. /\ t5 \in Seq(CallSet) /\ Len(t5) = 1 + 2 * NumWorkers
       /\ \A k \in 1..(1 + NumWorkers) : t5[k] = t4[k]
       /\ \A k \in (2 + NumWorkers)..(1 + 2 * NumWorkers) : t5[k] = Plain("wait")
  <2>1. /\ t5 \in Seq(CallSet) /\ Len(t5) = Len(t4) + Len(s5)
        /\ \A i \in 1..(Len(t4) + Len(s5)) :
              t5[i] = IF i <= Len(t4) THEN t4[i] ELSE s5[i - Len(t4)]
    BY <1>6, <1>12, ConcatProperties
  <2> QED
    BY <1>1, <1>6, <1>12, <2>1
<1> HIDE DEF t5
<1>14. /\ t6 \in Seq(CallSet) /\ Len(t6) = 2 + 2 * NumWorkers
       /\ \A k \in 1..(1 + 2 * NumWorkers) : t6[k] = t5[k]
       /\ t6[2 + 2 * NumWorkers] = s6[1]
  <2>1. /\ t6 \in Seq(CallSet) /\ Len(t6) = Len(t5) + Len(s6)
        /\ \A i \in 1..(Len(t5) + Len(s6)) :
              t6[i] = IF i <= Len(t5) THEN t5[i] ELSE s6[i - Len(t5)]
    BY <1>7, <1>13, ConcatProperties
  <2> QED
    BY <1>1, <1>7, <1>13, <2>1
<1> HIDE DEF t6
<1>15. /\ t7 \in Seq(CallSet) /\ Len(t7) = 9 + 2 * NumWorkers
       /\ \A k \in 1..7 : t7[k] = test_unitario_bq[k]
       /\ \A k \in 8..(9 + 2 * NumWorkers) : t7[k] = t6[k - 7]
  <2>1. /\ t7 \in Seq(CallSet) /\ Len(t7) = Len(test_unitario_bq) + Len(t6)
        /\ \A i \in 1..(Len(test_unitario_bq) + Len(t6)) :
              t7[i] = IF i <= Len(test_unitario_bq) THEN test_unitario_bq[i]
                      ELSE t6[i - Len(test_unitario_bq)]
    BY <1>8, <1>14, ConcatProperties
  <2> QED
    BY <1>1, <1>8, <1>14, <2>1
<1> HIDE DEF t7
<1>16. /\ initFunction \in Seq(CallSet) /\ Len(initFunction) = 10 + 2 * NumWorkers
       /\ \A k \in 1..(9 + 2 * NumWorkers) : initFunction[k] = t7[k]
       /\ initFunction[10 + 2 * NumWorkers] = s7[1]
  <2>1. /\ t7 \o s7 \in Seq(CallSet) /\ Len(t7 \o s7) = Len(t7) + Len(s7)
        /\ \A i \in 1..(Len(t7) + Len(s7)) :
              (t7 \o s7)[i] = IF i <= Len(t7) THEN t7[i] ELSE s7[i - Len(t7)]
    BY <1>7, <1>15, ConcatProperties
  <2> QED
    BY <1>1, <1>7, <1>9, <1>15, <2>1
<1>17. ASSUME NEW k \in 9..(8 + NumWorkers)
       PROVE  initFunction[k] = IF k - 8 \in Producers THEN Plain("producer") ELSE Plain("consumer")
  <2>1. /\ initFunction[k] = t4[k - 7] /\ k - 7 \in 2..(1 + NumWorkers)
    BY <1>1, <1>13, <1>14, <1>15, <1>16
  <2>2. k - 7 \in (2 + halfC)..(1 + halfC + NPROD_PROCS) <=> k - 8 \in Producers
    BY <1>1 DEF Producers
  <2>3. CASE k - 8 \in Producers
    BY <1>12, <2>1, <2>2, <2>3
  <2>4. CASE k - 8 \notin Producers
    BY <1>12, <2>1, <2>2, <2>4
  <2> QED
    BY <2>3, <2>4
<1>18. ASSUME NEW k \in (9 + NumWorkers)..(8 + 2 * NumWorkers)
       PROVE  initFunction[k] = Plain("wait")
  <2>1. /\ k \in 1..(9 + 2 * NumWorkers) /\ k \in 8..(9 + 2 * NumWorkers)
        /\ k - 7 \in 1..(1 + 2 * NumWorkers)
        /\ k - 7 \in (2 + NumWorkers)..(1 + 2 * NumWorkers)
    BY <1>1
  <2> QED
    BY <1>13, <1>14, <1>15, <1>16, <2>1
<1>19. /\ initFunction[8] = s1[1]
       /\ initFunction[9 + 2 * NumWorkers] = s6[1]
  BY <1>1, <1>12, <1>13, <1>14, <1>15, <1>16
<1>20. ASSUME NEW k \in 1..7 PROVE initFunction[k] = test_unitario_bq[k]
  <2>1. k \in 1..(9 + 2 * NumWorkers)
    BY <1>1
  <2> QED
    BY <1>15, <1>16, <2>1
<1>21. Len(initFunction) = Total
  BY <1>16, Sizes
<1> QED
  BY <1>7, <1>16, <1>17, <1>18, <1>19, <1>20, <1>21

LEMMA FromFacts ==
    /\ From(1) = initFunction
    /\ \A k \in 1..(Total + 1) : From(k) \in Seq(CallSet) /\ Len(From(k)) = Total + 1 - k
    /\ \A k \in 1..Total : /\ From(k) # <<>> /\ Head(From(k)) = initFunction[k]
                           /\ Tail(From(k)) = From(k + 1)
<1>1. /\ Total \in Nat /\ initFunction \in Seq(CallSet) /\ Len(initFunction) = Total
      /\ \A k \in 1..Total : initFunction[k] \in CallSet
  BY Sizes, InitCalls, ElementOfSeq
<1>2. ASSUME NEW k \in 1..(Total + 1)
      PROVE  From(k) \in Seq(CallSet) /\ Len(From(k)) = Total + 1 - k
  <2>1. Total + 1 - k \in Nat
    BY <1>1
  <2>2. \A i \in 1..(Total + 1 - k) : initFunction[k + i - 1] \in CallSet
    BY <1>1
  <2> QED
    BY <2>1, <2>2 DEF From
<1>3. From(1) = initFunction
  BY <1>1 DEF From
<1>4. ASSUME NEW k \in 1..Total
      PROVE  /\ From(k) # <<>> /\ Head(From(k)) = initFunction[k]
             /\ Tail(From(k)) = From(k + 1)
  <2>1. /\ From(k) \in Seq(CallSet) /\ Len(From(k)) = Total + 1 - k
        /\ From(k + 1) \in Seq(CallSet) /\ Len(From(k + 1)) = Total - k
    <3>1. /\ k \in 1..(Total + 1) /\ k + 1 \in 1..(Total + 1)
          /\ Total + 1 - (k + 1) = Total - k
      BY <1>1
    <3> QED
      BY <1>2, <3>1
  <2>2. From(k) # <<>> /\ Len(From(k)) > 0
    BY <1>1, <2>1
  <2>3. Head(From(k)) = initFunction[k]
    <3>1. 1 \in 1..(Total + 1 - k)
      BY <1>1
    <3>2. From(k)[1] = initFunction[k + 1 - 1]
      BY <3>1 DEF From
    <3> QED
      BY <1>1, <2>1, <2>2, <3>2
  <2>4. Tail(From(k)) = From(k + 1)
    <3>1. /\ Tail(From(k)) \in Seq(CallSet) /\ Len(Tail(From(k))) = Total - k
          /\ \A i \in 1..(Total - k) : Tail(From(k))[i] = From(k)[i + 1]
      BY <1>1, <2>1, <2>2, HeadTailProperties
    <3>2. \A i \in 1..(Total - k) : From(k + 1)[i] = From(k)[i + 1]
      <4>1. \A i \in 1..(Total - k) :
              /\ i \in 1..(Total + 1 - (k + 1)) /\ i + 1 \in 1..(Total + 1 - k)
              /\ (k + 1) + i - 1 = k + (i + 1) - 1
        BY <1>1
      <4> QED
        BY <4>1 DEF From
    <3> QED
      BY <1>1, <2>1, <3>1, <3>2, SeqEqual
  <2> QED
    BY <2>2, <2>3, <2>4
<1>5. \A k \in 1..(Total + 1) : From(k) \in Seq(CallSet) /\ Len(From(k)) = Total + 1 - k
  BY <1>2
<1>6. \A k \in 1..Total : /\ From(k) # <<>> /\ Head(From(k)) = initFunction[k]
                           /\ Tail(From(k)) = From(k + 1)
  BY <1>4
<1> QED
  BY <1>3, <1>5, <1>6

-----------------------------------------------------------------------------
(* Each call of the program is one of those that BQueue allows. *)

WorkerCalls ==
    {Call("put", CONC_QID, CONC_VAL, "any", 0), Call("get", CONC_QID, 0, "any", 0),
     Call("dump", CONC_QID, 0, "any", 0), Plain("exit")}
AllCalls == CallSet \cup WorkerCalls

CallsAllowed == todo \in [Pids -> Seq(AllCalls)]

LEMMA WorkerPlans ==
    /\ producer \in Seq(AllCalls) /\ consumer \in Seq(AllCalls)
    /\ AfterCall \in Seq(AllCalls) /\ << Plain("exit") >> \in Seq(AllCalls)
    /\ initFunction \in Seq(AllCalls)
    /\ << Plain("shutdown") >> \in Seq(AllCalls)
<1>1. WorkerCalls \subseteq AllCalls /\ CallSet \subseteq AllCalls
  BY DEF AllCalls
<1>2. /\ Call("put", CONC_QID, CONC_VAL, "any", 0) \in AllCalls
      /\ Call("get", CONC_QID, 0, "any", 0) \in AllCalls
      /\ Call("dump", CONC_QID, 0, "any", 0) \in AllCalls
      /\ Plain("exit") \in AllCalls
  BY DEF AllCalls, WorkerCalls
<1>3. Plain("shutdown") \in AllCalls
  BY DEF AllCalls, CallSet
<1>4. producer \in Seq(AllCalls)
  BY <1>2 DEF producer
<1>5. consumer \in Seq(AllCalls)
  BY <1>2 DEF consumer
<1>6. AfterCall \in Seq(AllCalls)
  BY <1>2 DEF AfterCall
<1>7. << Plain("exit") >> \in Seq(AllCalls) /\ << Plain("shutdown") >> \in Seq(AllCalls)
  BY <1>2, <1>3
<1>8. initFunction \in Seq(AllCalls)
  BY <1>1, InitCalls
<1> QED
  BY <1>4, <1>5, <1>6, <1>7, <1>8

\* The arguments of the calls are those that the constants of BQueue offer.
LEMMA CallArguments ==
    ASSUME NEW c \in AllCalls
    PROVE  /\ c.op \in {"create", "delete", "put", "get", "dump"} => c.id \in QIds
           /\ c.op = "create" => c.arg \in Capacities
           /\ c.op = "put" => c.arg \in Values
<1>1. /\ UNIT_QID \in QIds /\ CONC_QID \in QIds /\ UNIT_CAP \in Capacities
      /\ CAP \in Capacities /\ 111 \in Values /\ 222 \in Values /\ CONC_VAL \in Values
  BY TestAssumption
<1>2. CASE c \in WorkerCalls
  BY <1>1, <1>2 DEF WorkerCalls, Call, Plain
<1>3. CASE c \in {Call("create", CONC_QID, CAP, "ok", 0), Call("delete", CONC_QID, 0, "ok", 0),
                  Plain("producer"), Plain("consumer"), Plain("wait"), Plain("shutdown")}
  BY <1>1, <1>3 DEF Call, Plain
<1>4. ASSUME NEW k \in 1..7, c = test_unitario_bq[k]
      PROVE  /\ c.op \in {"create", "delete", "put", "get", "dump"} => c.id \in QIds
             /\ c.op = "create" => c.arg \in Capacities
             /\ c.op = "put" => c.arg \in Values
  BY <1>1, <1>4 DEF test_unitario_bq, Call
<1> QED
  BY <1>2, <1>3, <1>4 DEF AllCalls, CallSet

LEMMA PerformAllowed ==
    ASSUME NEW c \in AllCalls, Perform(c) PROVE BQNext
<1>1. CASE c.op \in {"create", "delete", "put", "get", "dump"} /\ QueueCall
  BY <1>1 DEF BQNext
<1>2. 1 \in ResultPtrs /\ 0 \in Pids
  BY TestAssumption, KernelAssumption DEF Pids
<1>3. CASE c.op = "create" /\ BqCreate(c.id, c.arg)
  BY <1>3, CallArguments DEF BQNext, QueueCall
<1>4. CASE c.op = "delete" /\ BqDelete(c.id)
  BY <1>4, CallArguments DEF BQNext, QueueCall
<1>5. CASE c.op = "put" /\ BqPut(c.id, c.arg)
  BY <1>5, CallArguments DEF BQNext, QueueCall
<1>6. CASE c.op = "get" /\ BqGet(c.id, 1)
  BY <1>2, <1>6, CallArguments DEF BQNext, QueueCall
<1>7. CASE c.op = "dump" /\ BqDump(c.id)
  BY <1>7, CallArguments DEF BQNext, QueueCall
<1>8. CASE Spawn /\ UNCHANGED queues
  BY <1>8 DEF BQNext, Next, UserCall
<1>9. CASE Wait(0) /\ UNCHANGED queues
  BY <1>2, <1>9 DEF BQNext, Next, UserCall
<1>10. CASE Exit /\ UNCHANGED queues
  BY <1>10 DEF BQNext, Next, UserCall
<1>11. CASE Shutdown /\ UNCHANGED queues
  BY <1>11 DEF BQNext, Next, UserCall
<1> QED
  BY <1>3, <1>4, <1>5, <1>6, <1>7, <1>8, <1>9, <1>10, <1>11 DEF Perform

LEMMA AllowedStep ==
    ASSUME CallsAllowed, NEW p \in Pids, Step(p)
    PROVE  BQNext /\ CallsAllowed'
<1> DEFINE c == Head(todo[p])
<1>1. /\ todo[p] \in Seq(AllCalls) /\ todo[p] # <<>>
      /\ c \in AllCalls /\ Tail(todo[p]) \in Seq(AllCalls)
  BY HeadTailProperties DEF CallsAllowed, Step
<1>2. Perform(c)
  BY DEF Step
<1>3. BQNext
  BY <1>1, <1>2, PerformAllowed
<1>4. <<>> \in Seq(AllCalls)
  OBVIOUS
<1>5. CallsAllowed'
  <2>1. \A rc : Rest(p, c, rc) \in Seq(AllCalls)
    BY <1>1, WorkerPlans DEF Rest
  <2>2. todo' = [q \in Pids |-> IF q = p THEN Rest(p, c, ret'[p])
                                ELSE IF q # lastPid THEN todo[q]
                                ELSE IF c.op = "producer" THEN producer
                                ELSE IF c.op = "consumer" THEN consumer
                                ELSE <<>>]
    BY DEF Step
  <2> QED
    BY <1>4, <2>1, <2>2, WorkerPlans DEF CallsAllowed
<1> QED
  BY <1>3, <1>5

LEMMA AllowedTick ==
    ASSUME CallsAllowed, Ticked
    PROVE  BQNext /\ CallsAllowed'
<1>1. BQNext
  BY DEF Ticked, BQNext, Next
<1>2. CallsAllowed'
  BY WorkerPlans DEF Ticked, CallsAllowed
<1> QED
  BY <1>1, <1>2

LEMMA AllowedNext ==
    ASSUME CallsAllowed, [TestNext]_testvars
    PROVE  [BQNext]_bqvars /\ CallsAllowed'
<1>1. CASE \E p \in Pids : Step(p)
  BY <1>1, AllowedStep
<1>2. CASE Ticked
  BY <1>2, AllowedTick
<1>3. CASE UNCHANGED testvars
  BY <1>3 DEF testvars, test, CallsAllowed
<1> QED
  BY <1>1, <1>2, <1>3 DEF TestNext

LEMMA AllowedInit == TestInit => BQInit /\ CallsAllowed
<1>1. <<>> \in Seq(AllCalls)
  OBVIOUS
<1> QED
  BY <1>1, WorkerPlans DEF TestInit, CallsAllowed

\* The test program is one of the programs BQueue is about: whatever is proved
\* of BQSpec holds of every run of disastrOS_test_bqueue.c.
THEOREM TestRunsQueues == TestSpec => BQSpec
<1>1. TestInit => BQInit /\ CallsAllowed
  BY AllowedInit
<1>2. CallsAllowed /\ [TestNext]_testvars => [BQNext]_bqvars /\ CallsAllowed'
  BY AllowedNext
<1> QED
  BY <1>1, <1>2, PTL DEF TestSpec, BQSpec

-----------------------------------------------------------------------------
(* Who makes which call, and what is left to do after it. *)

TestState == CallsAllowed /\ QueueInductive /\ TestInductive

LEMMA WorkerPids ==
    /\ 0 \in Pids /\ \A p \in Workers : p \in Pids /\ p \in Int /\ p > 0
    /\ NumWorkers < MaxPids /\ NumWorkers < NumPcbs /\ 2 * NumWorkers <= NumPtrs
<1>1. /\ NumWorkers < MaxPids /\ NumWorkers < NumPcbs /\ 2 * NumWorkers <= NumPtrs
  BY TestSizes DEF NumWorkers
<1> QED
  BY <1>1, Sizes, KernelAssumption DEF Pids, Workers

LEMMA SpawnedFacts ==
    ASSUME TestState
    PROVE  /\ lastPid \in 1..(NumWorkers + 1) /\ At \in 1..(Total + 1)
           /\ \A p : p \in Spawned <=> p \in 1..(lastPid - 1)
           /\ \A p \in Spawned : p \in Workers /\ p \in Pids /\ p # 0 /\ p < lastPid
           /\ \A p \in Pids : todo[p] # <<>> => p = 0 \/ p \in Spawned
           /\ \A p \in Pids : p < lastPid => p = 0 \/ p \in Spawned
           /\ \A p \in Pids : status[p] # "Free" => p = 0 \/ p \in Spawned
<1>1. /\ lastPid \in 1..(NumWorkers + 1) /\ At \in 1..(Total + 1)
  BY Sizes DEF TestState, TestInductive, InitWhere, FirstSpawn, FirstWait
<1>2. \A p : p \in Spawned <=> p \in 1..(lastPid - 1)
  BY <1>1, Sizes DEF Spawned, Workers
<1>3. \A p \in Spawned : p \in Workers /\ p \in Pids /\ p # 0 /\ p < lastPid
  BY WorkerPids DEF Spawned
<1>4. \A p \in Pids : p < lastPid => p = 0 \/ p \in Spawned
  BY <1>1, <1>2, KernelAssumption DEF Pids
<1>5. \A p \in Pids : p \in Int
  BY KernelAssumption DEF Pids
<1>6. \A p \in Pids : todo[p] # <<>> => p < lastPid
  BY <1>1, <1>5 DEF TestState, TestInductive, WorkersWhere
<1>7. \A p \in Pids : status[p] # "Free" => p < lastPid
  BY <1>1, <1>5, QueueParts DEF TestState, OnePlace
<1> QED
  BY <1>1, <1>2, <1>3, <1>4, <1>6, <1>7

LEMMA PlanFacts ==
    /\ producer # consumer
    /\ \A r \in {producer, consumer} :
          /\ r # AfterCall /\ r # << Plain("exit") >> /\ r # <<>>
          /\ Tail(r) = AfterCall
    /\ Head(producer) = Call("put", CONC_QID, CONC_VAL, "any", 0)
    /\ Head(consumer) = Call("get", CONC_QID, 0, "any", 0)
    /\ AfterCall # <<>> /\ AfterCall # << Plain("exit") >>
    /\ Head(AfterCall) = Call("dump", CONC_QID, 0, "any", 0)
    /\ Tail(AfterCall) = << Plain("exit") >>
    /\ << Plain("exit") >> # <<>> /\ Tail(<< Plain("exit") >>) = <<>>
    /\ Head(<< Plain("exit") >>) = Plain("exit")
<1>1. Len(producer) = 3 /\ Len(consumer) = 3 /\ Len(AfterCall) = 2
  BY DEF producer, consumer, AfterCall
<1>2. Call("put", CONC_QID, CONC_VAL, "any", 0) # Call("get", CONC_QID, 0, "any", 0)
  BY DEF Call
<1>3. /\ Head(producer) = Call("put", CONC_QID, CONC_VAL, "any", 0)
      /\ Head(consumer) = Call("get", CONC_QID, 0, "any", 0)
      /\ Head(AfterCall) = Call("dump", CONC_QID, 0, "any", 0)
  BY DEF producer, consumer, AfterCall
<1>4. /\ Tail(producer) = AfterCall /\ Tail(consumer) = AfterCall
      /\ Tail(AfterCall) = << Plain("exit") >>
  BY DEF producer, consumer, AfterCall
<1>5. /\ Len(<< Plain("exit") >>) = 1 /\ Tail(<< Plain("exit") >>) = <<>>
      /\ Head(<< Plain("exit") >>) = Plain("exit")
  OBVIOUS
<1>6. /\ producer # <<>> /\ consumer # <<>> /\ AfterCall # <<>>
      /\ << Plain("exit") >> # <<>>
  BY DEF producer, consumer, AfterCall
<1> QED
  BY <1>1, <1>2, <1>3, <1>4, <1>5, <1>6

LEMMA PerformCases ==
    ASSUME NEW c, Perform(c)
    PROVE  /\ c.op = "create" => BqCreate(c.id, c.arg)
           /\ c.op = "delete" => BqDelete(c.id)
           /\ c.op = "put" => BqPut(c.id, c.arg)
           /\ c.op = "get" => BqGet(c.id, 1)
           /\ c.op = "dump" => BqDump(c.id)
           /\ c.op \in {"producer", "consumer"} => Spawn /\ UNCHANGED queues
           /\ c.op = "wait" => Wait(0) /\ UNCHANGED queues
           /\ c.op = "exit" => Exit /\ UNCHANGED queues
           /\ c.op = "shutdown" => Shutdown /\ UNCHANGED queues
BY DEF Perform

LEMMA PerformEnters == ASSUME NEW c, Perform(c) PROVE kernel = "up"
BY DEF Perform, BqCreate, BqDelete, BqPut, BqGet, BqDump, Spawn, NewChild, Wait, Exit,
       Shutdown, Enter

LEMMA StepTodo ==
    ASSUME TestState, NEW p \in Pids, Step(p),
           Head(todo[p]).op \notin {"producer", "consumer"}
    PROVE  todo' = [todo EXCEPT ![p] = Rest(p, Head(todo[p]), ret'[p])]
<1>1. todo \in [Pids -> Seq(AllCalls)]
  BY DEF TestState, CallsAllowed
<1>2. \A q \in Pids : q = lastPid => todo[q] = <<>>
  BY SpawnedFacts DEF TestState, TestInductive, WorkersWhere
<1>3. todo' = [q \in Pids |-> IF q = p THEN Rest(p, Head(todo[p]), ret'[p])
                              ELSE IF q # lastPid THEN todo[q] ELSE <<>>]
  BY DEF Step
<1> QED
  BY <1>1, <1>2, <1>3

\* A call of which nothing is asserted cannot fail.
LEMMA NothingAsserted ==
    ASSUME NEW p, Step(p), Head(todo[p]).must = "any", Head(todo[p]).value = 0
    PROVE  failed' = failed
BY DEF Step, Holds

WorkerMove(p, num) ==
    /\ running = p /\ kernel = "up" /\ failed' = failed
    /\ \/ /\ num = "put" /\ p \in Producers /\ todo[p] = producer
          /\ todo' = [todo EXCEPT ![p] = AfterCall]
          /\ BqPut(CONC_QID, CONC_VAL)
       \/ /\ num = "get" /\ p \in Consumers /\ todo[p] = consumer
          /\ todo' = [todo EXCEPT ![p] = AfterCall]
          /\ BqGet(CONC_QID, 1)
       \/ /\ num = "dump" /\ todo[p] = AfterCall
          /\ todo' = [todo EXCEPT ![p] = << Plain("exit") >>]
          /\ BqDump(CONC_QID)
       \/ /\ num = "exit" /\ todo[p] = << Plain("exit") >>
          /\ todo' = [todo EXCEPT ![p] = <<>>]
          /\ Exit /\ UNCHANGED queues

LEMMA WorkerCall ==
    ASSUME TestState, NEW p \in Spawned, Step(p)
    PROVE  \E num \in {"put", "get", "dump", "exit"} : WorkerMove(p, num)
<1> DEFINE c == Head(todo[p])
<1>1. /\ p \in Pids /\ p \in Workers /\ running = p /\ todo[p] # <<>> /\ Perform(c)
  BY SpawnedFacts DEF Step
<1>2. kernel = "up"
  BY <1>1, PerformEnters
<1>3. todo[p] \in {Plan(p), AfterCall, << Plain("exit") >>}
  BY <1>1 DEF TestState, TestInductive, WorkersWhere, Rests
<1>4. ASSUME c.op \in {"put", "get", "dump", "exit"}, c.must = "any", c.value = 0
      PROVE  failed' = failed /\ todo' = [todo EXCEPT ![p] = Tail(todo[p])]
  <2>1. failed' = failed
    BY <1>4, NothingAsserted
  <2>2. todo' = [todo EXCEPT ![p] = Rest(p, c, ret'[p])]
    BY <1>1, <1>4, StepTodo
  <2>3. Rest(p, c, ret'[p]) = Tail(todo[p])
    BY <1>4 DEF Rest
  <2> QED
    BY <2>1, <2>2, <2>3
<1>5. CASE p \in Producers /\ todo[p] = Plan(p)
  <2>1. todo[p] = producer
    BY <1>5 DEF Plan
  <2>2. c.op = "put" /\ c.id = CONC_QID /\ c.arg = CONC_VAL /\ c.must = "any" /\ c.value = 0
    BY <2>1, PlanFacts DEF Call
  <2>3. BqPut(CONC_QID, CONC_VAL)
    BY <1>1, <2>2, PerformCases
  <2>4. WorkerMove(p, "put")
    BY <1>1, <1>2, <1>4, <1>5, <2>1, <2>2, <2>3, PlanFacts DEF WorkerMove
  <2> QED
    BY <2>4
<1>6. CASE p \notin Producers /\ todo[p] = Plan(p)
  <2>1. todo[p] = consumer /\ p \in Consumers
    BY <1>1, <1>6 DEF Plan, Consumers
  <2>2. c.op = "get" /\ c.id = CONC_QID /\ c.must = "any" /\ c.value = 0
    BY <2>1, PlanFacts DEF Call
  <2>3. BqGet(CONC_QID, 1)
    BY <1>1, <2>2, PerformCases
  <2>4. WorkerMove(p, "get")
    BY <1>1, <1>2, <1>4, <2>1, <2>2, <2>3, PlanFacts DEF WorkerMove
  <2> QED
    BY <2>4
<1>7. CASE todo[p] = AfterCall
  <2>2. c.op = "dump" /\ c.id = CONC_QID /\ c.must = "any" /\ c.value = 0
    BY <1>7, PlanFacts DEF Call
  <2>3. BqDump(CONC_QID)
    BY <1>1, <2>2, PerformCases
  <2>4. WorkerMove(p, "dump")
    BY <1>1, <1>2, <1>4, <1>7, <2>2, <2>3, PlanFacts DEF WorkerMove
  <2> QED
    BY <2>4
<1>8. CASE todo[p] = << Plain("exit") >>
  <2>2. c.op = "exit" /\ c.must = "any" /\ c.value = 0
    BY <1>8, PlanFacts DEF Call, Plain
  <2>3. Exit /\ UNCHANGED queues
    BY <1>1, <2>2, PerformCases
  <2>4. WorkerMove(p, "exit")
    BY <1>1, <1>2, <1>4, <1>8, <2>2, <2>3, PlanFacts DEF WorkerMove
  <2> QED
    BY <2>4
<1> QED
  BY <1>3, <1>5, <1>6, <1>7, <1>8

\* The next call of init, and what it has yet to make after it.
LEMMA InitCall ==
    ASSUME TestState, Step(0)
    PROVE  /\ running = 0 /\ kernel = "up" /\ At \in 1..Total
           /\ todo[0] = From(At) /\ Head(todo[0]) = initFunction[At]
           /\ Tail(todo[0]) = From(At + 1)
           /\ Perform(initFunction[At])
           /\ failed' = IF Holds(initFunction[At], ret'[0], out'[0]) THEN failed
                        ELSE failed \cup {initFunction[At]}
<1>1. running = 0 /\ todo[0] # <<>> /\ Perform(Head(todo[0]))
  BY DEF Step
<1>2. kernel = "up"
  BY <1>1, PerformEnters
<1>3. At \in 1..Total /\ todo[0] = From(At)
  BY <1>2, SpawnedFacts, Sizes DEF TestState, TestInductive, InitWhere
<1>4. Head(todo[0]) = initFunction[At] /\ Tail(todo[0]) = From(At + 1)
  BY <1>3, FromFacts
<1>5. failed' = IF Holds(Head(todo[0]), ret'[0], out'[0]) THEN failed
                ELSE failed \cup {Head(todo[0])}
  BY DEF Step
<1> QED
  BY <1>1, <1>2, <1>3, <1>4, <1>5

LEMMA InitTodo ==
    ASSUME TestState, Step(0), initFunction[At].op \notin {"producer", "consumer"},
           initFunction[At].op = "create" /\ initFunction[At].id = CONC_QID => ret'[0] = 0
    PROVE  todo' = [todo EXCEPT ![0] = From(At + 1)]
<1>1. todo' = [todo EXCEPT ![0] = Rest(0, Head(todo[0]), ret'[0])]
  BY InitCall, StepTodo, WorkerPids
<1>2. Head(todo[0]) = initFunction[At] /\ Tail(todo[0]) = From(At + 1)
  BY InitCall
<1>3. Rest(0, Head(todo[0]), ret'[0]) = From(At + 1)
  <2>1. CASE ~(initFunction[At].op = "create" /\ initFunction[At].id = CONC_QID)
    BY <1>2, <2>1 DEF Rest
  <2>2. CASE initFunction[At].op = "create" /\ initFunction[At].id = CONC_QID
    <3>1. ret'[0] = 0
      BY <2>2
    <3>2. ~(ret'[0] < 0)
      BY <3>1
    <3> QED
      BY <1>2, <3>2 DEF Rest
  <2> QED
    BY <2>1, <2>2
<1> QED
  BY <1>1, <1>3

LEMMA InitAt ==
    ASSUME TestState, todo'[0] = From(At + 1), At \in 1..Total
    PROVE  At' = At + 1
<1>1. At + 1 \in 1..(Total + 1) /\ Total \in Nat
  BY Sizes
<1>2. Len(From(At + 1)) = Total + 1 - (At + 1)
  BY <1>1, FromFacts
<1>3. At' = Total + 1 - Len(todo'[0])
  BY DEF At
<1> QED
  BY <1>1, <1>2, <1>3

\* A child gets its program with its pid.
LEMMA SpawnTodo ==
    ASSUME TestState, Step(0), At \in FirstSpawn..(8 + NumWorkers)
    PROVE  /\ Spawn /\ UNCHANGED queues /\ failed' = failed
           /\ lastPid = At - 8 /\ lastPid \in Workers
           /\ todo' = [todo EXCEPT ![0] = From(At + 1), ![lastPid] = Plan(lastPid)]
<1> DEFINE c == initFunction[At]
<1>1. At \in 9..(8 + NumWorkers)
  BY DEF FirstSpawn
<1>2. c = IF At - 8 \in Producers THEN Plain("producer") ELSE Plain("consumer")
  BY <1>1, InitCalls
<1>3. c.op \in {"producer", "consumer"} /\ c.must = "any" /\ c.value = 0
  BY <1>2 DEF Plain, Call
<1>4. c.op = "producer" <=> At - 8 \in Producers
  BY <1>2 DEF Plain, Call
<1>5. Spawn /\ UNCHANGED queues
  BY <1>3, InitCall, PerformCases
<1>6. lastPid = At - 8 /\ lastPid \in Workers
  BY <1>1, Sizes
     DEF TestState, TestInductive, InitWhere, FirstSpawn, FirstWait, Workers
<1>7. failed' = failed
  BY <1>3, InitCall, NothingAsserted
<1>8. todo \in [Pids -> Seq(AllCalls)]
  BY DEF TestState, CallsAllowed
<1>9. todo' = [q \in Pids |-> IF q = 0 THEN Rest(0, c, ret'[0])
                              ELSE IF q # lastPid THEN todo[q]
                              ELSE IF c.op = "producer" THEN producer
                              ELSE IF c.op = "consumer" THEN consumer
                              ELSE <<>>]
  BY InitCall DEF Step
<1>10. Rest(0, c, ret'[0]) = From(At + 1)
  BY <1>3, InitCall DEF Rest
<1>11. lastPid # 0 /\ lastPid \in Pids
  BY <1>6, WorkerPids
<1>12. Plan(lastPid) = IF c.op = "producer" THEN producer ELSE consumer
  BY <1>4, <1>6 DEF Plan
<1> HIDE DEF c
<1> QED
  BY <1>3, <1>5, <1>6, <1>7, <1>8, <1>9, <1>10, <1>11, <1>12

-----------------------------------------------------------------------------
(* What most steps leave as it was. *)

LEMMA InitStays ==
    ASSUME TestState, kernel = "up", kernel' = "up", running' # NoProc,
           lastPid' = lastPid, todo'[0] = todo[0]
    PROVE  InitWhere' /\ At' = At
<1>1. At' = At
  BY DEF At
<1> QED
  BY <1>1 DEF TestState, TestInductive, InitWhere

LEMMA InitMoves ==
    ASSUME TestState, At \in 1..Total, todo'[0] = From(At + 1), running' # NoProc,
           kernel' \in {"up", "down"}, kernel' = "up" <=> At + 1 <= Total,
           lastPid' = IF At \in FirstSpawn..(8 + NumWorkers) THEN lastPid + 1 ELSE lastPid
    PROVE  InitWhere' /\ At' = At + 1
<1>1. At' = At + 1
  BY InitAt
<1>2. At + 1 \in 1..(Total + 1)
  BY Sizes
<1>3. lastPid' = IF At + 1 <= FirstSpawn THEN 1
                 ELSE IF At + 1 <= FirstWait THEN At + 1 - 8 ELSE NumWorkers + 1
  BY Sizes DEF TestState, TestInductive, InitWhere, FirstSpawn, FirstWait
<1> QED
  BY <1>1, <1>2, <1>3 DEF InitWhere

LEMMA SpawnedKept ==
    ASSUME lastPid' = lastPid PROVE Spawned' = Spawned
BY DEF Spawned

\* A step that kills and reaps nobody, after which the process has rest to do.
LEMMA WorkersKept ==
    ASSUME TestState, NEW p \in Pids, NEW rest, FamilyKept,
           todo' = [todo EXCEPT ![p] = rest],
           p \in Spawned => rest \in Rests(p) /\ todo[p] # <<>> /\ rest # <<>>,
           p = 0 \/ p \in Spawned,
           p \in waiting' /\ p \in Spawned => rest = AfterCall,
           p \in Spawned /\ rest = AfterCall => syscall'[p] = OwnCall(p),
           \A q \in Pids \ {p} : syscall'[q] = syscall[q],
           waiting' \subseteq waiting \cup {p}
    PROVE  WorkersWhere'
<1> USE DEF FamilyKept
<1>1. lastPid' = lastPid /\ Spawned' = Spawned
  BY SpawnedKept
<1>2. todo \in [Pids -> Seq(AllCalls)]
  BY DEF TestState, CallsAllowed
<1>3. p < lastPid /\ ~(p >= lastPid)
  <2>1. lastPid \in 1..(NumWorkers + 1)
    BY SpawnedFacts
  <2>2. CASE p = 0
    BY <2>1, <2>2
  <2>3. CASE p \in Spawned
    BY <2>1, <2>3, SpawnedFacts, WorkerPids
  <2> QED
    BY <2>2, <2>3
<1>4. ASSUME NEW q \in Pids, q >= lastPid' PROVE todo'[q] = <<>>
  BY <1>1, <1>2, <1>3, <1>4 DEF TestState, TestInductive, WorkersWhere
<1>5. ASSUME NEW q \in Spawned
      PROVE  /\ todo'[q] \in Rests(q)
             /\ todo'[q] = <<>> <=> status'[q] \in {"Zombie", "Free"}
             /\ q \in waiting' => todo'[q] = AfterCall
             /\ todo'[q] = AfterCall => syscall'[q] = OwnCall(q)
  <2>1. q \in Pids
    BY <1>5, SpawnedFacts
  <2>2. /\ todo[q] \in Rests(q)
        /\ todo[q] = <<>> <=> status[q] \in {"Zombie", "Free"}
        /\ q \in waiting => todo[q] = AfterCall
        /\ todo[q] = AfterCall => syscall[q] = OwnCall(q)
    BY DEF TestState, TestInductive, WorkersWhere
  <2>3. status'[q] \in {"Zombie", "Free"} <=> status[q] \in {"Zombie", "Free"}
    BY <2>1 DEF Live
  <2>4. CASE q = p
    BY <1>2, <2>2, <2>3, <2>4
  <2>5. CASE q # p
    BY <1>2, <2>1, <2>2, <2>3, <2>5
  <2> QED
    BY <2>4, <2>5
<1>6. \A q \in Spawned' :
         /\ todo'[q] \in Rests(q)
         /\ todo'[q] = <<>> <=> status'[q] \in {"Zombie", "Free"}
         /\ q \in waiting' => todo'[q] = AfterCall
         /\ todo'[q] = AfterCall => syscall'[q] = OwnCall(q)
  BY <1>1, <1>5
<1> QED
  BY <1>4, <1>6 DEF WorkersWhere, Rests, OwnCall, Plan

LEMMA FlatKept ==
    ASSUME TestState, FamilyKept, timers' = timers, noCtx' = noCtx,
           0 \in waiting' => 0 \in waiting /\ syscall'[0] = syscall[0] /\ At' = At
    PROVE  FamilyFlat'
<1>1. /\ UNCHANGED <<initPcb, lastPid, parent, children, zombie>>
      /\ \A p \in Pids : \/ status'[p] = status[p]
                         \/ status[p] \in Live /\ status'[p] \in Live
  BY DEF FamilyKept
<1>2. Spawned' = Spawned
  BY <1>1, SpawnedKept
<1>3. FamilyFlat
  BY DEF TestState, TestInductive
<1>4. status'[0] \in Live
  BY <1>1, <1>3, WorkerPids DEF FamilyFlat
<1>5. ASSUME NEW p \in Spawned', status'[p] # "Free"
      PROVE  parent'[p] = 0 /\ children'[p] = {}
  <2>1. p \in Spawned /\ p \in Pids
    BY <1>2, SpawnedFacts
  <2>2. status[p] # "Free"
    BY <1>1, <1>5, <2>1 DEF Live
  <2> QED
    BY <1>1, <1>3, <2>1, <2>2 DEF FamilyFlat
<1>6. ASSUME 0 \in waiting'
      PROVE  /\ At' > FirstWait /\ At' <= LastDelete
             /\ syscall'[0] = [num |-> "wait", arg |-> 0]
             /\ zombie' = <<>> /\ children'[0] # {}
  BY <1>1, <1>3, <1>6 DEF FamilyFlat
<1> QED
  BY <1>1, <1>3, <1>4, <1>5, <1>6 DEF FamilyFlat

LEMMA PhasesKept ==
    ASSUME TestState, At' = At, registry' = registry, capacity' = capacity,
           At > 8, Range(items'[CONC_QID]) \subseteq {CONC_VAL}
    PROVE  Phases'
<1>1. /\ registry = {} \/ At \notin {1, 8}
      /\ At \notin 2..7
  BY SpawnedFacts DEF TestState, TestInductive, Phases
<1> QED
  BY <1>1 DEF TestState, TestInductive, Phases

LEMMA DoneKept ==
    ASSUME TestState, lastPid' = lastPid,
           \A p \in Spawned : /\ todo'[p] # Plan(p) <=> todo[p] # Plan(p)
                              /\ p \in waiting' <=> p \in waiting
    PROVE  PutDone' = PutDone /\ GetDone' = GetDone
<1>1. \A p \in Workers : p \in Spawned <=> p < lastPid
  BY DEF Spawned
<1>2. /\ \A p \in Producers : p \in Workers /\ Plan(p) = producer
      /\ \A p \in Consumers : p \in Workers /\ Plan(p) = consumer
  BY Sizes DEF Plan, Consumers
<1>3. PutDone' = {p \in Producers : p < lastPid' /\ todo'[p] # producer /\ p \notin waiting'}
  BY DEF PutDone
<1>4. GetDone' = {p \in Consumers : p < lastPid' /\ todo'[p] # consumer /\ p \notin waiting'}
  BY DEF GetDone
<1> QED
  BY <1>1, <1>2, <1>3, <1>4 DEF PutDone, GetDone

LEMMA BalancedKept ==
    ASSUME TestState, PutDone' = PutDone, GetDone' = GetDone,
           CONC_QID \in registry' => CONC_QID \in registry,
           CONC_QID \in registry' => Len(items'[CONC_QID]) = Len(items[CONC_QID])
    PROVE  Balanced'
BY DEF TestState, TestInductive, Balanced

LEMMA ServedKept ==
    ASSUME TestState, Spawned' = Spawned, registry' \subseteq registry, At' \in Int, At' >= At,
           \A p \in Spawned :
              todo'[p] = AfterCall /\ p \in Consumers /\ p \notin waiting' =>
                 \/ /\ todo[p] = AfterCall /\ p \notin waiting
                    /\ ret'[p] = ret[p] /\ out'[p] = out[p]
                 \/ ret'[p] = 0 /\ out'[p] = CONC_VAL
                 \/ /\ ret'[p] = DSOS_ERESOURCENOFD
                    /\ CONC_QID \notin registry' /\ At' > LastDelete
    PROVE  AllServed'
<1>1. At \in Int /\ LastDelete \in Int
  BY SpawnedFacts, Sizes DEF LastDelete
<1>2. ASSUME NEW p \in Spawned, todo'[p] = AfterCall, p \in Consumers, p \notin waiting'
      PROVE  \/ ret'[p] = 0 /\ out'[p] = CONC_VAL
             \/ ret'[p] = DSOS_ERESOURCENOFD /\ CONC_QID \notin registry' /\ At' > LastDelete
  <2>1. CASE /\ todo[p] = AfterCall /\ p \notin waiting
             /\ ret'[p] = ret[p] /\ out'[p] = out[p]
    <3>1. \/ ret[p] = 0 /\ out[p] = CONC_VAL
          \/ ret[p] = DSOS_ERESOURCENOFD /\ CONC_QID \notin registry /\ At > LastDelete
      BY <1>2, <2>1 DEF TestState, TestInductive, AllServed
    <3> QED
      BY <1>1, <2>1, <3>1
  <2> QED
    BY <1>2, <2>1
<1> QED
  BY <1>2 DEF AllServed

-----------------------------------------------------------------------------
(* The numbers of the program. *)

LEMMA HowMany ==
    /\ IsFiniteSet(Producers) /\ Cardinality(Producers) = NPROD_PROCS
    /\ IsFiniteSet(Consumers) /\ Cardinality(Consumers) = NCONS_PROCS
    /\ NCONS_PROCS <= NPROD_PROCS /\ NPROD_PROCS <= NCONS_PROCS + CAP
<1>1. IsFiniteSet(Producers) /\ Cardinality(Producers) = NPROD_PROCS
  <2>1. /\ halfC + 1 \in Int /\ halfC + NPROD_PROCS \in Int
        /\ halfC + 1 <= halfC + NPROD_PROCS + 1
    BY Sizes
  <2>2. (halfC + NPROD_PROCS) - (halfC + 1) + 1 = NPROD_PROCS
    BY Sizes
  <2> QED
    BY <2>1, <2>2, FS_Interval, Sizes DEF Producers
<1>2. IsFiniteSet(Workers) /\ Cardinality(Workers) = NumWorkers
  BY FS_Interval, Sizes DEF Workers
<1>3. IsFiniteSet(Consumers) /\ Cardinality(Consumers) = NCONS_PROCS
  <2>1. Workers \cap Producers = Producers
    BY Sizes
  <2>2. /\ IsFiniteSet(Workers \ Producers)
        /\ Cardinality(Workers \ Producers) = NumWorkers - NPROD_PROCS
    BY <1>1, <1>2, <2>1, FS_Difference
  <2> QED
    BY <2>2, Sizes DEF Consumers
<1>4. NCONS_PROCS <= NPROD_PROCS /\ NPROD_PROCS <= NCONS_PROCS + CAP
  BY TestSizes
<1> QED
  BY <1>1, <1>3, <1>4

LEMMA DoneFinite ==
    ASSUME TestState
    PROVE  /\ PutDone \subseteq Producers /\ IsFiniteSet(PutDone)
           /\ Cardinality(PutDone) \in Nat /\ Cardinality(PutDone) <= NPROD_PROCS
           /\ GetDone \subseteq Consumers /\ IsFiniteSet(GetDone)
           /\ Cardinality(GetDone) \in Nat /\ Cardinality(GetDone) <= NCONS_PROCS
<1>1. PutDone \subseteq Producers /\ GetDone \subseteq Consumers
  BY DEF PutDone, GetDone
<1> QED
  BY <1>1, HowMany, FS_Subset, FS_CardinalityType

\* One process of the set is not in the part, so the part is smaller.
LEMMA OneLess ==
    ASSUME NEW S, IsFiniteSet(S), NEW T \in SUBSET S, NEW x \in S, x \notin T
    PROVE  Cardinality(T) <= Cardinality(S) - 1 /\ Cardinality(S) \in Nat
<1>1. T \subseteq S \ {x}
  OBVIOUS
<1>2. IsFiniteSet(S \ {x}) /\ Cardinality(S \ {x}) = Cardinality(S) - 1
  BY FS_RemoveElement
<1> QED
  BY <1>1, <1>2, FS_Subset, FS_CardinalityType

\* All producers are done and the buffer is empty: no consumer is left.
LEMMA NoGetterLeft ==
    ASSUME TestState, CONC_QID \in registry, items[CONC_QID] = <<>>, PutDone = Producers,
           NEW p \in Consumers, p \notin GetDone
    PROVE  FALSE
<1>1. Cardinality(GetDone) <= NCONS_PROCS - 1
  BY DoneFinite, HowMany, OneLess
<1>2. Cardinality(PutDone) = Cardinality(GetDone) + 0
  BY DEF TestState, TestInductive, Balanced
<1> QED
  BY <1>1, <1>2, HowMany, DoneFinite, Sizes

\* All consumers are done and the buffer is full: no producer is left.
LEMMA NoPutterLeft ==
    ASSUME TestState, CONC_QID \in registry, Len(items[CONC_QID]) = CAP,
           GetDone = Consumers, NEW p \in Producers, p \notin PutDone
    PROVE  FALSE
<1>1. Cardinality(PutDone) <= NPROD_PROCS - 1
  BY DoneFinite, HowMany, OneLess
<1>2. Cardinality(PutDone) = Cardinality(GetDone) + CAP
  BY DEF TestState, TestInductive, Balanced
<1> QED
  BY <1>1, <1>2, HowMany, DoneFinite, Sizes

LEMMA HowManySpawned ==
    ASSUME TestState
    PROVE  IsFiniteSet(Spawned) /\ Cardinality(Spawned) = lastPid - 1
<1>1. Spawned = 1..(lastPid - 1)
  BY SpawnedFacts DEF Spawned
<1>2. lastPid \in Int /\ lastPid >= 1
  BY SpawnedFacts
<1> QED
  BY <1>1, <1>2, FS_Interval

\* Only workers have parents, and only they block on queues.
LEMMA PtrHolders ==
    ASSUME TestState
    PROVE  /\ Linked \subseteq Spawned /\ QueueCallers \subseteq Spawned
           /\ ptrs = Cardinality(Linked) + Cardinality(QueueCallers)
<1>1. /\ TypeOK /\ QueuePtrs /\ FamilyTree
  BY QueueParts DEF TestState, QueueInductive, KernelPart
<1>2. FamilyFlat
  BY DEF TestState, TestInductive
<1>3. Linked \subseteq Spawned
  <2>1. parent[0] = NoProc
    BY <1>1, <1>2 DEF FamilyTree, FamilyFlat
  <2> QED
    BY <2>1, SpawnedFacts DEF Linked, Alloc
<1>4. QueueCallers \subseteq Spawned
  <2>1. \A p \in waiting : p \in Pids /\ status[p] # "Free"
    BY QueueParts DEF TestState, TypeOK, OnePlace
  <2>2. 0 \notin QueueCallers
    BY <1>2 DEF FamilyFlat, QueueCallers
  <2> QED
    BY <2>1, <2>2, SpawnedFacts DEF QueueCallers
<1>5. ptrs = Cardinality(Linked) + Cardinality(QueueCallers)
  <2>1. Cardinality(QueueCallers) \in Nat /\ Cardinality(Linked) \in Int /\ ptrs \in Int
    BY <1>1, FiniteCallers, OtherPtrsInt
  <2> QED
    BY <1>1, <2>1 DEF QueuePtrs, OtherPtrs
<1> QED
  BY <1>3, <1>4, <1>5

LEMMA PtrsLeft ==
    ASSUME TestState, running \in Spawned \/ lastPid <= NumWorkers, running \notin waiting
    PROVE  ~PtrPoolFull
<1>1. /\ IsFiniteSet(Spawned) /\ Cardinality(Spawned) = lastPid - 1
      /\ lastPid \in 1..(NumWorkers + 1)
  BY HowManySpawned, SpawnedFacts
<1>2. Cardinality(Linked) <= lastPid - 1 /\ Cardinality(Linked) \in Nat
  BY <1>1, PtrHolders, FS_Subset, FS_CardinalityType
<1>3. /\ Cardinality(QueueCallers) \in Nat /\ Cardinality(QueueCallers) <= lastPid - 1
      /\ running \in Spawned => Cardinality(QueueCallers) <= lastPid - 2
  <2>1. IsFiniteSet(QueueCallers) /\ Cardinality(QueueCallers) <= lastPid - 1
    BY <1>1, PtrHolders, FS_Subset
  <2>2. CASE running \in Spawned
    <3>1. running \notin QueueCallers
      BY DEF QueueCallers
    <3> QED
      BY <1>1, <2>1, <2>2, <3>1, PtrHolders, OneLess, FS_CardinalityType
  <2> QED
    BY <2>1, <2>2, FS_CardinalityType
<1>4. ptrs < 2 * NumWorkers
  BY <1>1, <1>2, <1>3, PtrHolders, Sizes
<1> QED
  BY <1>4, <1>2, <1>3, PtrHolders, WorkerPids, KernelAssumption, Sizes DEF PtrPoolFull

LEMMA PcbsLeft ==
    ASSUME TestState, lastPid <= NumWorkers PROVE ~PcbPoolFull
<1>1. lastPid \in 1..NumWorkers
  BY SpawnedFacts, Sizes
<1>2. Alloc \subseteq 0..(lastPid - 1)
  BY <1>1, SpawnedFacts DEF Alloc
<1>3. IsFiniteSet(0..(lastPid - 1)) /\ Cardinality(0..(lastPid - 1)) = lastPid
  BY <1>1, FS_Interval
<1>4. Cardinality(Alloc) <= lastPid /\ Cardinality(Alloc) \in Nat
  BY <1>2, <1>3, FS_Subset, FS_CardinalityType
<1> QED
  BY <1>1, <1>4, WorkerPids, Sizes, KernelAssumption DEF PcbPoolFull

-----------------------------------------------------------------------------
(* The steps of the workers. *)

\* While a worker has something to do, init is past the unit test.
LEMMA WorkerPhase ==
    ASSUME TestState, NEW p \in Spawned
    PROVE  /\ At > 9 /\ registry \subseteq {CONC_QID}
           /\ CONC_QID \notin registry => At > LastDelete
           /\ CONC_QID \in registry => capacity[CONC_QID] = CAP
           /\ Range(items[CONC_QID]) \subseteq {CONC_VAL}
<1>1. At > 9 /\ At \in Int
  <2>1. lastPid # 1
    BY SpawnedFacts
  <2> QED
    BY <2>1, SpawnedFacts, Sizes DEF TestState, TestInductive, InitWhere, FirstSpawn
<1>2. LastDelete \in Int /\ (At \in 9..LastDelete \/ At > LastDelete)
  BY <1>1, Sizes DEF LastDelete
<1> QED
  BY <1>1, <1>2 DEF TestState, TestInductive, Phases

LEMMA WorkerStep ==
    ASSUME TestState, NEW p \in Spawned, NEW num, NEW rest,
           running = p, kernel = "up", kernel' = "up", running' # NoProc,
           failed' = failed, FamilyKept, timers' = timers, noCtx' = noCtx,
           syscall' = [syscall EXCEPT ![p] = num],
           todo' = [todo EXCEPT ![p] = rest],
           rest \in Rests(p), todo[p] # <<>>, rest # <<>>,
           p \in waiting' => rest = AfterCall,
           rest = AfterCall => num = OwnCall(p),
           waiting' \subseteq waiting \cup {p}
    PROVE  /\ InitWhere' /\ WorkersWhere' /\ FamilyFlat' /\ OnlyDeleteFails'
           /\ At' = At /\ lastPid' = lastPid /\ Spawned' = Spawned
<1>1. p \in Pids /\ p # 0 /\ 0 \in Pids
  BY SpawnedFacts, WorkerPids
<1>2. lastPid' = lastPid
  BY DEF FamilyKept
<1>3. /\ todo \in [Pids -> Seq(AllCalls)]
      /\ syscall \in [Pids -> [num : SysCalls, arg : Int]]
  BY QueueParts DEF TestState, CallsAllowed, TypeOK
<1>4. todo'[0] = todo[0]
  BY <1>1, <1>3
<1>5. InitWhere' /\ At' = At
  BY <1>2, <1>4, InitStays
<1>6. WorkersWhere'
  <2>1. \A q \in Pids \ {p} : syscall'[q] = syscall[q]
    BY <1>3
  <2>2. syscall'[p] = num
    BY <1>1, <1>3
  <2> QED
    BY <1>1, <2>1, <2>2, WorkersKept
<1>7. FamilyFlat'
  <2>1. 0 \in waiting' => 0 \in waiting /\ syscall'[0] = syscall[0]
    BY <1>1, <1>3
  <2> QED
    BY <1>5, <2>1, FlatKept
<1>8. OnlyDeleteFails'
  BY DEF TestState, TestInductive, OnlyDeleteFails
<1>9. Spawned' = Spawned
  BY <1>2, SpawnedKept
<1> QED
  BY <1>2, <1>5, <1>6, <1>7, <1>8, <1>9

\* The caller gets its answer and goes on.
LEMMA WorkerAnswered ==
    ASSUME TestState, NEW p \in Spawned, NEW num, NEW arg, NEW v, NEW rest,
           running = p, failed' = failed, Enter(num, arg), Answer(v),
           todo' = [todo EXCEPT ![p] = rest],
           rest \in Rests(p), todo[p] # <<>>, rest # <<>>,
           rest = AfterCall => [num |-> num, arg |-> arg] = OwnCall(p)
    PROVE  /\ InitWhere' /\ WorkersWhere' /\ FamilyFlat' /\ OnlyDeleteFails'
           /\ At' = At /\ lastPid' = lastPid /\ Spawned' = Spawned
           /\ waiting' = waiting /\ p \notin waiting
           /\ \A q \in Pids : ret'[q] = IF q = p THEN v ELSE ret[q]
<1>1. TypeOK /\ OnePlace
  BY QueueParts DEF TestState
<1>2. p \in Pids /\ running # NoProc /\ kernel = "up"
  BY SpawnedFacts DEF Enter
<1>3. UNCHANGED <<kernel, running, lists, family, status>>
  BY DEF Answer
<1>4. FamilyKept
  BY <1>3 DEF FamilyKept, family, lists
<1>5. p \notin waiting
  BY <1>1, <1>2, CallerPlace
<1>6. /\ waiting' = waiting /\ timers' = timers /\ noCtx' = noCtx
      /\ kernel' = "up" /\ running' # NoProc
  BY <1>2, <1>3 DEF lists, family
<1>7. syscall' = [syscall EXCEPT ![p] = [num |-> num, arg |-> arg]]
  BY DEF Enter
<1>8. /\ InitWhere' /\ WorkersWhere' /\ FamilyFlat' /\ OnlyDeleteFails'
      /\ At' = At /\ lastPid' = lastPid /\ Spawned' = Spawned
  BY <1>2, <1>4, <1>5, <1>6, <1>7, WorkerStep
<1>9. \A q \in Pids : ret'[q] = IF q = p THEN v ELSE ret[q]
  BY <1>1 DEF Answer, Return, TypeOK
<1> QED
  BY <1>5, <1>6, <1>8, <1>9

\* The caller serves another worker, and both go on.
LEMMA WorkerServed ==
    ASSUME TestState, NEW p \in Spawned, NEW num, NEW arg \in Int, NEW q \in QueueCallers,
           NEW rest, running = p, failed' = failed, Enter(num, arg), Serve(q),
           todo' = [todo EXCEPT ![p] = rest],
           rest \in Rests(p), todo[p] # <<>>, rest # <<>>,
           rest = AfterCall => [num |-> num, arg |-> arg] = OwnCall(p)
    PROVE  /\ InitWhere' /\ WorkersWhere' /\ FamilyFlat' /\ OnlyDeleteFails'
           /\ At' = At /\ lastPid' = lastPid /\ Spawned' = Spawned
           /\ waiting' = waiting \ {q} /\ p \notin waiting /\ p # q
           /\ \A r \in Pids : ret'[r] = IF r \in {p, q} THEN 0 ELSE ret[r]
<1>1. TypeOK /\ OnePlace /\ TimersMatchSleepers
  BY QueueParts DEF TestState, QueueInductive, KernelPart, Inductive
<1>2. p \in Pids /\ running # NoProc /\ kernel = "up"
  BY SpawnedFacts DEF Enter
<1>3. q \in waiting /\ syscall[q].num # "sleep" /\ q \in Pids
  BY <1>1 DEF QueueCallers, TypeOK
<1>4. p \notin waiting /\ p # q
  BY <1>1, <1>2, <1>3, CallerPlace
<1>5. FamilyKept /\ waiting' = waiting \ {q}
  BY <1>1, <1>3, ServeFacts
<1>6. /\ timers' = timers /\ noCtx' = noCtx
      /\ kernel' = "up" /\ running' # NoProc
  BY <1>2 DEF Serve
<1>7. syscall' = [syscall EXCEPT ![p] = [num |-> num, arg |-> arg]]
  BY DEF Enter
<1>8. /\ InitWhere' /\ WorkersWhere' /\ FamilyFlat' /\ OnlyDeleteFails'
      /\ At' = At /\ lastPid' = lastPid /\ Spawned' = Spawned
  BY <1>2, <1>4, <1>5, <1>6, <1>7, WorkerStep
<1>9. \A r \in Pids : ret'[r] = IF r \in {p, q} THEN 0 ELSE ret[r]
  BY <1>1, <1>2, <1>3 DEF Serve, TypeOK
<1> QED
  BY <1>4, <1>5, <1>8, <1>9

\* The caller blocks, and there is somebody to take its place.
LEMMA WorkerBlocked ==
    ASSUME TestState, NEW p \in Spawned, NEW num, num # "sleep", NEW arg \in Int,
           running = p, failed' = failed, Enter(num, arg), LeaveCpu, ready # <<>>,
           todo' = [todo EXCEPT ![p] = AfterCall], todo[p] # <<>>,
           [num |-> num, arg |-> arg] = OwnCall(p)
    PROVE  /\ InitWhere' /\ WorkersWhere' /\ FamilyFlat' /\ OnlyDeleteFails'
           /\ At' = At /\ lastPid' = lastPid /\ Spawned' = Spawned
           /\ waiting' = waiting \cup {p} /\ p \notin waiting
           /\ ret' = ret
<1>1. TypeOK /\ OnePlace /\ TimersMatchSleepers
  BY QueueParts DEF TestState, QueueInductive, KernelPart, Inductive
<1>2. p \in Pids /\ running # NoProc /\ kernel = "up"
  BY SpawnedFacts DEF Enter
<1>3. p \notin waiting
  BY <1>1, <1>2, CallerPlace
<1>4. FamilyKept /\ waiting' = waiting \cup {p}
  BY <1>1, LeaveFacts
<1>5. /\ timers' = timers /\ noCtx' = noCtx /\ noCtx = {} /\ ret' = ret
  BY DEF LeaveCpu, TestState, TestInductive, FamilyFlat
<1>6. running' \in Pids /\ running' # NoProc
  BY <1>1, HeadTailProperties, PidFacts DEF LeaveCpu, GiveUpCpu, TypeOK
<1>7. kernel' = "up"
  BY <1>5, <1>6 DEF LeaveCpu, GiveUpCpu, TrapExit
<1>8. syscall' = [syscall EXCEPT ![p] = [num |-> num, arg |-> arg]]
  BY DEF Enter
<1>9. AfterCall \in Rests(p) /\ AfterCall # <<>>
  BY PlanFacts DEF Rests
<1>10. /\ InitWhere' /\ WorkersWhere' /\ FamilyFlat' /\ OnlyDeleteFails'
       /\ At' = At /\ lastPid' = lastPid /\ Spawned' = Spawned
  BY <1>2, <1>3, <1>4, <1>5, <1>6, <1>7, <1>8, <1>9, WorkerStep
<1> QED
  BY <1>3, <1>4, <1>5, <1>10

-----------------------------------------------------------------------------
(* Who is blocked, and why never everybody is. *)

LEMMA WaiterIsWorker ==
    ASSUME TestState, NEW p \in waiting
    PROVE  /\ p \in Pids /\ (p = 0 \/ p \in Spawned)
           /\ p \in Spawned => todo[p] = AfterCall /\ syscall[p] = OwnCall(p)
<1>1. p \in Pids /\ status[p] # "Free"
  BY QueueParts DEF TestState, TypeOK, OnePlace
<1> QED
  BY <1>1, SpawnedFacts DEF TestState, TestInductive, WorkersWhere

LEMMA QueueCallerWho ==
    ASSUME TestState, NEW p \in QueueCallers
    PROVE  /\ p \in Spawned /\ p \in waiting /\ todo[p] = AfterCall
           /\ syscall[p].num = "bq_get" => p \in Consumers /\ syscall[p].arg = 1
           /\ syscall[p].num = "bq_put" => p \in Producers /\ syscall[p].arg = CONC_VAL
<1>1. p \in Spawned /\ p \in waiting
  BY PtrHolders DEF QueueCallers
<1>2. todo[p] = AfterCall /\ syscall[p] = OwnCall(p)
  BY <1>1, WaiterIsWorker
<1>3. p \in Workers
  BY <1>1, SpawnedFacts
<1> QED
  BY <1>1, <1>2, <1>3 DEF OwnCall, Consumers

LEMMA WaitsInList ==
    ASSUME TestState, NEW p \in Spawned, p \in waiting
    PROVE  /\ p \in Consumers => CONC_QID \in registry /\ getters[CONC_QID] # <<>>
           /\ p \in Producers => CONC_QID \in registry /\ putters[CONC_QID] # <<>>
<1>1. /\ Listed(getters, Callers("bq_get")) /\ Listed(putters, Callers("bq_put"))
      /\ UnusedEmpty
  BY QueueParts DEF TestState, BuffersOK
<1>2. syscall[p] = OwnCall(p)
  BY WaiterIsWorker
<1>3. registry \subseteq {CONC_QID}
  BY WorkerPhase
<1>4. CASE p \in Consumers
  <2>1. p \in Callers("bq_get")
    BY <1>2, <1>4 DEF OwnCall, Callers, Consumers
  <2>2. PICK q \in QIds : p \in Range(getters[q])
    BY <1>1, <2>1 DEF Listed
  <2>3. getters[q] # <<>>
    BY <2>2 DEF Range
  <2> QED
    BY <1>1, <1>3, <1>4, <2>3 DEF UnusedEmpty, Consumers
<1>5. CASE p \in Producers
  <2>1. p \in Callers("bq_put")
    BY <1>2, <1>5 DEF OwnCall, Callers
  <2>2. PICK q \in QIds : p \in Range(putters[q])
    BY <1>1, <2>1 DEF Listed
  <2>3. putters[q] # <<>>
    BY <2>2 DEF Range
  <2> QED
    BY <1>1, <1>3, <1>5, <2>3 DEF UnusedEmpty, Consumers
<1> QED
  BY <1>4, <1>5

\* With nobody ready, whoever is not on the CPU is blocked or has exited.
LEMMA Elsewhere ==
    ASSUME TestState, ready = <<>>, NEW p \in Pids, p # running
    PROVE  /\ p \in Spawned => p \in waiting \/ todo[p] = <<>>
           /\ p = 0 => 0 \in waiting /\ lastPid = NumWorkers + 1
<1>1. OnePlace /\ TypeOK
  BY QueueParts DEF TestState
<1>2. status[p] \notin {"Running", "Ready"}
  BY <1>1 DEF OnePlace, Range
<1>3. p \in waiting \/ status[p] \in {"Zombie", "Free"}
  BY <1>1, <1>2 DEF OnePlace, TypeOK, Statuses
<1>4. p \in Spawned => p \in waiting \/ todo[p] = <<>>
  BY <1>3 DEF TestState, TestInductive, WorkersWhere
<1>5. ASSUME p = 0 PROVE 0 \in waiting /\ lastPid = NumWorkers + 1
  <2>1. 0 \in waiting
    BY <1>3, <1>5 DEF TestState, TestInductive, FamilyFlat, Live
  <2>2. At > FirstWait /\ At \in Int
    BY <2>1, SpawnedFacts DEF TestState, TestInductive, FamilyFlat
  <2> QED
    BY <2>1, <2>2, Sizes DEF TestState, TestInductive, InitWhere, FirstWait, FirstSpawn
<1> QED
  BY <1>4, <1>5

LEMMA AllSpawned ==
    ASSUME TestState, lastPid = NumWorkers + 1
    PROVE  Spawned = Workers /\ \A p \in Workers : p < lastPid
BY WorkerPids, Sizes DEF Spawned, Workers

LEMMA PuttersGone ==
    ASSUME TestState, lastPid = NumWorkers + 1,
           CONC_QID \in registry => putters[CONC_QID] = <<>>,
           \A p \in Producers : p \in waiting \/ todo[p] = <<>>
    PROVE  PutDone = Producers
<1>1. ASSUME NEW p \in Producers PROVE p \in PutDone
  <2>1. p \in Spawned /\ p < lastPid
    BY AllSpawned, Sizes
  <2>2. p \notin waiting
    BY <2>1, WaitsInList
  <2> QED
    BY <2>1, <2>2, PlanFacts DEF PutDone
<1> QED
  BY <1>1 DEF PutDone

LEMMA GettersGone ==
    ASSUME TestState, lastPid = NumWorkers + 1,
           CONC_QID \in registry => getters[CONC_QID] = <<>>,
           \A p \in Consumers : p \in waiting \/ todo[p] = <<>>
    PROVE  GetDone = Consumers
<1>1. ASSUME NEW p \in Consumers PROVE p \in GetDone
  <2>1. p \in Spawned /\ p < lastPid
    BY AllSpawned, Sizes
  <2>2. p \notin waiting
    BY <2>1, WaitsInList
  <2> QED
    BY <2>1, <2>2, PlanFacts DEF GetDone
<1> QED
  BY <1>1 DEF GetDone

\* A full buffer holds CAP values.
LEMMA FullBuffer ==
    ASSUME TestState, NEW p \in Spawned, CONC_QID \in registry
    PROVE  /\ CONC_QID \in QIds /\ Shaped(CONC_QID) /\ capacity[CONC_QID] = CAP
           /\ size[CONC_QID] >= capacity[CONC_QID] => Len(items[CONC_QID]) = CAP
           /\ putters[CONC_QID] # <<>> => Len(items[CONC_QID]) = CAP
           /\ putters[CONC_QID] # <<>> => getters[CONC_QID] = <<>>
<1>1. BuffersOK /\ BQTypeOK
  BY QueueParts DEF TestState
<1>2. CONC_QID \in QIds /\ Shaped(CONC_QID)
  BY <1>1, ShapedQueues
<1>3. capacity[CONC_QID] = CAP
  BY WorkerPhase
<1>4. size[CONC_QID] \in Int /\ CAP \in Int
  BY <1>1, <1>2, Sizes DEF BQTypeOK
<1> QED
  BY <1>2, <1>3, <1>4 DEF Shaped

LEMMA GetterLeavesWork ==
    ASSUME TestState, NEW p \in Spawned, p \in Consumers, todo[p] = consumer, running = p,
           CONC_QID \in registry, items[CONC_QID] = <<>>, putters[CONC_QID] = <<>>
    PROVE  ready # <<>>
<1>1. SUFFICES ASSUME ready = <<>> PROVE FALSE
  OBVIOUS
<1>2. lastPid = NumWorkers + 1
  BY <1>1, Elsewhere, SpawnedFacts, WorkerPids
<1>3. ASSUME NEW q \in Producers PROVE q \in waiting \/ todo[q] = <<>>
  <2>1. q \in Workers /\ q \in Pids /\ q # p /\ q \in Spawned
    BY <1>2, AllSpawned, Sizes, WorkerPids DEF Consumers
  <2> QED
    BY <1>1, <2>1, Elsewhere
<1>4. PutDone = Producers
  BY <1>2, <1>3, PuttersGone
<1>5. p \notin GetDone
  BY DEF GetDone
<1> QED
  BY <1>4, <1>5, NoGetterLeft

LEMMA PutterLeavesWork ==
    ASSUME TestState, NEW p \in Spawned, p \in Producers, todo[p] = producer, running = p,
           CONC_QID \in registry, size[CONC_QID] >= capacity[CONC_QID],
           getters[CONC_QID] = <<>>
    PROVE  ready # <<>>
<1>1. SUFFICES ASSUME ready = <<>> PROVE FALSE
  OBVIOUS
<1>2. lastPid = NumWorkers + 1
  BY <1>1, Elsewhere, SpawnedFacts, WorkerPids
<1>3. ASSUME NEW q \in Consumers PROVE q \in waiting \/ todo[q] = <<>>
  <2>1. q \in Workers /\ q \in Pids /\ q # p /\ q \in Spawned
    BY <1>2, AllSpawned, Sizes, WorkerPids DEF Consumers
  <2> QED
    BY <1>1, <2>1, Elsewhere
<1>4. GetDone = Consumers
  BY <1>2, <1>3, GettersGone
<1>5. p \notin PutDone
  BY DEF PutDone
<1> QED
  BY <1>4, <1>5, NoPutterLeft, FullBuffer

-----------------------------------------------------------------------------
(* The calls of the workers. *)

\* With one queue, of a capacity the pool can fill, a put is never refused.
LEMMA ItemsLeft ==
    ASSUME BuffersOK, NEW q \in QIds, registry = {q}, size[q] < capacity[q],
           capacity[q] <= NumItems, capacity[q] \in Int
    PROVE  itemsUsed < NumItems
<1>1. /\ IsFiniteSet(Places(registry, size))
      /\ itemsUsed = Cardinality(Places(registry, size))
      /\ size \in [QIds -> Int] /\ q \in registry
  BY StoredFacts
<1>2. size[q] = Len(items[q]) /\ Len(items[q]) \in Nat
  BY <1>1, ShapedQueues, LenProperties DEF Shaped, BuffersOK, BQTypeOK
<1>3. Cardinality(Places({}, [size EXCEPT ![q] = 0])) = itemsUsed - size[q]
  <2>1. registry \in SUBSET QIds /\ registry \ {q} = {} /\ size[q] >= 0
    BY <1>2
  <2> QED
    BY <1>1, <2>1, PlacesDrop
<1>4. Places({}, [size EXCEPT ![q] = 0]) = {}
  BY DEF Places
<1>5. itemsUsed = size[q]
  <2>1. itemsUsed \in Nat /\ size[q] \in Int
    BY <1>2, StoredFacts
  <2> QED
    <3>1. Cardinality(Places({}, [size EXCEPT ![q] = 0])) = 0
      BY <1>4, FS_EmptySet
    <3> QED
      BY <1>3, <2>1, <3>1
<1> QED
  BY <1>2, <1>5, BQueueAssumption

\* All that is left to show of a step of a worker.
LEMMA WorkerQueues ==
    ASSUME TestState, NEW p \in Spawned, At' = At, Spawned' = Spawned,
           registry' = registry, capacity' = capacity,
           Range(items'[CONC_QID]) \subseteq {CONC_VAL},
           InitWhere', WorkersWhere', FamilyFlat', OnlyDeleteFails', Balanced',
           \A q \in Spawned :
              todo'[q] = AfterCall /\ q \in Consumers /\ q \notin waiting' =>
                 \/ /\ todo[q] = AfterCall /\ q \notin waiting
                    /\ ret'[q] = ret[q] /\ out'[q] = out[q]
                 \/ ret'[q] = 0 /\ out'[q] = CONC_VAL
                 \/ /\ ret'[q] = DSOS_ERESOURCENOFD
                    /\ CONC_QID \notin registry' /\ At' > LastDelete
    PROVE  TestInductive'
<1>1. Phases'
  BY WorkerPhase, SpawnedFacts, PhasesKept
<1>2. AllServed'
  BY SpawnedFacts, ServedKept
<1> QED
  BY <1>1, <1>2 DEF TestInductive

\* The answer that changes no queue.
LEMMA WorkerRefused ==
    ASSUME TestState, NEW p \in Spawned, NEW num, NEW arg \in Int, NEW v \in Int, NEW rest,
           running = p, failed' = failed, Enter(num, arg), Answer(v), UNCHANGED queues,
           todo' = [todo EXCEPT ![p] = rest],
           rest \in Rests(p), todo[p] # <<>>, rest # <<>>,
           rest = AfterCall => [num |-> num, arg |-> arg] = OwnCall(p),
           rest = AfterCall /\ p \in Consumers =>
              v = DSOS_ERESOURCENOFD /\ CONC_QID \notin registry,
           CONC_QID \in registry => (todo[p] # Plan(p) <=> rest # Plan(p))
    PROVE  TestInductive'
<1>1. /\ InitWhere' /\ WorkersWhere' /\ FamilyFlat' /\ OnlyDeleteFails'
      /\ At' = At /\ lastPid' = lastPid /\ Spawned' = Spawned
      /\ waiting' = waiting /\ p \notin waiting
      /\ \A q \in Pids : ret'[q] = IF q = p THEN v ELSE ret[q]
  BY WorkerAnswered
<1>2. /\ registry' = registry /\ capacity' = capacity /\ items' = items /\ out' = out
  BY DEF queues
<1>3. todo \in [Pids -> Seq(AllCalls)] /\ p \in Pids
  BY SpawnedFacts DEF TestState, CallsAllowed
<1>4. Balanced'
  <2>1. CASE CONC_QID \notin registry
    BY <1>2, <2>1 DEF Balanced
  <2>2. CASE CONC_QID \in registry
    <3>1. \A q \in Spawned : /\ todo'[q] # Plan(q) <=> todo[q] # Plan(q)
                             /\ q \in waiting' <=> q \in waiting
      BY <1>1, <1>3, <2>2, SpawnedFacts
    <3> QED
      BY <1>1, <1>2, <3>1, DoneKept, BalancedKept
  <2> QED
    BY <2>1, <2>2
<1>5. ASSUME NEW q \in Spawned, todo'[q] = AfterCall, q \in Consumers, q \notin waiting'
      PROVE  \/ /\ todo[q] = AfterCall /\ q \notin waiting
                /\ ret'[q] = ret[q] /\ out'[q] = out[q]
             \/ ret'[q] = 0 /\ out'[q] = CONC_VAL
             \/ /\ ret'[q] = DSOS_ERESOURCENOFD
                /\ CONC_QID \notin registry' /\ At' > LastDelete
  <2>1. CASE q = p
    BY <1>1, <1>2, <1>3, <1>5, <2>1, WorkerPhase
  <2>2. CASE q # p
    BY <1>1, <1>2, <1>3, <1>5, <2>2, SpawnedFacts
  <2> QED
    BY <2>1, <2>2
<1>6. Range(items'[CONC_QID]) \subseteq {CONC_VAL}
  BY <1>2, WorkerPhase
<1> QED
  BY <1>1, <1>2, <1>4, <1>5, <1>6, WorkerQueues

LEMMA DumpTest ==
    ASSUME TestState, NEW p \in Spawned, WorkerMove(p, "dump")
    PROVE  TestInductive'
<1>1. /\ running = p /\ failed' = failed /\ todo[p] = AfterCall
      /\ todo' = [todo EXCEPT ![p] = << Plain("exit") >>] /\ BqDump(CONC_QID)
  BY DEF WorkerMove
<1>2. Enter("bq_dump", CONC_QID) /\ CONC_QID \in Int
  BY <1>1, Sizes DEF BqDump
<1>3. \E v \in Int : Answer(v) /\ UNCHANGED queues
  BY <1>1 DEF BqDump, NoSuchQueue, DSOS_ERESOURCENOFD
<1>4. /\ << Plain("exit") >> \in Rests(p) /\ << Plain("exit") >> # <<>>
      /\ AfterCall # <<>> /\ << Plain("exit") >> # AfterCall
      /\ AfterCall # Plan(p) /\ << Plain("exit") >> # Plan(p)
  BY PlanFacts DEF Rests, Plan
<1> QED
  BY <1>1, <1>2, <1>3, <1>4, WorkerRefused

LEMMA DoneSets ==
    ASSUME TestState, lastPid' = lastPid
    PROVE  /\ \A q \in Producers :
                 /\ q \in PutDone <=> q \in Spawned /\ todo[q] # producer /\ q \notin waiting
                 /\ q \in PutDone' <=> q \in Spawned /\ todo'[q] # producer /\ q \notin waiting'
           /\ \A q \in Consumers :
                 /\ q \in GetDone <=> q \in Spawned /\ todo[q] # consumer /\ q \notin waiting
                 /\ q \in GetDone' <=> q \in Spawned /\ todo'[q] # consumer /\ q \notin waiting'
           /\ PutDone' \subseteq Producers /\ GetDone' \subseteq Consumers
<1>1. Producers \subseteq Workers /\ Consumers \subseteq Workers
  BY Sizes
<1>2. PutDone' = {q \in Producers : q < lastPid' /\ todo'[q] # producer /\ q \notin waiting'}
  BY DEF PutDone
<1>3. GetDone' = {q \in Consumers : q < lastPid' /\ todo'[q] # consumer /\ q \notin waiting'}
  BY DEF GetDone
<1> QED
  BY <1>1, <1>2, <1>3 DEF PutDone, GetDone, Spawned

\* How the counts move with the processes whose call returned.
LEMMA BalanceMoved ==
    ASSUME TestState, CONC_QID \in registry, registry' = registry,
           NEW P \in SUBSET Producers, NEW G \in SUBSET Consumers,
           P \cap PutDone = {}, G \cap GetDone = {},
           PutDone' = PutDone \cup P, GetDone' = GetDone \cup G,
           NEW m \in Nat, NEW n \in Nat, Cardinality(P) + m = Cardinality(G) + n,
           Len(items[CONC_QID]) = m, Len(items'[CONC_QID]) = n
    PROVE  Balanced'
<1>1. /\ IsFiniteSet(P) /\ IsFiniteSet(G) /\ IsFiniteSet(PutDone) /\ IsFiniteSet(GetDone)
  BY HowMany, DoneFinite, FS_Subset
<1>2. PutDone \cap P = {} /\ GetDone \cap G = {} /\ Cardinality({}) = 0
  BY FS_EmptySet
<1>3. /\ Cardinality(PutDone \cup P) = Cardinality(PutDone) + Cardinality(P) - 0
      /\ Cardinality(GetDone \cup G) = Cardinality(GetDone) + Cardinality(G) - 0
  BY <1>1, <1>2, FS_Union
<1>4. Cardinality(PutDone) = Cardinality(GetDone) + m
  BY DEF TestState, TestInductive, Balanced
<1>5. PICK a \in Nat, b \in Nat, p \in Nat, g \in Nat :
         /\ a = Cardinality(PutDone) /\ b = Cardinality(GetDone)
         /\ p = Cardinality(P) /\ g = Cardinality(G)
  BY <1>1, FS_CardinalityType
<1>6. Cardinality(PutDone') = a + p /\ Cardinality(GetDone') = b + g
  <2>1. Cardinality(PutDone') = Cardinality(PutDone \cup P)
    BY Zenon
  <2>2. Cardinality(GetDone') = Cardinality(GetDone \cup G)
    BY Zenon
  <2>3. Cardinality(PutDone \cup P) = a + p /\ Cardinality(GetDone \cup G) = b + g
    BY <1>3, <1>5
  <2> QED
    BY <2>1, <2>2, <2>3, Zenon
<1>7. a = b + m /\ p + m = g + n
  BY <1>4, <1>5
<1>8. a + p = b + g + n
  BY <1>7
<1>9. Cardinality(PutDone') = Cardinality(GetDone') + Len(items'[CONC_QID])
  BY <1>6, <1>8
<1> QED
  BY <1>9 DEF Balanced

LEMMA OwnTurn ==
    ASSUME TestState, NEW p \in Spawned, todo[p] = Plan(p), p \notin waiting
    PROVE  /\ p \in Pids /\ p \in Workers
           /\ p \notin PutDone /\ p \notin GetDone
           /\ AfterCall \in Rests(p) /\ AfterCall # <<>> /\ todo[p] # <<>>
           /\ AfterCall # Plan(p)
<1>1. p \in Pids /\ p \in Workers
  BY SpawnedFacts
<1>2. p \notin PutDone /\ p \notin GetDone
  BY <1>1 DEF PutDone, GetDone, Plan, Consumers
<1>3. /\ AfterCall \in Rests(p) /\ AfterCall # <<>> /\ todo[p] # <<>>
      /\ AfterCall # Plan(p)
  BY PlanFacts DEF Rests, Plan
<1> QED
  BY <1>1, <1>2, <1>3

\* The caller and the processes it serves are done with their calls.
LEMMA DoneServed ==
    ASSUME TestState, lastPid' = lastPid, NEW p \in Spawned, todo[p] = Plan(p),
           p \notin waiting, todo' = [todo EXCEPT ![p] = AfterCall],
           NEW S \in SUBSET (Spawned \cap waiting), waiting' = waiting \ S
    PROVE  /\ PutDone' = PutDone \cup (({p} \cup S) \cap Producers)
           /\ GetDone' = GetDone \cup (({p} \cup S) \cap Consumers)
           /\ ({p} \cup S) \cap PutDone = {} /\ ({p} \cup S) \cap GetDone = {}
<1>1. todo \in [Pids -> Seq(AllCalls)] /\ p \in Pids /\ p \in Workers
  BY OwnTurn DEF TestState, CallsAllowed
<1>2. AfterCall # producer /\ AfterCall # consumer
  BY PlanFacts
<1>3. \A q \in S : q \in Pids /\ todo[q] = AfterCall
  BY WaiterIsWorker
<1>4. \A q \in Spawned : q \in Pids
  BY SpawnedFacts
<1>5. ASSUME NEW q \in Producers
      PROVE  q \in PutDone' <=> q \in PutDone \/ q \in {p} \cup S
  BY <1>1, <1>2, <1>3, <1>4, DoneSets
<1>6. ASSUME NEW q \in Consumers
      PROVE  q \in GetDone' <=> q \in GetDone \/ q \in {p} \cup S
  BY <1>1, <1>2, <1>3, <1>4, DoneSets
<1>7. /\ PutDone' \subseteq Producers /\ GetDone' \subseteq Consumers
      /\ PutDone \subseteq Producers /\ GetDone \subseteq Consumers
  BY DoneSets, DoneFinite
<1>8. \A q \in S : q \notin PutDone /\ q \notin GetDone
  BY DEF PutDone, GetDone
<1> QED
  BY <1>5, <1>6, <1>7, <1>8, OwnTurn

LEMMA DoneBlocked ==
    ASSUME TestState, lastPid' = lastPid, NEW p \in Spawned, todo[p] = Plan(p),
           p \notin waiting, todo' = [todo EXCEPT ![p] = AfterCall],
           waiting' = waiting \cup {p}
    PROVE  PutDone' = PutDone /\ GetDone' = GetDone
<1>1. todo \in [Pids -> Seq(AllCalls)] /\ p \in Pids /\ p \in Workers
  BY OwnTurn DEF TestState, CallsAllowed
<1>2. AfterCall # producer /\ AfterCall # consumer
  BY PlanFacts
<1>3. \A q \in Spawned : q \in Pids
  BY SpawnedFacts
<1>4. ASSUME NEW q \in Producers PROVE q \in PutDone' <=> q \in PutDone
  BY <1>1, <1>2, <1>3, DoneSets, OwnTurn
<1>5. ASSUME NEW q \in Consumers PROVE q \in GetDone' <=> q \in GetDone
  BY <1>1, <1>2, <1>3, DoneSets, OwnTurn
<1>6. /\ PutDone' \subseteq Producers /\ GetDone' \subseteq Consumers
      /\ PutDone \subseteq Producers /\ GetDone \subseteq Consumers
  BY DoneSets, DoneFinite
<1> QED
  BY <1>4, <1>5, <1>6

LEMMA OnlyValue ==
    ASSUME NEW V, NEW s \in Seq(V), NEW v, Range(s) \subseteq {v}
    PROVE  s \in Seq({v})
<1>1. /\ Len(s) \in Nat /\ DOMAIN s = 1..Len(s)
  BY LenProperties
<1>2. \A i \in 1..Len(s) : s[i] \in {v}
  BY <1>1 DEF Range
<1>3. s = [i \in 1..Len(s) |-> s[i]]
  BY <1>1
<1> QED
  BY <1>1, <1>2, <1>3

\* The values in the buffer.
LEMMA BufferValues ==
    ASSUME TestState, NEW p \in Spawned, CONC_QID \in registry
    PROVE  /\ CONC_QID \in QIds /\ items \in [QIds -> Seq(Values)]
           /\ items[CONC_QID] \in Seq({CONC_VAL}) /\ CONC_VAL \in Values
           /\ Len(items[CONC_QID]) \in Nat
           /\ items[CONC_QID] # <<>> => Head(items[CONC_QID]) = CONC_VAL
           /\ items[CONC_QID] # <<>> => Len(items[CONC_QID]) > 0
<1>1. /\ CONC_QID \in QIds /\ items \in [QIds -> Seq(Values)]
  BY QueueParts DEF TestState, BQTypeOK
<1>2. Range(items[CONC_QID]) \subseteq {CONC_VAL} /\ items[CONC_QID] \in Seq(Values)
  BY <1>1, WorkerPhase
<1>3. items[CONC_QID] \in Seq({CONC_VAL})
  BY <1>2, OnlyValue
<1>4. CONC_VAL \in Values
  BY TestAssumption
<1>5. items[CONC_QID] # <<>> => Head(items[CONC_QID]) = CONC_VAL /\ Len(items[CONC_QID]) > 0
  BY <1>3, HeadTailProperties
<1> QED
  BY <1>1, <1>3, <1>4, <1>5, LenProperties

LEMMA AllTheValue ==
    ASSUME NEW v, NEW s \in Seq({v}) PROVE Range(s) \subseteq {v}
BY DEF Range

LEMMA OneMoved ==
    ASSUME NEW m \in Nat, NEW n \in Nat
    PROVE  /\ n = m + 1 => 1 + m = 0 + n
           /\ n = m + (-1) => 0 + m = 1 + n
OBVIOUS

\* A worker answered alone: its call is counted, the buffer changed by it.
LEMMA AloneTest ==
    ASSUME TestState, NEW p \in Spawned, NEW num, NEW arg \in Int,
           running = p, failed' = failed, Enter(num, arg), Answer(0),
           todo' = [todo EXCEPT ![p] = AfterCall], todo[p] = Plan(p),
           [num |-> num, arg |-> arg] = OwnCall(p),
           CONC_QID \in registry, registry' = registry, capacity' = capacity,
           items'[CONC_QID] \in Seq({CONC_VAL}),
           Len(items'[CONC_QID]) = Len(items[CONC_QID]) + (IF p \in Producers THEN 1 ELSE -1),
           p \in Consumers => out'[p] = CONC_VAL,
           \A q \in Pids \ {p} : out'[q] = out[q]
    PROVE  TestInductive'
<1>1. /\ p \notin waiting
  BY QueueParts, CallerPlace, SpawnedFacts DEF TestState
<1>2. /\ p \in Pids /\ p \in Workers /\ AfterCall \in Rests(p) /\ AfterCall # <<>>
      /\ todo[p] # <<>> /\ AfterCall # Plan(p)
      /\ p \notin PutDone /\ p \notin GetDone
  BY <1>1, OwnTurn
<1>3. /\ InitWhere' /\ WorkersWhere' /\ FamilyFlat' /\ OnlyDeleteFails'
      /\ At' = At /\ lastPid' = lastPid /\ Spawned' = Spawned
      /\ waiting' = waiting
      /\ \A q \in Pids : ret'[q] = IF q = p THEN 0 ELSE ret[q]
  BY <1>2, WorkerAnswered
<1>4. /\ PutDone' = PutDone \cup ({p} \cap Producers)
      /\ GetDone' = GetDone \cup ({p} \cap Consumers)
  <2>1. PICK S \in SUBSET (Spawned \cap waiting) : S = {}
    OBVIOUS
  <2>2. waiting' = waiting \ S /\ {p} \cup S = {p}
    BY <1>3, <2>1
  <2>3. /\ PutDone' = PutDone \cup (({p} \cup S) \cap Producers)
        /\ GetDone' = GetDone \cup (({p} \cup S) \cap Consumers)
    BY <1>1, <1>3, <2>2, DoneServed
  <2> QED
    BY <2>2, <2>3
<1>5. Balanced'
  <2>1. PICK m \in Nat, n \in Nat : m = Len(items[CONC_QID]) /\ n = Len(items'[CONC_QID])
    BY BufferValues, LenProperties
  <2>2. Cardinality({p}) = 1 /\ Cardinality({}) = 0
    BY FS_Singleton, FS_EmptySet
  <2>3. CASE p \in Producers
    <3>1. {p} \cap Producers = {p} /\ {p} \cap Consumers = {}
      BY <2>3 DEF Consumers
    <3>2. PutDone' = PutDone \cup {p} /\ GetDone' = GetDone \cup {}
      BY <1>4, <3>1
    <3>3. /\ {p} \in SUBSET Producers /\ {} \in SUBSET Consumers
          /\ {p} \cap PutDone = {} /\ {} \cap GetDone = {}
      BY <1>2, <2>3
    <3>4. n = m + 1
      BY <2>1, <2>3
    <3>5. Cardinality({p}) + m = Cardinality({}) + n
      <4>1. 1 + m = 0 + n
        BY <3>4, OneMoved, Zenon
      <4> QED
        BY <2>2, <4>1, Zenon
    <3> QED
      BY <2>1, <3>2, <3>3, <3>5, BalanceMoved
  <2>4. CASE p \notin Producers
    <3>1. {p} \cap Producers = {} /\ {p} \cap Consumers = {p}
      BY <1>2, <2>4 DEF Consumers
    <3>2. PutDone' = PutDone \cup {} /\ GetDone' = GetDone \cup {p}
      BY <1>4, <3>1
    <3>3. /\ {} \in SUBSET Producers /\ {p} \in SUBSET Consumers
          /\ {} \cap PutDone = {} /\ {p} \cap GetDone = {}
      BY <1>2, <2>4 DEF Consumers
    <3>4. n = m + (-1)
      BY <2>1, <2>4
    <3>5. Cardinality({}) + m = Cardinality({p}) + n
      <4>1. 0 + m = 1 + n
        BY <3>4, OneMoved, Zenon
      <4> QED
        BY <2>2, <4>1, Zenon
    <3> QED
      BY <2>1, <3>2, <3>3, <3>5, BalanceMoved
  <2> QED
    BY <2>3, <2>4
<1>6. ASSUME NEW q \in Spawned, todo'[q] = AfterCall, q \in Consumers, q \notin waiting'
      PROVE  \/ /\ todo[q] = AfterCall /\ q \notin waiting
                /\ ret'[q] = ret[q] /\ out'[q] = out[q]
             \/ ret'[q] = 0 /\ out'[q] = CONC_VAL
  <2>1. q \in Pids /\ todo \in [Pids -> Seq(AllCalls)]
    BY SpawnedFacts DEF TestState, CallsAllowed
  <2>2. CASE q = p
    BY <1>3, <1>6, <2>1, <2>2
  <2>3. CASE q # p
    BY <1>3, <1>6, <2>1, <2>3
  <2> QED
    BY <2>2, <2>3
<1>7. Range(items'[CONC_QID]) \subseteq {CONC_VAL}
  BY AllTheValue
<1> QED
  BY <1>3, <1>5, <1>6, <1>7, WorkerQueues

\* A worker serves another of the other kind, past a buffer of the same length.
LEMMA PairTest ==
    ASSUME TestState, NEW p \in Spawned, NEW q \in QueueCallers, NEW num, NEW arg \in Int,
           running = p, failed' = failed, Enter(num, arg), Serve(q),
           todo' = [todo EXCEPT ![p] = AfterCall], todo[p] = Plan(p),
           [num |-> num, arg |-> arg] = OwnCall(p),
           p \in Producers <=> q \in Consumers,
           CONC_QID \in registry, registry' = registry, capacity' = capacity,
           items'[CONC_QID] \in Seq({CONC_VAL}),
           Len(items'[CONC_QID]) = Len(items[CONC_QID]),
           \A r \in {p, q} : r \in Consumers => out'[r] = CONC_VAL,
           \A r \in Pids \ {p, q} : out'[r] = out[r]
    PROVE  TestInductive'
<1>1. p \notin waiting
  BY QueueParts, CallerPlace, SpawnedFacts DEF TestState
<1>2. /\ p \in Pids /\ p \in Workers /\ AfterCall \in Rests(p) /\ AfterCall # <<>>
      /\ todo[p] # <<>> /\ AfterCall # Plan(p)
  BY <1>1, OwnTurn
<1>3. /\ InitWhere' /\ WorkersWhere' /\ FamilyFlat' /\ OnlyDeleteFails'
      /\ At' = At /\ lastPid' = lastPid /\ Spawned' = Spawned
      /\ waiting' = waiting \ {q} /\ p # q
      /\ \A r \in Pids : ret'[r] = IF r \in {p, q} THEN 0 ELSE ret[r]
  BY <1>2, WorkerServed
<1>4. q \in Spawned /\ q \in waiting /\ q \in Workers
  BY QueueCallerWho, SpawnedFacts
<1>5. /\ PutDone' = PutDone \cup ({p, q} \cap Producers)
      /\ GetDone' = GetDone \cup ({p, q} \cap Consumers)
      /\ {p, q} \cap PutDone = {} /\ {p, q} \cap GetDone = {}
  <2>1. PICK S \in SUBSET (Spawned \cap waiting) : S = {q}
    BY <1>4
  <2>2. waiting' = waiting \ S /\ {p} \cup S = {p, q}
    BY <1>3, <2>1
  <2>3. /\ PutDone' = PutDone \cup (({p} \cup S) \cap Producers)
        /\ GetDone' = GetDone \cup (({p} \cup S) \cap Consumers)
        /\ ({p} \cup S) \cap PutDone = {} /\ ({p} \cup S) \cap GetDone = {}
    BY <1>1, <1>3, <2>2, DoneServed
  <2> QED
    BY <2>2, <2>3
<1>6. Balanced'
  <2> DEFINE m == Len(items[CONC_QID])
  <2>1. m \in Nat /\ Len(items'[CONC_QID]) = m
    BY BufferValues
  <2>2. Cardinality({p}) = 1 /\ Cardinality({q}) = 1
    BY FS_Singleton
  <2>3. Cardinality({p}) + m = Cardinality({q}) + m /\ Cardinality({q}) + m = Cardinality({p}) + m
    BY <2>1, <2>2
  <2>4. CASE p \in Producers
    <3>1. {p, q} \cap Producers = {p} /\ {p, q} \cap Consumers = {q}
      BY <2>4 DEF Consumers
    <3>2. PutDone' = PutDone \cup {p} /\ GetDone' = GetDone \cup {q}
      BY <1>5, <3>1
    <3>3. /\ {p} \in SUBSET Producers /\ {q} \in SUBSET Consumers
          /\ {p} \cap PutDone = {} /\ {q} \cap GetDone = {}
      BY <1>5, <2>4
    <3> HIDE DEF m
    <3> QED
      BY <2>1, <2>3, <3>2, <3>3, BalanceMoved DEF m
  <2>5. CASE p \notin Producers
    <3>1. {p, q} \cap Producers = {q} /\ {p, q} \cap Consumers = {p}
      BY <1>2, <1>4, <2>5 DEF Consumers
    <3>2. PutDone' = PutDone \cup {q} /\ GetDone' = GetDone \cup {p}
      BY <1>5, <3>1
    <3>3. /\ {q} \in SUBSET Producers /\ {p} \in SUBSET Consumers
          /\ {q} \cap PutDone = {} /\ {p} \cap GetDone = {}
      BY <1>2, <1>4, <1>5, <2>5 DEF Consumers
    <3> HIDE DEF m
    <3> QED
      BY <2>1, <2>3, <3>2, <3>3, BalanceMoved DEF m
  <2> QED
    BY <2>4, <2>5
<1>7. ASSUME NEW r \in Spawned, todo'[r] = AfterCall, r \in Consumers, r \notin waiting'
      PROVE  \/ /\ todo[r] = AfterCall /\ r \notin waiting
                /\ ret'[r] = ret[r] /\ out'[r] = out[r]
             \/ ret'[r] = 0 /\ out'[r] = CONC_VAL
  <2>1. r \in Pids /\ todo \in [Pids -> Seq(AllCalls)]
    BY SpawnedFacts DEF TestState, CallsAllowed
  <2>2. CASE r \in {p, q}
    BY <1>3, <1>7, <2>1, <2>2
  <2>3. CASE r \notin {p, q}
    BY <1>3, <1>7, <2>1, <2>3
  <2> QED
    BY <2>2, <2>3
<1>8. Range(items'[CONC_QID]) \subseteq {CONC_VAL}
  BY AllTheValue
<1> QED
  BY <1>3, <1>6, <1>7, <1>8, WorkerQueues

\* A worker that blocks while somebody is ready.
LEMMA BlockedTest ==
    ASSUME TestState, NEW p \in Spawned, NEW num, num # "sleep", NEW arg \in Int,
           running = p, failed' = failed, Enter(num, arg), LeaveCpu, ready # <<>>,
           todo' = [todo EXCEPT ![p] = AfterCall], todo[p] = Plan(p),
           [num |-> num, arg |-> arg] = OwnCall(p),
           UNCHANGED <<registry, capacity, items, out>>
    PROVE  TestInductive'
<1>1. p \notin waiting
  BY QueueParts, CallerPlace, SpawnedFacts DEF TestState
<1>2. p \in Pids /\ todo[p] # <<>>
  BY <1>1, OwnTurn
<1>3. /\ InitWhere' /\ WorkersWhere' /\ FamilyFlat' /\ OnlyDeleteFails'
      /\ At' = At /\ lastPid' = lastPid /\ Spawned' = Spawned
      /\ waiting' = waiting \cup {p} /\ ret' = ret
  BY <1>2, WorkerBlocked
<1>4. PutDone' = PutDone /\ GetDone' = GetDone
  BY <1>1, <1>3, DoneBlocked
<1>5. Balanced'
  BY <1>4, BalancedKept
<1>6. ASSUME NEW q \in Spawned, todo'[q] = AfterCall, q \in Consumers, q \notin waiting'
      PROVE  /\ todo[q] = AfterCall /\ q \notin waiting
             /\ ret'[q] = ret[q] /\ out'[q] = out[q]
  <2>1. q \in Pids /\ todo \in [Pids -> Seq(AllCalls)] /\ q # p
    BY <1>3, <1>6, SpawnedFacts DEF TestState, CallsAllowed
  <2> QED
    BY <1>3, <1>6, <2>1
<1>7. Range(items'[CONC_QID]) \subseteq {CONC_VAL}
  BY WorkerPhase
<1> QED
  BY <1>3, <1>5, <1>6, <1>7, WorkerQueues

LEMMA PutTest ==
    ASSUME TestState, NEW p \in Spawned, WorkerMove(p, "put")
    PROVE  TestInductive'
<1>1. /\ running = p /\ failed' = failed /\ todo[p] = producer /\ p \in Producers
      /\ todo' = [todo EXCEPT ![p] = AfterCall] /\ BqPut(CONC_QID, CONC_VAL)
  BY DEF WorkerMove
<1>2. Enter("bq_put", CONC_VAL) /\ CONC_VAL \in Int
  BY <1>1 DEF BqPut, CONC_VAL
<1>3. /\ BuffersOK /\ TypeOK /\ OnePlace
  BY QueueParts DEF TestState
<1>4. p \notin waiting
  BY <1>1, <1>3, CallerPlace, SpawnedFacts
<1>5. /\ todo[p] = Plan(p) /\ [num |-> "bq_put", arg |-> CONC_VAL] = OwnCall(p)
      /\ p \notin Consumers
  BY <1>1 DEF Plan, OwnCall, Consumers
<1>6. CASE NoSuchQueue(CONC_QID)
  <2>1. /\ CONC_QID \notin registry /\ Answer(DSOS_ERESOURCENOFD) /\ UNCHANGED queues
        /\ DSOS_ERESOURCENOFD \in Int
    BY <1>6 DEF NoSuchQueue, DSOS_ERESOURCENOFD
  <2> QED
    BY <1>1, <1>2, <1>4, <1>5, <2>1, OwnTurn, WorkerRefused
<1>7. CASE CONC_QID \in registry /\ getters[CONC_QID] # <<>> /\ PutToGetter(CONC_QID, CONC_VAL)
  <2> DEFINE g == Head(getters[CONC_QID])
  <2>1. /\ CONC_QID \in QIds /\ items' = items
        /\ UNCHANGED <<registry, capacity>> /\ Serve(g)
        /\ Store(g, syscall[g].arg, CONC_VAL)
    BY <1>7, BufferValues DEF PutToGetter
  <2>2. g \in QueueCallers /\ syscall[g].num = "bq_get"
    BY <1>7, <2>1, HeadCallers DEF TestState, Callers
  <2>3. g \in Consumers /\ syscall[g].arg = 1 /\ g \in Pids
    BY <2>2, QueueCallerWho, SpawnedFacts
  <2>4. out' = [out EXCEPT ![g] = CONC_VAL] /\ out \in [Pids -> Values \cup {0}]
    BY <1>3, <2>1, <2>3 DEF Store, BuffersOK, BQTypeOK
  <2>5. /\ items'[CONC_QID] \in Seq({CONC_VAL})
        /\ Len(items'[CONC_QID]) = Len(items[CONC_QID])
    BY <1>7, <2>1, BufferValues
  <2>6. /\ out'[g] = CONC_VAL /\ \A r \in Pids \ {p, g} : out'[r] = out[r]
    BY <2>3, <2>4
  <2> HIDE DEF g
  <2> QED
    BY <1>1, <1>2, <1>5, <1>7, <2>1, <2>2, <2>3, <2>5, <2>6, PairTest
<1>8. CASE /\ CONC_QID \in registry /\ getters[CONC_QID] = <<>>
           /\ size[CONC_QID] < capacity[CONC_QID]
           /\ itemsUsed < NumItems /\ PutToBuffer(CONC_QID, CONC_VAL)
  <2>1. /\ Answer(0) /\ UNCHANGED <<registry, capacity, out>>
        /\ items' = [items EXCEPT ![CONC_QID] = Append(@, CONC_VAL)]
    BY <1>8 DEF PutToBuffer
  <2>2. /\ items'[CONC_QID] = Append(items[CONC_QID], CONC_VAL)
        /\ items[CONC_QID] \in Seq({CONC_VAL})
    BY <1>8, <2>1, BufferValues
  <2>3. /\ items'[CONC_QID] \in Seq({CONC_VAL})
        /\ Len(items'[CONC_QID]) = Len(items[CONC_QID]) + 1
    BY <2>2, AppendProperties
  <2> QED
    BY <1>1, <1>2, <1>5, <1>8, <2>1, <2>3, AloneTest
<1>9. CASE /\ CONC_QID \in registry
           /\ size[CONC_QID] < capacity[CONC_QID] /\ ~ItemLeft
  <2>1. /\ registry = {CONC_QID} /\ CONC_QID \in QIds /\ capacity[CONC_QID] = CAP
    BY <1>9, WorkerPhase, BufferValues
  <2>2. CAP <= NumItems /\ CAP \in Int
    BY TestSizes, Sizes
  <2>3. itemsUsed < NumItems
    BY <1>3, <1>9, <2>1, <2>2, ItemsLeft
  <2> QED
    BY <1>9, <2>3 DEF ItemLeft
<1>10. CASE /\ CONC_QID \in registry /\ getters[CONC_QID] = <<>>
            /\ size[CONC_QID] >= capacity[CONC_QID]
            /\ Block(getters, [putters EXCEPT ![CONC_QID] = Append(@, running)])
  <2>1. ~PtrPoolFull
    BY <1>1, <1>4, PtrsLeft
  <2>2. /\ LeaveCpu /\ UNCHANGED <<registry, capacity, items, out>>
    BY <1>10, <2>1 DEF Block, LeaveCpu
  <2>3. ready # <<>>
    BY <1>1, <1>10, PutterLeavesWork
  <2> QED
    BY <1>1, <1>2, <1>5, <2>2, <2>3, BlockedTest
<1> QED
  BY <1>1, <1>6, <1>7, <1>8, <1>9, <1>10 DEF BqPut, ItemLeft

LEMMA GetTest ==
    ASSUME TestState, NEW p \in Spawned, WorkerMove(p, "get")
    PROVE  TestInductive'
<1>1. /\ running = p /\ failed' = failed /\ todo[p] = consumer /\ p \in Consumers
      /\ todo' = [todo EXCEPT ![p] = AfterCall] /\ BqGet(CONC_QID, 1)
  BY DEF WorkerMove
<1>2. PICK one \in Int : one = 1 /\ Enter("bq_get", one)
  BY <1>1 DEF BqGet
<1>3. /\ BuffersOK /\ TypeOK /\ OnePlace /\ out \in [Pids -> Values \cup {0}]
  BY QueueParts DEF TestState, BQTypeOK
<1>4. p \notin waiting /\ p \in Pids
  BY <1>1, <1>3, CallerPlace, SpawnedFacts
<1>5. /\ todo[p] = Plan(p) /\ [num |-> "bq_get", arg |-> one] = OwnCall(p)
      /\ p \notin Producers
  BY <1>1, <1>2 DEF Plan, OwnCall, Consumers
<1>6. CASE NoSuchQueue(CONC_QID)
  <2>1. /\ CONC_QID \notin registry /\ Answer(DSOS_ERESOURCENOFD) /\ UNCHANGED queues
        /\ DSOS_ERESOURCENOFD \in Int
    BY <1>6 DEF NoSuchQueue, DSOS_ERESOURCENOFD
  <2> QED
    BY <1>1, <1>2, <1>4, <1>5, <2>1, OwnTurn, WorkerRefused
<1>7. CASE /\ CONC_QID \in registry /\ items[CONC_QID] # <<>> /\ putters[CONC_QID] # <<>>
           /\ TakeAndRefill(CONC_QID, 1)
  <2> DEFINE g == Head(putters[CONC_QID])
  <2>1. /\ CONC_QID \in QIds
        /\ Store(p, 1, Head(items[CONC_QID]))
        /\ items' = [items EXCEPT ![CONC_QID] = Append(Tail(@), syscall[g].arg)]
        /\ Serve(g) /\ UNCHANGED <<registry, capacity>>
    BY <1>1, <1>3, <1>7, BufferValues, RefillDone
  <2>2. g \in QueueCallers /\ syscall[g].num = "bq_put"
    BY <1>7, <2>1, HeadCallers DEF TestState, Callers
  <2>3. g \in Producers /\ syscall[g].arg = CONC_VAL /\ g \notin Consumers
    BY <2>2, QueueCallerWho DEF Consumers
  <2>4. out' = [out EXCEPT ![p] = CONC_VAL]
    <3>1. Head(items[CONC_QID]) = CONC_VAL
      BY <1>7, BufferValues
    <3>2. out' = [out EXCEPT ![p] = Head(items[CONC_QID])]
      BY <2>1 DEF Store
    <3> QED
      BY <3>1, <3>2, Zenon
  <2>5. /\ items'[CONC_QID] \in Seq({CONC_VAL})
        /\ Len(items'[CONC_QID]) = Len(items[CONC_QID])
    <3>1. /\ items'[CONC_QID] = Append(Tail(items[CONC_QID]), CONC_VAL)
          /\ items[CONC_QID] \in Seq({CONC_VAL}) /\ Len(items[CONC_QID]) \in Nat
      BY <1>7, <2>1, <2>3, BufferValues
    <3>2. /\ Tail(items[CONC_QID]) \in Seq({CONC_VAL})
          /\ Len(Tail(items[CONC_QID])) = Len(items[CONC_QID]) - 1
      BY <1>7, <3>1, HeadTailProperties
    <3> QED
      BY <3>1, <3>2, AppendProperties
  <2>6. /\ out'[p] = CONC_VAL /\ \A r \in Pids \ {p, g} : out'[r] = out[r]
    BY <1>3, <1>4, <2>4
  <2> HIDE DEF g
  <2> QED
    BY <1>1, <1>2, <1>5, <1>7, <2>1, <2>2, <2>3, <2>5, <2>6, PairTest
<1>8. CASE /\ CONC_QID \in registry /\ items[CONC_QID] # <<>> /\ putters[CONC_QID] = <<>>
           /\ Take(CONC_QID, 1)
  <2>1. /\ Answer(0) /\ UNCHANGED <<registry, capacity>>
        /\ Store(p, 1, Head(items[CONC_QID]))
        /\ items' = [items EXCEPT ![CONC_QID] = Tail(@)]
    BY <1>1, <1>8 DEF Take
  <2>2. /\ items'[CONC_QID] = Tail(items[CONC_QID])
        /\ items[CONC_QID] \in Seq({CONC_VAL}) /\ Len(items[CONC_QID]) \in Nat
    BY <1>8, <2>1, BufferValues
  <2>3. /\ items'[CONC_QID] \in Seq({CONC_VAL})
        /\ Len(items'[CONC_QID]) = Len(items[CONC_QID]) + (-1)
    BY <1>8, <2>2, HeadTailProperties
  <2>4. out' = [out EXCEPT ![p] = CONC_VAL]
    <3>1. Head(items[CONC_QID]) = CONC_VAL
      BY <1>8, BufferValues
    <3>2. out' = [out EXCEPT ![p] = Head(items[CONC_QID])]
      BY <2>1 DEF Store
    <3> QED
      BY <3>1, <3>2, Zenon
  <2>5. out'[p] = CONC_VAL /\ \A r \in Pids \ {p} : out'[r] = out[r]
    BY <1>3, <1>4, <2>4
  <2> QED
    BY <1>1, <1>2, <1>5, <1>8, <2>1, <2>3, <2>5, AloneTest
<1>9. CASE /\ CONC_QID \in registry /\ items[CONC_QID] = <<>> /\ putters[CONC_QID] # <<>>
  BY <1>3, <1>9, FullNotEmpty
<1>10. CASE /\ CONC_QID \in registry /\ items[CONC_QID] = <<>> /\ putters[CONC_QID] = <<>>
            /\ Block([getters EXCEPT ![CONC_QID] = Append(@, running)], putters)
  <2>1. ~PtrPoolFull
    BY <1>1, <1>4, PtrsLeft
  <2>2. /\ LeaveCpu /\ UNCHANGED <<registry, capacity, items, out>>
    BY <1>10, <2>1 DEF Block, LeaveCpu
  <2>3. ready # <<>>
    BY <1>1, <1>10, GetterLeavesWork
  <2> QED
    BY <1>1, <1>2, <1>5, <2>2, <2>3, BlockedTest
<1> QED
  BY <1>1, <1>6, <1>7, <1>8, <1>9, <1>10 DEF BqGet
\* A worker exits: init has nothing else to wait for than such an exit, so if
\* nobody else is ready it is init that goes on.
LEMMA ExitDispatches ==
    ASSUME TestState, NEW p \in Spawned, running = p, Enter("exit", 0), Death
    PROVE  /\ kernel' = "up" /\ running' # NoProc
           /\ 0 \notin waiting' /\ waiting \ waiting' \subseteq {0} /\ waiting' \subseteq waiting
<1>1. TypeOK /\ OnePlace
  BY QueueParts DEF TestState
<1>2. p \in Pids /\ p # 0 /\ 0 \in Pids
  BY SpawnedFacts, WorkerPids
<1>3. status[p] # "Free"
  BY <1>1, <1>2, CallerPlace
<1>4. parent[p] = 0 /\ noCtx = {}
  BY <1>3 DEF TestState, TestInductive, FamilyFlat
<1>5. 0 \in waiting => WaitsFor(0, p)
  BY <1>1, <1>2, PidFacts DEF TestState, TestInductive, FamilyFlat, WaitsFor, OnePlace
<1>6. waiting' = waiting \ (IF WaitsFor(0, p) THEN {0} ELSE {})
  BY <1>1, <1>4, DeathFacts
<1>7. PICK rdy, st : /\ Schedule(NoProc, rdy, st)
                     /\ rdy = IF WaitsFor(0, p) THEN Append(ready, 0) ELSE ready
  BY <1>4 DEF Death, Die
<1>8. ready \in Seq(Pids) /\ Append(ready, 0) \in Seq(Pids) /\ Append(ready, 0) # <<>>
  <2>1. ready \in Seq(Pids)
    BY <1>1 DEF TypeOK
  <2>2. Append(ready, 0) \in Seq(Pids) /\ Append(ready, 0) # <<>>
    BY <1>2, <2>1, AppendProperties
  <2> QED
    BY <2>1, <2>2
<1>9. rdy # <<>> /\ rdy \in Seq(Pids)
  <2>1. CASE ready = <<>>
    <3>1. 0 \in waiting
      BY <1>2, <2>1, Elsewhere
    <3> QED
      BY <1>5, <1>7, <1>8, <3>1
  <2>2. CASE ready # <<>>
    BY <1>7, <1>8, <2>2
  <2> QED
    BY <2>1, <2>2
<1>10. Head(rdy) \in Pids
  BY <1>9, HeadTailProperties
<1>11. running' \in Pids
  BY <1>7, <1>9, <1>10 DEF Schedule
<1>12. running' # NoProc
  BY <1>11, PidFacts
<1>13. kernel' = "up"
  BY <1>4, <1>12 DEF Death, Die, TrapExit
<1> QED
  BY <1>5, <1>6, <1>12, <1>13

LEMMA ExitTest ==
    ASSUME TestState, NEW p \in Spawned, WorkerMove(p, "exit")
    PROVE  TestInductive'
<1>1. /\ running = p /\ kernel = "up" /\ failed' = failed
      /\ todo[p] = << Plain("exit") >> /\ todo' = [todo EXCEPT ![p] = <<>>]
      /\ Exit /\ UNCHANGED queues
  BY DEF WorkerMove
<1>2. TypeOK /\ OnePlace
  BY QueueParts DEF TestState
<1>3. /\ p \in Pids /\ p # 0 /\ 0 \in Pids /\ p < lastPid
      /\ todo \in [Pids -> Seq(AllCalls)]
  BY SpawnedFacts, WorkerPids DEF TestState, CallsAllowed
<1>4. Enter("exit", 0) /\ Death
  BY <1>1, <1>3 DEF Exit, Death, TestState, TestInductive, FamilyFlat
<1>5. /\ kernel' = "up" /\ running' # NoProc
      /\ 0 \notin waiting' /\ waiting \ waiting' \subseteq {0} /\ waiting' \subseteq waiting
  BY <1>1, <1>4, ExitDispatches
<1>6. /\ timers' = timers /\ initPcb' = initPcb /\ lastPid' = lastPid /\ noCtx' = noCtx
  BY <1>4 DEF Death, Die
<1>7. /\ status[p] \in {"Running", "Ready"} /\ p \notin waiting
  BY <1>1, <1>2, <1>3, CallerPlace
<1>8. children[p] = {} /\ initPcb = 0
  BY <1>7 DEF TestState, TestInductive, FamilyFlat
<1>9. /\ \A q \in Pids : parent'[q] = parent[q] /\ (q # 0 => children'[q] = children[q])
      /\ Alloc' = Alloc
      /\ \A q \in Pids : status'[q] = "Zombie" <=> q = p \/ status[q] = "Zombie"
  BY <1>1, <1>2, <1>4, <1>8, DeathFacts
<1>10. \A q \in Pids : status'[q] = "Free" <=> status[q] = "Free"
  BY <1>9 DEF Alloc
<1>11. syscall' \in [Pids -> [num : SysCalls, arg : Int]]
       /\ \A q \in Pids \ {p} : syscall'[q] = syscall[q]
  BY <1>1, <1>2, <1>4, EnterType DEF TypeOK
<1>12. status' \in [Pids -> Statuses]
  BY <1>1, <1>2, <1>3, <1>4, <1>11, DieType DEF Death, TypeOK
<1>13. todo'[p] = <<>> /\ \A q \in Pids \ {p} : todo'[q] = todo[q]
  BY <1>1, <1>3
<1>14. Spawned' = Spawned
  BY <1>6, SpawnedKept
<1>15. InitWhere' /\ At' = At
  BY <1>1, <1>3, <1>5, <1>6, <1>13, InitStays
<1>16. WorkersWhere'
  <2>1. ASSUME NEW q \in Pids, q >= lastPid' PROVE todo'[q] = <<>>
    BY <1>3, <1>6, <1>13, <2>1 DEF TestState, TestInductive, WorkersWhere
  <2>2. ASSUME NEW q \in Spawned
        PROVE  /\ todo'[q] \in Rests(q)
               /\ todo'[q] = <<>> <=> status'[q] \in {"Zombie", "Free"}
               /\ q \in waiting' => todo'[q] = AfterCall
               /\ todo'[q] = AfterCall => syscall'[q] = OwnCall(q)
    <3>1. q \in Pids
      BY SpawnedFacts
    <3>2. CASE q = p
      BY <1>5, <1>7, <1>9, <1>13, <3>1, <3>2, PlanFacts DEF Rests
    <3>3. CASE q # p
      BY <1>5, <1>9, <1>10, <1>11, <1>13, <3>1, <3>3 DEF TestState, TestInductive, WorkersWhere
    <3> QED
      BY <3>2, <3>3
  <2> QED
    BY <1>14, <2>1, <2>2 DEF WorkersWhere, Rests, Plan, OwnCall, AfterCall
<1>17. FamilyFlat'
  <2>1. status'[0] \in Live
    <3>1. status[0] \in Live
      BY DEF TestState, TestInductive, FamilyFlat
    <3> QED
      BY <1>3, <1>9, <1>10, <1>12, <3>1 DEF Live, Statuses
  <2>2. ASSUME NEW q \in Spawned, status'[q] # "Free"
        PROVE  parent'[q] = 0 /\ children'[q] = {}
    <3>1. q \in Pids /\ q # 0
      BY SpawnedFacts
    <3> QED
      BY <1>9, <1>10, <2>2, <3>1 DEF TestState, TestInductive, FamilyFlat
  <2>3. initPcb' = 0 /\ timers' = <<>> /\ noCtx' = {}
    BY <1>6 DEF TestState, TestInductive, FamilyFlat
  <2> QED
    BY <1>5, <1>14, <2>1, <2>2, <2>3 DEF FamilyFlat
<1>18. OnlyDeleteFails'
  BY <1>1 DEF TestState, TestInductive, OnlyDeleteFails
<1>19. PutDone' = PutDone /\ GetDone' = GetDone
  <2>1. ASSUME NEW q \in Spawned
        PROVE  (todo'[q] # Plan(q) <=> todo[q] # Plan(q)) /\ (q \in waiting' <=> q \in waiting)
    <3>1. q \in Pids /\ q # 0
      BY SpawnedFacts
    <3>2. q = p => todo'[q] # Plan(q) /\ todo[q] # Plan(q)
      BY <1>1, <1>13, PlanFacts DEF Plan
    <3> QED
      BY <1>5, <1>13, <3>1, <3>2
  <2> QED
    BY <1>6, <2>1, DoneKept
<1>20. registry' = registry /\ capacity' = capacity /\ items' = items /\ out' = out
  BY <1>1 DEF queues
<1>21. Balanced'
  BY <1>19, <1>20, BalancedKept
<1>22. ret' = ret
  BY <1>4 DEF Death, Die
<1>23. Range(items'[CONC_QID]) \subseteq {CONC_VAL}
  BY <1>20, WorkerPhase
<1>24. ASSUME NEW q \in Spawned, todo'[q] = AfterCall, q \notin waiting'
       PROVE  /\ todo[q] = AfterCall /\ q \notin waiting
              /\ ret'[q] = ret[q] /\ out'[q] = out[q]
  <2>1. q \in Pids /\ q # 0
    BY SpawnedFacts
  <2>2. q # p
    BY <1>13, <1>24, PlanFacts
  <2> QED
    BY <1>5, <1>13, <1>20, <1>22, <1>24, <2>1, <2>2
<1> QED
  BY <1>14, <1>15, <1>16, <1>17, <1>18, <1>20, <1>21, <1>23, <1>24, WorkerQueues
LEMMA WorkerTest ==
    ASSUME TestState, NEW p \in Spawned, Step(p) PROVE TestInductive'
BY WorkerCall, PutTest, GetTest, DumpTest, ExitTest

-----------------------------------------------------------------------------
(* The timer interrupt. *)

\* Nobody sleeps, so a tick only moves the CPU on, and starts no second init.
LEMMA TickEffect ==
    ASSUME TestState, Interrupt, running # NoProc
    PROVE  /\ FamilyKept /\ UNCHANGED <<waiting, timers, noCtx, syscall, ret>>
           /\ kernel = "up" /\ kernel' = "up" /\ running' # NoProc
<1>1. Tick
  BY DEF Interrupt, IdleWake, IdleRestart
<1>2. TypeOK /\ OnePlace /\ TimersMatchSleepers
  BY QueueParts DEF TestState, QueueInductive, KernelPart, Inductive
<1>3. PICK k \in 0..Len(timers) : PopTimers(k) /\ ScheduleWoken(k)
  BY <1>1 DEF Tick
<1>4. FamilyKept
  BY <1>2, <1>3, TickKept DEF Quiet
<1>5. timers = <<>> /\ noCtx = {}
  BY DEF TestState, TestInductive, FamilyFlat
<1>6. k = 0 /\ Len(timers) = 0
  BY <1>3, <1>5
<1>7. timers' = <<>> /\ waiting' = waiting
  <2>1. timers' = [i \in 1..0 |-> [timers[0 + i] EXCEPT !.left = @ - 1]]
    BY <1>3, <1>6 DEF PopTimers
  <2>2. timers' = <<>>
    BY <2>1
  <2>3. Woken(k) = <<>>
    BY <1>6 DEF Woken
  <2>4. Range(Woken(k)) = {}
    BY <2>3 DEF Range
  <2> QED
    BY <1>3, <2>2, <2>4 DEF PopTimers
<1>8. /\ Schedule(running, ready \o Woken(k), Mark(status, Range(Woken(k)), "Ready"))
      /\ kernel' = IF running' \in noCtx THEN "bad_context" ELSE "up"
      /\ UNCHANGED <<family, syscall, ret>>
  BY <1>3 DEF ScheduleWoken
<1>9. ready \o Woken(k) \in Seq(Pids)
  BY <1>2, <1>3, PopTimersType, ConcatProperties DEF TypeOK
<1>10. running' # NoProc
  BY <1>8, <1>9, HeadTailProperties, PidFacts DEF Schedule
<1> QED
  BY <1>1, <1>4, <1>5, <1>7, <1>8, <1>10 DEF Tick, family

LEMMA TickTest ==
    ASSUME TestState, Ticked, QueueInductive' PROVE TestInductive'
<1>1. Interrupt /\ UNCHANGED <<queues, failed>>
  BY DEF Ticked
<1>2. running # NoProc
  BY DEF TestState, TestInductive, InitWhere
<1>3. /\ FamilyKept /\ UNCHANGED <<waiting, timers, noCtx, syscall, ret>>
      /\ kernel = "up" /\ kernel' = "up" /\ running' # NoProc
  BY <1>1, <1>2, TickEffect
<1>4. TypeOK' /\ OnePlace'
  BY DEF QueueInductive, KernelPart, Inductive
<1>5. running' # lastPid
  <2>1. running' \in Pids => status'[running'] \in {"Running", "Ready"}
    BY <1>3, <1>4 DEF OnePlace
  <2>2. lastPid' = lastPid
    BY <1>3 DEF FamilyKept
  <2>3. lastPid \in Pids => status'[lastPid] = "Free"
    BY <1>4, <2>2, PidFacts DEF OnePlace
  <2> QED
    BY <1>3, <1>4, <2>1, <2>3 DEF TypeOK
<1>6. todo' = todo
  BY <1>5 DEF Ticked, TestState, CallsAllowed
<1>7. 0 \in Pids /\ lastPid' = lastPid
  BY <1>3, WorkerPids DEF FamilyKept
<1>8. InitWhere' /\ At' = At
  BY <1>3, <1>6, <1>7, InitStays
<1>9. Spawned' = Spawned
  BY <1>7, SpawnedKept
<1>10. WorkersWhere'
  <2>1. todo' = [todo EXCEPT ![0] = todo[0]]
    BY <1>6, <1>7 DEF TestState, CallsAllowed
  <2>2. 0 \notin Spawned
    BY SpawnedFacts
  <2> QED
    BY <1>3, <1>7, <2>1, <2>2, WorkersKept
<1>11. FamilyFlat'
  BY <1>3, <1>8, FlatKept
<1>12. UNCHANGED <<registry, capacity, items, out>>
  BY <1>1 DEF queues
<1>13. Phases'
  BY <1>8, <1>12 DEF TestState, TestInductive, Phases
<1>14. Balanced'
  <2>1. PutDone' = PutDone /\ GetDone' = GetDone
    BY <1>3, <1>6, <1>7, DoneKept
  <2> QED
    BY <1>12, <2>1, BalancedKept
<1>15. AllServed'
  BY <1>3, <1>6, <1>8, <1>9, <1>12 DEF TestState, TestInductive, AllServed
<1>16. OnlyDeleteFails'
  BY <1>1 DEF TestState, TestInductive, OnlyDeleteFails
<1> QED
  BY <1>8, <1>10, <1>11, <1>13, <1>14, <1>15, <1>16 DEF TestInductive

-----------------------------------------------------------------------------
(* The calls of init. *)

\* What a call of init that neither makes nor reaps a child leaves in place.
LEMMA InitStep ==
    ASSUME TestState, running = 0, At \in 1..Total, At \notin FirstSpawn..(8 + NumWorkers),
           todo' = [todo EXCEPT ![0] = From(At + 1)],
           FamilyKept, NEW num, syscall' = [syscall EXCEPT ![0] = num],
           waiting' \ {0} = waiting, running' # NoProc,
           kernel' \in {"up", "down"}, kernel' = "up" <=> At + 1 <= Total
    PROVE  /\ InitWhere' /\ WorkersWhere' /\ At' = At + 1
           /\ lastPid' = lastPid /\ Spawned' = Spawned
           /\ PutDone' = PutDone /\ GetDone' = GetDone
           /\ \A q \in Spawned : todo'[q] = todo[q] /\ (q \in waiting' <=> q \in waiting)
<1>1. 0 \in Pids /\ 0 \notin Spawned /\ todo \in [Pids -> Seq(AllCalls)]
  BY SpawnedFacts, WorkerPids DEF TestState, CallsAllowed
<1>2. lastPid' = lastPid
  BY DEF FamilyKept
<1>3. InitWhere' /\ At' = At + 1
  BY <1>1, <1>2, InitMoves
<1>4. Spawned' = Spawned
  BY <1>2, SpawnedKept
<1>5. \A q \in Pids \ {0} : syscall'[q] = syscall[q]
  BY QueueParts DEF TestState, TypeOK
<1>6. WorkersWhere'
  BY <1>1, <1>5, WorkersKept
<1>7. \A q \in Spawned : todo'[q] = todo[q] /\ (q \in waiting' <=> q \in waiting)
  BY <1>1, SpawnedFacts
<1>8. PutDone' = PutDone /\ GetDone' = GetDone
  BY <1>2, <1>7, DoneKept
<1> QED
  BY <1>2, <1>3, <1>4, <1>6, <1>7, <1>8

LEMMA InitAnswered ==
    ASSUME TestState, running = 0, At \in 1..Total, At # Total,
           At \notin FirstSpawn..(8 + NumWorkers),
           todo' = [todo EXCEPT ![0] = From(At + 1)],
           NEW num, NEW arg, Enter(num, arg), NEW v, Answer(v)
    PROVE  /\ InitWhere' /\ WorkersWhere' /\ FamilyFlat' /\ At' = At + 1
           /\ lastPid' = lastPid /\ Spawned' = Spawned
           /\ PutDone' = PutDone /\ GetDone' = GetDone
           /\ \A q \in Spawned : /\ todo'[q] = todo[q] /\ (q \in waiting' <=> q \in waiting)
                                 /\ ret'[q] = ret[q]
<1>1. TypeOK /\ OnePlace /\ 0 \in Pids /\ 0 # NoProc
  BY QueueParts, WorkerPids, PidFacts DEF TestState
<1>2. 0 \notin waiting
  BY <1>1, CallerPlace
<1>3. UNCHANGED <<kernel, running, lists, family, status>> /\ kernel = "up"
  BY DEF Answer, Enter
<1>4. FamilyKept
  BY <1>3 DEF FamilyKept, family, lists
<1>5. /\ waiting' = waiting /\ timers' = timers /\ noCtx' = noCtx
      /\ kernel' = "up" /\ running' # NoProc
  BY <1>1, <1>3 DEF lists, family
<1>6. At + 1 <= Total
  BY Sizes
<1>7. /\ InitWhere' /\ WorkersWhere' /\ At' = At + 1
      /\ lastPid' = lastPid /\ Spawned' = Spawned
      /\ PutDone' = PutDone /\ GetDone' = GetDone
      /\ \A q \in Spawned : todo'[q] = todo[q] /\ (q \in waiting' <=> q \in waiting)
  <2>1. syscall' = [syscall EXCEPT ![0] = [num |-> num, arg |-> arg]]
    BY DEF Enter
  <2> QED
    BY <1>2, <1>4, <1>5, <1>6, <2>1, InitStep
<1>8. FamilyFlat'
  BY <1>2, <1>4, <1>5, FlatKept
<1>9. \A q \in Spawned : ret'[q] = ret[q]
  BY <1>1, SpawnedFacts DEF Answer, Return, TypeOK
<1> QED
  BY <1>7, <1>8, <1>9

\* Until init has spawned somebody it is alone.
LEMMA Alone ==
    ASSUME TestState, At <= FirstSpawn
    PROVE  /\ lastPid = 1 /\ Spawned = {} /\ PutDone = {} /\ GetDone = {}
           /\ \A q \in QIds : getters[q] = <<>> /\ putters[q] = <<>>
<1>1. lastPid = 1
  BY DEF TestState, TestInductive, InitWhere
<1>2. Spawned = {}
  BY <1>1, SpawnedFacts
<1>3. PutDone = {} /\ GetDone = {}
  BY <1>2, Sizes DEF PutDone, GetDone, Spawned
<1>4. QueueCallers = {}
  BY <1>2, PtrHolders
<1>5. Callers("bq_get") = {} /\ Callers("bq_put") = {}
  BY <1>4 DEF Callers, QueueCallers
<1>6. ASSUME NEW q \in QIds PROVE getters[q] = <<>> /\ putters[q] = <<>>
  <2>1. Range(getters[q]) \subseteq {} /\ Range(putters[q]) \subseteq {}
    BY <1>5, QueueParts, ListedParts DEF TestState
  <2>2. getters[q] \in Seq(Pids) /\ putters[q] \in Seq(Pids)
    BY QueueParts DEF TestState, BQTypeOK
  <2> QED
    BY <2>1, <2>2, HeadInRange
<1> QED
  BY <1>1, <1>2, <1>3, <1>6
LEMMA UnitCalls ==
    /\ initFunction[1] = Call("create", UNIT_QID, UNIT_CAP, "ok", 0)
    /\ initFunction[2] = Call("create", UNIT_QID, UNIT_CAP, "neg", 0)
    /\ initFunction[3] = Call("put", UNIT_QID, 111, "ok", 0)
    /\ initFunction[4] = Call("put", UNIT_QID, 222, "ok", 0)
    /\ initFunction[5] = Call("get", UNIT_QID, 0, "ok", 111)
    /\ initFunction[6] = Call("get", UNIT_QID, 0, "ok", 222)
    /\ initFunction[7] = Call("delete", UNIT_QID, 0, "ok", 0)
    /\ \A k \in 1..7 : /\ initFunction[k].op \notin {"producer", "consumer"}
                       /\ initFunction[k].id # CONC_QID
<1>1. \A k \in 1..7 : initFunction[k] = test_unitario_bq[k]
  BY InitCalls
<1>2. /\ initFunction[1] = Call("create", UNIT_QID, UNIT_CAP, "ok", 0)
      /\ initFunction[2] = Call("create", UNIT_QID, UNIT_CAP, "neg", 0)
      /\ initFunction[3] = Call("put", UNIT_QID, 111, "ok", 0)
      /\ initFunction[4] = Call("put", UNIT_QID, 222, "ok", 0)
      /\ initFunction[5] = Call("get", UNIT_QID, 0, "ok", 111)
      /\ initFunction[6] = Call("get", UNIT_QID, 0, "ok", 222)
      /\ initFunction[7] = Call("delete", UNIT_QID, 0, "ok", 0)
  BY <1>1 DEF test_unitario_bq
<1>3. ASSUME NEW k \in 1..7
      PROVE  /\ initFunction[k].op \notin {"producer", "consumer"}
             /\ initFunction[k].id # CONC_QID
  <2>1. k \in {1, 2, 3, 4, 5, 6, 7}
    OBVIOUS
  <2> QED
    BY <1>2, <2>1, TestAssumption DEF Call
<1> QED
  BY <1>2, <1>3

\* A call of the unit test that is answered, that does to its queue what the
\* test expects and nothing to the other, and whose assertion passes.
LEMMA UnitTest ==
    ASSUME TestState, Step(0), At \in 1..7, NEW num, NEW arg, Enter(num, arg),
           NEW v, Answer(v), Holds(initFunction[At], ret'[0], out'[0]),
           At = 7 => registry' = {},
           At # 7 => /\ registry' = {UNIT_QID} /\ capacity'[UNIT_QID] = UNIT_CAP
                     /\ items'[UNIT_QID] = UnitItems(At + 1),
           items'[CONC_QID] = items[CONC_QID]
    PROVE  TestInductive'
<1>1. /\ running = 0 /\ At \in 1..Total /\ At # Total /\ At <= FirstSpawn
      /\ At \notin FirstSpawn..(8 + NumWorkers)
  BY InitCall, Sizes DEF FirstSpawn
<1>2. todo' = [todo EXCEPT ![0] = From(At + 1)]
  BY UnitCalls, InitTodo
<1>3. /\ InitWhere' /\ WorkersWhere' /\ FamilyFlat' /\ At' = At + 1
      /\ lastPid' = lastPid /\ Spawned' = Spawned
      /\ PutDone' = PutDone /\ GetDone' = GetDone
  BY <1>1, <1>2, InitAnswered
<1>4. Spawned' = {}
  BY <1>1, <1>3, Alone
<1>5. CONC_QID \notin registry'
  BY TestAssumption
<1>6. Phases'
  <2>1. Range(items'[CONC_QID]) \subseteq {CONC_VAL}
    BY DEF TestState, TestInductive, Phases
  <2>2. LastDelete \in Nat /\ LastDelete >= 9
    BY Sizes DEF LastDelete
  <2>3. /\ At' \in {1, 8} => registry' = {}
        /\ At' \in 2..7 =>
              /\ registry' = {UNIT_QID} /\ capacity'[UNIT_QID] = UNIT_CAP
              /\ items'[UNIT_QID] = UnitItems(At')
    BY <1>3
  <2>4. At' \notin 9..LastDelete /\ ~(At' > LastDelete) /\ ~(At' > 8)
    BY <1>3, <2>2
  <2> QED
    BY <2>1, <2>3, <2>4 DEF Phases, UnitItems
<1>7. Balanced'
  BY <1>5 DEF Balanced
<1>8. AllServed'
  BY <1>4 DEF AllServed
<1>9. OnlyDeleteFails'
  BY InitCall DEF TestState, TestInductive, OnlyDeleteFails
<1> QED
  BY <1>3, <1>6, <1>7, <1>8, <1>9 DEF TestInductive

\* The state the unit test finds its queue in.
LEMMA UnitQueue ==
    ASSUME TestState, At \in 2..7
    PROVE  /\ UNIT_QID \in QIds /\ UNIT_QID # CONC_QID /\ registry = {UNIT_QID}
           /\ items[UNIT_QID] = UnitItems(At)
           /\ capacity[UNIT_QID] = 2 /\ size[UNIT_QID] = Len(items[UNIT_QID])
           /\ getters[UNIT_QID] = <<>> /\ putters[UNIT_QID] = <<>>
           /\ size[UNIT_QID] < 2 => itemsUsed < NumItems
           /\ items \in [QIds -> Seq(Values)] /\ CONC_QID \in QIds
<1>1. UNIT_QID \in QIds /\ CONC_QID \in QIds /\ UNIT_QID # CONC_QID
  BY TestAssumption
<1>2. /\ registry = {UNIT_QID} /\ capacity[UNIT_QID] = 2
      /\ items[UNIT_QID] = UnitItems(At)
  BY DEF TestState, TestInductive, Phases, UNIT_CAP
<1>3. BuffersOK /\ BQTypeOK
  BY QueueParts DEF TestState
<1>4. size[UNIT_QID] = Len(items[UNIT_QID])
  BY <1>2, <1>3, ShapedQueues DEF Shaped
<1>5. At <= FirstSpawn
  BY DEF FirstSpawn
<1>6. getters[UNIT_QID] = <<>> /\ putters[UNIT_QID] = <<>>
  BY <1>1, <1>5, Alone
<1>7. 2 <= NumItems
  BY TestSizes DEF UNIT_CAP
<1>8. ASSUME size[UNIT_QID] < 2 PROVE itemsUsed < NumItems
  <2>1. capacity[UNIT_QID] \in Int /\ capacity[UNIT_QID] <= NumItems
    BY <1>2, <1>7
  <2>2. size[UNIT_QID] < capacity[UNIT_QID]
    BY <1>2, <1>8
  <2> QED
    BY <1>1, <1>2, <1>3, <2>1, <2>2, ItemsLeft
<1> QED
  BY <1>1, <1>2, <1>3, <1>4, <1>6, <1>8 DEF BQTypeOK

\* The first create finds no queue, the second one finds the first's.
LEMMA UnitCreates ==
    ASSUME TestState, Step(0), At \in {1, 2} PROVE TestInductive'
<1>1. initFunction[At].op = "create" /\ initFunction[At].id = UNIT_QID
      /\ initFunction[At].arg = 2
  BY UnitCalls DEF Call, UNIT_CAP
<1>2. BqCreate(UNIT_QID, 2)
  BY <1>1, InitCall, PerformCases
<1>3. UNIT_QID \in QIds /\ CONC_QID \in QIds /\ UNIT_QID # CONC_QID
  BY TestAssumption
<1>4. /\ items \in [QIds -> Seq(Values)] /\ capacity \in [QIds -> Int]
      /\ ret \in [Pids -> Int] /\ 0 \in Pids /\ running = 0
  BY QueueParts, InitCall, WorkerPids DEF TestState, BQTypeOK, TypeOK
<1>5. CASE At = 1
  <2>1. registry = {}
    BY <1>5 DEF TestState, TestInductive, Phases
  <2>2. Cardinality(registry) = 0 /\ NumBQs > 0
    BY <2>1, FS_EmptySet, TestSizes
  <2>3. ~(Cardinality(registry) >= NumBQs)
    BY <2>2, BQueueAssumption
  <2>4. /\ registry' = registry \cup {UNIT_QID}
        /\ capacity' = [capacity EXCEPT ![UNIT_QID] = 2]
        /\ items' = [items EXCEPT ![UNIT_QID] = <<>>]
        /\ Answer(0) /\ Enter("bq_create", 2)
    BY <1>2, <2>1, <2>3 DEF BqCreate
  <2>5. ret'[0] = 0
    BY <1>4, <2>4 DEF Answer, Return
  <2>6. Holds(initFunction[At], ret'[0], out'[0])
    BY <1>5, <2>5, UnitCalls DEF Holds, Call
  <2>7. items'[UNIT_QID] = UnitItems(At + 1) /\ items'[CONC_QID] = items[CONC_QID]
    BY <1>3, <1>4, <1>5, <2>4 DEF UnitItems
  <2>8. registry' = {UNIT_QID} /\ capacity'[UNIT_QID] = UNIT_CAP
    BY <1>3, <1>4, <2>1, <2>4 DEF UNIT_CAP
  <2> QED
    BY <1>5, <2>4, <2>6, <2>7, <2>8, UnitTest
<1>6. CASE At = 2
  <2>1. /\ registry = {UNIT_QID} /\ capacity[UNIT_QID] = UNIT_CAP
        /\ items[UNIT_QID] = UnitItems(2)
    BY <1>6, UnitQueue DEF UNIT_CAP
  <2>2. Answer(DSOS_EEXIST) /\ UNCHANGED queues /\ Enter("bq_create", 2)
    BY <1>2, <2>1 DEF BqCreate
  <2>3. ret'[0] < 0
    BY <1>4, <2>2 DEF Answer, Return, DSOS_EEXIST
  <2>4. Holds(initFunction[At], ret'[0], out'[0])
    BY <1>6, <2>3, UnitCalls DEF Holds, Call
  <2>5. UNCHANGED <<registry, capacity, items>>
    BY <2>2 DEF queues
  <2>6. UnitItems(3) = UnitItems(2)
    BY DEF UnitItems
  <2> QED
    BY <1>6, <2>1, <2>2, <2>4, <2>5, <2>6, UnitTest
<1> QED
  BY <1>5, <1>6
LEMMA AppendPair ==
    ASSUME NEW a \in Int, NEW b \in Int PROVE Append(<<a>>, b) = <<a, b>>
<1>1. <<a>> \in Seq(Int) /\ <<a, b>> \in Seq(Int)
  OBVIOUS
<1>2. PICK s \in Seq(Int) : s = <<a>>
  BY <1>1, Zenon
<1>3. PICK t \in Seq(Int) : t = <<a, b>>
  BY <1>1, Zenon
<1>4. Len(s) = 1 /\ s[1] = a /\ Len(t) = 2 /\ t[1] = a /\ t[2] = b
  BY <1>2, <1>3
<1>5. /\ Append(s, b) \in Seq(Int) /\ Len(Append(s, b)) = Len(s) + 1
      /\ \A i \in 1..Len(s) : Append(s, b)[i] = s[i]
      /\ Append(s, b)[Len(s) + 1] = b
  BY AppendProperties
<1>6. \A i \in 1..2 : Append(s, b)[i] = t[i]
  BY <1>4, <1>5
<1>7. Append(s, b) = t
  BY <1>4, <1>5, <1>6, SeqEqual
<1> QED
  BY <1>2, <1>3, <1>7, Zenon

\* Both puts find room, and the values are stored in order.
LEMMA UnitPuts ==
    ASSUME TestState, Step(0), At \in {3, 4} PROVE TestInductive'
<1>1. PICK v \in {111, 222} : v = IF At = 3 THEN 111 ELSE 222
  OBVIOUS
<1>2. initFunction[At] = Call("put", UNIT_QID, v, "ok", 0)
  BY <1>1, UnitCalls
<1>3. BqPut(UNIT_QID, v)
  <2>1. initFunction[At].op = "put" /\ initFunction[At].id = UNIT_QID
        /\ initFunction[At].arg = v
    BY <1>2 DEF Call
  <2> QED
    BY <2>1, InitCall, PerformCases
<1>4. /\ ret \in [Pids -> Int] /\ 0 \in Pids /\ running = 0
  BY QueueParts, InitCall, WorkerPids DEF TestState, TypeOK
<1>5. items[UNIT_QID] = IF At = 3 THEN <<>> ELSE <<111>>
  BY UnitQueue DEF UnitItems
<1>6. size[UNIT_QID] < 2
  BY <1>5, UnitQueue
<1>7. Enter("bq_put", v) /\ PutToBuffer(UNIT_QID, v)
  <2>1. ~(size[UNIT_QID] >= capacity[UNIT_QID])
    BY <1>5, UnitQueue
  <2>2. ~(itemsUsed >= NumItems)
    BY <1>6, UnitQueue, QueueParts, BQueueAssumption DEF TestState, BQTypeOK
  <2> QED
    BY <1>3, <2>1, <2>2, UnitQueue DEF BqPut, ItemLeft, NoSuchQueue
<1>8. Append(items[UNIT_QID], v) = UnitItems(At + 1)
  <2>1. CASE At = 3
    BY <1>1, <1>5, <2>1 DEF UnitItems
  <2>2. CASE At = 4
    <3>1. Append(<<111>>, 222) = <<111, 222>>
      BY AppendPair
    <3>2. v = 222 /\ items[UNIT_QID] = <<111>> /\ UnitItems(At + 1) = <<111, 222>>
      BY <1>1, <1>5, <2>2 DEF UnitItems
    <3> QED
      BY <3>1, <3>2, Zenon
  <2> QED
    BY <2>1, <2>2
<1>9. /\ items' = [items EXCEPT ![UNIT_QID] = Append(@, v)]
      /\ registry' = registry /\ capacity' = capacity /\ Answer(0)
  BY <1>7 DEF PutToBuffer
<1>10. items'[UNIT_QID] = UnitItems(At + 1) /\ items'[CONC_QID] = items[CONC_QID]
  BY <1>8, <1>9, UnitQueue
<1>11. ret'[0] = 0
  BY <1>4, <1>9 DEF Answer, Return
<1>12. Holds(initFunction[At], ret'[0], out'[0])
  BY <1>2, <1>11 DEF Holds, Call
<1>13. registry' = {UNIT_QID} /\ capacity'[UNIT_QID] = UNIT_CAP
  BY <1>9, UnitQueue DEF UNIT_CAP
<1> QED
  BY <1>7, <1>9, <1>10, <1>12, <1>13, UnitTest

\* Both gets fetch what they should.
LEMMA UnitGets ==
    ASSUME TestState, Step(0), At \in {5, 6} PROVE TestInductive'
<1>1. PICK v \in {111, 222} : v = IF At = 5 THEN 111 ELSE 222
  OBVIOUS
<1>2. initFunction[At] = Call("get", UNIT_QID, 0, "ok", v)
  BY <1>1, UnitCalls
<1>3. BqGet(UNIT_QID, 1)
  <2>1. initFunction[At].op = "get" /\ initFunction[At].id = UNIT_QID
    BY <1>2 DEF Call
  <2> QED
    BY <2>1, InitCall, PerformCases
<1>4. /\ ret \in [Pids -> Int] /\ out \in [Pids -> Values \cup {0}]
      /\ 0 \in Pids /\ running = 0
  BY QueueParts, InitCall, WorkerPids DEF TestState, TypeOK, BQTypeOK
<1>5. items[UNIT_QID] = IF At = 5 THEN <<111, 222>> ELSE <<222>>
  BY UnitQueue DEF UnitItems
<1>6. /\ items[UNIT_QID] # <<>> /\ Head(items[UNIT_QID]) = v
      /\ Tail(items[UNIT_QID]) = UnitItems(At + 1)
  <2>1. CASE At = 5
    BY <1>1, <1>5, <2>1 DEF UnitItems
  <2>2. CASE At = 6
    BY <1>1, <1>5, <2>2 DEF UnitItems
  <2> QED
    BY <2>1, <2>2
<1>7. Enter("bq_get", 1) /\ Take(UNIT_QID, 1)
  BY <1>3, <1>6, UnitQueue DEF BqGet, NoSuchQueue
<1>8. /\ items' = [items EXCEPT ![UNIT_QID] = Tail(@)]
      /\ registry' = registry /\ capacity' = capacity /\ Answer(0)
      /\ Store(0, 1, Head(items[UNIT_QID]))
  BY <1>4, <1>7 DEF Take
<1>9. items'[UNIT_QID] = UnitItems(At + 1) /\ items'[CONC_QID] = items[CONC_QID]
  BY <1>6, <1>8, UnitQueue
<1>10. ret'[0] = 0 /\ out'[0] = v
  BY <1>4, <1>6, <1>8 DEF Answer, Return, Store
<1>11. Holds(initFunction[At], ret'[0], out'[0])
  BY <1>2, <1>10 DEF Holds, Call
<1>12. registry' = {UNIT_QID} /\ capacity'[UNIT_QID] = UNIT_CAP
  BY <1>8, UnitQueue DEF UNIT_CAP
<1> QED
  BY <1>7, <1>8, <1>9, <1>11, <1>12, UnitTest

\* Nobody waits for the queue, so it goes.
LEMMA UnitDelete ==
    ASSUME TestState, Step(0), At = 7 PROVE TestInductive'
<1>1. BqDelete(UNIT_QID)
  <2>1. initFunction[At].op = "delete" /\ initFunction[At].id = UNIT_QID
    BY UnitCalls DEF Call
  <2> QED
    BY <2>1, InitCall, PerformCases
<1>2. Enter("bq_delete", UNIT_QID) /\ FreeQueue(UNIT_QID) /\ Answer(0)
  BY <1>1, UnitQueue DEF BqDelete, NoSuchQueue, InUse
<1>3. ret \in [Pids -> Int] /\ 0 \in Pids /\ running = 0
  BY QueueParts, InitCall, WorkerPids DEF TestState, TypeOK
<1>4. ret'[0] = 0
  BY <1>2, <1>3 DEF Answer, Return
<1>5. Holds(initFunction[At], ret'[0], out'[0])
  BY <1>4, UnitCalls DEF Holds, Call
<1>6. registry' = {} /\ items'[CONC_QID] = items[CONC_QID]
  BY <1>2, UnitQueue DEF FreeQueue
<1> QED
  BY <1>2, <1>5, <1>6, UnitTest

\* The create of the concurrent test finds no queue.
LEMMA ConcCreate ==
    ASSUME TestState, Step(0), At = 8 PROVE TestInductive'
<1>1. initFunction[At] = Call("create", CONC_QID, CAP, "ok", 0)
  BY InitCalls
<1>2. /\ initFunction[At].op = "create" /\ initFunction[At].id = CONC_QID
      /\ initFunction[At].arg = CAP
  BY <1>1 DEF Call
<1>3. BqCreate(CONC_QID, CAP)
  BY <1>2, InitCall, PerformCases
<1>4. CONC_QID \in QIds /\ CAP \in Nat \ {0} /\ ~(CAP <= 0)
  BY TestAssumption
<1>5. registry = {}
  BY DEF TestState, TestInductive, Phases
<1>6. Cardinality(registry) = 0 /\ NumBQs > 0
  BY <1>5, FS_EmptySet, TestSizes
<1>7. ~(Cardinality(registry) >= NumBQs)
  BY <1>6, BQueueAssumption
<1>8. /\ registry' = registry \cup {CONC_QID}
      /\ capacity' = [capacity EXCEPT ![CONC_QID] = CAP]
      /\ items' = [items EXCEPT ![CONC_QID] = <<>>]
      /\ Answer(0) /\ Enter("bq_create", CAP)
  BY <1>3, <1>4, <1>5, <1>7 DEF BqCreate
<1>9. /\ items \in [QIds -> Seq(Values)] /\ capacity \in [QIds -> Int]
      /\ ret \in [Pids -> Int] /\ 0 \in Pids /\ running = 0
  BY QueueParts, InitCall, WorkerPids DEF TestState, BQTypeOK, TypeOK
<1>10. ret'[0] = 0
  BY <1>8, <1>9 DEF Answer, Return
<1>11. todo' = [todo EXCEPT ![0] = From(At + 1)]
  BY <1>2, <1>10, InitTodo
<1>12. failed' = failed
  BY <1>1, <1>10, InitCall DEF Holds, Call
<1>13. /\ At \in 1..Total /\ At # Total /\ At <= FirstSpawn
       /\ At \notin FirstSpawn..(8 + NumWorkers)
  BY Sizes DEF FirstSpawn
<1>14. /\ InitWhere' /\ WorkersWhere' /\ FamilyFlat' /\ At' = At + 1
       /\ Spawned' = Spawned /\ PutDone' = PutDone /\ GetDone' = GetDone
  BY <1>8, <1>9, <1>11, <1>13, InitAnswered
<1>15. Spawned = {} /\ PutDone = {} /\ GetDone = {}
  BY <1>13, Alone
<1>16. registry' = {CONC_QID} /\ capacity'[CONC_QID] = CAP /\ items'[CONC_QID] = <<>>
  BY <1>4, <1>5, <1>8, <1>9
<1>17. Phases'
  <2>1. At' = 9
    BY <1>14
  <2>2. LastDelete \in Nat /\ LastDelete >= 9
    BY Sizes DEF LastDelete
  <2>3. Range(items'[CONC_QID]) \subseteq {CONC_VAL}
    BY <1>16 DEF Range
  <2> QED
    BY <1>16, <2>1, <2>2, <2>3 DEF Phases
<1>18. Balanced'
  <2>1. PutDone' = {} /\ GetDone' = {}
    BY <1>14, <1>15
  <2>2. Cardinality(PutDone') = 0 /\ Cardinality(GetDone') = 0
    BY <2>1, FS_EmptySet, Zenon
  <2>3. Len(items'[CONC_QID]) = 0
    BY <1>16
  <2>4. Cardinality(PutDone') = Cardinality(GetDone') + Len(items'[CONC_QID])
    BY <2>2, <2>3
  <2> QED
    BY <2>4 DEF Balanced
<1>19. AllServed'
  BY <1>14, <1>15 DEF AllServed
<1>20. OnlyDeleteFails'
  BY <1>12 DEF TestState, TestInductive, OnlyDeleteFails
<1> QED
  BY <1>14, <1>17, <1>18, <1>19, <1>20 DEF TestInductive
\* A spawn makes a ready child, which has its whole plan before it.
LEMMA SpawnTest ==
    ASSUME TestState, Step(0), At \in FirstSpawn..(8 + NumWorkers) PROVE TestInductive'
<1>1. /\ Spawn /\ UNCHANGED queues /\ failed' = failed
      /\ lastPid = At - 8 /\ lastPid \in Workers
      /\ todo' = [todo EXCEPT ![0] = From(At + 1), ![lastPid] = Plan(lastPid)]
  BY SpawnTodo
<1>2. TypeOK /\ OnePlace /\ running = 0
  BY QueueParts, InitCall DEF TestState
<1>3. /\ 0 \in Pids /\ lastPid \in Pids /\ lastPid # 0 /\ 0 # NoProc
      /\ 0 \notin waiting /\ lastPid \notin waiting /\ status[lastPid] = "Free"
  BY <1>1, <1>2, WorkerPids, PidFacts, CallerPlace DEF OnePlace
<1>4. ~PcbPoolFull /\ ~PtrPoolFull
  <2>1. lastPid <= NumWorkers
    BY <1>1, Sizes DEF Workers
  <2> QED
    BY <1>2, <1>3, <2>1, PcbsLeft, PtrsLeft
<1>5. Enter("spawn", 0) /\ AddChild(FALSE)
  BY <1>1, <1>4 DEF Spawn, NewChild
<1>6. Birth
  BY <1>2, <1>3, <1>5 DEF Birth
<1>7. /\ kernel' = kernel /\ running' = running /\ waiting' = waiting /\ timers' = timers
      /\ initPcb' = initPcb /\ noCtx' = noCtx /\ lastPid' = lastPid + 1 /\ kernel = "up"
  BY <1>5 DEF AddChild, Enter
<1>8. status'[lastPid] = "Ready" /\ \A q \in Pids \ {lastPid} : status'[q] = status[q]
  BY <1>2, <1>3, <1>5 DEF AddChild, TypeOK
<1>9. /\ parent'[lastPid] = 0 /\ children'[lastPid] = {}
      /\ \A q \in Pids \ {0, lastPid} : parent'[q] = parent[q] /\ children'[q] = children[q]
  BY <1>2, <1>3, <1>6, BirthFacts
<1>10. \A q \in Pids \ {0} : syscall'[q] = syscall[q] /\ ret'[q] = ret[q]
  BY <1>2, <1>5 DEF AddChild, Return, Enter, TypeOK
<1>11. /\ todo'[0] = From(At + 1) /\ todo'[lastPid] = Plan(lastPid)
       /\ \A q \in Pids \ {0, lastPid} : todo'[q] = todo[q]
  BY <1>1, <1>3 DEF TestState, CallsAllowed
<1>12. /\ At \in 1..Total /\ At + 1 <= Total /\ At \in 9..LastDelete /\ At + 1 \in 9..LastDelete
       /\ LastDelete \in Nat /\ At \in Nat
  BY Sizes DEF FirstSpawn, LastDelete
<1>13. InitWhere' /\ At' = At + 1
  BY <1>2, <1>3, <1>7, <1>11, <1>12, InitMoves
<1>14. /\ \A q : q \in Spawned' <=> q \in Spawned \/ q = lastPid
       /\ lastPid \notin Spawned /\ lastPid \in Nat
  <2>1. \A q \in Workers : q \in Int
    BY WorkerPids
  <2> QED
    BY <1>1, <1>7, <2>1, Sizes DEF Spawned, Workers
<1>15. /\ Plan(lastPid) # AfterCall /\ Plan(lastPid) # <<>>
       /\ Plan(lastPid) \in {producer, consumer}
  BY PlanFacts DEF Plan
<1>16. ASSUME NEW q \in Spawned
       PROVE  /\ q \in Pids /\ q # 0 /\ q # lastPid
              /\ todo'[q] = todo[q] /\ status'[q] = status[q] /\ syscall'[q] = syscall[q]
              /\ parent'[q] = parent[q] /\ children'[q] = children[q] /\ ret'[q] = ret[q]
  <2>1. q \in Pids /\ q # 0 /\ q # lastPid
    BY <1>14, SpawnedFacts
  <2> QED
    BY <1>8, <1>9, <1>10, <1>11, <2>1
<1>17. WorkersWhere'
  <2>1. ASSUME NEW q \in Pids, q >= lastPid' PROVE todo'[q] = <<>>
    <3>1. q >= lastPid /\ q # lastPid /\ q # 0
      BY <1>7, <1>14, <2>1, PidFacts
    <3> QED
      BY <1>11, <3>1 DEF TestState, TestInductive, WorkersWhere
  <2>2. ASSUME NEW q \in Spawned'
        PROVE  /\ todo'[q] \in Rests(q)
               /\ todo'[q] = <<>> <=> status'[q] \in {"Zombie", "Free"}
               /\ q \in waiting' => todo'[q] = AfterCall
               /\ todo'[q] = AfterCall => syscall'[q] = OwnCall(q)
    <3>1. CASE q \in Spawned
      BY <1>7, <1>16, <3>1 DEF TestState, TestInductive, WorkersWhere
    <3>2. CASE q = lastPid
      BY <1>3, <1>7, <1>8, <1>11, <1>15, <3>2 DEF Rests
    <3> QED
      BY <1>14, <2>2, <3>1, <3>2
  <2> QED
    BY <2>1, <2>2 DEF WorkersWhere, Rests, Plan, OwnCall, AfterCall
<1>18. FamilyFlat'
  <2>1. status'[0] \in Live /\ initPcb' = 0 /\ timers' = <<>> /\ noCtx' = {}
    BY <1>3, <1>7, <1>8 DEF TestState, TestInductive, FamilyFlat
  <2>2. ASSUME NEW q \in Spawned', status'[q] # "Free"
        PROVE  parent'[q] = 0 /\ children'[q] = {}
    <3>1. CASE q \in Spawned
      BY <1>16, <2>2, <3>1 DEF TestState, TestInductive, FamilyFlat
    <3>2. CASE q = lastPid
      BY <1>9, <3>2
    <3> QED
      BY <1>14, <2>2, <3>1, <3>2
  <2> QED
    BY <1>3, <1>7, <2>1, <2>2 DEF FamilyFlat
<1>19. UNCHANGED <<registry, capacity, items, out>>
  BY <1>1 DEF queues
<1>20. Phases'
  <2>1. At \notin {1, 8} /\ At \notin 2..7 /\ At > 8 /\ ~(At > LastDelete)
    BY <1>12
  <2>2. At' \notin {1, 8} /\ At' \notin 2..7 /\ At' > 8 /\ ~(At' > LastDelete) /\ At' \in 9..LastDelete
    BY <1>12, <1>13
  <2> QED
    BY <1>12, <1>19, <2>1, <2>2 DEF TestState, TestInductive, Phases
<1>21. Balanced'
  <2>1. \A q \in Workers : q < lastPid' <=> q < lastPid \/ q = lastPid
    BY <1>7, <1>14, WorkerPids
  <2>2. /\ \A q \in Producers : q \in Workers /\ q \in Pids /\ q # 0 /\ Plan(q) = producer
        /\ \A q \in Consumers : q \in Workers /\ q \in Pids /\ q # 0 /\ Plan(q) = consumer
    BY Sizes, WorkerPids DEF Plan, Consumers
  <2>3. ~(lastPid < lastPid)
    BY <1>14
  <2>4. PutDone' = PutDone
    <3>1. PutDone' = {q \in Producers : q < lastPid' /\ todo'[q] # producer /\ q \notin waiting'}
      BY DEF PutDone
    <3> QED
      BY <1>7, <1>11, <2>1, <2>2, <2>3, <3>1 DEF PutDone
  <2>5. GetDone' = GetDone
    <3>1. GetDone' = {q \in Consumers : q < lastPid' /\ todo'[q] # consumer /\ q \notin waiting'}
      BY DEF GetDone
    <3> QED
      BY <1>7, <1>11, <2>1, <2>2, <2>3, <3>1 DEF GetDone
  <2> QED
    BY <1>19, <2>4, <2>5, BalancedKept
<1>22. AllServed'
  <2>1. ASSUME NEW q \in Spawned', todo'[q] = AfterCall, q \in Consumers, q \notin waiting'
        PROVE  \/ ret'[q] = 0 /\ out'[q] = CONC_VAL
               \/ ret'[q] = DSOS_ERESOURCENOFD /\ CONC_QID \notin registry' /\ At' > LastDelete
    <3>1. q \in Spawned
      BY <1>11, <1>14, <1>15, <2>1
    <3>2. \/ ret[q] = 0 /\ out[q] = CONC_VAL
          \/ ret[q] = DSOS_ERESOURCENOFD /\ CONC_QID \notin registry /\ At > LastDelete
      BY <1>7, <1>16, <2>1, <3>1 DEF TestState, TestInductive, AllServed
    <3> QED
      BY <1>12, <1>13, <1>16, <1>19, <3>1, <3>2
  <2> QED
    BY <2>1 DEF AllServed
<1>23. OnlyDeleteFails'
  BY <1>1 DEF TestState, TestInductive, OnlyDeleteFails
<1> QED
  BY <1>13, <1>17, <1>18, <1>20, <1>21, <1>22, <1>23 DEF TestInductive
\* What a wait leaves to show: the queues, their callers and their answers stay.
LEMMA WaitDone ==
    ASSUME TestState, At \in FirstWait..(8 + 2 * NumWorkers), UNCHANGED queues,
           failed' = failed, InitWhere', WorkersWhere', FamilyFlat', At' = At + 1,
           Spawned' = Spawned, PutDone' = PutDone, GetDone' = GetDone,
           \A q \in Spawned : /\ todo'[q] = todo[q] /\ (q \in waiting' <=> q \in waiting)
                              /\ ret'[q] = ret[q]
    PROVE  TestInductive'
<1>1. UNCHANGED <<registry, capacity, items, out>>
  BY DEF queues
<1>2. /\ At \in 9..LastDelete /\ At + 1 \in 9..LastDelete /\ At \in Nat /\ LastDelete \in Nat
  BY Sizes DEF FirstWait, LastDelete
<1>3. Phases'
  <2>1. At \notin {1, 8} /\ At \notin 2..7 /\ At > 8 /\ ~(At > LastDelete)
    BY <1>2
  <2>2. At' \notin {1, 8} /\ At' \notin 2..7 /\ At' > 8 /\ ~(At' > LastDelete) /\ At' \in 9..LastDelete
    BY <1>2
  <2> QED
    BY <1>1, <1>2, <2>1, <2>2 DEF TestState, TestInductive, Phases
<1>4. Balanced'
  BY <1>1, BalancedKept
<1>5. AllServed'
  <2>1. At' \in Int /\ At' >= At
    BY <1>2
  <2>2. \A q \in Spawned :
           todo'[q] = AfterCall /\ q \in Consumers /\ q \notin waiting' =>
              /\ todo[q] = AfterCall /\ q \notin waiting
              /\ ret'[q] = ret[q] /\ out'[q] = out[q]
    BY <1>1
  <2> QED
    BY <1>1, <2>1, <2>2, ServedKept
<1>6. OnlyDeleteFails'
  BY DEF TestState, TestInductive, OnlyDeleteFails
<1> QED
  BY <1>3, <1>4, <1>5, <1>6 DEF TestInductive

\* The first half of reap_child and the second: a worker that has exited is gone.
LEMMA ReapTest ==
    ASSUME TestState, Step(0), At \in FirstWait..(8 + 2 * NumWorkers), Enter("wait", 0),
           NEW i \in 1..Len(zombie), parent[zombie[i]] = 0, ReapAt(i),
           UNCHANGED queues, failed' = failed,
           todo' = [todo EXCEPT ![0] = From(At + 1)]
    PROVE  TestInductive'
<1>1. TypeOK /\ OnePlace /\ running = 0 /\ 0 \in Pids /\ 0 # NoProc /\ At \in 1..Total
  BY QueueParts, InitCall, WorkerPids, PidFacts DEF TestState
<1>2. Burial(i)
  BY <1>1 DEF Burial
<1>3. PICK child \in Pids : child = zombie[i]
  BY <1>1, <1>2, BurialFacts
<1>4. /\ status[child] = "Zombie"
      /\ \A q \in Pids \ {child} : status'[q] = status[q]
      /\ \A q \in Pids \ {0} : children'[q] = children[q]
      /\ UNCHANGED <<initPcb, parent, waiting>>
  <2>1. /\ status[zombie[i]] = "Zombie"
        /\ \A q \in Pids : q # zombie[i] => status'[q] = status[q]
        /\ \A q \in Pids : children'[q] = IF q = running THEN children[q] \ {zombie[i]}
                                         ELSE children[q]
        /\ UNCHANGED <<initPcb, parent, waiting>>
    BY <1>1, <1>2, BurialFacts
  <2> QED
    BY <1>1, <1>3, <2>1
<1>5. /\ UNCHANGED <<kernel, running, timers, lastPid, noCtx>> /\ kernel = "up"
      /\ status' = [status EXCEPT ![child] = "Free"]
      /\ ret' = [ret EXCEPT ![0] = child]
      /\ syscall' = [syscall EXCEPT ![0] = [num |-> "wait", arg |-> 0]]
  BY <1>1, <1>3 DEF ReapAt, Return, Enter
<1>6. status'[child] = "Free"
  BY <1>1, <1>5 DEF TypeOK
<1>7. child # 0
  BY <1>4 DEF TestState, TestInductive, FamilyFlat, Live
<1>8. todo'[0] = From(At + 1) /\ \A q \in Pids \ {0} : todo'[q] = todo[q]
  BY <1>1 DEF TestState, CallsAllowed
<1>9. 0 \notin waiting
  BY <1>1, CallerPlace
<1>10. At + 1 <= Total /\ At \notin FirstSpawn..(8 + NumWorkers)
  BY Sizes DEF FirstWait, FirstSpawn
<1>11. InitWhere' /\ At' = At + 1
  BY <1>1, <1>5, <1>8, <1>10, InitMoves
<1>12. Spawned' = Spawned
  BY <1>5, SpawnedKept
<1>13. ASSUME NEW q \in Spawned
       PROVE  /\ q \in Pids /\ q # 0
              /\ todo'[q] = todo[q] /\ (q \in waiting' <=> q \in waiting)
              /\ ret'[q] = ret[q] /\ syscall'[q] = syscall[q]
              /\ status'[q] \in {"Zombie", "Free"} <=> status[q] \in {"Zombie", "Free"}
              /\ status'[q] # "Free" => status[q] # "Free"
  <2>1. q \in Pids /\ q # 0
    BY SpawnedFacts
  <2>2. ret'[q] = ret[q] /\ syscall'[q] = syscall[q]
    BY <1>1, <1>5, <2>1 DEF TypeOK
  <2>3. /\ status'[q] \in {"Zombie", "Free"} <=> status[q] \in {"Zombie", "Free"}
        /\ status'[q] # "Free" => status[q] # "Free"
    BY <1>4, <1>6, <2>1
  <2> QED
    BY <1>4, <1>8, <2>1, <2>2, <2>3
<1>14. WorkersWhere'
  <2>1. ASSUME NEW q \in Pids, q >= lastPid' PROVE todo'[q] = <<>>
    <3>1. q # 0 /\ q >= lastPid
      BY <1>5, <2>1, SpawnedFacts
    <3> QED
      BY <1>8, <3>1 DEF TestState, TestInductive, WorkersWhere
  <2>2. ASSUME NEW q \in Spawned
        PROVE  /\ todo'[q] \in Rests(q)
               /\ todo'[q] = <<>> <=> status'[q] \in {"Zombie", "Free"}
               /\ q \in waiting' => todo'[q] = AfterCall
               /\ todo'[q] = AfterCall => syscall'[q] = OwnCall(q)
    BY <1>13 DEF TestState, TestInductive, WorkersWhere
  <2> QED
    BY <1>12, <2>1, <2>2 DEF WorkersWhere, Rests, Plan, OwnCall, AfterCall
<1>15. FamilyFlat'
  <2>1. status'[0] \in Live /\ initPcb' = 0 /\ timers' = <<>> /\ noCtx' = {}
    BY <1>1, <1>4, <1>5, <1>7 DEF TestState, TestInductive, FamilyFlat
  <2>2. ASSUME NEW q \in Spawned, status'[q] # "Free"
        PROVE  parent'[q] = 0 /\ children'[q] = {}
    BY <1>4, <1>13, <2>2 DEF TestState, TestInductive, FamilyFlat
  <2> QED
    BY <1>4, <1>9, <1>12, <2>1, <2>2 DEF FamilyFlat
<1>16. PutDone' = PutDone /\ GetDone' = GetDone
  BY <1>5, <1>13, DoneKept
<1> QED
  BY <1>11, <1>12, <1>13, <1>14, <1>15, <1>16, WaitDone

\* With nobody on the CPU but init, and nobody ready, no worker is blocked:
\* what the blocked ones wait for would have to be done already.
LEMMA NobodyBlocked ==
    ASSUME TestState, running = 0, ready = <<>>, lastPid = NumWorkers + 1,
           NEW w \in Spawned, w \in waiting
    PROVE  FALSE
<1>1. \A q \in Workers : q \in Spawned /\ (q \in waiting \/ todo[q] = <<>>)
  <2>1. \A q \in Workers : q \in Spawned /\ q \in Pids /\ q # running
    BY AllSpawned, SpawnedFacts
  <2> QED
    BY <2>1, Elsewhere
<1>2. w \in Workers
  BY SpawnedFacts
<1>3. CONC_QID \in registry
  BY <1>2, WaitsInList DEF Consumers
<1>4. CASE w \in Producers
  <2>1. putters[CONC_QID] # <<>>
    BY <1>4, WaitsInList
  <2>2. getters[CONC_QID] = <<>> /\ Len(items[CONC_QID]) = CAP
    BY <1>3, <2>1, FullBuffer
  <2>3. GetDone = Consumers
    BY <1>1, <2>2, GettersGone DEF Consumers
  <2>4. w \notin PutDone
    BY DEF PutDone
  <2> QED
    BY <1>3, <1>4, <2>2, <2>3, <2>4, NoPutterLeft
<1>5. CASE w \notin Producers
  <2>1. w \in Consumers
    BY <1>2, <1>5 DEF Consumers
  <2>2. getters[CONC_QID] # <<>>
    BY <2>1, WaitsInList
  <2>3. items[CONC_QID] = <<>> /\ putters[CONC_QID] = <<>>
    BY <1>3, <2>2, FullBuffer DEF Shaped
  <2>4. PutDone = Producers
    BY <1>1, <2>3, PuttersGone, Sizes
  <2>5. w \notin GetDone
    BY DEF GetDone
  <2> QED
    BY <1>3, <2>1, <2>3, <2>4, <2>5, NoGetterLeft
<1> QED
  BY <1>4, <1>5

\* A wait of init that finds no zombie finds somebody ready.
LEMMA WaitLeavesWork ==
    ASSUME TestState, running = 0, lastPid = NumWorkers + 1,
           children[0] # {}, Awaited(0) = {}
    PROVE  ready # <<>> /\ zombie = <<>>
<1>1. TypeOK /\ OnePlace /\ FamilyTree /\ 0 \in Pids
  BY QueueParts, WorkerPids DEF TestState, QueueInductive, KernelPart
<1>2. ASSUME NEW z \in Pids, status[z] = "Zombie" PROVE FALSE
  <2>1. z \in Range(zombie)
    BY <1>1, <1>2 DEF OnePlace
  <2>2. z # 0
    BY <1>2 DEF TestState, TestInductive, FamilyFlat, Live
  <2>3. z \in Spawned
    BY <1>2, <2>2, SpawnedFacts
  <2>4. parent[z] = 0
    BY <1>2, <2>3 DEF TestState, TestInductive, FamilyFlat
  <2>5. PICK n \in Pids : n = 0
    BY <1>1
  <2>6. n \notin {0, z}
    BY <1>1, <2>1, <2>4, <2>5, AwaitedEmpty
  <2> QED
    BY <2>5, <2>6
<1>3. zombie = <<>>
  <2>1. SUFFICES ASSUME zombie # <<>> PROVE FALSE
    OBVIOUS
  <2>2. zombie \in Seq(Pids)
    BY <1>1 DEF TypeOK
  <2>3. Head(zombie) \in Range(zombie) /\ Head(zombie) \in Pids
    BY <2>1, <2>2, HeadInRange, HeadTailProperties
  <2>4. status[Head(zombie)] = "Zombie"
    BY <1>1, <2>3 DEF OnePlace
  <2> QED
    BY <1>2, <2>3, <2>4
<1>4. ASSUME ready = <<>> PROVE FALSE
  <2>1. PICK c \in children[0] : TRUE
    OBVIOUS
  <2>2. 0 \in Alloc /\ parent[0] = NoProc
    BY <1>1, FamilyTreeParts DEF TestState, TestInductive, FamilyFlat
  <2>3. c \in Alloc /\ parent[c] = 0
    BY <1>1, <2>1, <2>2, FamilyTreeParts
  <2>4. c # 0 /\ c \in Pids /\ status[c] # "Free"
    BY <2>2, <2>3, PidFacts DEF Alloc
  <2>5. c \in Spawned
    BY <2>4, SpawnedFacts
  <2>6. c \notin waiting
    BY <1>4, <2>5, NobodyBlocked
  <2>7. todo[c] = <<>>
    BY <1>4, <2>4, <2>5, <2>6, Elsewhere
  <2>8. status[c] = "Zombie"
    BY <2>4, <2>5, <2>7 DEF TestState, TestInductive, WorkersWhere
  <2> QED
    BY <1>2, <2>4, <2>8
<1> QED
  BY <1>3, <1>4
\* init blocks in a wait with nothing to reap, and somebody else goes on.
LEMMA WaitBlocks ==
    ASSUME TestState, Step(0), At \in FirstWait..(8 + 2 * NumWorkers), Enter("wait", 0),
           children[0] # {}, ready # <<>>, zombie = <<>>, GiveUpCpu, BlockCaller,
           UNCHANGED <<zombie, timers, family, ret>>, UNCHANGED queues, failed' = failed,
           todo' = [todo EXCEPT ![0] = From(At + 1)]
    PROVE  TestInductive'
<1>1. TypeOK /\ OnePlace /\ running = 0 /\ 0 \in Pids /\ At \in 1..Total
  BY QueueParts, InitCall, WorkerPids DEF TestState
<1>2. 0 \notin waiting
  BY <1>1, CallerPlace
<1>3. FamilyKept
  BY <1>1, BlockKept DEF Quiet
<1>4. waiting' = waiting \cup {0} /\ TrapExit /\ running' = Head(ready)
  BY <1>1 DEF GiveUpCpu
<1>5. running' \in Pids /\ running' # NoProc
  BY <1>1, <1>4, HeadTailProperties, PidFacts DEF TypeOK
<1>6. kernel' = "up"
  BY <1>4, <1>5 DEF TrapExit, TestState, TestInductive, FamilyFlat
<1>7. syscall' = [syscall EXCEPT ![0] = [num |-> "wait", arg |-> 0]]
  BY <1>1 DEF Enter
<1>8. At + 1 <= Total /\ At \notin FirstSpawn..(8 + NumWorkers)
  BY Sizes DEF FirstWait, FirstSpawn
<1>9. waiting' \ {0} = waiting
  BY <1>2, <1>4
<1>10. /\ InitWhere' /\ WorkersWhere' /\ At' = At + 1
       /\ lastPid' = lastPid /\ Spawned' = Spawned
       /\ PutDone' = PutDone /\ GetDone' = GetDone
       /\ \A q \in Spawned : todo'[q] = todo[q] /\ (q \in waiting' <=> q \in waiting)
  BY <1>1, <1>3, <1>5, <1>6, <1>7, <1>8, <1>9, InitStep
<1>11. FamilyFlat'
  <2>1. /\ UNCHANGED <<initPcb, parent, children, zombie, timers, noCtx>>
        /\ \A q \in Pids : \/ status'[q] = status[q]
                           \/ status[q] \in Live /\ status'[q] \in Live
    BY <1>3 DEF FamilyKept, family
  <2>2. status'[0] \in Live
    BY <1>1, <2>1 DEF TestState, TestInductive, FamilyFlat
  <2>3. ASSUME NEW q \in Spawned, status'[q] # "Free"
        PROVE  parent'[q] = 0 /\ children'[q] = {}
    <3>1. q \in Pids
      BY SpawnedFacts
    <3>2. status[q] # "Free"
      BY <2>1, <2>3, <3>1 DEF Live
    <3> QED
      BY <2>1, <3>2 DEF TestState, TestInductive, FamilyFlat
  <2>4. At' > FirstWait /\ At' <= LastDelete
    BY <1>10, Sizes DEF FirstWait, LastDelete
  <2>5. syscall'[0] = [num |-> "wait", arg |-> 0]
    BY <1>1, <1>7 DEF TypeOK
  <2> QED
    BY <1>10, <2>1, <2>2, <2>3, <2>4, <2>5 DEF TestState, TestInductive, FamilyFlat
<1>12. \A q \in Spawned : ret'[q] = ret[q]
  OBVIOUS
<1> QED
  BY <1>10, <1>11, <1>12, WaitDone

LEMMA WaitTest ==
    ASSUME TestState, Step(0), At \in FirstWait..(8 + 2 * NumWorkers)
    PROVE  TestInductive'
<1>1. initFunction[At] = Plain("wait")
  BY InitCalls DEF FirstWait
<1>2. /\ initFunction[At].op = "wait" /\ initFunction[At].must = "any"
      /\ initFunction[At].value = 0
  BY <1>1 DEF Plain, Call
<1>3. Wait(0) /\ UNCHANGED queues
  BY <1>2, InitCall, PerformCases
<1>4. failed' = failed
  BY <1>2, InitCall DEF Holds
<1>5. todo' = [todo EXCEPT ![0] = From(At + 1)]
  BY <1>2, InitTodo
<1>6. /\ running = 0 /\ At \in 1..Total /\ At # Total /\ lastPid = NumWorkers + 1
      /\ At \notin FirstSpawn..(8 + NumWorkers)
  BY InitCall, Sizes DEF TestState, TestInductive, InitWhere, FirstWait, FirstSpawn
<1>7. Enter("wait", 0)
  BY <1>3 DEF Wait
<1>8. CASE Answer(DSOS_EWAIT)
  BY <1>3, <1>4, <1>5, <1>6, <1>7, <1>8, InitAnswered, WaitDone
<1>9. CASE \E i \in Awaited(0) : ReapAt(i)
  <2>1. PICK i \in Awaited(0) : ReapAt(i)
    BY <1>9
  <2>2. i \in 1..Len(zombie) /\ parent[zombie[i]] = 0
    BY <1>6, <2>1 DEF Awaited
  <2> QED
    BY <1>3, <1>4, <1>5, <1>7, <2>1, <2>2, ReapTest
<1>10. CASE children[0] # {} /\ Awaited(0) = {}
  <2>1. ready # <<>> /\ zombie = <<>>
    BY <1>6, <1>10, WaitLeavesWork
  <2>2. GiveUpCpu /\ BlockCaller /\ UNCHANGED <<zombie, timers, family, ret>>
    BY <1>3, <1>6, <1>10, <2>1 DEF Wait
  <2> QED
    BY <1>3, <1>4, <1>5, <1>7, <1>10, <2>1, <2>2, WaitBlocks
<1> QED
  BY <1>3, <1>6, <1>8, <1>9, <1>10 DEF Wait

\* The delete is answered, whichever way, and its assertion may fail.
LEMMA DeleteTest ==
    ASSUME TestState, Step(0), At = LastDelete PROVE TestInductive'
<1>1. initFunction[At] = Call("delete", CONC_QID, 0, "ok", 0)
  BY InitCalls DEF LastDelete
<1>2. initFunction[At].op = "delete" /\ initFunction[At].id = CONC_QID
  BY <1>1 DEF Call
<1>3. BqDelete(CONC_QID)
  BY <1>2, InitCall, PerformCases
<1>4. todo' = [todo EXCEPT ![0] = From(At + 1)]
  BY <1>2, InitTodo
<1>5. OnlyDeleteFails'
  BY <1>2, InitCall DEF TestState, TestInductive, OnlyDeleteFails
<1>6. /\ running = 0 /\ At \in 1..Total /\ At # Total
      /\ At \notin FirstSpawn..(8 + NumWorkers) /\ LastDelete \in Nat /\ LastDelete >= 9
  BY InitCall, Sizes DEF LastDelete, FirstSpawn
<1>7. /\ Enter("bq_delete", CONC_QID) /\ \E v : Answer(v)
      /\ \/ UNCHANGED <<registry, capacity, items, out>>
         \/ /\ registry' = registry \ {CONC_QID} /\ UNCHANGED <<capacity, out>>
            /\ items' = [items EXCEPT ![CONC_QID] = <<>>]
  BY <1>3 DEF BqDelete, NoSuchQueue, FreeQueue, queues
<1>8. /\ InitWhere' /\ WorkersWhere' /\ FamilyFlat' /\ At' = At + 1
      /\ lastPid' = lastPid /\ Spawned' = Spawned
      /\ PutDone' = PutDone /\ GetDone' = GetDone
      /\ \A q \in Spawned : /\ todo'[q] = todo[q] /\ (q \in waiting' <=> q \in waiting)
                            /\ ret'[q] = ret[q]
  BY <1>4, <1>6, <1>7, InitAnswered
<1>9. registry = {CONC_QID} /\ capacity[CONC_QID] = CAP
      /\ Range(items[CONC_QID]) \subseteq {CONC_VAL}
  BY <1>6 DEF TestState, TestInductive, Phases
<1>10. items \in [QIds -> Seq(Values)] /\ CONC_QID \in QIds
  BY QueueParts, TestAssumption DEF TestState, BQTypeOK
<1>11. /\ registry' \subseteq {CONC_QID} /\ capacity'[CONC_QID] = CAP
       /\ Range(items'[CONC_QID]) \subseteq {CONC_VAL} /\ out' = out
       /\ CONC_QID \in registry' => items' = items
  <2>1. CASE UNCHANGED <<registry, capacity, items, out>>
    BY <1>9, <2>1
  <2>2. CASE /\ registry' = registry \ {CONC_QID} /\ UNCHANGED <<capacity, out>>
             /\ items' = [items EXCEPT ![CONC_QID] = <<>>]
    <3>1. items'[CONC_QID] = <<>>
      BY <1>10, <2>2
    <3>2. Range(items'[CONC_QID]) = {}
      BY <3>1 DEF Range
    <3> QED
      BY <1>9, <2>2, <3>2
  <2> QED
    BY <1>7, <2>1, <2>2
<1>12. Phases'
  <2>1. At' \notin {1, 8} /\ At' \notin 2..7 /\ At' > LastDelete /\ At' \notin 9..LastDelete
    BY <1>6, <1>8
  <2> QED
    BY <1>11, <2>1 DEF Phases
<1>13. Balanced'
  BY <1>8, <1>9, <1>11, BalancedKept
<1>14. AllServed'
  <2>1. At' \in Int /\ At' >= At
    BY <1>6, <1>8
  <2>2. registry' \subseteq registry
    BY <1>9, <1>11
  <2>3. \A q \in Spawned :
           todo'[q] = AfterCall /\ q \in Consumers /\ q \notin waiting' =>
              /\ todo[q] = AfterCall /\ q \notin waiting
              /\ ret'[q] = ret[q] /\ out'[q] = out[q]
    BY <1>8, <1>11
  <2> QED
    BY <1>8, <2>1, <2>2, <2>3, ServedKept
<1> QED
  BY <1>5, <1>8, <1>12, <1>13, <1>14 DEF TestInductive

\* The shutdown stops the kernel and nothing else.
LEMMA ShutdownTest ==
    ASSUME TestState, Step(0), At = Total PROVE TestInductive'
<1>1. At = 10 + 2 * NumWorkers
  BY Sizes
<1>2. initFunction[At] = Plain("shutdown")
  BY <1>1, InitCalls
<1>3. /\ initFunction[At].op = "shutdown" /\ initFunction[At].must = "any"
      /\ initFunction[At].value = 0
  BY <1>2 DEF Plain, Call
<1>4. Shutdown /\ UNCHANGED queues
  BY <1>3, InitCall, PerformCases
<1>5. failed' = failed
  BY <1>3, InitCall DEF Holds
<1>6. todo' = [todo EXCEPT ![0] = From(At + 1)]
  BY <1>3, InitTodo
<1>7. /\ TypeOK /\ OnePlace /\ running = 0 /\ 0 \in Pids /\ 0 # NoProc
      /\ At \in 1..Total /\ At \notin FirstSpawn..(8 + NumWorkers)
      /\ ~(At + 1 <= Total) /\ At > LastDelete /\ LastDelete \in Nat /\ LastDelete >= 9
  BY <1>1, QueueParts, InitCall, WorkerPids, PidFacts, Sizes
     DEF TestState, LastDelete, FirstSpawn
<1>8. 0 \notin waiting
  BY <1>7, CallerPlace
<1>9. /\ kernel' = "down" /\ UNCHANGED <<running, lists, family, status, ret>>
      /\ syscall' = [syscall EXCEPT ![0] = [num |-> "shutdown", arg |-> 0]]
  BY <1>4, <1>7 DEF Shutdown, Stop, Enter
<1>10. FamilyKept /\ waiting' = waiting /\ running' # NoProc /\ timers' = timers /\ noCtx' = noCtx
  BY <1>7, <1>9 DEF FamilyKept, family, lists
<1>11. waiting' \ {0} = waiting
  BY <1>8, <1>10
<1>12. kernel' \in {"up", "down"} /\ (kernel' = "up" <=> At + 1 <= Total)
  BY <1>7, <1>9
<1>13. /\ InitWhere' /\ WorkersWhere' /\ At' = At + 1
       /\ lastPid' = lastPid /\ Spawned' = Spawned
       /\ PutDone' = PutDone /\ GetDone' = GetDone
       /\ \A q \in Spawned : todo'[q] = todo[q] /\ (q \in waiting' <=> q \in waiting)
  BY <1>6, <1>7, <1>9, <1>10, <1>11, <1>12, InitStep
<1>14. FamilyFlat'
  BY <1>8, <1>10, FlatKept
<1>15. UNCHANGED <<registry, capacity, items, out>>
  BY <1>4 DEF queues
<1>16. Phases'
  <2>1. /\ At' \notin {1, 8} /\ At' \notin 2..7 /\ At' \notin 9..LastDelete
        /\ At > 8
    BY <1>7, <1>13
  <2> QED
    BY <1>7, <1>15, <2>1 DEF TestState, TestInductive, Phases
<1>17. Balanced'
  BY <1>13, <1>15, BalancedKept
<1>18. AllServed'
  <2>1. At' \in Int /\ At' >= At
    BY <1>7, <1>13
  <2>2. \A q \in Spawned :
           todo'[q] = AfterCall /\ q \in Consumers /\ q \notin waiting' =>
              /\ todo[q] = AfterCall /\ q \notin waiting
              /\ ret'[q] = ret[q] /\ out'[q] = out[q]
    BY <1>9, <1>13, <1>15
  <2> QED
    BY <1>13, <1>15, <2>1, <2>2, ServedKept
<1>19. OnlyDeleteFails'
  BY <1>5 DEF TestState, TestInductive, OnlyDeleteFails
<1> QED
  BY <1>13, <1>14, <1>16, <1>17, <1>18, <1>19 DEF TestInductive

LEMMA InitTest ==
    ASSUME TestState, Step(0) PROVE TestInductive'
<1>1. At \in 1..Total
  BY InitCall
<1>2. \/ At \in {1, 2} \/ At \in {3, 4} \/ At \in {5, 6} \/ At = 7 \/ At = 8
      \/ At \in FirstSpawn..(8 + NumWorkers)
      \/ At \in FirstWait..(8 + 2 * NumWorkers)
      \/ At = LastDelete \/ At = Total
  BY <1>1, Sizes DEF FirstSpawn, FirstWait, LastDelete
<1> QED
  BY <1>2, UnitCreates, UnitPuts, UnitGets, UnitDelete, ConcCreate, SpawnTest,
     WaitTest, DeleteTest, ShutdownTest
-----------------------------------------------------------------------------
(* All together. *)

LEMMA TestStarts == TestInit => TestState
<1>1. SUFFICES ASSUME TestInit PROVE TestState
  OBVIOUS
<1>2. CallsAllowed /\ QueueInductive
  BY <1>1, AllowedInit, QueuesInit
<1>3. /\ kernel = "up" /\ running = 0 /\ initPcb = 0 /\ lastPid = 1
      /\ waiting = {} /\ timers = <<>> /\ noCtx = {} /\ registry = {} /\ failed = {}
      /\ items = [q \in QIds |-> <<>>]
      /\ status = [p \in Pids |-> IF p = 0 THEN "Running" ELSE "Free"]
      /\ todo = [p \in Pids |-> IF p = 0 THEN initFunction ELSE <<>>]
  BY <1>1 DEF TestInit, BQInit, Init
<1>4. 0 \in Pids /\ 0 # NoProc /\ CONC_QID \in QIds
  BY WorkerPids, PidFacts, TestAssumption
<1>5. todo[0] = initFunction /\ status[0] = "Running" /\ items[CONC_QID] = <<>>
  BY <1>3, <1>4
<1>6. At = 1 /\ todo[0] = From(At)
  <2>1. Len(todo[0]) = Total /\ Total \in Nat
    BY <1>5, InitCalls, Sizes
  <2>2. At = 1
    BY <2>1 DEF At
  <2>3. From(1) = initFunction
    BY FromFacts
  <2> QED
    BY <1>5, <2>2, <2>3, Zenon
<1>7. Spawned = {}
  BY <1>3, WorkerPids DEF Spawned, Workers
<1>8. InitWhere
  BY <1>3, <1>4, <1>6, Sizes DEF InitWhere, FirstSpawn
<1>9. WorkersWhere
  <2>1. ASSUME NEW p \in Pids, p >= lastPid PROVE todo[p] = <<>>
    BY <1>3, <2>1
  <2> QED
    BY <1>7, <2>1 DEF WorkersWhere
<1>10. FamilyFlat
  BY <1>3, <1>5, <1>7 DEF FamilyFlat, Live
<1>11. Phases
  <2>1. LastDelete \in Nat /\ LastDelete >= 9
    BY Sizes DEF LastDelete
  <2>2. Range(items[CONC_QID]) \subseteq {CONC_VAL}
    BY <1>5 DEF Range
  <2> QED
    BY <1>3, <1>6, <2>1, <2>2 DEF Phases
<1>12. Balanced /\ AllServed /\ OnlyDeleteFails
  BY <1>3, <1>7 DEF Balanced, AllServed, OnlyDeleteFails
<1> QED
  BY <1>2, <1>8, <1>9, <1>10, <1>11, <1>12 DEF TestState, TestInductive

LEMMA TestStutters ==
    ASSUME TestInductive, UNCHANGED testvars PROVE TestInductive'
<1>1. /\ UNCHANGED <<kernel, running, waiting, zombie, timers, initPcb, lastPid, parent,
                     children, noCtx, status, syscall, ret>>
      /\ UNCHANGED <<registry, capacity, items, out>>
      /\ UNCHANGED <<todo, failed>>
  BY DEF testvars, bqvars, vars, lists, family, queues, test
<1>2. At' = At /\ Spawned' = Spawned
  BY <1>1 DEF At, Spawned
<1>3. InitWhere'
  BY <1>1, <1>2 DEF TestInductive, InitWhere
<1>4. WorkersWhere'
  BY <1>1, <1>2 DEF TestInductive, WorkersWhere, Rests, Plan, AfterCall, OwnCall
<1>5. FamilyFlat'
  BY <1>1, <1>2 DEF TestInductive, FamilyFlat
<1>6. Phases'
  BY <1>1, <1>2 DEF TestInductive, Phases
<1>7. Balanced'
  <2>1. PutDone' = PutDone /\ GetDone' = GetDone
    BY <1>1 DEF PutDone, GetDone
  <2> QED
    BY <1>1, <2>1 DEF TestInductive, Balanced
<1>8. AllServed' /\ OnlyDeleteFails'
  BY <1>1, <1>2 DEF TestInductive, AllServed, OnlyDeleteFails
<1> QED
  BY <1>3, <1>4, <1>5, <1>6, <1>7, <1>8 DEF TestInductive

LEMMA TestSteps == TestState /\ [TestNext]_testvars => TestState'
<1>1. SUFFICES ASSUME TestState, [TestNext]_testvars PROVE TestState'
  OBVIOUS
<1>2. CallsAllowed' /\ QueueInductive'
  BY <1>1, AllowedNext, QueuesStep DEF TestState
<1>3. TestInductive'
  <2>1. ASSUME NEW p \in Pids, Step(p) PROVE TestInductive'
    <3>1. p = 0 \/ p \in Spawned
      BY <1>1, <2>1, SpawnedFacts DEF Step
    <3> QED
      BY <1>1, <2>1, <3>1, InitTest, WorkerTest
  <2>2. CASE Ticked
    BY <1>1, <1>2, <2>2, TickTest
  <2>3. CASE UNCHANGED testvars
    BY <1>1, <2>3, TestStutters DEF TestState
  <2> QED
    BY <1>1, <2>1, <2>2, <2>3 DEF TestNext
<1> QED
  BY <1>2, <1>3 DEF TestState

LEMMA TestHolds == TestSpec => []TestState
BY TestStarts, TestSteps, PTL DEF TestSpec

LEMMA ServedInState == ASSUME TestState PROVE ConsumersServed
<1>1. SUFFICES ASSUME NEW p \in Pids, status[p] # "Waiting", syscall[p].num = "bq_get",
                      todo[p] = Tail(consumer)
               PROVE  \/ ret[p] = 0 /\ out[p] = CONC_VAL
                      \/ ret[p] = DSOS_ERESOURCENOFD /\ CONC_QID \notin registry
  BY DEF ConsumersServed
<1>2. todo[p] = AfterCall /\ AfterCall # <<>>
  BY <1>1, PlanFacts
<1>3. p # 0
  <2>1. SUFFICES ASSUME p = 0 PROVE FALSE
    OBVIOUS
  <2>2. todo[0] = From(At) /\ At \in 1..(Total + 1) /\ Total \in Nat
    BY Sizes DEF TestState, TestInductive, InitWhere
  <2>3. CASE At \in 1..Total
    <3>1. Head(AfterCall) = initFunction[At]
      BY <1>2, <2>1, <2>2, <2>3, FromFacts
    <3>2. initFunction[At] \in CallSet
      BY <2>3, InitCalls, ElementOfSeq
    <3>3. initFunction[At].op = "dump"
      BY <3>1, PlanFacts DEF Call
    <3>4. \A k \in 1..7 : test_unitario_bq[k].op # "dump"
      <4>1. ASSUME NEW k \in 1..7 PROVE test_unitario_bq[k].op # "dump"
        <5>1. k \in {1, 2, 3, 4, 5, 6, 7}
          OBVIOUS
        <5> QED
          BY <5>1 DEF test_unitario_bq, Call
      <4> QED
        BY <4>1
    <3>5. \A c \in CallSet : c.op # "dump"
      BY <3>4 DEF CallSet, Plain, Call
    <3> QED
      BY <3>2, <3>3, <3>5
  <2>4. CASE At = Total + 1
    <3>1. Len(From(At)) = 0 /\ From(At) \in Seq(CallSet)
      BY <2>2, <2>4, FromFacts
    <3>2. From(At) = <<>>
      BY <3>1, EmptySeq
    <3> QED
      BY <1>2, <2>1, <2>2, <3>2
  <2> QED
    BY <2>2, <2>3, <2>4
<1>4. p \in Spawned /\ p \in Workers
  BY <1>2, <1>3, SpawnedFacts
<1>5. syscall[p] = OwnCall(p)
  BY <1>2, <1>4 DEF TestState, TestInductive, WorkersWhere
<1>6. p \in Consumers
  BY <1>1, <1>4, <1>5 DEF OwnCall, Consumers
<1>7. p \notin waiting
  BY <1>1, QueueParts DEF TestState, OnePlace
<1> QED
  BY <1>2, <1>4, <1>6, <1>7 DEF TestState, TestInductive, AllServed

-----------------------------------------------------------------------------
(* Theorems *)

\* The processes of the test program never block one another for good: until
\* the shutdown somebody is on the CPU, so no wait finds an empty ready list and
\* the idle path never starts initFunction a second time.
THEOREM TestNeverStuck == TestSpec => []NeverStuck
<1>1. TestState => NeverStuck
  BY DEF TestState, TestInductive, InitWhere, NeverStuck
<1> QED
  BY <1>1, TestHolds, PTL

\* Of all the assertions of the program only the one on its last delete can
\* fail, wherever the timer interrupts fall.
THEOREM OnlyLastDeleteFails == TestSpec => []OnlyDeleteFails
<1>1. TestState => OnlyDeleteFails
  BY DEF TestState, TestInductive
<1> QED
  BY <1>1, TestHolds, PTL

\* A consumer that is back from its get has the value of a producer, or called
\* after the queue was deleted.
THEOREM ConsumersAlwaysServed == TestSpec => []ConsumersServed
BY ServedInState, TestHolds, PTL
=============================================================================
