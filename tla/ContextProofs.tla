---------------------------- MODULE ContextProofs ----------------------------
(***************************************************************************)
(* For every number of processes: the mask that goes with each place a     *)
(* context can be at, and, while alarms come in user code only, which      *)
(* context is saved where.                                                 *)
(***************************************************************************)
EXTENDS Context, ListFacts

\* What every stack has, running or saved: a signal handler is never at the
\* bottom and nothing runs on top of a trap or of a handler that has not saved
\* its context; user code and its calls are at the bottom.
Stack(fr) ==
    /\ fr \in Seq(Points) /\ fr # <<>>
    /\ fr[1] \notin {"resumed", "handler"}
    /\ \A i \in 1..(Len(fr) - 1) : fr[i] \notin {"trap", "handler"}
    /\ \A i \in 1..Len(fr) : fr[i] \in {"user", "call"} => i = 1
-----------------------------------------------------------------------------
(* Stacks *)

LEMMA TopOfStack ==
    ASSUME NEW fr, Stack(fr)
    PROVE  /\ fr \in Seq(Points) /\ fr # <<>>
           /\ Len(fr) \in Nat /\ Len(fr) >= 1
           /\ Last(fr) = fr[Len(fr)] /\ Last(fr) \in Points
           /\ Last(fr) \in {"resumed", "handler"} => Len(fr) >= 2
           /\ Last(fr) \in {"user", "call"} => Len(fr) = 1 /\ fr[1] = Last(fr)
<1>1. fr \in Seq(Points) /\ fr # <<>>
  BY DEF Stack
<1>2. Len(fr) \in Nat /\ Len(fr) # 0
  BY <1>1, EmptySeq, LenProperties
<1>3. Len(fr) >= 1 /\ Len(fr) \in 1..Len(fr)
  BY <1>2
<1>4. Last(fr) = fr[Len(fr)] /\ Last(fr) \in Points
  BY <1>1, <1>3, ElementOfSeq DEF Last
<1> DEFINE n == Len(fr)
<1>5. /\ fr[1] \notin {"resumed", "handler"}
      /\ \A i \in 1..n : fr[i] \in {"user", "call"} => i = 1
  BY DEF Stack
<1>6. n \in Nat /\ n >= 1 /\ n \in 1..n /\ Last(fr) = fr[n]
  BY <1>2, <1>3, <1>4
<1> HIDE DEF n
<1>7. Last(fr) \in {"resumed", "handler"} => n >= 2
  BY <1>5, <1>6
<1>8. Last(fr) \in {"user", "call"} => n = 1
  BY <1>5, <1>6
<1>9. n = 1 => fr[1] = Last(fr)
  BY <1>6
<1> QED
  BY <1>1, <1>4, <1>6, <1>7, <1>8, <1>9 DEF n

LEMMA FrontProperties ==
    ASSUME NEW S, NEW s \in Seq(S), s # <<>>
    PROVE  /\ Front(s) \in Seq(S) /\ Len(s) \in Nat /\ Len(s) >= 1
           /\ Len(Front(s)) = Len(s) - 1
           /\ \A i \in 1..(Len(s) - 1) : Front(s)[i] = s[i]
<1>1. Len(s) \in Nat /\ Len(s) >= 1
  BY EmptySeq, LenProperties
<1>2. \A i \in 1..(Len(s) - 1) : s[i] \in S
  BY <1>1, ElementOfSeq
<1> DEFINE m == Len(s) - 1
<1>3. m \in Int /\ 1 \in Int /\ \A i \in 1..m : s[i] \in S
  BY <1>1, <1>2
<1> HIDE DEF m
<1>4. /\ SubSeq(s, 1, m) \in Seq(S)
      /\ Len(SubSeq(s, 1, m)) = IF 1 <= m THEN m - 1 + 1 ELSE 0
      /\ \A i \in 1..(m - 1 + 1) : SubSeq(s, 1, m)[i] = s[1 + i - 1]
  BY <1>3, SubSeqProperties
<1>5. m >= 0
  BY <1>1 DEF m
<1>6. Len(SubSeq(s, 1, m)) = m
  BY <1>3, <1>4, <1>5
<1>7. ASSUME NEW i \in 1..m PROVE SubSeq(s, 1, m)[i] = s[i]
  <2>1. i \in 1..(m - 1 + 1) /\ 1 + i - 1 = i
    BY <1>3
  <2> QED
    BY <1>4, <2>1
<1> QED
  BY <1>1, <1>4, <1>6, <1>7 DEF Front, m

LEMMA ReplaceTop ==
    ASSUME NEW fr, Stack(fr), NEW pt \in Points,
           Len(fr) = 1 => pt \notin {"resumed", "handler"},
           pt \in {"user", "call"} => Len(fr) = 1
    PROVE  LET t == Append(Front(fr), pt)
           IN  /\ Stack(t) /\ Len(t) = Len(fr) /\ Last(t) = pt
               /\ t[1] = IF Len(fr) = 1 THEN pt ELSE fr[1]
<1> DEFINE t == Append(Front(fr), pt)
           n == Len(fr)
<1>1. fr \in Seq(Points) /\ n \in Nat /\ n >= 1
  BY TopOfStack
<1>2. /\ Front(fr) \in Seq(Points) /\ Len(Front(fr)) = n - 1
      /\ \A i \in 1..(n - 1) : Front(fr)[i] = fr[i]
  BY <1>1, TopOfStack, FrontProperties
<1>3. /\ t \in Seq(Points) /\ Len(t) = (n - 1) + 1
      /\ \A i \in 1..(n - 1) : t[i] = Front(fr)[i]
      /\ t[(n - 1) + 1] = pt
  BY <1>2, AppendProperties
<1>4. /\ \A i \in 1..(n - 1) : fr[i] \notin {"trap", "handler"}
      /\ \A i \in 1..n : fr[i] \in {"user", "call"} => i = 1
      /\ fr[1] \notin {"resumed", "handler"}
  BY DEF Stack
<1> HIDE DEF t, n
<1>5. Len(t) = n /\ t[n] = pt /\ \A i \in 1..(n - 1) : t[i] = fr[i]
  BY <1>1, <1>2, <1>3
<1>6. t # <<>> /\ Last(t) = pt
  BY <1>1, <1>3, <1>5, EmptySeq DEF Last
<1>7. t[1] = IF n = 1 THEN pt ELSE fr[1]
  BY <1>1, <1>5
<1>8. t[1] \notin {"resumed", "handler"}
  BY <1>4, <1>7 DEF n
<1>9. \A i \in 1..n : t[i] \in {"user", "call"} => i = 1
  <2> SUFFICES ASSUME NEW i \in 1..n, t[i] \in {"user", "call"} PROVE i = 1
    OBVIOUS
  <2>1. CASE i = n
    BY <1>5, <2>1 DEF n
  <2>2. CASE i # n
    BY <1>1, <1>4, <1>5, <2>2
  <2> QED
    BY <2>1, <2>2
<1>10. Stack(t)
  BY <1>3, <1>4, <1>5, <1>6, <1>8, <1>9 DEF Stack
<1> QED
  BY <1>5, <1>6, <1>7, <1>10 DEF t, n

LEMMA PushHandler ==
    ASSUME NEW fr, Stack(fr), Last(fr) \notin {"trap", "handler"}
    PROVE  LET t == Append(fr, "handler")
           IN  Stack(t) /\ Len(t) = Len(fr) + 1 /\ Last(t) = "handler" /\ t[1] = fr[1]
<1> DEFINE t == Append(fr, "handler")
           n == Len(fr)
<1>1. /\ fr \in Seq(Points) /\ n \in Nat /\ n >= 1 /\ fr[n] = Last(fr)
      /\ "handler" \in Points
  BY TopOfStack DEF Points
<1>2. /\ t \in Seq(Points) /\ Len(t) = n + 1 /\ t[n + 1] = "handler"
      /\ \A i \in 1..n : t[i] = fr[i]
  BY <1>1, AppendProperties
<1>3. /\ \A i \in 1..(n - 1) : fr[i] \notin {"trap", "handler"}
      /\ \A i \in 1..n : fr[i] \in {"user", "call"} => i = 1
      /\ fr[1] \notin {"resumed", "handler"}
  BY DEF Stack
<1> HIDE DEF t, n
<1>4. t # <<>> /\ Last(t) = "handler" /\ t[1] = fr[1]
  BY <1>1, <1>2, EmptySeq DEF Last
<1>5. \A i \in 1..((n + 1) - 1) : t[i] \notin {"trap", "handler"}
  <2> SUFFICES ASSUME NEW i \in 1..n PROVE t[i] \notin {"trap", "handler"}
    BY <1>1
  <2>1. CASE i = n
    BY <1>1, <1>2, <2>1
  <2>2. CASE i # n
    BY <1>1, <1>2, <1>3, <2>2
  <2> QED
    BY <2>1, <2>2
<1>6. \A i \in 1..(n + 1) : t[i] \in {"user", "call"} => i = 1
  BY <1>1, <1>2, <1>3
<1>7. Stack(t)
  BY <1>2, <1>3, <1>4, <1>5, <1>6 DEF Stack
<1> QED
  BY <1>2, <1>4, <1>7 DEF t, n

LEMMA PopHandler ==
    ASSUME NEW fr, Stack(fr), Last(fr) = "resumed"
    PROVE  LET t == Front(fr)
           IN  /\ Stack(t) /\ Len(t) = Len(fr) - 1 /\ t[1] = fr[1]
               /\ Last(t) \notin {"trap", "handler"}
<1> DEFINE t == Front(fr)
           n == Len(fr)
<1>1. fr \in Seq(Points) /\ n \in Nat /\ n >= 2
  BY TopOfStack
<1>2. /\ t \in Seq(Points) /\ Len(t) = n - 1
      /\ \A i \in 1..(n - 1) : t[i] = fr[i]
  BY <1>1, TopOfStack, FrontProperties
<1>3. /\ \A i \in 1..(n - 1) : fr[i] \notin {"trap", "handler"}
      /\ \A i \in 1..n : fr[i] \in {"user", "call"} => i = 1
      /\ fr[1] \notin {"resumed", "handler"}
  BY DEF Stack
<1> HIDE DEF t, n
<1>4. t # <<>> /\ t[1] = fr[1] /\ Last(t) = t[n - 1] /\ n - 1 \in 1..(n - 1)
  BY <1>1, <1>2, EmptySeq DEF Last
<1>5. Stack(t)
  BY <1>1, <1>2, <1>3, <1>4 DEF Stack
<1> QED
  BY <1>2, <1>3, <1>4, <1>5 DEF t, n

LEMMA SingleFrame ==
    ASSUME NEW pt \in Points \ {"resumed", "handler"}
    PROVE  Stack(<<pt>>) /\ Len(<<pt>>) = 1 /\ Last(<<pt>>) = pt /\ <<pt>>[1] = pt
<1>1. <<pt>> \in Seq(Points) /\ Len(<<pt>>) = 1 /\ <<pt>>[1] = pt /\ <<pt>> # <<>>
  OBVIOUS
<1> QED
  BY <1>1 DEF Stack, Last
-----------------------------------------------------------------------------
(* Masks *)

\* A saved context is in user code, in a timerHandler past its swapcontext or,
\* for main_context, in disastrOS_start.  What is kept in main_context has no
\* user code at the bottom: it was saved with no process running.
StacksOK ==
    /\ Stack(frames)
    /\ \A p \in Procs : /\ Stack(saved[p].frames)
                        /\ Last(saved[p].frames) \in {"user", "resumed"}
    /\ Stack(main.frames) /\ Last(main.frames) \in {"start", "resumed"}
    /\ main.frames[1] \notin {"user", "call"}
    /\ frames[1] \in {"user", "call"} => running # None

\* The mask at the places where it is always the same.
MaskOfPoint ==
    /\ Last(frames) = "trap" => masked /\ Len(frames) = 1
    /\ Last(frames) = "handler" => masked
    /\ Last(frames) \in {"user", "call", "start", "launch"} => ~masked

\* Past the change of the mask, the context about to be loaded is the one the
\* mask was taken from, unless a signal has come in between and left the mask
\* open.
MaskLoaded ==
    /\ masked /\ Last(frames) \in {"trapExit", "dispatch"} =>
          running # None /\ saved[running].masked
    /\ masked /\ Last(frames) = "toMain" => main.masked

\* A context that resumes in user code, or in disastrOS_start, is unmasked; a
\* system call stores the mask after the registers.
MaskSaved ==
    /\ \A p \in Procs :
          Last(saved[p].frames) = "user" /\ saved[p].masked =>
             p = running /\ Last(frames) \in {"call", "handler"}
    /\ Last(main.frames) = "start" => ~main.masked

CtxInv == CtxTypeOK /\ StacksOK /\ MaskOfPoint /\ MaskLoaded /\ MaskSaved

LEMMA FreshContext ==
    /\ Fresh \in Contexts /\ ~Fresh.masked
    /\ Stack(Fresh.frames) /\ Last(Fresh.frames) = "user"
<1>1. /\ "user" \in Points \ {"resumed", "handler"}
      /\ Fresh.frames = <<"user">> /\ Fresh.masked = FALSE
      /\ Fresh = [frames |-> Fresh.frames, masked |-> Fresh.masked]
  BY DEF Points, Fresh
<1>2. /\ Stack(Fresh.frames) /\ Last(Fresh.frames) = "user"
  BY <1>1, SingleFrame
<1>3. Fresh.frames \in Seq(Points)
  BY <1>2 DEF Stack
<1> QED
  BY <1>1, <1>2, <1>3 DEF Contexts, Masks

\* disastrOS_start runs with the alarm open, and so makes the same context.
LEMMA InheritedFresh == ASSUME CtxInv, Last(frames) = "start" PROVE Inherited = Fresh
<1>1. ~masked
  BY DEF CtxInv, MaskOfPoint
<1>2. masked \in BOOLEAN
  BY DEF CtxInv, CtxTypeOK, Masks
<1>3. masked = FALSE
  BY <1>1, <1>2, Zenon
<1> QED
  BY <1>3, Zenon DEF Inherited, Fresh

LEMMA InitCtx == Init => CtxInv
<1> SUFFICES ASSUME Init PROVE CtxInv
  OBVIOUS
<1>1. /\ "launch" \in Points \ {"resumed", "handler"}
      /\ "start" \in Points \ {"resumed", "handler"}
  BY DEF Points
<1>2. /\ frames = <<"launch">> /\ masked = FALSE /\ pending = FALSE
      /\ running \in Procs /\ live = {running}
      /\ saved = [p \in Procs |-> Fresh]
      /\ main.frames = <<"start">> /\ main.masked = FALSE
      /\ main = [frames |-> main.frames, masked |-> main.masked]
      /\ down = FALSE /\ owed = {} /\ late = FALSE
  BY DEF Init
<1>3. /\ Stack(frames) /\ Last(frames) = "launch" /\ frames[1] = "launch"
      /\ Stack(main.frames) /\ Last(main.frames) = "start" /\ main.frames[1] = "start"
  BY <1>1, <1>2, SingleFrame
<1>4. main \in Contexts
  BY <1>2, <1>3 DEF Contexts, Masks, Stack
<1>5. saved \in [Procs -> Contexts] /\ \A p \in Procs : saved[p] = Fresh
  BY <1>2, FreshContext
<1>6. CtxTypeOK
  BY <1>2, <1>3, <1>4, <1>5 DEF CtxTypeOK, Masks, Stack
<1>7. StacksOK
  BY <1>2, <1>3, <1>5, FreshContext, ContextAssumption DEF StacksOK
<1>8. MaskOfPoint /\ MaskLoaded /\ MaskSaved
  BY <1>2, <1>3, <1>5, FreshContext DEF MaskOfPoint, MaskLoaded, MaskSaved
<1> QED
  BY <1>6, <1>7, <1>8 DEF CtxInv

\* What the actions read of the state they start in.
LEMMA Known ==
    ASSUME CtxInv
    PROVE  /\ frames \in Seq(Points) /\ frames # <<>> /\ Stack(frames)
           /\ masked \in BOOLEAN /\ running \in live \cup {None} /\ live \subseteq Procs
           /\ main \in Contexts /\ saved \in [Procs -> Contexts]
           /\ \A pt : At(pt) <=> Last(frames) = pt
           /\ \A p \in Procs : saved[p].frames \in Seq(Points) /\ saved[p].masked \in BOOLEAN
           /\ main.frames \in Seq(Points) /\ main.masked \in BOOLEAN
BY DEF CtxInv, CtxTypeOK, StacksOK, Stack, At, Point, Contexts, Masks

\* The step from one place to the next of the innermost frame.
LEMMA GotoPoint ==
    ASSUME CtxInv, NEW pt \in Points, Goto(pt),
           Len(frames) = 1 => pt \notin {"resumed", "handler"},
           pt \in {"user", "call"} => Len(frames) = 1
    PROVE  /\ Stack(frames') /\ Len(frames') = Len(frames) /\ Last(frames') = pt
           /\ frames'[1] = IF Len(frames) = 1 THEN pt ELSE frames[1]
           /\ frames' \in Seq(Points) /\ frames' # <<>>
<1>1. Stack(frames)
  BY Known
<1>2. frames' = Append(Front(frames), pt)
  BY DEF Goto
<1> QED
  BY <1>1, <1>2, ReplaceTop DEF Stack
-----------------------------------------------------------------------------
(* The steps *)

\* A step that saves no context.
LEMMA KeepSaved ==
    ASSUME CtxInv, UNCHANGED <<saved, main>>, Stack(frames'),
           frames'[1] \in {"user", "call"} => running' # None
    PROVE  StacksOK'
BY DEF CtxInv, StacksOK

\* A step that saves the context of one process.
LEMMA StoreContext ==
    ASSUME CtxInv, NEW q, NEW ctx \in Contexts,
           saved' = [saved EXCEPT ![q] = ctx],
           Stack(ctx.frames), Last(ctx.frames) \in {"user", "resumed"}
    PROVE  /\ saved' \in [Procs -> Contexts]
           /\ \A p \in Procs : /\ Stack(saved'[p].frames)
                               /\ Last(saved'[p].frames) \in {"user", "resumed"}
           /\ \A p \in Procs : saved'[p] = IF p = q THEN ctx ELSE saved[p]
<1>1. saved \in [Procs -> Contexts]
  BY Known
<1>2. \A p \in Procs : saved'[p] = IF p = q THEN ctx ELSE saved[p]
  BY <1>1
<1>3. \A p \in Procs : /\ Stack(saved[p].frames)
                       /\ Last(saved[p].frames) \in {"user", "resumed"}
  BY DEF CtxInv, StacksOK
<1>4. saved' \in [Procs -> Contexts]
  BY <1>1
<1> QED
  BY <1>2, <1>3, <1>4

\* Outside a system call and a timerHandler no context of user code is masked.
LEMMA SavedUnmasked ==
    ASSUME CtxInv, Last(frames) \notin {"call", "handler"}, NEW p \in Procs,
           Last(saved[p].frames) = "user"
    PROVE  ~saved[p].masked
BY DEF CtxInv, MaskSaved

LEMMA AlarmKeeps == ASSUME CtxInv, Alarm PROVE CtxInv'
<1>1. /\ UNCHANGED <<frames, masked, running, live, saved, main, down, owed, late>>
      /\ pending' = TRUE
  BY DEF Alarm
<1>2. CtxTypeOK'
  BY <1>1 DEF CtxInv, CtxTypeOK
<1>3. StacksOK' /\ MaskOfPoint' /\ MaskLoaded' /\ MaskSaved'
  BY <1>1 DEF CtxInv, StacksOK, MaskOfPoint, MaskLoaded, MaskSaved
<1> QED
  BY <1>2, <1>3 DEF CtxInv

LEMMA DeliverKeeps == ASSUME CtxInv, Deliver PROVE CtxInv'
<1>1. /\ ~masked /\ masked' = TRUE /\ pending' = FALSE
      /\ frames' = Append(frames, "handler")
      /\ late' = (late \/ ~At("user"))
      /\ UNCHANGED <<running, live, saved, main, down, owed>>
  BY DEF Deliver
<1>2. Last(frames) \notin {"trap", "handler"}
  BY <1>1 DEF CtxInv, MaskOfPoint
<1>3. Stack(frames') /\ Last(frames') = "handler" /\ frames'[1] = frames[1]
  BY <1>1, <1>2, Known, PushHandler
<1>4. late' \in BOOLEAN
  BY <1>1 DEF CtxInv, CtxTypeOK
<1>5. CtxTypeOK'
  BY <1>1, <1>3, <1>4 DEF CtxInv, CtxTypeOK, Stack, Masks
<1>6. StacksOK'
  BY <1>1, <1>3, KeepSaved DEF CtxInv, StacksOK
<1>7. MaskOfPoint' /\ MaskLoaded'
  BY <1>1, <1>3 DEF MaskOfPoint, MaskLoaded
<1>8. MaskSaved'
  BY <1>1, <1>3 DEF CtxInv, MaskSaved
<1> QED
  BY <1>5, <1>6, <1>7, <1>8 DEF CtxInv

LEMMA TimerHandlerKeeps == ASSUME CtxInv, TimerHandler PROVE CtxInv'
<1> DEFINE fr  == Append(Front(frames), "resumed")
           ctx == [frames |-> fr, masked |-> masked]
<1>1. /\ SaveInterrupted(fr) /\ masked' = FALSE /\ Goto("swap")
      /\ Last(frames) = "handler"
      /\ UNCHANGED <<pending, running, live, down, owed, late>>
  BY DEF TimerHandler, At, Point
<1>2. Stack(frames) /\ Len(frames) >= 2 /\ Len(frames) \in Nat
  BY <1>1, Known, TopOfStack
<1> DEFINE n == Len(frames)
<1>21. n \in Nat /\ n >= 2
  BY <1>2
<1> HIDE DEF n
<1>3. n # 1
  BY <1>21
<1>4. "swap" \in Points /\ "resumed" \in Points
  BY DEF Points
<1>5. /\ Stack(fr) /\ Last(fr) = "resumed" /\ fr[1] = frames[1]
  BY <1>2, <1>3, <1>4, ReplaceTop DEF n
<1>6. /\ Stack(frames') /\ Last(frames') = "swap" /\ frames'[1] = frames[1]
  BY <1>1, <1>3, <1>4, GotoPoint DEF n
<1> HIDE DEF fr
<1>7. ctx \in Contexts /\ ctx.frames = fr
  BY <1>5, Known DEF Stack, Contexts, Masks
<1> HIDE DEF ctx
<1>8. IF running # None THEN saved' = [saved EXCEPT ![running] = ctx] /\ main' = main
                        ELSE main' = ctx /\ saved' = saved
  BY <1>1 DEF SaveInterrupted, ctx
<1>9. /\ saved' \in [Procs -> Contexts] /\ main' \in Contexts
      /\ \A p \in Procs : /\ Stack(saved'[p].frames)
                          /\ Last(saved'[p].frames) \in {"user", "resumed"}
      /\ Stack(main'.frames) /\ Last(main'.frames) \in {"start", "resumed"}
      /\ main'.frames[1] \notin {"user", "call"}
      /\ \A p \in Procs : Last(saved'[p].frames) = "user" => ~saved'[p].masked
      /\ Last(main'.frames) = "start" => ~main'.masked
  <2>1. /\ saved \in [Procs -> Contexts] /\ main \in Contexts
        /\ \A p \in Procs : /\ Stack(saved[p].frames)
                            /\ Last(saved[p].frames) \in {"user", "resumed"}
        /\ Stack(main.frames) /\ Last(main.frames) \in {"start", "resumed"}
        /\ main.frames[1] \notin {"user", "call"}
        /\ Last(main.frames) = "start" => ~main.masked
        /\ \A p \in Procs : Last(saved[p].frames) = "user" /\ saved[p].masked =>
                               p = running
        /\ frames[1] \in {"user", "call"} => running # None
        /\ running \in live \cup {None} /\ live \subseteq Procs
    BY Known DEF CtxInv, StacksOK, MaskSaved
  <2>2. CASE running # None
    <3>1. main' = main /\ saved' = [saved EXCEPT ![running] = ctx]
      BY <1>8, <2>2
    <3>2. /\ saved' \in [Procs -> Contexts]
          /\ \A p \in Procs : /\ Stack(saved'[p].frames)
                              /\ Last(saved'[p].frames) \in {"user", "resumed"}
          /\ \A p \in Procs : saved'[p] = IF p = running THEN ctx ELSE saved[p]
      BY <1>5, <1>7, <3>1, StoreContext
    <3>3. \A p \in Procs : Last(saved'[p].frames) = "user" => ~saved'[p].masked
      BY <1>5, <1>7, <2>1, <3>2
    <3> QED
      BY <2>1, <3>1, <3>2, <3>3
  <2>3. CASE running = None
    <3>1. main' = ctx /\ saved' = saved
      BY <1>8, <2>3
    <3>2. \A p \in Procs : Last(saved[p].frames) = "user" => ~saved[p].masked
      BY <2>1, <2>3, ContextAssumption
    <3> QED
      BY <1>5, <1>7, <2>1, <2>3, <3>1, <3>2
  <2> QED
    BY <2>2, <2>3
<1>10. CtxTypeOK'
  BY <1>1, <1>6, <1>9 DEF CtxInv, CtxTypeOK, Stack, Masks
<1>11. frames'[1] \in {"user", "call"} => running' # None
  BY <1>1, <1>6 DEF CtxInv, StacksOK
<1>12. StacksOK'
  BY <1>6, <1>9, <1>11 DEF StacksOK
<1>13. MaskOfPoint' /\ MaskLoaded'
  BY <1>1, <1>6 DEF MaskOfPoint, MaskLoaded
<1>14. MaskSaved'
  BY <1>9 DEF MaskSaved
<1> QED
  BY <1>10, <1>12, <1>13, <1>14 DEF CtxInv

LEMMA EnterInterruptKeeps == ASSUME CtxInv, EnterInterrupt PROVE CtxInv'
<1>1. /\ frames' = <<"interrupt">> /\ Last(frames) = "swap"
      /\ UNCHANGED <<masked, pending, running, live, saved, main, down, owed, late>>
  BY DEF EnterInterrupt, At, Point
<1>2. Stack(frames') /\ Last(frames') = "interrupt" /\ frames'[1] = "interrupt"
  BY <1>1, SingleFrame DEF Points
<1>3. CtxTypeOK'
  BY <1>1, <1>2 DEF CtxInv, CtxTypeOK, Stack
<1>4. StacksOK'
  BY <1>1, <1>2, KeepSaved
<1>5. MaskOfPoint' /\ MaskLoaded'
  BY <1>2 DEF MaskOfPoint, MaskLoaded
<1>6. MaskSaved'
  BY <1>1, <1>2 DEF CtxInv, MaskSaved
<1> QED
  BY <1>3, <1>4, <1>5, <1>6 DEF CtxInv

LEMMA ChooseKeeps == ASSUME CtxInv, Choose PROVE CtxInv'
<1>1. /\ Last(frames) = "interrupt" /\ Goto("chosen")
      /\ \/ running' \in live
         \/ running = None /\ UNCHANGED running
      /\ UNCHANGED <<masked, pending, live, saved, main, down, owed, late>>
  BY DEF Choose, At, Point
<1>2. /\ Stack(frames') /\ Last(frames') = "chosen"
      /\ frames'[1] = IF Len(frames) = 1 THEN "chosen" ELSE frames[1]
  BY <1>1, GotoPoint DEF Points
<1>3. /\ frames[1] \in {"user", "call"} => running # None
      /\ running' \in live \cup {None} /\ None \notin live
  BY <1>1, Known, ContextAssumption DEF CtxInv, StacksOK
<1>4. CtxTypeOK'
  BY <1>1, <1>2, <1>3 DEF CtxInv, CtxTypeOK, Stack
<1>5. frames'[1] \in {"user", "call"} => running' # None
  BY <1>1, <1>2, <1>3
<1>6. StacksOK'
  BY <1>1, <1>2, <1>5, KeepSaved
<1>7. MaskOfPoint' /\ MaskLoaded'
  BY <1>2 DEF MaskOfPoint, MaskLoaded
<1>8. MaskSaved'
  BY <1>1, <1>2 DEF CtxInv, MaskSaved
<1> QED
  BY <1>4, <1>6, <1>7, <1>8 DEF CtxInv

LEMMA DispatchKeeps == ASSUME CtxInv, Dispatch PROVE CtxInv'
<1>1. /\ Last(frames) = "chosen"
      /\ UNCHANGED <<pending, running, live, saved, main, down, owed, late>>
      /\ \/ running # None /\ masked' = saved[running].masked /\ Goto("dispatch")
         \/ running = None /\ masked' = main.masked /\ Goto("toMain")
  BY DEF Dispatch, At, Point
<1>2. PICK pt \in {"dispatch", "toMain"} :
         /\ Goto(pt)
         /\ pt = "dispatch" => running # None /\ masked' = saved[running].masked
         /\ pt = "toMain" => masked' = main.masked
  BY <1>1
<1>3. /\ Stack(frames') /\ Last(frames') = pt
      /\ frames'[1] = IF Len(frames) = 1 THEN pt ELSE frames[1]
  BY <1>2, GotoPoint DEF Points
<1>4. masked' \in BOOLEAN
  <2>1. running # None => running \in Procs
    BY Known
  <2> QED
    BY <1>2, <2>1, Known
<1>5. CtxTypeOK'
  BY <1>1, <1>3, <1>4 DEF CtxInv, CtxTypeOK, Stack, Masks
<1>6. frames'[1] \in {"user", "call"} => running' # None
  BY <1>1, <1>3 DEF CtxInv, StacksOK
<1>7. StacksOK'
  BY <1>1, <1>3, <1>6, KeepSaved
<1>8. MaskOfPoint'
  BY <1>3 DEF MaskOfPoint
<1>9. MaskLoaded'
  BY <1>1, <1>2, <1>3 DEF MaskLoaded
<1>10. MaskSaved'
  BY <1>1, <1>3 DEF CtxInv, MaskSaved
<1> QED
  BY <1>5, <1>7, <1>8, <1>9, <1>10 DEF CtxInv

LEMMA ResumeKeeps == ASSUME CtxInv, Resume PROVE CtxInv'
<1>1. /\ Last(frames) \in {"trapExit", "dispatch", "launch"} /\ running # None
      /\ Load(saved[running])
      /\ UNCHANGED <<masked, pending, running, live, saved, main, down, owed, late>>
  BY DEF Resume, Point
<1>2. running \in Procs /\ masked \in BOOLEAN
  BY <1>1, Known
<1>3. \/ frames' = saved[running].frames
      \/ frames' = <<"crashed">>
  BY <1>1 DEF Load
<1>4. /\ Stack(frames')
      /\ \/ Last(frames') \in {"user", "resumed"} /\ frames' = saved[running].frames
         \/ Last(frames') = "crashed"
  <2>1. CASE frames' = saved[running].frames
    BY <1>2, <2>1 DEF CtxInv, StacksOK
  <2>2. CASE frames' = <<"crashed">>
    BY <2>2, SingleFrame DEF Points
  <2> QED
    BY <1>3, <2>1, <2>2
<1>5. CtxTypeOK'
  BY <1>1, <1>4 DEF CtxInv, CtxTypeOK, Stack
<1>6. StacksOK'
  BY <1>1, <1>4, KeepSaved
<1>7. Last(frames') = "user" => ~masked'
  <2> SUFFICES ASSUME Last(frames') = "user", masked PROVE FALSE
    BY <1>1
  <2>1. ~saved[running].masked
    BY <1>1, <1>2, <1>4, SavedUnmasked
  <2>2. Last(frames) # "launch"
    BY DEF CtxInv, MaskOfPoint
  <2>3. Last(frames) \in {"trapExit", "dispatch"}
    BY <1>1, <2>2
  <2> QED
    BY <2>1, <2>3 DEF CtxInv, MaskLoaded
<1>8. MaskOfPoint' /\ MaskLoaded'
  BY <1>4, <1>7 DEF MaskOfPoint, MaskLoaded
<1>9. MaskSaved'
  BY <1>1, <1>4 DEF CtxInv, MaskSaved
<1> QED
  BY <1>5, <1>6, <1>8, <1>9 DEF CtxInv

LEMMA ResumeMainKeeps == ASSUME CtxInv, ResumeMain PROVE CtxInv'
<1>1. /\ Last(frames) = "toMain" /\ Load(main)
      /\ UNCHANGED <<masked, pending, running, live, saved, main, down, owed, late>>
  BY DEF ResumeMain, At, Point
<1>2. /\ Stack(main.frames) /\ Last(main.frames) \in {"start", "resumed"}
      /\ main.frames[1] \notin {"user", "call"}
  BY DEF CtxInv, StacksOK
<1>3. frames' = main.frames \/ frames' = <<"crashed">>
  BY <1>1 DEF Load
<1>4. /\ Stack(frames') /\ frames'[1] \notin {"user", "call"}
      /\ \/ Last(frames') \in {"start", "resumed"} /\ frames' = main.frames
         \/ Last(frames') = "crashed"
  <2>1. CASE frames' = main.frames
    BY <1>2, <2>1
  <2>2. CASE frames' = <<"crashed">>
    <3>1. /\ Stack(<<"crashed">>) /\ Last(<<"crashed">>) = "crashed"
          /\ <<"crashed">>[1] = "crashed"
      BY SingleFrame DEF Points
    <3> QED
      BY <2>2, <3>1
  <2> QED
    BY <1>3, <2>1, <2>2
<1>5. CtxTypeOK'
  BY <1>1, <1>4 DEF CtxInv, CtxTypeOK, Stack
<1>6. StacksOK'
  BY <1>1, <1>4, KeepSaved
<1>7. Last(frames') = "start" => ~masked'
  BY <1>1, <1>4 DEF CtxInv, MaskLoaded, MaskSaved
<1>8. MaskOfPoint' /\ MaskLoaded'
  BY <1>4, <1>7 DEF MaskOfPoint, MaskLoaded
<1>9. MaskSaved'
  BY <1>1, <1>4 DEF CtxInv, MaskSaved
<1> QED
  BY <1>5, <1>6, <1>8, <1>9 DEF CtxInv

LEMMA HandlerReturnKeeps == ASSUME CtxInv, HandlerReturn PROVE CtxInv'
<1>1. /\ Last(frames) = "resumed" /\ frames' = Front(frames) /\ masked' = FALSE
      /\ UNCHANGED <<pending, running, live, saved, main, down, owed, late>>
  BY DEF HandlerReturn, At, Point
<1>2. /\ Stack(frames') /\ frames'[1] = frames[1]
      /\ Last(frames') \notin {"trap", "handler"}
  BY <1>1, Known, PopHandler
<1>3. CtxTypeOK'
  BY <1>1, <1>2 DEF CtxInv, CtxTypeOK, Stack, Masks
<1>4. StacksOK'
  BY <1>1, <1>2, KeepSaved DEF CtxInv, StacksOK
<1>5. MaskOfPoint' /\ MaskLoaded'
  BY <1>1, <1>2 DEF MaskOfPoint, MaskLoaded
<1>6. MaskSaved'
  BY <1>1 DEF CtxInv, MaskSaved
<1> QED
  BY <1>3, <1>4, <1>5, <1>6 DEF CtxInv

LEMMA SyscallKeeps == ASSUME CtxInv, Syscall PROVE CtxInv'
<1> DEFINE ctx == [saved[running] EXCEPT !.frames = frames]
<1>1. /\ Last(frames) = "user" /\ Goto("call")
      /\ saved' = [saved EXCEPT ![running].frames = frames]
      /\ owed' = owed \cup {running}
      /\ UNCHANGED <<masked, pending, running, live, main, down, late>>
  BY DEF Syscall, SaveCaller, At, Point
<1>2. Stack(frames) /\ frames \in Seq(Points) /\ Len(frames) = 1 /\ frames[1] = "user"
  BY <1>1, Known, TopOfStack
<1>3. running \in Procs /\ running # None
  BY <1>2, Known DEF CtxInv, StacksOK
<1>4. /\ ctx \in Contexts /\ ctx.frames = frames
      /\ saved' = [saved EXCEPT ![running] = ctx]
  <2>1. saved[running] \in Contexts
    BY <1>3, Known
  <2> QED
    BY <1>1, <1>2, <2>1 DEF Contexts
<1> HIDE DEF ctx
<1>5. /\ saved' \in [Procs -> Contexts]
      /\ \A p \in Procs : /\ Stack(saved'[p].frames)
                          /\ Last(saved'[p].frames) \in {"user", "resumed"}
      /\ \A p \in Procs : saved'[p] = IF p = running THEN ctx ELSE saved[p]
  BY <1>1, <1>2, <1>4, StoreContext
<1>6. Stack(frames') /\ Last(frames') = "call"
  BY <1>1, <1>2, GotoPoint DEF Points
<1>7. owed' \subseteq Procs
  BY <1>1, <1>3 DEF CtxInv, CtxTypeOK
<1>8. CtxTypeOK'
  BY <1>1, <1>5, <1>6, <1>7 DEF CtxInv, CtxTypeOK, Stack
<1>9. StacksOK'
  BY <1>1, <1>3, <1>5, <1>6 DEF CtxInv, StacksOK
<1>10. ~masked
  BY <1>1 DEF CtxInv, MaskOfPoint
<1>11. MaskOfPoint' /\ MaskLoaded'
  BY <1>1, <1>6, <1>10 DEF MaskOfPoint, MaskLoaded
<1>12. MaskSaved'
  <2>1. ASSUME NEW p \in Procs, p # running, Last(saved'[p].frames) = "user"
        PROVE  ~saved'[p].masked
    BY <1>1, <1>5, <2>1, SavedUnmasked
  <2>2. \A p \in Procs : Last(saved'[p].frames) = "user" /\ saved'[p].masked =>
                            p = running
    BY <2>1
  <2> QED
    BY <1>1, <1>6, <2>2 DEF CtxInv, MaskSaved
<1> QED
  BY <1>8, <1>9, <1>11, <1>12 DEF CtxInv

LEMMA EnterTrapKeeps == ASSUME CtxInv, EnterTrap PROVE CtxInv'
<1> DEFINE ctx == [saved[running] EXCEPT !.masked = masked]
<1>1. /\ Last(frames) = "call" /\ frames' = <<"trap">> /\ masked' = TRUE
      /\ saved' = [saved EXCEPT ![running].masked = masked]
      /\ UNCHANGED <<pending, running, live, main, down, owed, late>>
  BY DEF EnterTrap, TrapMask, At, Point
<1>2. Stack(frames) /\ frames[1] = "call"
  BY <1>1, Known, TopOfStack
<1>3. running \in Procs /\ running # None
  BY <1>2, Known DEF CtxInv, StacksOK
<1>4. ~masked
  BY <1>1 DEF CtxInv, MaskOfPoint
<1>5. /\ ctx \in Contexts /\ ctx.frames = saved[running].frames /\ ctx.masked = masked
      /\ saved' = [saved EXCEPT ![running] = ctx]
  <2>1. saved[running] \in Contexts /\ masked \in BOOLEAN
    BY <1>3, Known
  <2> QED
    BY <1>1, <2>1 DEF Contexts, Masks
<1>6. /\ Stack(saved[running].frames)
      /\ Last(saved[running].frames) \in {"user", "resumed"}
  BY <1>3 DEF CtxInv, StacksOK
<1> HIDE DEF ctx
<1>7. /\ saved' \in [Procs -> Contexts]
      /\ \A p \in Procs : /\ Stack(saved'[p].frames)
                          /\ Last(saved'[p].frames) \in {"user", "resumed"}
      /\ \A p \in Procs : saved'[p] = IF p = running THEN ctx ELSE saved[p]
  BY <1>5, <1>6, StoreContext
<1>8. /\ Stack(<<"trap">>) /\ Last(<<"trap">>) = "trap" /\ Len(<<"trap">>) = 1
      /\ <<"trap">>[1] = "trap"
  BY SingleFrame DEF Points
<1>9. /\ Stack(frames') /\ Last(frames') = "trap" /\ Len(frames') = 1
      /\ frames'[1] = "trap"
  BY <1>1, <1>8
<1>10. CtxTypeOK'
  BY <1>1, <1>7, <1>9 DEF CtxInv, CtxTypeOK, Stack, Masks
<1>11. StacksOK'
  BY <1>1, <1>7, <1>9 DEF CtxInv, StacksOK
<1>12. MaskOfPoint' /\ MaskLoaded'
  BY <1>1, <1>9 DEF MaskOfPoint, MaskLoaded
<1>13. \A p \in Procs : Last(saved'[p].frames) = "user" => ~saved'[p].masked
  <2> SUFFICES ASSUME NEW p \in Procs, Last(saved'[p].frames) = "user"
               PROVE  ~saved'[p].masked
    OBVIOUS
  <2>1. CASE p = running
    BY <1>4, <1>5, <1>7, <2>1
  <2>2. CASE p # running
    BY <1>7, <2>2 DEF CtxInv, MaskSaved
  <2> QED
    BY <2>1, <2>2
<1>14. MaskSaved'
  BY <1>1, <1>13 DEF CtxInv, MaskSaved
<1> QED
  BY <1>10, <1>11, <1>12, <1>14 DEF CtxInv

\* What the handler of a system call leaves behind, before the trap is left.
LEMMA HandlerDone ==
    ASSUME CtxInv, At("trap"), SwitchTo \/ SpawnOne \/ ExitCaller
    PROVE  /\ live' \subseteq Procs /\ running' \in live' \cup {None}
           /\ saved' \in [Procs -> Contexts]
           /\ \A p \in Procs : /\ Stack(saved'[p].frames)
                               /\ Last(saved'[p].frames) \in {"user", "resumed"}
                               /\ Last(saved'[p].frames) = "user" => ~saved'[p].masked
<1>1. /\ live \subseteq Procs /\ running \in live \cup {None}
      /\ saved \in [Procs -> Contexts]
      /\ \A p \in Procs : /\ Stack(saved[p].frames)
                          /\ Last(saved[p].frames) \in {"user", "resumed"}
                          /\ Last(saved[p].frames) = "user" => ~saved[p].masked
  BY Known, SavedUnmasked DEF CtxInv, StacksOK
<1>2. ASSUME NEW q, saved' = [saved EXCEPT ![q] = Fresh]
      PROVE  /\ saved' \in [Procs -> Contexts]
             /\ \A p \in Procs : /\ Stack(saved'[p].frames)
                                 /\ Last(saved'[p].frames) \in {"user", "resumed"}
                                 /\ Last(saved'[p].frames) = "user" => ~saved'[p].masked
  <2>1. /\ saved' \in [Procs -> Contexts]
        /\ \A p \in Procs : saved'[p] = IF p = q THEN Fresh ELSE saved[p]
    BY <1>2, StoreContext, FreshContext
  <2> QED
    BY <1>1, <2>1, FreshContext
<1>3. CASE SwitchTo
  BY <1>1, <1>3 DEF SwitchTo
<1>4. CASE SpawnOne
  <2>1. PICK p \in Procs \ live : /\ live' = live \cup {p}
                                  /\ saved' = [saved EXCEPT ![p] = Fresh]
                                  /\ running' = running
    BY <1>4 DEF SpawnOne
  <2>2. live' \subseteq Procs /\ running' \in live' \cup {None}
    BY <1>1, <2>1
  <2> QED
    BY <1>2, <2>1, <2>2
<1>5. CASE ExitCaller
  <2>1. /\ live' = live \ {running} /\ running' \in live' \cup {None}
        /\ saved' = [saved EXCEPT ![running] = Fresh]
    BY <1>5 DEF ExitCaller
  <2>2. live' \subseteq Procs
    BY <1>1, <2>1
  <2> QED
    BY <1>2, <2>1, <2>2
<1> QED
  BY <1>3, <1>4, <1>5

LEMMA TrapKeeps == ASSUME CtxInv, Trap PROVE CtxInv'
<1>1. /\ At("trap") /\ Last(frames) = "trap"
      /\ owed' = owed \ {running} /\ LeaveTrap
      /\ SwitchTo \/ SpawnOne \/ ExitCaller
      /\ UNCHANGED <<pending, main, down, late>>
  BY DEF Trap, At, Point
<1>2. /\ live' \subseteq Procs /\ running' \in live' \cup {None}
      /\ saved' \in [Procs -> Contexts]
      /\ \A p \in Procs : /\ Stack(saved'[p].frames)
                          /\ Last(saved'[p].frames) \in {"user", "resumed"}
                          /\ Last(saved'[p].frames) = "user" => ~saved'[p].masked
  BY <1>1, HandlerDone
<1>3. PICK pt \in {"trapExit", "interrupt"} :
         /\ Goto(pt)
         /\ pt = "trapExit" => running' # None /\ masked' = saved'[running'].masked
         /\ pt = "interrupt" => masked' = FALSE
  BY <1>1 DEF LeaveTrap
<1>4. Len(frames) = 1
  BY <1>1 DEF CtxInv, MaskOfPoint
<1>5. Stack(frames') /\ Last(frames') = pt /\ frames'[1] = pt
  BY <1>3, <1>4, GotoPoint DEF Points
<1>6. masked' \in BOOLEAN
  <2>1. CASE pt = "trapExit"
    <3>1. running' \in Procs
      BY <1>2, <1>3, <2>1
    <3>2. saved'[running'] \in Contexts
      BY <1>2, <3>1
    <3> QED
      BY <1>3, <2>1, <3>2 DEF Contexts, Masks
  <2>2. CASE pt = "interrupt"
    BY <1>3, <2>2
  <2> QED
    BY <2>1, <2>2
<1>7. owed' \subseteq Procs
  BY <1>1 DEF CtxInv, CtxTypeOK
<1>8. CtxTypeOK'
  BY <1>1, <1>2, <1>5, <1>6, <1>7 DEF CtxInv, CtxTypeOK, Stack, Masks
<1>9. StacksOK'
  BY <1>1, <1>2, <1>5 DEF CtxInv, StacksOK
<1>10. MaskOfPoint'
  BY <1>5 DEF MaskOfPoint
<1>11. MaskLoaded'
  BY <1>3, <1>5 DEF MaskLoaded
<1>12. MaskSaved'
  BY <1>1, <1>2 DEF CtxInv, MaskSaved
<1> QED
  BY <1>8, <1>9, <1>10, <1>11, <1>12 DEF CtxInv

LEMMA ShutdownTrapKeeps == ASSUME CtxInv, ShutdownTrap PROVE CtxInv'
<1>1. /\ Last(frames) = "trap" /\ owed' = owed \ {running} /\ down' = TRUE
      /\ masked' = main.masked /\ Goto("toMain")
      /\ UNCHANGED <<pending, running, live, saved, main, late>>
  BY DEF ShutdownTrap, At, Point
<1>2. Len(frames) = 1
  BY <1>1 DEF CtxInv, MaskOfPoint
<1>3. Stack(frames') /\ Last(frames') = "toMain" /\ frames'[1] = "toMain"
  BY <1>1, <1>2, GotoPoint DEF Points
<1>4. masked' \in BOOLEAN /\ owed' \subseteq Procs
  BY <1>1, Known DEF CtxInv, CtxTypeOK
<1>5. CtxTypeOK'
  BY <1>1, <1>3, <1>4 DEF CtxInv, CtxTypeOK, Stack, Masks
<1>6. StacksOK'
  BY <1>1, <1>3, KeepSaved
<1>7. MaskOfPoint' /\ MaskLoaded'
  BY <1>1, <1>3 DEF MaskOfPoint, MaskLoaded
<1>8. MaskSaved'
  BY <1>1, <1>3 DEF CtxInv, MaskSaved
<1> QED
  BY <1>5, <1>6, <1>7, <1>8 DEF CtxInv

LEMMA StartKeeps == ASSUME CtxInv, Start PROVE CtxInv'
<1>1. /\ Last(frames) = "start"
      /\ UNCHANGED <<masked, pending, main, down, owed, late>>
  BY DEF Start, At, Point
<1>2. ~masked
  BY <1>1 DEF CtxInv, MaskOfPoint
<1>3. CASE frames' = <<"exited">> /\ UNCHANGED <<running, live, saved>>
  <2>1. Stack(frames') /\ Last(frames') = "exited" /\ frames'[1] = "exited"
    BY <1>3, SingleFrame DEF Points
  <2>2. CtxTypeOK'
    BY <1>1, <1>3, <2>1 DEF CtxInv, CtxTypeOK, Stack
  <2>3. StacksOK'
    BY <1>1, <1>3, <2>1, KeepSaved
  <2>4. MaskOfPoint' /\ MaskLoaded'
    BY <2>1 DEF MaskOfPoint, MaskLoaded
  <2>5. MaskSaved'
    BY <1>1, <1>3 DEF CtxInv, MaskSaved
  <2> QED
    BY <2>2, <2>3, <2>4, <2>5 DEF CtxInv
<1>4. CASE \E p \in Procs \ live : /\ running' = p
                                   /\ live' = live \cup {p}
                                   /\ saved' = [saved EXCEPT ![p] = Inherited]
                                   /\ Goto("launch")
  <2>1. PICK p \in Procs \ live : /\ running' = p
                                  /\ live' = live \cup {p}
                                  /\ saved' = [saved EXCEPT ![p] = Fresh]
                                  /\ Goto("launch")
    BY <1>1, <1>4, InheritedFresh
  <2>2. Stack(frames') /\ Last(frames') = "launch"
    BY <2>1, GotoPoint DEF Points
  <2>3. /\ saved' \in [Procs -> Contexts]
        /\ \A q \in Procs : /\ Stack(saved'[q].frames)
                            /\ Last(saved'[q].frames) \in {"user", "resumed"}
        /\ \A q \in Procs : saved'[q] = IF q = p THEN Fresh ELSE saved[q]
    BY <2>1, StoreContext, FreshContext
  <2>4. live' \subseteq Procs /\ running' \in live' /\ running' # None
    BY <2>1, Known, ContextAssumption
  <2>5. CtxTypeOK'
    BY <1>1, <2>2, <2>3, <2>4 DEF CtxInv, CtxTypeOK, Stack
  <2>6. StacksOK'
    BY <1>1, <2>2, <2>3, <2>4 DEF CtxInv, StacksOK
  <2>7. MaskOfPoint' /\ MaskLoaded'
    BY <1>1, <1>2, <2>2 DEF MaskOfPoint, MaskLoaded
  <2>8. \A q \in Procs : Last(saved'[q].frames) = "user" => ~saved'[q].masked
    BY <1>1, <2>3, SavedUnmasked, FreshContext
  <2>9. MaskSaved'
    BY <1>1, <2>8 DEF CtxInv, MaskSaved
  <2> QED
    BY <2>5, <2>6, <2>7, <2>9 DEF CtxInv
<1> QED
  BY <1>3, <1>4 DEF Start

LEMMA StutterKeeps == ASSUME CtxInv, UNCHANGED vars PROVE CtxInv'
<1>1. UNCHANGED <<frames, masked, pending, running, live, saved, main, down, owed, late>>
  BY DEF vars
<1>2. CtxTypeOK'
  BY <1>1 DEF CtxInv, CtxTypeOK
<1>3. StacksOK' /\ MaskOfPoint' /\ MaskLoaded' /\ MaskSaved'
  BY <1>1 DEF CtxInv, StacksOK, MaskOfPoint, MaskLoaded, MaskSaved
<1> QED
  BY <1>2, <1>3 DEF CtxInv

LEMMA CtxStep == CtxInv /\ [Next]_vars => CtxInv'
<1> SUFFICES ASSUME CtxInv, [Next]_vars PROVE CtxInv'
  OBVIOUS
<1>1. CASE Alarm
  BY <1>1, AlarmKeeps
<1>2. CASE Deliver
  BY <1>2, DeliverKeeps
<1>3. CASE Handler
  BY <1>3, TimerHandlerKeeps, EnterInterruptKeeps, ChooseKeeps, DispatchKeeps,
     ResumeKeeps, ResumeMainKeeps, HandlerReturnKeeps DEF Handler
<1>4. CASE Syscall
  BY <1>4, SyscallKeeps
<1>5. CASE EnterTrap
  BY <1>5, EnterTrapKeeps
<1>6. CASE Trap
  BY <1>6, TrapKeeps
<1>7. CASE ShutdownTrap
  BY <1>7, ShutdownTrapKeeps
<1>8. CASE Start
  BY <1>8, StartKeeps
<1>9. CASE UNCHANGED vars
  BY <1>9, StutterKeeps
<1> QED
  BY <1>1, <1>2, <1>3, <1>4, <1>5, <1>6, <1>7, <1>8, <1>9 DEF Next
-----------------------------------------------------------------------------
(* Theorems *)

LEMMA CtxAlways == Spec => []CtxInv
BY InitCtx, CtxStep, PTL DEF Spec

\* For every number of processes: the stacks and contexts of disastrOS_syscall,
\* disastrOS_trap and the timer handlers keep their types, and running is never
\* a process that exited.
THEOREM ContextsTyped == Spec => []CtxTypeOK
<1>1. CtxInv => CtxTypeOK
  BY DEF CtxInv
<1> QED
  BY CtxAlways, <1>1, PTL

\* For every number of processes: while a frame of disastrOS_trap is on the
\* stack it is alone there and SIGALRM is blocked, whenever the alarm expires.
THEOREM TrapAlwaysAtomic == Spec => []TrapAtomic
<1>1. CtxInv => TrapAtomic
  <2> SUFFICES ASSUME CtxInv, NEW i \in 1..Len(frames), frames[i] = "trap"
               PROVE  masked /\ Len(frames) = 1
    BY DEF TrapAtomic
  <2>1. Stack(frames)
    BY Known
  <2> DEFINE n == Len(frames)
  <2>2. n \in Nat /\ n >= 1 /\ Last(frames) = frames[n]
    BY <2>1, TopOfStack
  <2>3. \A j \in 1..(n - 1) : frames[j] # "trap"
    BY <2>1 DEF Stack
  <2>4. i \in 1..n
    OBVIOUS
  <2> HIDE DEF n
  <2>5. i = n
    BY <2>2, <2>3, <2>4
  <2>6. Last(frames) = "trap"
    BY <2>2, <2>5
  <2> QED
    BY <2>6 DEF CtxInv, MaskOfPoint
<1> QED
  BY CtxAlways, <1>1, PTL

\* For every number of processes: user code runs with SIGALRM unblocked, by
\* whichever setcontext, swapcontext or return of a signal handler it was loaded.
THEOREM UserAlwaysUnmasked == Spec => []UserRunsUnmasked
<1>1. CtxInv => UserRunsUnmasked
  BY DEF CtxInv, MaskOfPoint, UserRunsUnmasked, At, Point
<1> QED
  BY CtxAlways, <1>1, PTL
-----------------------------------------------------------------------------
(* While alarms come in user code only *)

\* A context that resumes in user code, and one that resumes in the
\* timerHandler that interrupted user code.
Safe(ctx) == ctx \in {[frames |-> <<"user">>, masked |-> FALSE],
                      [frames |-> <<"user", "resumed">>, masked |-> TRUE]}

\* A signal handler runs on a stack of user code, anything else by itself;
\* main_context is where disastrOS_start left it; every live process can be
\* resumed from its context but the one that has run since it was loaded.
Home ==
    /\ main = [frames |-> <<"start">>, masked |-> FALSE]
    /\ \/ Len(frames) = 1 /\ Last(frames) \notin {"handler", "swap", "resumed"}
       \/ /\ Len(frames) = 2 /\ Last(frames) \in {"handler", "swap", "resumed"}
          /\ frames[1] = "user"
    /\ \A p \in live : \/ Safe(saved[p])
                       \/ p = running /\ Last(frames) \in {"user", "handler", "resumed", "call"}
    /\ Last(frames) = "call" => saved[running].frames = <<"user">>
    /\ Last(frames) \in {"call", "trap"} => running \in owed

HomeInv == ~late => Home

LEMMA SafeContexts ==
    /\ Safe(Fresh)
    /\ \A ctx : Safe(ctx) =>
          \/ ctx.frames = <<"user">>
          \/ ctx.frames = <<"user", "resumed">>
    /\ Len(<<"user", "resumed">>) = 2 /\ Last(<<"user", "resumed">>) = "resumed"
    /\ <<"user", "resumed">>[1] = "user"
    /\ Len(<<"user">>) = 1 /\ Last(<<"user">>) = "user" /\ <<"user">>[1] = "user"
<1>1. Len(<<"user", "resumed">>) = 2 /\ <<"user", "resumed">>[1] = "user"
      /\ <<"user", "resumed">>[2] = "resumed"
  OBVIOUS
<1>2. Last(<<"user", "resumed">>) = "resumed"
  BY <1>1 DEF Last
<1>3. Len(<<"user">>) = 1 /\ Last(<<"user">>) = "user" /\ <<"user">>[1] = "user"
  BY SingleFrame DEF Points
<1>4. Safe(Fresh)
  BY DEF Safe, Fresh
<1>5. \A ctx : Safe(ctx) => \/ ctx.frames = <<"user">>
                            \/ ctx.frames = <<"user", "resumed">>
  BY DEF Safe
<1> QED
  BY <1>1, <1>2, <1>3, <1>4, <1>5

LEMMA OneFrame ==
    ASSUME NEW s \in Seq(Points), Len(s) = 1, s[1] = "user"
    PROVE  s = <<"user">>
OBVIOUS

LEMMA TwoFrames ==
    ASSUME NEW s \in Seq(Points), Len(s) = 2, s[1] = "user", s[2] = "resumed"
    PROVE  s = <<"user", "resumed">>
OBVIOUS

LEMMA InitHome == Init => Home
<1> SUFFICES ASSUME Init PROVE Home
  OBVIOUS
<1>1. /\ frames = <<"launch">> /\ running \in Procs /\ live = {running}
      /\ saved = [p \in Procs |-> Fresh]
      /\ main = [frames |-> <<"start">>, masked |-> FALSE]
  BY DEF Init
<1>2. Len(frames) = 1 /\ Last(frames) = "launch"
  BY <1>1, SingleFrame DEF Points
<1>3. \A p \in live : Safe(saved[p])
  BY <1>1, SafeContexts
<1> QED
  BY <1>1, <1>2, <1>3 DEF Home

\* A step of the kernel, alone on its stack, that changes neither a context nor
\* who runs a system call.
LEMMA HomeGoto ==
    ASSUME CtxInv, Home, NEW pt \in Points, Goto(pt), UNCHANGED main,
           Len(frames) = 1,
           pt \notin {"handler", "swap", "resumed", "call", "trap", "user"},
           \A p \in live' : Safe(saved'[p])
    PROVE  Home'
<1>1. Len(frames') = Len(frames) /\ Last(frames') = pt
  BY GotoPoint
<1>2. Len(frames') = 1
  BY <1>1
<1> QED
  BY <1>1, <1>2 DEF Home

\* In the kernel every live process can be resumed.
LEMMA AllSafe ==
    ASSUME Home, Last(frames) \notin {"user", "handler", "resumed", "call"}
    PROVE  \A p \in live : Safe(saved[p])
BY DEF Home

LEMMA AloneInKernel ==
    ASSUME Home, Last(frames) \notin {"handler", "swap", "resumed"}
    PROVE  Len(frames) = 1
BY DEF Home

LEMMA HandlerOnUser ==
    ASSUME Home, Last(frames) \in {"handler", "swap", "resumed"}
    PROVE  Len(frames) = 2 /\ frames[1] = "user"
BY DEF Home

LEMMA DeliverHome == ASSUME CtxInv, HomeInv, Deliver PROVE HomeInv'
<1> SUFFICES ASSUME ~late' PROVE Home'
  BY DEF HomeInv
<1>1. /\ frames' = Append(frames, "handler")
      /\ late' = (late \/ ~At("user"))
      /\ UNCHANGED <<running, live, saved, main, owed>>
  BY DEF Deliver
<1>2. Home /\ Last(frames) = "user"
  BY <1>1 DEF HomeInv, At, Point
<1>3. Stack(frames) /\ Len(frames) = 1 /\ frames[1] = "user"
  BY <1>2, Known, TopOfStack
<1>4. Len(frames') = Len(frames) + 1 /\ Last(frames') = "handler" /\ frames'[1] = "user"
  BY <1>1, <1>2, <1>3, PushHandler
<1>5. Len(frames') = 2
  BY <1>3, <1>4
<1> QED
  BY <1>1, <1>2, <1>4, <1>5 DEF Home

LEMMA TimerHandlerHome == ASSUME CtxInv, HomeInv, TimerHandler PROVE HomeInv'
<1> SUFFICES ASSUME ~late' PROVE Home'
  BY DEF HomeInv
<1> DEFINE fr  == Append(Front(frames), "resumed")
           ctx == [frames |-> fr, masked |-> masked]
<1>1. /\ SaveInterrupted(fr) /\ Goto("swap") /\ Last(frames) = "handler"
      /\ UNCHANGED <<running, live, owed, late>>
  BY DEF TimerHandler, At, Point
<1>2. Home /\ Len(frames) = 2 /\ frames[1] = "user" /\ masked /\ Stack(frames)
  BY <1>1, HandlerOnUser, Known DEF HomeInv, CtxInv, MaskOfPoint
<1>3. running # None /\ running \in Procs
  BY <1>2, Known DEF CtxInv, StacksOK
<1>4. saved' = [saved EXCEPT ![running] = ctx] /\ main' = main
  BY <1>1, <1>3 DEF SaveInterrupted
<1>5. fr = <<"user", "resumed">>
  <2> DEFINE n == Len(frames)
  <2>1. n = 2
    BY <1>2
  <2> HIDE DEF n
  <2>2. n # 1
    BY <2>1
  <2>3. Stack(fr) /\ Len(fr) = n /\ Last(fr) = "resumed" /\ fr[1] = "user"
    BY <1>2, <2>2, ReplaceTop DEF Points, n
  <2> HIDE DEF fr
  <2>4. fr \in Seq(Points) /\ Last(fr) = fr[Len(fr)] /\ Len(fr) = 2
    BY <2>1, <2>3, TopOfStack
  <2>5. fr[2] = "resumed"
    BY <2>3, <2>4
  <2> QED
    BY <2>3, <2>4, <2>5, TwoFrames
<1>6. Safe(ctx)
  BY <1>2, <1>5, Known DEF Safe
<1> HIDE DEF ctx, fr
<1>7. \A p \in live : p # running => Safe(saved[p])
  BY <1>2 DEF Home
<1>8. \A p \in live : Safe(saved'[p])
  BY <1>3, <1>4, <1>6, <1>7, Known
<1> DEFINE n == Len(frames)
<1>9. n = 2
  BY <1>2
<1> HIDE DEF n
<1>10. /\ Len(frames') = n /\ Last(frames') = "swap"
       /\ frames'[1] = "user"
  <2>1. n # 1
    BY <1>9
  <2> QED
    BY <1>1, <1>2, <2>1, GotoPoint DEF Points, n
<1>11. Len(frames') = 2
  BY <1>9, <1>10
<1> QED
  BY <1>1, <1>2, <1>4, <1>8, <1>10, <1>11 DEF Home

LEMMA EnterInterruptHome == ASSUME CtxInv, HomeInv, EnterInterrupt PROVE HomeInv'
<1> SUFFICES ASSUME ~late' PROVE Home'
  BY DEF HomeInv
<1>1. /\ frames' = <<"interrupt">> /\ Last(frames) = "swap"
      /\ UNCHANGED <<running, live, saved, main, owed, late>>
  BY DEF EnterInterrupt, At, Point
<1>2. Home /\ \A p \in live : Safe(saved[p])
  BY <1>1, AllSafe DEF HomeInv
<1>3. Len(frames') = 1 /\ Last(frames') = "interrupt"
  BY <1>1, SingleFrame DEF Points
<1> QED
  BY <1>1, <1>2, <1>3 DEF Home

LEMMA ChooseHome == ASSUME CtxInv, HomeInv, Choose PROVE HomeInv'
<1> SUFFICES ASSUME ~late' PROVE Home'
  BY DEF HomeInv
<1>1. /\ Last(frames) = "interrupt" /\ Goto("chosen")
      /\ UNCHANGED <<live, saved, main, owed, late>>
  BY DEF Choose, At, Point
<1>2. Home /\ Len(frames) = 1 /\ \A p \in live : Safe(saved[p])
  BY <1>1, AllSafe, AloneInKernel DEF HomeInv
<1> QED
  BY <1>1, <1>2, HomeGoto DEF Points

LEMMA DispatchHome == ASSUME CtxInv, HomeInv, Dispatch PROVE HomeInv'
<1> SUFFICES ASSUME ~late' PROVE Home'
  BY DEF HomeInv
<1>1. /\ Last(frames) = "chosen"
      /\ Goto("dispatch") \/ Goto("toMain")
      /\ UNCHANGED <<running, live, saved, main, owed, late>>
  BY DEF Dispatch, At, Point
<1>2. Home /\ Len(frames) = 1 /\ \A p \in live : Safe(saved[p])
  BY <1>1, AllSafe, AloneInKernel DEF HomeInv
<1>3. \A p \in live' : Safe(saved'[p])
  BY <1>1, <1>2
<1>4. CASE Goto("dispatch")
  BY <1>1, <1>2, <1>3, <1>4, HomeGoto DEF Points
<1>5. CASE Goto("toMain")
  BY <1>1, <1>2, <1>3, <1>5, HomeGoto DEF Points
<1> QED
  BY <1>1, <1>4, <1>5

LEMMA ResumeHome == ASSUME CtxInv, HomeInv, Resume PROVE HomeInv'
<1> SUFFICES ASSUME ~late' PROVE Home'
  BY DEF HomeInv
<1>1. /\ Last(frames) \in {"trapExit", "dispatch", "launch"} /\ running # None
      /\ Load(saved[running])
      /\ UNCHANGED <<running, live, saved, main, owed, late>>
  BY DEF Resume, Point
<1>2. Home /\ running \in live /\ \A p \in live : Safe(saved[p])
  BY <1>1, AllSafe, Known DEF HomeInv
<1>3. \/ saved[running].frames = <<"user">>
      \/ saved[running].frames = <<"user", "resumed">>
  BY <1>2, SafeContexts
<1>4. saved[running].frames[1] = "user"
  BY <1>3, SafeContexts
<1>5. frames' = saved[running].frames
  BY <1>1, <1>4 DEF Load, Intact
<1>6. CASE frames' = <<"user">>
  BY <1>1, <1>2, <1>6, SafeContexts DEF Home
<1>7. CASE frames' = <<"user", "resumed">>
  BY <1>1, <1>2, <1>7, SafeContexts DEF Home
<1> QED
  BY <1>3, <1>5, <1>6, <1>7

LEMMA ResumeMainHome == ASSUME CtxInv, HomeInv, ResumeMain PROVE HomeInv'
<1> SUFFICES ASSUME ~late' PROVE Home'
  BY DEF HomeInv
<1>1. /\ Last(frames) = "toMain" /\ Load(main)
      /\ UNCHANGED <<running, live, saved, main, owed, late>>
  BY DEF ResumeMain, At, Point
<1>2. Home /\ \A p \in live : Safe(saved[p])
  BY <1>1, AllSafe DEF HomeInv
<1>3. main.frames = <<"start">>
  BY <1>2 DEF Home
<1>4. frames' = <<"start">>
  BY <1>1, <1>3 DEF Load, Intact
<1>5. Len(frames') = 1 /\ Last(frames') = "start"
  BY <1>4, SingleFrame DEF Points
<1> QED
  BY <1>1, <1>2, <1>5 DEF Home

LEMMA HandlerReturnHome == ASSUME CtxInv, HomeInv, HandlerReturn PROVE HomeInv'
<1> SUFFICES ASSUME ~late' PROVE Home'
  BY DEF HomeInv
<1>1. /\ Last(frames) = "resumed" /\ frames' = Front(frames)
      /\ UNCHANGED <<running, live, saved, main, owed, late>>
  BY DEF HandlerReturn, At, Point
<1>2. Home /\ Len(frames) = 2 /\ frames[1] = "user" /\ Stack(frames)
  BY <1>1, HandlerOnUser, Known DEF HomeInv
<1>3. Stack(frames') /\ Len(frames') = Len(frames) - 1 /\ frames'[1] = "user"
  BY <1>1, <1>2, PopHandler
<1>4. Len(frames') = 1
  BY <1>2, <1>3
<1>5. Last(frames') = "user"
  BY <1>3, <1>4, TopOfStack
<1>6. \A p \in live : Safe(saved[p]) \/ p = running
  BY <1>2 DEF Home
<1> QED
  BY <1>1, <1>2, <1>4, <1>5, <1>6 DEF Home

LEMMA SyscallHome == ASSUME CtxInv, HomeInv, Syscall PROVE HomeInv'
<1> SUFFICES ASSUME ~late' PROVE Home'
  BY DEF HomeInv
<1>1. /\ Last(frames) = "user" /\ Goto("call")
      /\ saved' = [saved EXCEPT ![running].frames = frames]
      /\ owed' = owed \cup {running}
      /\ UNCHANGED <<running, live, main, late>>
  BY DEF Syscall, SaveCaller, At, Point
<1>2. /\ Home /\ Stack(frames) /\ frames \in Seq(Points)
      /\ Len(frames) = 1 /\ frames[1] = "user"
  BY <1>1, Known, TopOfStack DEF HomeInv
<1>3. running \in Procs /\ saved \in [Procs -> Contexts]
  BY <1>2, Known DEF CtxInv, StacksOK
<1>4. frames = <<"user">>
  BY <1>2, OneFrame
<1>5. /\ saved'[running].frames = <<"user">>
      /\ \A p \in live : p # running => Safe(saved'[p])
  <2>1. saved[running] \in Contexts
    BY <1>3
  <2>2. saved'[running].frames = frames
    BY <1>1, <1>3, <2>1 DEF Contexts
  <2>3. \A p \in live : p # running => saved'[p] = saved[p]
    BY <1>1, <1>3, Known
  <2>4. \A p \in live : p # running => Safe(saved[p])
    BY <1>2 DEF Home
  <2> QED
    BY <1>4, <2>2, <2>3, <2>4
<1>6. Len(frames') = Len(frames) /\ Last(frames') = "call"
  BY <1>1, <1>2, GotoPoint DEF Points
<1>7. Len(frames') = 1
  BY <1>2, <1>6
<1>8. running \in owed'
  BY <1>1
<1> QED
  BY <1>1, <1>2, <1>5, <1>6, <1>7, <1>8 DEF Home

LEMMA EnterTrapHome == ASSUME CtxInv, HomeInv, EnterTrap PROVE HomeInv'
<1> SUFFICES ASSUME ~late' PROVE Home'
  BY DEF HomeInv
<1>1. /\ Last(frames) = "call" /\ frames' = <<"trap">>
      /\ saved' = [saved EXCEPT ![running].masked = masked]
      /\ UNCHANGED <<running, live, main, owed, late>>
  BY DEF EnterTrap, At, Point
<1>2. /\ Home /\ Stack(frames) /\ Len(frames) = 1 /\ frames[1] = "call"
      /\ saved[running].frames = <<"user">> /\ running \in owed
      /\ masked \in BOOLEAN
  BY <1>1, Known, TopOfStack DEF HomeInv, Home
<1>3. running \in Procs /\ saved \in [Procs -> Contexts] /\ ~masked
  BY <1>1, <1>2, Known DEF CtxInv, StacksOK, MaskOfPoint
<1>4. Safe(saved'[running])
  <2>1. saved[running] \in Contexts
    BY <1>3
  <2>2. saved'[running] = [saved[running] EXCEPT !.masked = masked]
    BY <1>1, <1>3
  <2>3. saved'[running] = [frames |-> saved[running].frames, masked |-> FALSE]
    BY <1>2, <1>3, <2>1, <2>2 DEF Contexts, Masks
  <2> QED
    BY <1>2, <2>3 DEF Safe
<1>5. \A p \in live : p # running => Safe(saved'[p])
  <2>1. \A p \in live : p # running => saved'[p] = saved[p]
    BY <1>1, <1>3, Known
  <2>2. \A p \in live : p # running => Safe(saved[p])
    BY <1>2 DEF Home
  <2> QED
    BY <2>1, <2>2
<1>6. Len(frames') = 1 /\ Last(frames') = "trap"
  BY <1>1, SingleFrame DEF Points
<1> QED
  BY <1>1, <1>2, <1>4, <1>5, <1>6 DEF Home

LEMMA TrapHome == ASSUME CtxInv, HomeInv, Trap PROVE HomeInv'
<1> SUFFICES ASSUME ~late' PROVE Home'
  BY DEF HomeInv
<1>1. /\ Last(frames) = "trap"
      /\ Goto("trapExit") \/ Goto("interrupt")
      /\ SwitchTo \/ SpawnOne \/ ExitCaller
      /\ UNCHANGED <<main, late>>
  BY DEF Trap, LeaveTrap, At, Point
<1>2. /\ Home /\ Len(frames) = 1 /\ \A p \in live : Safe(saved[p])
      /\ saved \in [Procs -> Contexts] /\ live \subseteq Procs
  BY <1>1, AllSafe, AloneInKernel, Known DEF HomeInv
<1>3. \A p \in live' : Safe(saved'[p])
  <2>1. CASE SwitchTo
    BY <1>2, <2>1 DEF SwitchTo
  <2>2. CASE SpawnOne
    <3>1. PICK q \in Procs \ live : /\ live' = live \cup {q}
                                    /\ saved' = [saved EXCEPT ![q] = Fresh]
      BY <2>2 DEF SpawnOne
    <3> QED
      BY <1>2, <3>1, SafeContexts
  <2>3. CASE ExitCaller
    <3>1. /\ live' = live \ {running}
          /\ saved' = [saved EXCEPT ![running] = Fresh]
      BY <2>3 DEF ExitCaller
    <3> QED
      BY <1>2, <3>1
  <2> QED
    BY <1>1, <2>1, <2>2, <2>3
<1>4. CASE Goto("trapExit")
  BY <1>1, <1>2, <1>3, <1>4, HomeGoto DEF Points
<1>5. CASE Goto("interrupt")
  BY <1>1, <1>2, <1>3, <1>5, HomeGoto DEF Points
<1> QED
  BY <1>1, <1>4, <1>5

LEMMA ShutdownTrapHome == ASSUME CtxInv, HomeInv, ShutdownTrap PROVE HomeInv'
<1> SUFFICES ASSUME ~late' PROVE Home'
  BY DEF HomeInv
<1>1. /\ Last(frames) = "trap" /\ Goto("toMain")
      /\ UNCHANGED <<running, live, saved, main, late>>
  BY DEF ShutdownTrap, At, Point
<1>2. Home /\ Len(frames) = 1 /\ \A p \in live : Safe(saved[p])
  BY <1>1, AllSafe, AloneInKernel DEF HomeInv
<1> QED
  BY <1>1, <1>2, HomeGoto DEF Points

LEMMA StartHome == ASSUME CtxInv, HomeInv, Start PROVE HomeInv'
<1> SUFFICES ASSUME ~late' PROVE Home'
  BY DEF HomeInv
<1>1. Last(frames) = "start" /\ UNCHANGED <<main, owed, late>>
  BY DEF Start, At, Point
<1>2. /\ Home /\ Len(frames) = 1 /\ \A p \in live : Safe(saved[p])
      /\ saved \in [Procs -> Contexts] /\ live \subseteq Procs
  BY <1>1, AllSafe, AloneInKernel, Known DEF HomeInv
<1>3. CASE frames' = <<"exited">> /\ UNCHANGED <<running, live, saved>>
  <2>1. Len(frames') = 1 /\ Last(frames') = "exited"
    BY <1>3, SingleFrame DEF Points
  <2> QED
    BY <1>1, <1>2, <1>3, <2>1 DEF Home
<1>4. CASE \E p \in Procs \ live : /\ live' = live \cup {p}
                                   /\ saved' = [saved EXCEPT ![p] = Inherited]
                                   /\ Goto("launch")
  <2>1. Inherited = Fresh
    BY <1>1, InheritedFresh
  <2>2. \A p \in live' : Safe(saved'[p])
    BY <1>2, <1>4, <2>1, SafeContexts
  <2> QED
    BY <1>1, <1>2, <1>4, <2>2, HomeGoto DEF Points
<1> QED
  BY <1>3, <1>4 DEF Start

LEMMA HomeStep == CtxInv /\ HomeInv /\ [Next]_vars => HomeInv'
<1> SUFFICES ASSUME CtxInv, HomeInv, [Next]_vars PROVE HomeInv'
  OBVIOUS
<1>1. CASE Alarm
  BY <1>1 DEF Alarm, HomeInv, Home
<1>2. CASE Deliver
  BY <1>2, DeliverHome
<1>3. CASE Handler
  BY <1>3, TimerHandlerHome, EnterInterruptHome, ChooseHome, DispatchHome,
     ResumeHome, ResumeMainHome, HandlerReturnHome DEF Handler
<1>4. CASE Syscall
  BY <1>4, SyscallHome
<1>5. CASE EnterTrap
  BY <1>5, EnterTrapHome
<1>6. CASE Trap
  BY <1>6, TrapHome
<1>7. CASE ShutdownTrap
  BY <1>7, ShutdownTrapHome
<1>8. CASE Start
  BY <1>8, StartHome
<1>9. CASE UNCHANGED vars
  BY <1>9 DEF vars, HomeInv, Home
<1> QED
  BY <1>1, <1>2, <1>3, <1>4, <1>5, <1>6, <1>7, <1>8, <1>9 DEF Next

LEMMA HomeAlways == Spec => [](CtxInv /\ HomeInv)
<1>1. Init => HomeInv
  BY InitHome DEF HomeInv
<1>2. CtxInv /\ HomeInv /\ [Next]_vars => CtxInv' /\ HomeInv'
  BY CtxStep, HomeStep
<1>3. Init => CtxInv /\ HomeInv
  BY <1>1, InitCtx
<1> QED
  BY <1>2, <1>3, PTL DEF Spec

\* For every number of processes: until an alarm is taken outside user code,
\* each process off the CPU can be resumed in its own code, with the mask of the
\* place, and main_context is where internal_shutdown expects it.
THEOREM ContextsAlwaysIntact == Spec => []ContextsIntact
<1>1. HomeInv => ContextsIntact
  <2> SUFFICES ASSUME HomeInv, ~late
               PROVE  /\ main = [frames |-> <<"start">>, masked |-> FALSE]
                      /\ \A p \in live \ {running} : Safe(saved[p])
    BY DEF ContextsIntact, Safe
  <2> QED
    BY DEF HomeInv, Home
<1> QED
  BY HomeAlways, <1>1, PTL

\* For every number of processes: until an alarm is taken outside user code, no
\* process enters the trap without a call that no trap has served yet.
THEOREM AlwaysOneTrapPerCall == Spec => []OneTrapPerCall
<1>1. HomeInv => OneTrapPerCall
  BY DEF HomeInv, Home, OneTrapPerCall, At, Point
<1> QED
  BY HomeAlways, <1>1, PTL
=============================================================================
