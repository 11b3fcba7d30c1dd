---------------------- MODULE ThreadedResponder_proofs ----------------------
(***************************************************************************)
(* Proofs about ThreadedResponder, for any number of requests and threads. *)
(***************************************************************************)
EXTENDS ThreadedResponder, SequenceLemmas

USE DEF Main, NoRequest

-----------------------------------------------------------------------------
(* Type correctness. *)

\* Once flushQueue has taken a runner, mainRequest is a request.
Taken == mainPc \in {"move", "enqueue", "post"} => mainRequest \in Requests

LEMMA NextWorkerType == TypeOK => NextWorker \in Workers
BY ThreadAssumption DEF TypeOK, NextWorker, Workers

LEMMA TypeInit == Init => TypeOK /\ Taken
<1>1. <<>> \in Seq(Requests) /\ <<>> \in Seq(Frame)
  OBVIOUS
<1>2. 0 \in 0..MaxRequests /\ 0 \in 0..(ThreadCount - 1) /\ 1 \in Workers
  BY QueueAssumption, ThreadAssumption DEF Workers
<1> SUFFICES ASSUME Init  PROVE TypeOK /\ Taken
  OBVIOUS
<1>3. QueueTypeOK
  BY <1>1, <1>2 DEF Init, QueueInit, QueueTypeOK
<1>4. thread \in [Requests -> Workers \union {Main}]
  BY <1>1, <1>2 DEF Init
<1>5. queue \in [Workers -> Seq(Requests)]
  BY <1>1, <1>2 DEF Init
<1>6. stack \in [Workers -> Seq(Frame)]
  BY <1>1, <1>2 DEF Init
<1> QED  BY <1>1, <1>2, <1>3, <1>4, <1>5, <1>6 DEF Init, TypeOK, Taken

LEMMA TypeStep == TypeOK /\ Taken /\ [Next]_vars => TypeOK' /\ Taken'
<1> SUFFICES ASSUME TypeOK, Taken, [Next]_vars  PROVE TypeOK' /\ Taken'
  OBVIOUS
<1>1. CASE NewRequest
  <2>1. arrived + 1 \in Requests /\ arrived + 1 \in 0..MaxRequests
    BY <1>1, QueueAssumption DEF NewRequest, AddRequest, Requests, TypeOK, QueueTypeOK
  <2>2. parent' \in [Requests -> {"nobody", "queue", "responder"}]
        /\ unhandledRequests' \in Seq(Requests) /\ queueRunner' \in BOOLEAN
    <3>1. Respond(arrived + 1) \/ Ignore
      BY <1>1 DEF NewRequest, AddRequest
    <3>2. Append(unhandledRequests, arrived + 1) \in Seq(Requests)
      BY <2>1, AppendProperties DEF TypeOK, QueueTypeOK
    <3>3. CASE Respond(arrived + 1)
      BY <2>1, <3>2, <3>3 DEF Respond, Enqueued, QueueParent, TypeOK, QueueTypeOK
    <3>4. CASE Ignore
      BY <3>4 DEF Ignore, TypeOK, QueueTypeOK
    <3> QED  BY <3>1, <3>3, <3>4
  <2>3. QueueTypeOK'
    BY <1>1, <2>1, <2>2 DEF NewRequest, AddRequest, TypeOK, QueueTypeOK
  <2> QED  BY <1>1, <2>3 DEF NewRequest, TypeOK, Taken, mainVars, workerVars
<1>2. CASE FlushQueue
  BY <1>2 DEF FlushQueue, QueueRunnerTimeout, TypeOK, QueueTypeOK, Taken, workerVars
<1>3. CASE StartNext
  BY <1>3, TailType DEF StartNext, Dequeue, Dequeued, TypeOK, QueueTypeOK, Taken, workerVars
<1>4. CASE FlushDone
  BY <1>4 DEF FlushDone, TypeOK, QueueTypeOK, Taken, queueVars, workerVars
<1>5. CASE MoveToThread
  BY <1>5, NextWorkerType DEF MoveToThread, TypeOK, QueueTypeOK, Taken, queueVars, workerVars
<1>6. CASE Enqueue
  <2>1. mainRequest \in Requests
    BY <1>6 DEF Enqueue, Taken
  <2> QED  BY <1>6, <2>1, NextWorkerType DEF Enqueue, Queued, TypeOK, QueueTypeOK, Taken, queueVars
<1>7. CASE PostFlush
  <2>1. Advance \in 0..(ThreadCount - 1)
    BY ThreadAssumption DEF Advance, TypeOK
  <2> QED  BY <1>7, <2>1, NextWorkerType, SMTT(20) DEF PostFlush, TypeOK, QueueTypeOK, Taken, queueVars
<1>8. CASE Shutdown \/ QuitThread \/ JoinTimeout
  <2>1. UNCHANGED <<arrived, life, parent, responder, unhandledRequests, queueRunner>>
        /\ UNCHANGED <<thread, mainRequest, joining, nextWorker, queue, queueMutex, posted, stack>>
    BY <1>8 DEF Shutdown, QuitThread, JoinTimeout, queueVars, workerVars
  <2>2. mainPc' \in {"quit", "wait", "aborted"}
    BY <1>8 DEF Shutdown, QuitThread, JoinTimeout
  <2>3. loop' = loop \/ loop' = [loop EXCEPT ![joining] = "quitting"]
    BY <1>8 DEF Shutdown, QuitThread, JoinTimeout, workerVars
  <2>4. QueueTypeOK'
    BY <2>1 DEF TypeOK, QueueTypeOK
  <2> QED  BY <2>1, <2>2, <2>3, <2>4 DEF TypeOK, Taken
<1>9. CASE JoinThread
  <2>1. joining' \in Workers /\ mainPc' \in {"quit", "gone"}
    BY <1>9, ThreadAssumption, SMTT(20) DEF JoinThread, Workers, TypeOK
  <2>2. posted' \in [Workers -> Nat]
    BY <1>9 DEF JoinThread, TypeOK
  <2>3. QueueTypeOK'
    <3>1. CASE joining < ThreadCount
      BY <1>9, <3>1 DEF JoinThread, TypeOK, QueueTypeOK
    <3>2. CASE ~(joining < ThreadCount)
      <4>1. life' = [r \in Requests |-> IF parent[r] = "queue" THEN "deleted" ELSE life[r]]
        BY <1>9, <3>2 DEF JoinThread, DestroyQueue
      <4>2. life' \in [Requests -> {"absent", "alive", "deleted"}]
        BY <4>1 DEF TypeOK, QueueTypeOK
      <4> QED  BY <1>9, <3>2, <4>2 DEF JoinThread, DestroyQueue, TypeOK, QueueTypeOK
    <3> QED  BY <3>1, <3>2
  <2> QED  BY <1>9, <2>1, <2>2, <2>3 DEF JoinThread, TypeOK, Taken
<1>10. ASSUME NEW w \in Workers, FlushEvent(w)  PROVE TypeOK' /\ Taken'
  <2>1. [pc |-> "lock", request |-> NoRequest] \in Frame
    BY DEF Frame
  <2>2. stack' \in [Workers -> Seq(Frame)] /\ posted' \in [Workers -> Nat]
    BY <1>10, <2>1, PushType DEF FlushEvent, TypeOK
  <2> QED  BY <1>10, <2>2 DEF FlushEvent, TypeOK, QueueTypeOK, Taken, queueVars, mainVars
<1>11. ASSUME NEW w \in Workers, FlushLock(w)  PROVE TypeOK' /\ Taken'
  BY <1>11, PushType, TailType
  DEF FlushLock, AtPc, Goto, Frame, TypeOK, QueueTypeOK, Taken, queueVars, mainVars
<1>12. ASSUME NEW w \in Workers, FlushTake(w)  PROVE TypeOK' /\ Taken'
  BY <1>12, PushType, TailType
  DEF FlushTake, AtPc, Goto, Unlocked, SpawnResponder, Frame, TypeOK, QueueTypeOK, Taken, mainVars
<1>13. ASSUME NEW w \in Workers, FlushReturn(w)  PROVE TypeOK' /\ Taken'
  BY <1>13, TailType DEF FlushReturn, AtPc, TypeOK, QueueTypeOK, Taken, queueVars, mainVars
<1>14. ASSUME NEW w \in Workers, Adopt(w)  PROVE TypeOK' /\ Taken'
  BY <1>14 DEF Adopt, SetParent, TypeOK, QueueTypeOK, Taken, mainVars, workerVars
<1>15. ASSUME NEW w \in Workers, SlotReturn(w)  PROVE TypeOK' /\ Taken'
  <2>1. [pc |-> "lock", request |-> NoRequest] \in Frame
    BY DEF Frame
  <2>2. stack' \in [Workers -> Seq(Frame)]
    BY <1>15, <2>1, PushType, TailType DEF SlotReturn, AtPc, Goto, TypeOK
  <2>3. QueueTypeOK'
    BY <1>15 DEF SlotReturn, AfterSlot, TypeOK, QueueTypeOK
  <2> QED  BY <1>15, <2>2, <2>3 DEF SlotReturn, TypeOK, Taken, mainVars
<1>16. ASSUME NEW w \in Workers, AnswerAdopted(w)  PROVE TypeOK' /\ Taken'
  BY <1>16 DEF AnswerAdopted, DeleteAdopted, TypeOK, QueueTypeOK, Taken, mainVars, workerVars
<1>17. ASSUME NEW w \in Workers, ExitLoop(w)  PROVE TypeOK' /\ Taken'
  BY <1>17 DEF ExitLoop, TypeOK, QueueTypeOK, Taken, queueVars, mainVars
<1>18. CASE UNCHANGED vars
  BY <1>18 DEF vars, TypeOK, QueueTypeOK, Taken, queueVars, mainVars, workerVars
<1> QED
  BY <1>1, <1>2, <1>3, <1>4, <1>5, <1>6, <1>7, <1>8, <1>9, <1>10, <1>11, <1>12, <1>13, <1>14,
     <1>15, <1>16, <1>17, <1>18
  DEF Next, MainStep, ShutdownStep, WorkerStep, Terminated

\* The variables stay within their types, whatever the interleaving.
THEOREM TypeCorrect == Spec => [](TypeOK /\ Taken)
<1>1. Init => TypeOK /\ Taken
  BY TypeInit
<1>2. (TypeOK /\ Taken) /\ [Next]_vars => (TypeOK /\ Taken)'
  BY TypeStep
<1> QED  BY <1>1, <1>2, PTL DEF Spec

-----------------------------------------------------------------------------
(* The mutex. *)

\* MutexHolder for one worker.
MutexHolderOf(w) ==
  /\ queueMutex[w] = "main" <=> mainPc = "post" /\ w = NextWorker
  /\ queueMutex[w] = "worker" <=> stack[w] # <<>> /\ Head(stack[w]).pc = "test"
  /\ \A i \in 2..Len(stack[w]) : stack[w][i].pc = "run"

LEMMA MutexInit == Init => MutexHolder
BY DEF Init, MutexHolder

\* What the steps of a worker do to the flushQueue calls in progress: the newest of
\* them is replaced, ...
LockFrame == [pc |-> "lock", request |-> NoRequest]
TestFrame == [pc |-> "test", request |-> NoRequest]
RunFrame(r) == [pc |-> "run", request |-> r]

OthersKept(w) == \A v \in Workers : v # w => stack'[v] = stack[v]

Replaced(w, f) ==
  /\ stack[w] # <<>> /\ stack'[w] # <<>> /\ Len(stack'[w]) = Len(stack[w])
  /\ Head(stack'[w]) = f /\ stack'[w][1] = f
  /\ \A i \in 2..Len(stack[w]) : stack'[w][i] = stack[w][i]
  /\ OthersKept(w)

\* ... or a new one begins, ...
Pushed(w, f) ==
  /\ stack'[w] # <<>> /\ Len(stack'[w]) = Len(stack[w]) + 1
  /\ Head(stack'[w]) = f /\ stack'[w][1] = f
  /\ \A i \in 2..Len(stack'[w]) : stack'[w][i] = stack[w][i - 1] /\ i - 1 \in 1..Len(stack[w])
  /\ OthersKept(w)

\* ... or the newest one returns.
Popped(w) ==
  /\ stack[w] # <<>> /\ Len(stack'[w]) = Len(stack[w]) - 1
  /\ stack'[w] # <<>> => Len(stack[w]) >= 2 /\ Head(stack'[w]) = stack[w][2]
  /\ \A i \in 1..Len(stack'[w]) : stack'[w][i] = stack[w][i + 1] /\ i + 1 \in 2..Len(stack[w])
  /\ OthersKept(w)

LEMMA GotoEffect ==
  ASSUME TypeOK, NEW w \in Workers, stack[w] # <<>>, NEW f \in Frame, Goto(w, f)
  PROVE  Replaced(w, f)
<1>1. stack[w] \in Seq(Frame) /\ stack'[w] = <<f>> \o Tail(stack[w]) /\ OthersKept(w)
  BY DEF TypeOK, Goto, OthersKept
<1>2. /\ Tail(stack[w]) \in Seq(Frame) /\ Len(Tail(stack[w])) = Len(stack[w]) - 1
      /\ \A i \in 1..(Len(stack[w]) - 1) : Tail(stack[w])[i] = stack[w][i + 1]
      /\ Len(stack[w]) \in Nat /\ Len(stack[w]) > 0
  BY <1>1, TailType
<1>3. /\ stack'[w] \in Seq(Frame) /\ Len(stack'[w]) = Len(stack[w])
      /\ \A i \in 1..Len(stack[w]) : stack'[w][i] = IF i = 1 THEN f ELSE Tail(stack[w])[i - 1]
  BY <1>1, <1>2, PushType
<1>4. \A i \in 2..Len(stack[w]) : stack'[w][i] = stack[w][i]
  BY <1>2, <1>3
<1>5. stack'[w] # <<>> /\ stack'[w][1] = f /\ Head(stack'[w]) = f
  BY <1>2, <1>3, TailType
<1> QED  BY <1>1, <1>3, <1>4, <1>5 DEF Replaced

LEMMA PushEffect ==
  ASSUME TypeOK, NEW w \in Workers, NEW f \in Frame, stack' = [stack EXCEPT ![w] = <<f>> \o @]
  PROVE  Pushed(w, f)
<1>1. stack[w] \in Seq(Frame) /\ stack'[w] = <<f>> \o stack[w] /\ OthersKept(w)
  BY DEF TypeOK, OthersKept
<1>2. /\ stack'[w] \in Seq(Frame) /\ Len(stack'[w]) = Len(stack[w]) + 1
      /\ \A i \in 1..(Len(stack[w]) + 1) : stack'[w][i] = IF i = 1 THEN f ELSE stack[w][i - 1]
  BY <1>1, PushType
<1>3. Len(stack[w]) \in Nat
  BY <1>1
<1>4. stack'[w] # <<>> /\ Head(stack'[w]) = stack'[w][1]
  BY <1>2, <1>3, TailType
<1> QED  BY <1>1, <1>2, <1>3, <1>4 DEF Pushed

LEMMA PopEffect ==
  ASSUME TypeOK, NEW w \in Workers, stack[w] # <<>>, stack' = [stack EXCEPT ![w] = Tail(@)]
  PROVE  Popped(w)
<1>1. stack[w] \in Seq(Frame) /\ stack'[w] = Tail(stack[w]) /\ OthersKept(w)
  BY DEF TypeOK, OthersKept
<1>2. /\ stack'[w] \in Seq(Frame) /\ Len(stack'[w]) = Len(stack[w]) - 1 /\ Len(stack[w]) > 0
      /\ \A i \in 1..(Len(stack[w]) - 1) : stack'[w][i] = stack[w][i + 1]
  BY <1>1, TailType
<1>3. Len(stack[w]) \in Nat
  BY <1>1
<1>4. ASSUME stack'[w] # <<>>  PROVE Len(stack[w]) >= 2 /\ Head(stack'[w]) = stack[w][2]
  <2>1. Len(stack'[w]) > 0 /\ Head(stack'[w]) = stack'[w][1]
    BY <1>2, <1>4, TailType
  <2> QED  BY <2>1, <1>2, <1>3
<1> QED  BY <1>1, <1>2, <1>3, <1>4 DEF Popped

LEMMA StackEffect ==
  ASSUME TypeOK, NEW w \in Workers
  PROVE  /\ FlushEvent(w) => Pushed(w, LockFrame)
         /\ FlushLock(w) => Replaced(w, TestFrame)
         /\ FlushTake(w) => Replaced(w, RunFrame(Head(queue[w])))
         /\ FlushReturn(w) => Popped(w)
         /\ SlotReturn(w) => Replaced(w, LockFrame)
<1>1. LockFrame \in Frame /\ TestFrame \in Frame
  BY DEF LockFrame, TestFrame, Frame
<1>2. ASSUME FlushEvent(w)  PROVE Pushed(w, LockFrame)
  <2>1. stack' = [stack EXCEPT ![w] = <<LockFrame>> \o @]
    BY <1>2 DEF FlushEvent, LockFrame
  <2> QED  BY <1>1, <2>1, PushEffect
<1>3. ASSUME FlushLock(w)  PROVE Replaced(w, TestFrame)
  <2>1. Goto(w, TestFrame) /\ stack[w] # <<>>
    BY <1>3 DEF FlushLock, AtPc, TestFrame
  <2> QED  BY <1>1, <2>1, GotoEffect
<1>4. ASSUME FlushTake(w)  PROVE Replaced(w, RunFrame(Head(queue[w])))
  <2>1. Goto(w, RunFrame(Head(queue[w]))) /\ stack[w] # <<>>
    BY <1>4 DEF FlushTake, AtPc, RunFrame
  <2>2. RunFrame(Head(queue[w])) \in Frame
    BY <1>4, TailType DEF Frame, FlushTake, TypeOK, RunFrame
  <2> QED  BY <2>1, <2>2, GotoEffect
<1>5. ASSUME FlushReturn(w)  PROVE Popped(w)
  BY <1>5, PopEffect DEF FlushReturn, AtPc
<1>6. ASSUME SlotReturn(w)  PROVE Replaced(w, LockFrame)
  <2>1. Goto(w, LockFrame) /\ stack[w] # <<>>
    BY <1>6 DEF SlotReturn, AtPc, LockFrame
  <2> QED  BY <1>1, <2>1, GotoEffect
<1> QED  BY <1>2, <1>3, <1>4, <1>5, <1>6

LEMMA MutexStep == TypeOK /\ MutexHolder /\ [Next]_vars => MutexHolder'
<1> SUFFICES ASSUME TypeOK, MutexHolder, [Next]_vars  PROVE MutexHolder'
  OBVIOUS
<1>1. CASE UNCHANGED <<queueMutex, stack, nextWorker>>
           /\ (mainPc' = "post" <=> mainPc = "post")
  BY <1>1 DEF MutexHolder, NextWorker
<1>2. CASE Enqueue
  BY <1>2, NextWorkerType DEF Enqueue, MutexHolder, NextWorker, TypeOK
<1>3. CASE PostFlush
  BY <1>3, NextWorkerType DEF PostFlush, MutexHolder, NextWorker, TypeOK
<1>4. ASSUME NEW w \in Workers, FlushEvent(w)  PROVE MutexHolder'
  <2>1. \A i \in 1..Len(stack[w]) : stack[w][i].pc = "run"
    <3>1. stack[w] # <<>> => Head(stack[w]).pc = "run" /\ Head(stack[w]) = stack[w][1]
      BY <1>4, TailType DEF FlushEvent, InEventLoop, TypeOK
    <3>2. Len(stack[w]) \in Nat /\ (stack[w] = <<>> => Len(stack[w]) = 0)
      BY DEF TypeOK
    <3> QED  BY <3>1, <3>2 DEF MutexHolder
  <2>2. queueMutex[w] # "worker"
    BY <1>4 DEF FlushEvent, InEventLoop, MutexHolder
  <2>3. UNCHANGED <<queueMutex, mainPc, nextWorker>>
    BY <1>4 DEF FlushEvent, mainVars
  <2>4. Pushed(w, LockFrame)
    BY <1>4, StackEffect
  <2>5. MutexHolderOf(w)'
    BY <2>1, <2>2, <2>3, <2>4 DEF Pushed, LockFrame, MutexHolder, MutexHolderOf, NextWorker
  <2>6. \A v \in Workers : v # w => MutexHolderOf(v)'
    BY <2>3, <2>4 DEF Pushed, OthersKept, MutexHolder, MutexHolderOf, NextWorker
  <2> QED  BY <2>5, <2>6 DEF MutexHolder, MutexHolderOf
<1>5. ASSUME NEW w \in Workers, FlushLock(w)  PROVE MutexHolder'
  <2>1. Replaced(w, TestFrame)
    BY <1>5, StackEffect
  <2>2. /\ queueMutex[w] = "free" /\ queueMutex' = [queueMutex EXCEPT ![w] = "worker"]
        /\ UNCHANGED <<mainPc, nextWorker>>
    BY <1>5 DEF FlushLock, mainVars
  <2>3. MutexHolderOf(w)'
    <3>1. Head(stack'[w]).pc = "test" /\ stack'[w] # <<>>
      BY <2>1 DEF Replaced, TestFrame
    <3>2. queueMutex'[w] = "worker" /\ ~(mainPc' = "post" /\ w = NextWorker')
      BY <2>2 DEF MutexHolder, NextWorker, TypeOK
    <3>3. \A i \in 2..Len(stack'[w]) : stack'[w][i].pc = "run"
      BY <2>1 DEF Replaced, MutexHolder
    <3> QED  BY <3>1, <3>2, <3>3 DEF MutexHolderOf
  <2>4. \A v \in Workers : v # w => MutexHolderOf(v)'
    BY <2>1, <2>2, SMTT(20) DEF Replaced, OthersKept, MutexHolder, MutexHolderOf, NextWorker, TypeOK
  <2> QED  BY <2>3, <2>4 DEF MutexHolder, MutexHolderOf
<1>6. ASSUME NEW w \in Workers, FlushTake(w) \/ SlotReturn(w)  PROVE MutexHolder'
  <2>1. \E f : Replaced(w, f) /\ f.pc # "test"
    <3>1. LockFrame.pc = "lock" /\ RunFrame(Head(queue[w])).pc = "run"
      BY DEF LockFrame, RunFrame
    <3> QED  BY <1>6, <3>1, StackEffect
  <2>2. queueMutex' = [queueMutex EXCEPT ![w] = IF @ = "worker" THEN "free" ELSE @]
    <3>1. FlushTake(w) => queueMutex[w] = "worker" /\ queueMutex' = [queueMutex EXCEPT ![w] = "free"]
      BY DEF FlushTake, AtPc, Unlocked, MutexHolder
    <3>2. SlotReturn(w) => queueMutex[w] # "worker" /\ queueMutex' = queueMutex
      BY DEF SlotReturn, AtPc, MutexHolder
    <3> QED  BY <1>6, <3>1, <3>2 DEF TypeOK
  <2>3. UNCHANGED <<mainPc, nextWorker>>
    BY <1>6 DEF FlushTake, SlotReturn, mainVars
  <2>4. MutexHolderOf(w)'
    BY <2>1, <2>2, <2>3 DEF Replaced, MutexHolder, MutexHolderOf, NextWorker, TypeOK
  <2>5. \A v \in Workers : v # w => MutexHolderOf(v)'
    BY <2>1, <2>2, <2>3, SMTT(20) DEF Replaced, OthersKept, MutexHolder, MutexHolderOf, NextWorker, TypeOK
  <2> QED  BY <2>4, <2>5 DEF MutexHolder, MutexHolderOf
<1>7. ASSUME NEW w \in Workers, FlushReturn(w)  PROVE MutexHolder'
  <2>1. Popped(w) /\ Len(stack[w]) \in Nat
    BY <1>7, StackEffect DEF TypeOK
  <2>2. /\ stack'[w] # <<>> => Head(stack'[w]).pc = "run"
        /\ \A i \in 2..Len(stack'[w]) : stack'[w][i].pc = "run"
    BY <2>1, SMTT(20) DEF Popped, MutexHolder
  <2>3. /\ queueMutex[w] = "worker" /\ queueMutex' = [queueMutex EXCEPT ![w] = "free"]
        /\ mainPc' = mainPc /\ NextWorker' = NextWorker
    BY <1>7 DEF FlushReturn, AtPc, Unlocked, MutexHolder, NextWorker, mainVars
  <2>4. MutexHolderOf(w)'
    <3>1. ~(mainPc = "post" /\ w = NextWorker)
      BY <2>3 DEF MutexHolder
    <3> QED  BY <2>1, <2>2, <2>3, <3>1 DEF MutexHolderOf, TypeOK
  <2>5. \A v \in Workers : v # w => MutexHolderOf(v)'
    BY <2>1, <2>3, SMTT(20) DEF Popped, OthersKept, MutexHolder, MutexHolderOf, TypeOK
  <2> QED  BY <2>4, <2>5 DEF MutexHolder, MutexHolderOf
<1> QED
  <2>1. NewRequest \/ FlushQueue \/ StartNext \/ FlushDone \/ MoveToThread \/ ShutdownStep
          \/ Terminated \/ UNCHANGED vars
          \/ (\E w \in Workers : Adopt(w) \/ AnswerAdopted(w) \/ ExitLoop(w))
        => UNCHANGED <<queueMutex, stack, nextWorker>> /\ (mainPc' = "post" <=> mainPc = "post")
    BY DEF NewRequest, FlushQueue, StartNext, FlushDone, MoveToThread, ShutdownStep, Shutdown,
           QuitThread, JoinThread, JoinTimeout, Terminated, vars, Adopt, AnswerAdopted, ExitLoop,
           mainVars, workerVars
  <2> QED
    BY <1>1, <1>2, <1>3, <1>4, <1>5, <1>6, <1>7, <2>1 DEF Next, MainStep, WorkerStep

\* A worker never waits for the mutex it holds, nor holds it around a slot.
THEOREM MutexCorrect == Spec => []MutexHolder
<1>1. Init => TypeOK /\ Taken /\ MutexHolder
  BY TypeInit, MutexInit
<1>2. TypeOK /\ Taken /\ MutexHolder /\ [Next]_vars => (TypeOK /\ Taken /\ MutexHolder)'
  BY TypeStep, MutexStep
<1> QED  BY <1>1, <1>2, PTL DEF Spec

-----------------------------------------------------------------------------
(* No lost wakeup. *)

LEMMA WakeupInit == Init => NoLostWakeup
BY DEF Init, QueueInit, NoLostWakeup

\* The main thread: a nonempty m_unhandledRequests has its timer or flushQueue.
QueueAwake == unhandledRequests # <<>> => queueRunner \/ Flushing \/ ShuttingDown

\* A worker: a nonempty queue has someone bound to look at it.
WorkerAwake(w) ==
  queue[w] # <<>> =>
    posted[w] > 0 \/ stack[w] # <<>> \/ queueMutex[w] = "main" \/ loop[w] = "exited"

LEMMA QueueAwakeStep == TypeOK /\ QueueAwake /\ [Next]_vars => QueueAwake'
<1> SUFFICES ASSUME TypeOK, QueueAwake, [Next]_vars  PROVE QueueAwake'
  OBVIOUS
<1> USE DEF QueueAwake, Flushing, ShuttingDown
<1>1. CASE NewRequest
  BY <1>1 DEF NewRequest, AddRequest, Respond, Ignore, mainVars
<1>2. CASE MainStep
  BY <1>2 DEF MainStep, FlushQueue, QueueRunnerTimeout, StartNext, FlushDone, MoveToThread,
              Enqueue, PostFlush, queueVars
<1>3. CASE ShutdownStep
  BY <1>3 DEF ShutdownStep, Shutdown, QuitThread, JoinThread, JoinTimeout
<1>4. CASE UNCHANGED <<unhandledRequests, queueRunner, mainPc>>
  BY <1>4
<1> QED
  BY <1>1, <1>2, <1>3, <1>4
  DEF Next, WorkerStep, Terminated, vars, queueVars, mainVars, FlushEvent, FlushLock, FlushTake,
      FlushReturn, SlotReturn, AnswerAdopted, Adopt, ExitLoop

\* The threads are told to quit one after the other.
InTurn ==
  \A w \in Workers : loop[w] # "running" =>
    w < joining \/ (w = joining /\ mainPc \in {"wait", "gone", "aborted"})

LEMMA InTurnStep == TypeOK /\ InTurn /\ [Next]_vars => InTurn'
<1> SUFFICES ASSUME TypeOK, InTurn, [Next]_vars, NEW w \in Workers, loop'[w] # "running"
             PROVE  w < joining' \/ (w = joining' /\ mainPc' \in {"wait", "gone", "aborted"})
  BY DEF InTurn
<1>1. joining \in Nat /\ w \in Nat
  BY DEF TypeOK, Workers
<1>2. CASE QuitThread
  BY <1>1, <1>2 DEF QuitThread, InTurn, TypeOK
<1>3. CASE JoinThread
  BY <1>1, <1>3 DEF JoinThread, InTurn
<1>4. CASE JoinTimeout
  BY <1>4 DEF JoinTimeout, InTurn, workerVars
<1>5. ASSUME NEW v \in Workers, ExitLoop(v)  PROVE loop[w] # "running" /\ UNCHANGED mainVars
  BY <1>5 DEF ExitLoop, TypeOK
<1>6. ASSUME UNCHANGED <<loop, joining>>, mainPc \in {"wait", "gone", "aborted"} => UNCHANGED mainPc
      PROVE  w < joining' \/ (w = joining' /\ mainPc' \in {"wait", "gone", "aborted"})
  BY <1>6 DEF InTurn
<1> QED
  BY <1>2, <1>3, <1>4, <1>5, <1>6
  DEF Next, InTurn, MainStep, ShutdownStep, WorkerStep, NewRequest, FlushQueue, StartNext,
      FlushDone, MoveToThread, Enqueue, PostFlush, Shutdown, Terminated, FlushEvent, FlushLock,
      FlushTake, FlushReturn, SlotReturn, AnswerAdopted, Adopt, vars, mainVars, workerVars

LEMMA WorkerAwakeStep ==
  TypeOK /\ InTurn /\ (\A w \in Workers : WorkerAwake(w)) /\ [Next]_vars
    => \A w \in Workers : WorkerAwake(w)'
<1> SUFFICES ASSUME TypeOK, InTurn, [Next]_vars, NEW w \in Workers, WorkerAwake(w)
             PROVE  WorkerAwake(w)'
  OBVIOUS
<1> USE DEF WorkerAwake
<1>1. CASE UNCHANGED workerVars
  BY <1>1 DEF workerVars
<1>2. CASE Enqueue
  BY <1>2, NextWorkerType DEF Enqueue, TypeOK
<1>3. CASE PostFlush
  BY <1>3, NextWorkerType DEF PostFlush, TypeOK
<1>4. CASE QuitThread \/ JoinThread
  <2>1. CASE QuitThread
    <3>1. loop[joining] = "running"
      BY <2>1 DEF QuitThread, InTurn, TypeOK, Workers
    <3> QED  BY <2>1, <3>1 DEF QuitThread, TypeOK
  <2>2. CASE JoinThread
    BY <2>2 DEF JoinThread, Joined, TypeOK
  <2> QED  BY <1>4, <2>1, <2>2
<1>5. ASSUME NEW v \in Workers, FlushEvent(v) \/ FlushLock(v) \/ SlotReturn(v)
      PROVE  WorkerAwake(w)'
  <2>1. stack'[v] # <<>> /\ OthersKept(v)
    BY <1>5, StackEffect DEF Pushed, Replaced
  <2>2. UNCHANGED <<queue, loop>> /\ (v # w => UNCHANGED <<posted[w], queueMutex[w]>>)
    BY <1>5 DEF FlushEvent, FlushLock, SlotReturn, TypeOK
  <2> QED  BY <2>1, <2>2 DEF OthersKept
<1>6. ASSUME NEW v \in Workers, FlushTake(v)  PROVE WorkerAwake(w)'
  <2>1. stack'[v] # <<>> /\ OthersKept(v)
    BY <1>6, StackEffect DEF Replaced
  <2>2. UNCHANGED <<posted, loop>> /\ (v # w => UNCHANGED <<queue[w], queueMutex[w]>>)
    BY <1>6 DEF FlushTake, Unlocked, TypeOK
  <2> QED  BY <2>1, <2>2 DEF OthersKept
<1>7. ASSUME NEW v \in Workers, FlushReturn(v)  PROVE WorkerAwake(w)'
  <2>1. queue[v] = <<>> /\ UNCHANGED <<queue, posted, loop>> /\ OthersKept(v)
    BY <1>7, StackEffect DEF FlushReturn, Popped
  <2>2. v # w => queueMutex'[w] = queueMutex[w]
    BY <1>7 DEF FlushReturn, TypeOK
  <2> QED  BY <2>1, <2>2 DEF OthersKept
<1>8. ASSUME NEW v \in Workers, ExitLoop(v)  PROVE WorkerAwake(w)'
  BY <1>8 DEF ExitLoop, TypeOK
<1> QED
  BY <1>1, <1>2, <1>3, <1>4, <1>5, <1>6, <1>7, <1>8
  DEF Next, MainStep, ShutdownStep, WorkerStep, NewRequest, FlushQueue, StartNext, FlushDone,
      MoveToThread, Shutdown, JoinTimeout, AnswerAdopted, Adopt, Terminated, vars

\* Nothing that is queued, in the main thread or for a worker, is ever left without
\* a timer, a posted call or a flush in progress that will look at it.
THEOREM WakeupCorrect == Spec => []NoLostWakeup
<1>1. Init => TypeOK /\ Taken /\ InTurn /\ NoLostWakeup
  BY TypeInit, WakeupInit DEF Init, InTurn
<1>2. TypeOK /\ Taken /\ InTurn /\ NoLostWakeup /\ [Next]_vars => (TypeOK /\ Taken /\ InTurn /\ NoLostWakeup)'
  <2> SUFFICES ASSUME TypeOK, Taken, InTurn, NoLostWakeup, [Next]_vars
               PROVE  (TypeOK /\ Taken /\ InTurn /\ NoLostWakeup)'
    OBVIOUS
  <2>1. QueueAwake /\ \A w \in Workers : WorkerAwake(w)
    BY DEF NoLostWakeup, QueueAwake, WorkerAwake
  <2>2. QueueAwake' /\ \A w \in Workers : WorkerAwake(w)'
    BY <2>1, QueueAwakeStep, WorkerAwakeStep
  <2>3. NoLostWakeup'
    BY <2>2 DEF NoLostWakeup, QueueAwake, WorkerAwake
  <2> QED  BY <2>3, TypeStep, InTurnStep
<1> QED  BY <1>1, <1>2, PTL DEF Spec

-----------------------------------------------------------------------------
(* Where each request is. *)

\* The threads are joined after the main thread's loop has ended.
NotJoining == mainPc \in {"loop", "flush", "move", "enqueue", "post"} => joining = 1

\* A call of flushQueue that runs a slot has a request.
SlotHasRequest ==
  \A w \in Workers : \A i \in 1..Len(stack[w]) :
    stack[w][i].pc = "run" => stack[w][i].request \in Requests

IInv ==
  /\ TypeOK /\ Taken /\ MutexHolder /\ InTurn /\ NotJoining
  /\ SlotHasRequest /\ Placement /\ OwnThread

WorkerAction(w) == WorkerStep(w) \/ Adopt(w) \/ ExitLoop(w)

Kept(r) ==
  /\ life'[r] = life[r] /\ parent'[r] = parent[r]
  /\ responder'[r] = responder[r] /\ thread'[r] = thread[r]

\* A request that a worker may change: the next one in its queue, or one whose slot has begun.
InHands(w, r) ==
  /\ thread[r] = w /\ life[r] = "alive" /\ parent[r] # "queue"
  /\ \/ queue[w] # <<>> /\ r = queue[w][1] /\ responder[r] = "none"
     \/ responder[r] # "none"

\* What happens to it.
Handled(r) ==
  /\ thread'[r] = thread[r] /\ responder'[r] # "none"
  /\ parent'[r] = parent[r] \/ parent'[r] = "responder"
  /\ life'[r] \in {"alive", "deleted"}
  /\ responder[r] = "none" => life'[r] = "alive"

\* At most one request changes.
OneHandled ==
  (\A r \in Requests : Kept(r)) \/ \E q \in Requests : \A r \in Requests : r # q => Kept(r)

LEMMA CurrentRequest ==
  ASSUME IInv, NEW w \in Workers, AtPc(w, "run")
  PROVE  /\ Current(w) \in Requests /\ stack[w][1] = RunFrame(Current(w)) /\ 1 \in 1..Len(stack[w])
         /\ thread[Current(w)] = w /\ life[Current(w)] = "alive"
         /\ parent[Current(w)] # "queue" /\ responder[Current(w)] = "alive"
<1>1. stack[w] \in Seq(Frame) /\ stack[w] # <<>> /\ Head(stack[w]).pc = "run"
  BY DEF IInv, TypeOK, AtPc
<1>2. Head(stack[w]) = stack[w][1] /\ 1 \in 1..Len(stack[w]) /\ stack[w][1] \in Frame
  BY <1>1, TailType
<1>3. stack[w][1] = RunFrame(Current(w))
  BY <1>1, <1>2 DEF Frame, RunFrame, Current
<1>4. Current(w) \in Requests
  BY <1>1, <1>2 DEF IInv, SlotHasRequest, Current
<1> QED  BY <1>1, <1>2, <1>3, <1>4 DEF IInv, OwnThread, Current

LEMMA WorkerEffect ==
  ASSUME IInv, NEW w \in Workers, WorkerAction(w)
  PROVE  /\ UNCHANGED <<arrived, unhandledRequests, thread, mainPc, mainRequest, nextWorker, joining>>
         /\ \A r \in Requests : Kept(r) \/ (InHands(w, r) /\ Handled(r))
        /\ OneHandled
<1> USE DEF Kept, OneHandled
<1>0. QueueTypeOK
  BY DEF IInv, TypeOK
<1>1. CASE UNCHANGED <<queueVars, thread, mainVars>>
  BY <1>1 DEF queueVars, mainVars
<1>2. CASE FlushTake(w)
  <2> DEFINE q == Head(queue[w])
  <2>1. queue[w] # <<>> /\ q = queue[w][1] /\ 1 \in 1..Len(queue[w]) /\ q \in Requests
    BY <1>2, TailType DEF FlushTake, IInv, TypeOK
  <2>2. InHands(w, q)
    BY <2>1 DEF IInv, OwnThread, InHands
  <2>3. /\ responder' = [responder EXCEPT ![q] = "alive"]
        /\ UNCHANGED <<arrived, life, parent, unhandledRequests, thread, mainVars>>
    BY <1>2 DEF FlushTake, SpawnResponder
  <2>4. Handled(q) /\ \A r \in Requests : r # q => Kept(r)
    BY <2>1, <2>2, <2>3, <1>0 DEF QueueTypeOK, InHands, Handled
  <2> QED  BY <2>2, <2>3, <2>4 DEF mainVars
<1>3. CASE Adopt(w)
  <2>1. AtPc(w, "run") /\ parent' = [parent EXCEPT ![Current(w)] = "responder"]
        /\ UNCHANGED <<arrived, life, responder, unhandledRequests, thread, mainVars>>
    BY <1>3 DEF Adopt, SetParent
  <2>2. Current(w) \in Requests /\ InHands(w, Current(w))
    BY <2>1, CurrentRequest DEF InHands
  <2>3. Handled(Current(w)) /\ \A r \in Requests : r # Current(w) => Kept(r)
    BY <2>1, <2>2, CurrentRequest, <1>0 DEF QueueTypeOK, Handled
  <2> QED  BY <2>1, <2>2, <2>3 DEF mainVars
<1>4. CASE SlotReturn(w)
  <2>1. AtPc(w, "run") /\ AfterSlot(Current(w))
        /\ UNCHANGED <<arrived, parent, unhandledRequests, thread, mainVars>>
    BY <1>4 DEF SlotReturn
  <2>2. Current(w) \in Requests /\ InHands(w, Current(w)) /\ responder[Current(w)] = "alive"
    BY <2>1, CurrentRequest DEF InHands
  <2>3. Handled(Current(w)) /\ \A r \in Requests : r # Current(w) => Kept(r)
    BY <2>1, <2>2, <1>0 DEF QueueTypeOK, Handled, AfterSlot, InHands
  <2> QED  BY <2>1, <2>2, <2>3 DEF mainVars
<1>5. CASE AnswerAdopted(w)
  <2>1. PICK q \in Requests : thread[q] = w /\ DeleteAdopted(q)
    BY <1>5 DEF AnswerAdopted
  <2>2. /\ life' = [life EXCEPT ![q] = "deleted"]
        /\ responder' = responder \/ responder' = [responder EXCEPT ![q] = "deleted"]
        /\ UNCHANGED <<arrived, parent, unhandledRequests, thread, mainVars>>
    BY <1>5, <2>1 DEF AnswerAdopted, DeleteAdopted
  <2>3. InHands(w, q)
    BY <2>1 DEF DeleteAdopted, IInv, Placement, Begun, Owners, InHands
  <2>4. life'[q] = "deleted" /\ responder'[q] # "none" /\ responder[q] # "none"
    BY <2>1, <2>2, <2>3, <1>0 DEF QueueTypeOK, DeleteAdopted, IInv, Placement, Begun, Owners
  <2>5. \A r \in Requests : r # q => Kept(r)
    BY <2>2, <1>0 DEF QueueTypeOK
  <2> QED  BY <2>2, <2>3, <2>4, <2>5 DEF mainVars, Handled
<1> QED
  BY <1>1, <1>2, <1>3, <1>4, <1>5
  DEF WorkerAction, WorkerStep, FlushEvent, FlushLock, FlushReturn, ExitLoop

\* OwnThread, place by place.
OwnUnhandled ==
  mainPc # "gone" =>
    \A i \in 1..Len(unhandledRequests) :
      LET r == unhandledRequests[i] IN
      life[r] = "alive" /\ parent[r] = "queue" /\ responder[r] = "none" /\ thread[r] = Main
OwnQueue ==
  \A w \in Workers : \A i \in 1..Len(queue[w]) :
    LET r == queue[w][i] IN
    life[r] = "alive" /\ parent[r] = "nobody" /\ responder[r] = "none" /\ thread[r] = w
OwnSlot ==
  \A w \in Workers : \A i \in 1..Len(stack[w]) :
    LET r == stack[w][i].request IN
    stack[w][i].pc = "run" =>
      life[r] = "alive" /\ parent[r] # "queue" /\ responder[r] = "alive" /\ thread[r] = w

LEMMA Members ==
  ASSUME TypeOK
  PROVE  /\ Len(unhandledRequests) \in Nat
         /\ \A i \in 1..Len(unhandledRequests) : unhandledRequests[i] \in Requests
         /\ \A w \in Workers : Len(queue[w]) \in Nat
         /\ \A w \in Workers : \A i \in 1..Len(queue[w]) : queue[w][i] \in Requests
         /\ \A w \in Workers : Len(stack[w]) \in Nat
         /\ \A w \in Workers : \A i \in 1..Len(stack[w]) : stack[w][i] \in Frame
BY ElementOfSeq, LenProperties DEF TypeOK, QueueTypeOK

LEMMA ArrivalStep ==
  ASSUME IInv, Next
  PROVE  Arrival' /\ OwnUnhandled'
<1> USE DEF Kept
<1>0. /\ TypeOK /\ QueueTypeOK /\ NextWorker \in Workers
      /\ NotArrived /\ UnhandledArrived /\ UnhandledInOrder /\ UnhandledLast /\ OwnUnhandled
      /\ arrived \in Nat /\ \A r \in Requests : r \in Nat
  BY NextWorkerType, QueueAssumption
  DEF IInv, TypeOK, QueueTypeOK, Placement, Arrival, OwnThread, OwnUnhandled, Requests
<1>1. CASE NewRequest
  <2> DEFINE q == arrived + 1
  <2>1. /\ mainPc = "loop" /\ arrived' = q /\ q \in Requests
        /\ UNCHANGED <<mainPc, thread, responder>>
    BY <1>0, <1>1, QueueAssumption DEF NewRequest, AddRequest, QueueTypeOK, Requests, mainVars
  <2>2. life[q] = "absent" /\ parent[q] = "nobody" /\ responder[q] = "none" /\ thread[q] = Main
    BY <1>0, <2>1 DEF NotArrived
  <2>3. \A r \in Requests : thread[r] # Main => r < q
    BY <1>0, <2>1 DEF NotArrived
  <2>4. \A r \in Requests : r # q => Kept(r)
    BY <1>0, <1>1, <2>1 DEF NewRequest, AddRequest, Respond, Ignore, QueueTypeOK, TypeOK
  <2>5. NotArrived'
    BY <1>0, <2>1, <2>4 DEF NotArrived
  <2>6. CASE Respond(q)
    <3>1. Appended(unhandledRequests, q, unhandledRequests')
      BY <1>0, <2>1, <2>6, AppendEffect DEF Respond, Enqueued, QueueTypeOK
    <3>2. life'[q] = "alive" /\ parent'[q] = "queue"
      BY <1>0, <1>1, <2>1, <2>6 DEF NewRequest, AddRequest, Respond, QueueParent, QueueTypeOK
    <3>3. UnhandledArrived' /\ UnhandledInOrder'
      <4>1. \A i \in 1..Len(unhandledRequests) : unhandledRequests[i] < q
        BY <1>0, <2>1, Members DEF UnhandledArrived
      <4>2. UnhandledArrived'
        BY <1>0, <2>1, <3>1, <4>1, Members, AppendedElements DEF UnhandledArrived
      <4>3. UnhandledInOrder'
        BY <1>0, <3>1, <4>1, AppendedElements DEF UnhandledInOrder
      <4> QED  BY <4>2, <4>3
    <3>4. UnhandledLast'
      BY <1>0, <2>1, <2>3, <3>1, Members DEF Appended, UnhandledLast
    <3>5. OwnUnhandled'
      BY <1>0, <2>1, <2>2, <2>4, <3>1, <3>2, Members DEF Appended, OwnUnhandled, UnhandledArrived
    <3> QED  BY <2>5, <3>3, <3>4, <3>5 DEF Arrival
  <2>7. CASE Ignore
    <3>1. UnhandledArrived' /\ UnhandledInOrder' /\ UnhandledLast' /\ unhandledRequests' = unhandledRequests
      BY <1>0, <2>1, <2>7, Members DEF Ignore, UnhandledArrived, UnhandledInOrder, UnhandledLast
    <3>2. OwnUnhandled'
      BY <1>0, <2>1, <2>4, <3>1, Members DEF OwnUnhandled, UnhandledArrived
    <3> QED  BY <2>5, <3>1, <3>2 DEF Arrival
  <2> QED  BY <1>1, <2>6, <2>7 DEF NewRequest, AddRequest
<1>2. CASE StartNext
  <2> DEFINE q == Head(unhandledRequests)
  <2>1. /\ Dropped(unhandledRequests, unhandledRequests') /\ q = unhandledRequests[1] /\ q \in Requests
        /\ mainPc = "flush" /\ mainPc' = "move" /\ mainRequest' = q
        /\ parent' = [parent EXCEPT ![q] = "nobody"]
        /\ UNCHANGED <<arrived, life, responder, thread>>
    BY <1>0, <1>2, DropEffect DEF StartNext, Dequeue, Dequeued, QueueTypeOK
  <2>2. \A i \in 1..Len(unhandledRequests') : q < unhandledRequests'[i] /\ i + 1 \in 1..Len(unhandledRequests)
    BY <1>0, <2>1 DEF Dropped, UnhandledInOrder
  <2>3. \A r \in Requests : parent'[r] = IF r = q THEN "nobody" ELSE parent[r]
    BY <1>0, <2>1 DEF QueueTypeOK
  <2>4. NotArrived'
    BY <1>0, <2>1, <2>3 DEF NotArrived
  <2>5. UnhandledArrived' /\ UnhandledInOrder'
    <3>1. UnhandledArrived'
      BY <1>0, <2>1, DroppedElements DEF UnhandledArrived
    <3>2. \A i, j \in 1..Len(unhandledRequests') : i < j => i + 1 < j + 1
      OBVIOUS
    <3>3. UnhandledInOrder'
      BY <1>0, <2>1, <3>2, DroppedElements DEF UnhandledInOrder
    <3> QED  BY <3>1, <3>3
  <2>6. UnhandledLast'
    BY <1>0, <2>1, <2>2 DEF Dropped, UnhandledLast
  <2>7. OwnUnhandled'
    <3>1. ASSUME NEW i \in 1..Len(unhandledRequests'), NEW r, r = unhandledRequests'[i]
          PROVE  life[r] = "alive" /\ parent'[r] = "queue" /\ responder[r] = "none" /\ thread[r] = Main
      <4>1. i + 1 \in 1..Len(unhandledRequests) /\ r = unhandledRequests[i + 1]
        BY <2>1, <2>2, <3>1, DroppedElements
      <4>2. r \in Requests
        BY <1>0, <4>1, Members
      <4>3. q < r /\ q \in Requests
        BY <2>1, <2>2, <3>1
      <4>4. r # q
        BY <1>0, <4>3
      <4> QED  BY <1>0, <2>1, <2>3, <4>1, <4>2, <4>4 DEF OwnUnhandled
    <3> QED  BY <2>1, <3>1 DEF OwnUnhandled
  <2> QED  BY <2>4, <2>5, <2>6, <2>7 DEF Arrival
<1>3. CASE MoveToThread
  <2>1. /\ mainPc = "move" /\ mainPc' = "enqueue" /\ mainRequest \in Requests
        /\ \A r \in Requests : r # mainRequest => thread'[r] = thread[r]
        /\ UNCHANGED <<arrived, life, parent, responder, unhandledRequests>>
    BY <1>0, <1>3 DEF MoveToThread, IInv, Taken, TypeOK, queueVars
  <2>2. mainRequest <= arrived
    BY <2>1 DEF IInv, Placement, HandedOver, Dequeueing
  <2>3. \A i \in 1..Len(unhandledRequests) : mainRequest < unhandledRequests[i]
    BY <1>0, <2>1 DEF UnhandledLast
  <2>4. NotArrived' /\ UnhandledArrived' /\ UnhandledInOrder'
    BY <1>0, <2>1, <2>2 DEF NotArrived, UnhandledArrived, UnhandledInOrder
  <2>5. UnhandledLast'
    BY <1>0, <2>1, <2>3 DEF UnhandledLast
  <2>6. OwnUnhandled'
    BY <1>0, <2>1, <2>3, Members DEF OwnUnhandled
  <2> QED  BY <2>4, <2>5, <2>6 DEF Arrival
<1>4. CASE JoinThread
  <2>1. /\ UNCHANGED <<arrived, parent, responder, unhandledRequests, thread>>
        /\ mainPc = "wait" /\ mainPc' \in {"quit", "gone"}
        /\ mainPc' = "gone" \/ life' = life
        /\ \A r \in Requests : parent[r] # "queue" => life'[r] = life[r]
    BY <1>4 DEF JoinThread, DestroyQueue
  <2>2. NotArrived'
    BY <1>0, <2>1 DEF NotArrived
  <2>3. UnhandledArrived' /\ UnhandledInOrder' /\ UnhandledLast'
    BY <1>0, <2>1 DEF UnhandledArrived, UnhandledInOrder, UnhandledLast
  <2>4. OwnUnhandled'
    BY <1>0, <2>1 DEF OwnUnhandled
  <2> QED  BY <2>2, <2>3, <2>4 DEF Arrival
<1>5. CASE /\ UNCHANGED <<arrived, life, parent, responder, unhandledRequests, thread>>
           /\ mainPc' # "move" \/ UNCHANGED <<mainPc, mainRequest>>
           /\ mainPc = "gone" => mainPc' = "gone"
  <2>1. NotArrived' /\ UnhandledArrived' /\ UnhandledInOrder'
    BY <1>0, <1>5 DEF NotArrived, UnhandledArrived, UnhandledInOrder
  <2>2. UnhandledLast' /\ OwnUnhandled'
    BY <1>0, <1>5 DEF UnhandledLast, OwnUnhandled
  <2> QED  BY <2>1, <2>2 DEF Arrival
<1>6. ASSUME NEW w \in Workers, WorkerAction(w)  PROVE Arrival' /\ OwnUnhandled'
  <2>1. /\ UNCHANGED <<arrived, unhandledRequests, thread, mainPc, mainRequest>>
        /\ \A r \in Requests : Kept(r) \/ InHands(w, r)
    BY <1>6, WorkerEffect
  <2>2. \A r \in Requests : InHands(w, r) => r <= arrived /\ thread[r] # Main
    BY <1>0 DEF InHands, Workers, NotArrived
  <2>3. NotArrived'
    BY <1>0, <2>1, <2>2 DEF NotArrived
  <2>4. UnhandledArrived' /\ UnhandledInOrder' /\ UnhandledLast'
    BY <1>0, <2>1 DEF UnhandledArrived, UnhandledInOrder, UnhandledLast
  <2>5. OwnUnhandled'
    BY <1>0, <2>1, <2>2, Members DEF OwnUnhandled
  <2> QED  BY <2>3, <2>4, <2>5 DEF Arrival
<1> QED
  BY <1>1, <1>2, <1>3, <1>4, <1>5, <1>6
  DEF Next, MainStep, ShutdownStep, WorkerAction, FlushQueue, FlushDone, Enqueue, PostFlush, Shutdown,
      QuitThread, JoinTimeout, Terminated, vars, queueVars, mainVars

LEMMA HandedOverStep ==
  ASSUME IInv, Next
  PROVE  HandedOver'
<1> USE DEF Kept
<1>0. /\ TypeOK /\ QueueTypeOK /\ NextWorker \in Workers
      /\ Dequeueing /\ MovingRequest /\ MovingLast /\ OwnUnhandled /\ OwnQueue
      /\ arrived \in Nat /\ \A r \in Requests : r \in Nat
      /\ \A w \in Workers : w # Main
  BY NextWorkerType, QueueAssumption, SMTT(20)
  DEF IInv, TypeOK, QueueTypeOK, Placement, HandedOver, OwnThread, OwnUnhandled, OwnQueue, Requests,
      Workers
<1>1. CASE mainPc' \notin {"move", "enqueue", "post"}
  BY <1>1 DEF HandedOver, Dequeueing, MovingRequest, MovingLast, Moving
<1>2. CASE StartNext
  <2> DEFINE q == Head(unhandledRequests)
  <2>1. /\ q = unhandledRequests[1] /\ q \in Requests /\ 1 \in 1..Len(unhandledRequests)
        /\ mainPc = "flush" /\ mainPc' = "move" /\ mainRequest' = q
        /\ parent' = [parent EXCEPT ![q] = "nobody"]
        /\ UNCHANGED <<arrived, life, responder, thread, queue, nextWorker>>
    BY <1>0, <1>2, TailType DEF StartNext, Dequeue, QueueTypeOK, workerVars
  <2>2. Dequeueing'
    BY <2>1 DEF Dequeueing, IInv, Placement, Arrival, UnhandledArrived
  <2>3. MovingRequest'
    BY <1>0, <2>1 DEF MovingRequest, OwnUnhandled, QueueTypeOK
  <2>4. \A r \in Requests : thread[r] # Main => r < q
    BY <2>1 DEF IInv, Placement, Arrival, UnhandledLast
  <2>5. MovingLast'
    BY <1>0, <2>1, <2>4, Members DEF MovingLast, OwnQueue, NextWorker
  <2> QED  BY <2>2, <2>3, <2>5 DEF HandedOver
<1>3. CASE MoveToThread
  <2>1. /\ mainPc = "move" /\ mainPc' = "enqueue" /\ mainRequest \in Requests
        /\ thread' = [thread EXCEPT ![mainRequest] = NextWorker]
        /\ UNCHANGED <<arrived, life, parent, responder, queue, mainRequest, nextWorker, NextWorker>>
    BY <1>0, <1>3 DEF MoveToThread, IInv, Taken, TypeOK, queueVars, workerVars, NextWorker
  <2> QED  BY <1>0, <2>1 DEF HandedOver, Dequeueing, MovingRequest, MovingLast, Moving, TypeOK
<1>4. CASE Enqueue
  BY <1>0, <1>4 DEF Enqueue, queueVars, HandedOver, Dequeueing, MovingRequest, MovingLast, Moving
<1>5. ASSUME NEW w \in Workers, WorkerAction(w), Moving  PROVE HandedOver'
  <2>1. /\ UNCHANGED <<arrived, thread, mainPc, mainRequest, nextWorker, NextWorker>>
        /\ \A r \in Requests : Kept(r) \/ InHands(w, r)
    BY <1>5, WorkerEffect DEF NextWorker
  <2>2. mainRequest \in Requests
    BY <1>0, <1>5 DEF Dequeueing, Moving
  <2>3. ~InHands(w, mainRequest)
    <3>1. SUFFICES ASSUME queue[w] # <<>>, mainRequest = queue[w][1], thread[mainRequest] = w  PROVE FALSE
      BY <1>0, <1>5 DEF InHands, MovingRequest
    <3>2. w = NextWorker /\ 1 \in 1..Len(queue[w])
      BY <1>0, <1>5, <3>1, TailType DEF MovingRequest, TypeOK
    <3> QED  BY <1>0, <1>5, <2>2, <3>1, <3>2 DEF MovingLast
  <2>4. \A i \in 1..Len(queue'[NextWorker]) : \E j \in 1..Len(queue[NextWorker]) :
          queue'[NextWorker][i] = queue[NextWorker][j]
    <3>1. CASE UNCHANGED queue
      BY <3>1
    <3>2. CASE FlushTake(w) /\ w = NextWorker
      <4>1. Dropped(queue[w], queue'[w])
        BY <1>0, <3>2, DropEffect DEF FlushTake, TypeOK
      <4> QED  BY <3>2, <4>1, DroppedElements
    <3>3. CASE FlushTake(w) /\ w # NextWorker
      BY <1>0, <3>3 DEF FlushTake, TypeOK
    <3> QED
      BY <1>5, <3>1, <3>2, <3>3
      DEF WorkerAction, WorkerStep, FlushEvent, FlushLock, FlushReturn, SlotReturn, AnswerAdopted, Adopt,
          ExitLoop, workerVars
  <2>5. Dequeueing' /\ MovingRequest'
    BY <1>0, <2>1, <2>2, <2>3 DEF Dequeueing, MovingRequest, Moving
  <2>6. MovingLast'
    BY <1>0, <1>5, <2>1, <2>2, <2>4 DEF MovingLast, Moving
  <2> QED  BY <2>5, <2>6 DEF HandedOver
<1>6. ASSUME NEW w \in Workers, WorkerAction(w), ~Moving  PROVE HandedOver'
  BY <1>0, <1>6, WorkerEffect DEF Moving, HandedOver, Dequeueing, MovingRequest, MovingLast
<1>7. CASE UNCHANGED vars
  BY <1>0, <1>7 DEF vars, queueVars, mainVars, workerVars, HandedOver, Dequeueing, MovingRequest,
                    MovingLast, Moving, NextWorker
<1> QED
  BY <1>1, <1>2, <1>3, <1>4, <1>5, <1>6, <1>7
  DEF Next, MainStep, ShutdownStep, WorkerAction, NewRequest, FlushQueue, FlushDone, PostFlush,
      Shutdown, QuitThread, JoinThread, JoinTimeout, Terminated, mainVars

\* The queues of the workers.
QueueInv == OwnQueue /\ \A w \in Workers : QueueInOrder(w) /\ IsQueued(w)

\* No request that lives in a worker is touched.
WorkersKept == \A r \in Requests : thread[r] # Main => Kept(r)

LEMMA QueueKept ==
  ASSUME IInv, WorkersKept, UNCHANGED queue,
         \A r \in Requests : thread'[r] # thread[r] =>
           mainPc' = "enqueue" /\ r = mainRequest' /\ responder'[r] = "none",
         mainPc = "enqueue" => mainPc' = "enqueue" /\ mainRequest' = mainRequest
  PROVE  QueueInv'
<1>1. TypeOK /\ OwnQueue /\ \A w \in Workers : QueueInOrder(w) /\ IsQueued(w) /\ w # Main
  BY DEF IInv, Placement, InOrder, OwnThread, OwnQueue, Workers
<1>2. OwnQueue'
  BY <1>1, Members DEF OwnQueue, WorkersKept, Kept
<1>3. \A r \in Requests, w \in Workers : thread'[r] = w =>
        \/ thread[r] = w /\ responder'[r] = responder[r]
        \/ mainPc' = "enqueue" /\ r = mainRequest' /\ responder'[r] = "none"
  BY <1>1 DEF WorkersKept, Kept
<1>4. ASSUME NEW w \in Workers  PROVE QueueInOrder(w)'
  BY <1>1, <1>3 DEF QueueInOrder
<1>5. ASSUME NEW w \in Workers  PROVE IsQueued(w)'
  BY <1>1, <1>3 DEF IsQueued
<1> QED  BY <1>2, <1>4, <1>5 DEF QueueInv

LEMMA QueueStep ==
  ASSUME IInv, Next
  PROVE  QueueInv'
<1> USE DEF Kept
<1>0. /\ TypeOK /\ QueueTypeOK /\ NextWorker \in Workers
      /\ OwnQueue /\ \A w \in Workers : QueueInOrder(w) /\ IsQueued(w) /\ w # Main
      /\ arrived \in Nat /\ \A r \in Requests : r \in Nat
  BY NextWorkerType, QueueAssumption, SMTT(20)
  DEF IInv, TypeOK, QueueTypeOK, Placement, InOrder, OwnThread, OwnQueue, Requests, Workers
<1>1. CASE NewRequest
  <2>1. /\ thread[arrived + 1] = Main /\ \A r \in Requests : r # arrived + 1 => Kept(r)
        /\ mainPc = "loop" /\ UNCHANGED <<thread, queue>>
    BY <1>0, <1>1, QueueAssumption
    DEF NewRequest, AddRequest, Respond, Ignore, QueueTypeOK, TypeOK, IInv, Placement, Arrival, NotArrived,
        Requests, workerVars
  <2> QED  BY <2>1, QueueKept DEF WorkersKept
<1>2. CASE StartNext
  <2> DEFINE q == Head(unhandledRequests)
  <2>1. q = unhandledRequests[1] /\ q \in Requests /\ 1 \in 1..Len(unhandledRequests)
    BY <1>0, <1>2, TailType DEF StartNext, Dequeue, QueueTypeOK
  <2>2. thread[q] = Main
    BY <1>2, <2>1 DEF StartNext, IInv, OwnThread
  <2>3. WorkersKept /\ UNCHANGED <<thread, queue>> /\ mainPc = "flush"
    BY <1>0, <1>2, <2>1, <2>2 DEF WorkersKept, StartNext, Dequeue, QueueTypeOK, workerVars
  <2> QED  BY <2>3, QueueKept
<1>3. CASE MoveToThread
  <2>1. /\ mainPc = "move" /\ mainPc' = "enqueue" /\ mainRequest \in Requests
        /\ thread' = [thread EXCEPT ![mainRequest] = NextWorker]
        /\ UNCHANGED <<life, parent, responder, queue, mainRequest>>
    BY <1>3 DEF MoveToThread, IInv, Taken, queueVars, workerVars
  <2>2. thread[mainRequest] = Main /\ responder[mainRequest] = "none"
    BY <2>1 DEF IInv, Placement, HandedOver, MovingRequest, Moving
  <2> QED  BY <1>0, <2>1, <2>2, QueueKept DEF WorkersKept, TypeOK
<1>4. CASE Enqueue
  <2>0. PICK w \in Workers : w = NextWorker
    BY <1>0
  <2>1. /\ mainPc = "enqueue" /\ mainRequest \in Requests
        /\ UNCHANGED <<life, parent, responder, thread>>
        /\ \A v \in Workers : v # w => queue'[v] = queue[v]
    BY <1>0, <1>4, <2>0 DEF Enqueue, IInv, Taken, queueVars, TypeOK
  <2>2. Appended(queue[w], mainRequest, queue'[w])
    <3>1. queue'[w] = Append(queue[w], mainRequest) /\ queue[w] \in Seq(Requests)
      BY <1>0, <1>4, <2>0 DEF Enqueue, Queued, TypeOK
    <3> QED  BY <2>1, <3>1, AppendEffect
  <2>3. /\ life[mainRequest] = "alive" /\ parent[mainRequest] = "nobody"
        /\ responder[mainRequest] = "none" /\ thread[mainRequest] = w
        /\ \A r \in Requests : thread[r] # Main => r <= mainRequest
        /\ \A i \in 1..Len(queue[w]) : queue[w][i] < mainRequest
    BY <2>0, <2>1 DEF IInv, Placement, HandedOver, MovingRequest, MovingLast, Moving
  <2>e. \A i \in 1..Len(queue'[w]) :
           \/ i \in 1..Len(queue[w]) /\ queue'[w][i] = queue[w][i]
           \/ i = Len(queue[w]) + 1 /\ queue'[w][i] = mainRequest /\ \A j \in 1..Len(queue[w]) : j < i
    BY <2>2, AppendedElements
  <2>4. OwnQueue'
    <3>1. \A i \in 1..Len(queue[w]) :
            /\ life[queue[w][i]] = "alive" /\ parent[queue[w][i]] = "nobody"
            /\ responder[queue[w][i]] = "none" /\ thread[queue[w][i]] = w
      BY <1>0 DEF OwnQueue
    <3>2. ASSUME NEW i \in 1..Len(queue'[w]), NEW r, r = queue'[w][i]
          PROVE  life[r] = "alive" /\ parent[r] = "nobody" /\ responder[r] = "none" /\ thread[r] = w
      BY <2>e, <2>3, <3>1, <3>2
    <3> QED  BY <1>0, <2>1, <3>2 DEF OwnQueue
  <2>5. QueueInOrder(w)'
    <3>0. \A i \in 1..Len(queue[w]) : queue[w][i] \in Requests
      BY <1>0, Members
    <3>1. ASSUME NEW i \in 1..Len(queue'[w]), NEW j \in 1..Len(queue'[w]), i < j
          PROVE  queue'[w][i] < queue'[w][j]
      <4>1. i \in 1..Len(queue[w]) /\ queue'[w][i] = queue[w][i]
        <5>1. CASE i = Len(queue[w]) + 1
          <6>1. Len(queue'[w]) = Len(queue[w]) + 1 /\ Len(queue[w]) \in Nat
            BY <2>2 DEF Appended
          <6> QED  BY <3>1, <5>1, <6>1
        <5> QED  BY <2>e, <5>1
      <4>2. CASE j \in 1..Len(queue[w]) /\ queue'[w][j] = queue[w][j]
        BY <1>0, <3>1, <4>1, <4>2 DEF QueueInOrder
      <4>3. CASE queue'[w][j] = mainRequest
        BY <2>3, <4>1, <4>3
      <4> QED  BY <2>e, <4>2, <4>3
    <3>2. ASSUME NEW i \in 1..Len(queue'[w]), NEW r \in Requests, thread[r] = w, responder[r] # "none"
          PROVE  r < queue'[w][i]
      <4>1. r < mainRequest
        <5>1. thread[r] # Main /\ r # mainRequest
          BY <1>0, <2>3, <3>2
        <5>2. r <= mainRequest /\ r \in Nat /\ mainRequest \in Nat
          BY <1>0, <2>1, <2>3, <5>1
        <5> QED  BY <5>1, <5>2
      <4>2. CASE i \in 1..Len(queue[w]) /\ queue'[w][i] = queue[w][i]
        BY <1>0, <3>2, <4>2 DEF QueueInOrder
      <4> QED  BY <2>e, <4>1, <4>2
    <3> QED  BY <2>1, <3>1, <3>2 DEF QueueInOrder
  <2>6. IsQueued(w)'
    <3>1. Len(queue'[w]) = Len(queue[w]) + 1 /\ Len(queue[w]) \in Nat
          /\ queue'[w][Len(queue[w]) + 1] = mainRequest
          /\ \A i \in 1..Len(queue[w]) : queue'[w][i] = queue[w][i]
      BY <2>2 DEF Appended
    <3>2. Len(queue[w]) + 1 \in 1..Len(queue'[w]) /\ \A i \in 1..Len(queue[w]) : i \in 1..Len(queue'[w])
      BY <3>1
    <3>3. \A r \in Requests : thread[r] = w /\ responder[r] = "none" =>
            \E i \in 1..Len(queue'[w]) : queue'[w][i] = r
      BY <1>0, <3>1, <3>2 DEF IsQueued
    <3> QED  BY <2>1, <3>3 DEF IsQueued
  <2>7. ASSUME NEW v \in Workers, v # w  PROVE QueueInOrder(v)' /\ IsQueued(v)'
    BY <1>0, <2>1, <2>3, <2>7 DEF QueueInOrder, IsQueued
  <2> QED  BY <2>4, <2>5, <2>6, <2>7 DEF QueueInv
<1>5. CASE JoinThread
  <2>1. /\ UNCHANGED <<parent, responder, thread, queue>> /\ mainPc # "enqueue"
        /\ \A r \in Requests : parent[r] # "queue" => life'[r] = life[r]
    BY <1>5 DEF JoinThread, DestroyQueue
  <2>2. OwnQueue'
    <3>1. ASSUME NEW w \in Workers, NEW i \in 1..Len(queue[w]), NEW r, r = queue[w][i]
          PROVE  life'[r] = "alive" /\ parent[r] = "nobody" /\ responder[r] = "none" /\ thread[r] = w
      BY <1>0, <2>1, <3>1, Members, SMTT(20) DEF OwnQueue
    <3> QED  BY <2>1, <3>1 DEF OwnQueue
  <2>3. \A w \in Workers : QueueInOrder(w)' /\ IsQueued(w)'
    BY <1>0, <2>1 DEF QueueInOrder, IsQueued
  <2> QED  BY <2>2, <2>3 DEF QueueInv
<1>6. CASE /\ UNCHANGED <<life, parent, responder, thread, queue>>
           /\ mainPc = "enqueue" => UNCHANGED <<mainPc, mainRequest>>
  BY <1>6, QueueKept DEF WorkersKept
<1>7. ASSUME NEW w \in Workers, WorkerAction(w)  PROVE QueueInv'
  <2>1. /\ UNCHANGED <<thread, mainPc, mainRequest>>
        /\ \A r \in Requests : Kept(r) \/ (InHands(w, r) /\ Handled(r))
    BY <1>7, WorkerEffect
  <2>2. CASE FlushTake(w)
    <3>0. PICK q : q = Head(queue[w])
      OBVIOUS
    <3>1. Dropped(queue[w], queue'[w]) /\ q = queue[w][1] /\ q \in Requests
          /\ \A v \in Workers : v # w => queue'[v] = queue[v]
      BY <1>0, <2>2, <3>0, DropEffect DEF FlushTake, TypeOK
    <3>2. /\ UNCHANGED <<life, parent>>
          /\ \A r \in Requests : responder'[r] = IF r = q THEN "alive" ELSE responder[r]
      BY <1>0, <2>2, <3>0, <3>1 DEF FlushTake, SpawnResponder, QueueTypeOK
    <3>d. /\ Len(queue[w]) \in Nat /\ 1 \in 1..Len(queue[w]) /\ Len(queue'[w]) = Len(queue[w]) - 1
          /\ \A i \in 1..Len(queue'[w]) :
                queue'[w][i] = queue[w][i + 1] /\ i + 1 \in 1..Len(queue[w]) /\ 1 < i + 1 /\ i \in Nat
      BY <3>1, DroppedElements, SMTT(20) DEF Dropped
    <3>m. \A i \in 1..Len(queue[w]) : queue[w][i] \in Requests
      BY <1>0, Members
    <3>3. \A i \in 1..Len(queue'[w]) : q < queue'[w][i] /\ queue'[w][i] \in Requests /\ q # queue'[w][i]
      <4>1. ASSUME NEW i \in 1..Len(queue'[w])  PROVE q < queue'[w][i] /\ queue'[w][i] \in Requests
        BY <1>0, <3>1, <3>d, <3>m DEF QueueInOrder
      <4> QED  BY <1>0, <3>1, <4>1
    <3>4. thread[q] = w
      BY <1>0, <3>1, <3>d DEF OwnQueue
    <3>5. OwnQueue'
      <4>0. \A i \in 1..Len(queue[w]) :
              /\ life[queue[w][i]] = "alive" /\ parent[queue[w][i]] = "nobody"
              /\ responder[queue[w][i]] = "none" /\ thread[queue[w][i]] = w
        BY <1>0 DEF OwnQueue
      <4>1. ASSUME NEW i \in 1..Len(queue'[w]), NEW r, r = queue'[w][i]
            PROVE  life[r] = "alive" /\ parent[r] = "nobody" /\ responder'[r] = "none" /\ thread[r] = w
        <5>1. r \in Requests /\ r # q /\ i + 1 \in 1..Len(queue[w]) /\ r = queue[w][i + 1]
          BY <3>3, <3>d, <4>1
        <5> QED  BY <3>2, <4>0, <5>1
      <4>2. ASSUME NEW v \in Workers, v # w, NEW i \in 1..Len(queue[v]), NEW r, r = queue[v][i]
            PROVE  life[r] = "alive" /\ parent[r] = "nobody" /\ responder'[r] = "none" /\ thread[r] = v
        <5>1. r \in Requests /\ responder[r] = "none" /\ thread[r] = v /\ life[r] = "alive" /\ parent[r] = "nobody"
          BY <1>0, <4>2, Members DEF OwnQueue
        <5> QED  BY <3>2, <3>4, <4>2, <5>1
      <4> QED  BY <2>1, <3>1, <3>2, <4>1, <4>2 DEF OwnQueue
    <3>6. QueueInOrder(w)'
      <4>2. ASSUME NEW i \in 1..Len(queue'[w]), NEW j \in 1..Len(queue'[w]), i < j
            PROVE  queue'[w][i] < queue'[w][j]
        <5>1. i + 1 < j + 1 /\ i + 1 \in 1..Len(queue[w]) /\ j + 1 \in 1..Len(queue[w])
          BY <3>d, <4>2
        <5> QED  BY <1>0, <3>d, <5>1 DEF QueueInOrder
      <4>3. ASSUME NEW i \in 1..Len(queue'[w]), NEW r \in Requests, thread[r] = w, responder'[r] # "none"
            PROVE  r < queue'[w][i]
        <5>1. CASE r = q
          BY <3>3, <5>1
        <5>2. CASE r # q
          <6>1. responder[r] # "none" /\ i + 1 \in 1..Len(queue[w]) /\ queue'[w][i] = queue[w][i + 1]
            BY <3>2, <3>d, <4>3, <5>2
          <6> QED  BY <1>0, <4>3, <6>1 DEF QueueInOrder
        <5> QED  BY <5>1, <5>2
      <4> QED  BY <2>1, <4>2, <4>3 DEF QueueInOrder
    <3>7. IsQueued(w)'
      <4>1. ASSUME NEW i \in 1..Len(queue[w]), queue[w][i] # q
            PROVE  \E j \in 1..Len(queue'[w]) : queue'[w][j] = queue[w][i]
        <5>1. i - 1 \in 1..Len(queue'[w]) /\ (i - 1) + 1 = i
          BY <3>1, <3>d, <4>1
        <5>2. queue'[w][i - 1] = queue[w][(i - 1) + 1]
          BY <3>d, <5>1
        <5> QED  BY <5>1, <5>2
      <4> QED  BY <1>0, <2>1, <3>2, <4>1 DEF IsQueued
    <3>8. ASSUME NEW v \in Workers, v # w  PROVE QueueInOrder(v)' /\ IsQueued(v)'
      BY <1>0, <2>1, <3>1, <3>2, <3>4, <3>8 DEF QueueInOrder, IsQueued
    <3> QED  BY <3>5, <3>6, <3>7, <3>8 DEF QueueInv
  <2>3. CASE ~FlushTake(w)
    <3>1. UNCHANGED queue
      BY <1>7, <2>3 DEF WorkerAction, WorkerStep, FlushEvent, FlushLock, FlushReturn, SlotReturn, AnswerAdopted,
                   Adopt, ExitLoop, workerVars
    <3>2. \A r \in Requests : responder[r] = "none" => Kept(r)
      <4>1. CASE UNCHANGED queueVars
        BY <2>1, <4>1 DEF queueVars
      <4>2. CASE Adopt(w)
        BY <1>0, <2>1, <4>2, CurrentRequest DEF Adopt, SetParent, QueueTypeOK
      <4>3. CASE SlotReturn(w)
        BY <1>0, <2>1, <4>3, CurrentRequest DEF SlotReturn, AfterSlot, QueueTypeOK
      <4>4. CASE AnswerAdopted(w)
        BY <1>0, <2>1, <4>4 DEF AnswerAdopted, DeleteAdopted, QueueTypeOK, IInv, Placement, Begun, Owners
      <4> QED
        BY <1>7, <2>3, <4>1, <4>2, <4>3, <4>4
        DEF WorkerAction, WorkerStep, FlushEvent, FlushLock, FlushReturn, ExitLoop
    <3>3. OwnQueue'
      BY <1>0, <2>1, <3>1, <3>2, Members DEF OwnQueue
    <3>4. \A r \in Requests : responder'[r] = "none" <=> responder[r] = "none"
      BY <2>1, <3>2 DEF Handled
    <3>5. \A v \in Workers : QueueInOrder(v)' /\ IsQueued(v)'
      BY <1>0, <2>1, <3>1, <3>4 DEF QueueInOrder, IsQueued
    <3> QED  BY <3>3, <3>5 DEF QueueInv
  <2> QED  BY <2>2, <2>3
<1> QED
  BY <1>1, <1>2, <1>3, <1>4, <1>5, <1>6, <1>7
  DEF Next, MainStep, ShutdownStep, WorkerAction, FlushQueue, FlushDone, PostFlush,
      Shutdown, QuitThread, JoinTimeout, Terminated, vars, queueVars, mainVars, workerVars

-----------------------------------------------------------------------------
(* The slots. *)

\* What is known of the slots of one worker.
SlotsOf(w) ==
  /\ \A i \in 1..Len(stack[w]) : stack[w][i].pc = "run" =>
       LET r == stack[w][i].request IN
       /\ r \in Requests
       /\ life[r] = "alive" /\ parent[r] # "queue" /\ responder[r] = "alive" /\ thread[r] = w
  /\ \A i \in 2..Len(stack[w]) : parent[stack[w][i].request] = "nobody"
  /\ SlotsInOrder(w)

\* And of a request whose slot has begun.
BegunOf(r) ==
  responder[r] # "none" =>
    /\ thread[r] # Main /\ parent[r] # "queue"
    /\ parent[r] = "nobody" =>
         life[r] = "deleted" \/ \E i \in 1..Len(stack[thread[r]]) : stack[thread[r]][i] = RunFrame(r)

SlotInv == (\A w \in Workers : SlotsOf(w)) /\ (\A r \in Requests : BegunOf(r))

LEMMA SlotInvNow ==
  ASSUME IInv
  PROVE  /\ SlotInv
         /\ \A w \in Workers : \A i \in 2..Len(stack[w]) :
              /\ i \in 1..Len(stack[w]) /\ stack[w][i] = RunFrame(stack[w][i].request)
              /\ stack[w][i].pc = "run" /\ stack[w][i].request \in Requests
              /\ thread[stack[w][i].request] = w /\ responder[stack[w][i].request] = "alive"
              /\ parent[stack[w][i].request] = "nobody" /\ life[stack[w][i].request] = "alive"
<1>1. TypeOK /\ OwnThread /\ SlotHasRequest /\ MutexHolder /\ SuspendedSlots /\ BegunRequest
      /\ \A w \in Workers : SlotsInOrder(w)
  BY DEF IInv, Placement, InOrder, Begun
<1>2. \A w \in Workers : SlotsOf(w)
  BY <1>1 DEF SlotsOf, OwnThread, SlotHasRequest, SuspendedSlots
<1>3. \A r \in Requests : BegunOf(r)
  BY <1>1 DEF BegunOf, BegunRequest, RunFrame
<1>4. ASSUME NEW w \in Workers, NEW i \in 2..Len(stack[w])
      PROVE  /\ i \in 1..Len(stack[w]) /\ stack[w][i].pc = "run" /\ stack[w][i] \in Frame
             /\ parent[stack[w][i].request] = "nobody"
  BY <1>1, Members DEF MutexHolder, SuspendedSlots
<1>5. \A f \in Frame : f.pc = "run" => f = RunFrame(f.request)
  BY DEF Frame, RunFrame
<1> QED  BY <1>2, <1>3, <1>4, <1>5 DEF SlotInv, SlotsOf

\* A step that leaves the slots and their requests alone.
LEMMA SlotsKept ==
  ASSUME IInv, UNCHANGED stack,
         \A r \in Requests : responder[r] # "none" => Kept(r),
         \A r \in Requests : responder[r] = "none" => responder'[r] = "none"
  PROVE  SlotInv'
<1>1. SlotInv /\ TypeOK
  BY SlotInvNow DEF IInv
<1>2. ASSUME NEW w \in Workers  PROVE SlotsOf(w)'
  <2>1. SlotsOf(w)
    BY <1>1 DEF SlotInv
  <2>2. \A i \in 2..Len(stack[w]) : Kept(stack[w][i].request)
    BY SlotInvNow
  <2> QED  BY <2>1, <2>2 DEF SlotsOf, SlotsInOrder, Kept
<1>3. ASSUME NEW r \in Requests  PROVE BegunOf(r)'
  BY <1>1, <1>3 DEF SlotInv, BegunOf, Kept
<1> QED  BY <1>2, <1>3 DEF SlotInv

\* A step of another worker.
LEMMA OtherSlots ==
  ASSUME IInv, NEW w \in Workers, WorkerAction(w), OthersKept(w), NEW v \in Workers, v # w
  PROVE  SlotsOf(v)'
<1>1. SlotsOf(v) /\ stack'[v] = stack[v]
  BY SlotInvNow DEF SlotInv, OthersKept
<1>2. \A r \in Requests : thread[r] = v => Kept(r)
  BY WorkerEffect DEF InHands
<1>3. \A i \in 2..Len(stack[v]) : Kept(stack[v][i].request)
  BY <1>2, SlotInvNow
<1> QED  BY <1>1, <1>2, <1>3 DEF SlotsOf, SlotsInOrder, Kept

\* The newest call of flushQueue goes on.
LEMMA ReplacedSlots ==
  ASSUME IInv, NEW w \in Workers, NEW f, Replaced(w, f), UNCHANGED thread,
         \A i \in 2..Len(stack[w]) : Kept(stack[w][i].request),
         f.pc = "run" =>
           /\ f.request \in Requests /\ life'[f.request] = "alive" /\ parent'[f.request] # "queue"
           /\ responder'[f.request] = "alive" /\ thread[f.request] = w
           /\ \A i \in 2..Len(stack[w]) : stack[w][i].request < f.request
  PROVE  SlotsOf(w)'
<1>1. SlotsOf(w) /\ Len(stack[w]) \in Nat /\ Len(stack'[w]) = Len(stack[w])
  BY SlotInvNow, Members DEF SlotInv, IInv, Replaced
<1>2. stack'[w][1] = f /\ \A i \in 2..Len(stack[w]) : stack'[w][i] = stack[w][i]
  BY DEF Replaced
<1>3. \A i \in 1..Len(stack'[w]) : i = 1 \/ i \in 2..Len(stack[w])
  BY <1>1
<1>4. ASSUME NEW i \in 1..Len(stack'[w]), stack'[w][i].pc = "run", NEW r, r = stack'[w][i].request
      PROVE  /\ r \in Requests
             /\ life'[r] = "alive" /\ parent'[r] # "queue" /\ responder'[r] = "alive" /\ thread'[r] = w
  <2>1. CASE i = 1
    BY <1>2, <1>4, <2>1
  <2>2. CASE i \in 2..Len(stack[w])
    BY <1>2, <1>4, <2>2, SlotInvNow DEF Kept
  <2> QED  BY <1>3, <2>1, <2>2
<1>5. \A i \in 2..Len(stack'[w]) : parent'[stack'[w][i].request] = "nobody"
  BY <1>1, <1>2, SlotInvNow DEF Kept
<1>6. SlotsInOrder(w)'
  <2>1. ASSUME NEW i \in 1..Len(stack'[w]), NEW j \in 1..Len(stack'[w]), i < j,
               stack'[w][i].pc = "run", stack'[w][j].pc = "run"
        PROVE  stack'[w][j].request < stack'[w][i].request
    <3>1. j \in 2..Len(stack[w]) /\ stack'[w][j] = stack[w][j]
      BY <1>1, <1>2, <2>1
    <3>2. CASE i = 1
      BY <1>2, <2>1, <3>1, <3>2
    <3>3. CASE i \in 2..Len(stack[w])
      BY <1>1, <1>2, <2>1, <3>1, <3>3 DEF SlotsOf, SlotsInOrder
    <3> QED  BY <1>3, <3>2, <3>3
  <2> QED  BY <2>1 DEF SlotsInOrder
<1> QED  BY <1>4, <1>5, <1>6 DEF SlotsOf

LEMMA PushedSlots ==
  ASSUME IInv, NEW w \in Workers, FlushEvent(w)
  PROVE  SlotsOf(w)'
<1>1. Pushed(w, LockFrame) /\ SlotsOf(w) /\ Len(stack[w]) \in Nat /\ TypeOK
      /\ UNCHANGED <<life, parent, responder, thread>>
  BY StackEffect, SlotInvNow, Members DEF SlotInv, IInv, FlushEvent, queueVars
<1>2. /\ stack'[w][1].pc = "lock" /\ Len(stack'[w]) = Len(stack[w]) + 1
      /\ \A i \in 2..Len(stack'[w]) : stack'[w][i] = stack[w][i - 1] /\ i - 1 \in 1..Len(stack[w])
  BY <1>1 DEF Pushed, LockFrame
<1>3. \A i \in 1..Len(stack[w]) : parent[stack[w][i].request] = "nobody"
  <2>1. stack[w] # <<>> => parent[stack[w][1].request] = "nobody"
    BY <1>1, TailType DEF FlushEvent, InEventLoop, Current, TypeOK
  <2>2. \A i \in 1..Len(stack[w]) : (i = 1 /\ stack[w] # <<>>) \/ i \in 2..Len(stack[w])
    BY <1>1 DEF TypeOK
  <2> QED  BY <2>1, <2>2, SlotInvNow
<1>4. \A i \in 1..Len(stack'[w]) : i = 1 \/ i \in 2..Len(stack'[w])
  BY <1>1, <1>2
<1>5. SlotsInOrder(w)'
  <2>1. ASSUME NEW i \in 1..Len(stack'[w]), NEW j \in 1..Len(stack'[w]), i < j,
               stack'[w][i].pc = "run", stack'[w][j].pc = "run"
        PROVE  stack'[w][j].request < stack'[w][i].request
    <3>1. i \in 2..Len(stack'[w]) /\ j \in 2..Len(stack'[w]) /\ i - 1 < j - 1
      BY <1>1, <1>2, <1>4, <2>1
    <3> QED  BY <1>1, <1>2, <2>1, <3>1 DEF SlotsOf, SlotsInOrder
  <2> QED  BY <2>1 DEF SlotsInOrder
<1>6. \A i \in 2..Len(stack'[w]) : parent'[stack'[w][i].request] = "nobody"
  BY <1>1, <1>2, <1>3
<1>7. ASSUME NEW i \in 1..Len(stack'[w]), stack'[w][i].pc = "run", NEW r, r = stack'[w][i].request
      PROVE  /\ r \in Requests
             /\ life'[r] = "alive" /\ parent'[r] # "queue" /\ responder'[r] = "alive" /\ thread'[r] = w
  <2>1. i \in 2..Len(stack'[w])
    BY <1>2, <1>4, <1>7
  <2> QED  BY <1>1, <1>2, <1>7, <2>1 DEF SlotsOf
<1> QED  BY <1>5, <1>6, <1>7 DEF SlotsOf

LEMMA PoppedSlots ==
  ASSUME IInv, NEW w \in Workers, FlushReturn(w)
  PROVE  SlotsOf(w)'
<1>1. Popped(w) /\ SlotsOf(w) /\ UNCHANGED <<life, parent, responder, thread>>
  BY StackEffect, SlotInvNow DEF SlotInv, IInv, FlushReturn, queueVars
<1>2. \A i \in 1..Len(stack'[w]) : stack'[w][i] = stack[w][i + 1] /\ i + 1 \in 2..Len(stack[w])
  BY <1>1 DEF Popped
<1>3. SlotsInOrder(w)'
  <2>1. ASSUME NEW i \in 1..Len(stack'[w]), NEW j \in 1..Len(stack'[w]), i < j,
               stack'[w][i].pc = "run", stack'[w][j].pc = "run"
        PROVE  stack'[w][j].request < stack'[w][i].request
    <3>1. i + 1 \in 1..Len(stack[w]) /\ j + 1 \in 1..Len(stack[w]) /\ i + 1 < j + 1
      BY <1>2, <2>1
    <3> QED  BY <1>1, <1>2, <2>1, <3>1, SMTT(20) DEF SlotsOf, SlotsInOrder
  <2> QED  BY <2>1 DEF SlotsInOrder
<1>4. \A i \in 1..Len(stack'[w]) :
        LET r == stack'[w][i].request IN
        /\ r \in Requests /\ parent'[r] = "nobody"
        /\ life'[r] = "alive" /\ parent'[r] # "queue" /\ responder'[r] = "alive" /\ thread'[r] = w
  BY <1>1, <1>2, SlotInvNow
<1>5. \A i \in 2..Len(stack'[w]) : i \in 1..Len(stack'[w])
  OBVIOUS
<1> QED  BY <1>3, <1>4, <1>5 DEF SlotsOf

\* The step of a worker, for its own slots.
LEMMA OwnSlots ==
  ASSUME IInv, NEW w \in Workers, WorkerAction(w)
  PROVE  SlotsOf(w)' /\ OthersKept(w)
<1>0. /\ TypeOK /\ QueueTypeOK /\ SlotsOf(w) /\ UNCHANGED thread
      /\ \A r \in Requests : r \in Nat
  BY SlotInvNow, WorkerEffect, SMTT(20) DEF SlotInv, IInv, TypeOK, Requests
<1>1. CASE FlushEvent(w)
  BY <1>1, PushedSlots, StackEffect DEF IInv, Pushed
<1>2. CASE FlushReturn(w)
  BY <1>2, PoppedSlots, StackEffect DEF IInv, Popped
<1>3. CASE FlushLock(w)
  <2>1. Replaced(w, TestFrame) /\ TestFrame.pc # "run" /\ UNCHANGED queueVars
    BY <1>0, <1>3, StackEffect DEF FlushLock, TestFrame
  <2>2. \A i \in 2..Len(stack[w]) : Kept(stack[w][i].request)
    BY <1>0, <2>1 DEF queueVars, Kept
  <2> QED  BY <1>0, <2>1, <2>2, ReplacedSlots DEF Replaced
<1>4. CASE FlushTake(w)
  <2>0. PICK q : q = Head(queue[w])
    OBVIOUS
  <2>1. /\ q \in Requests /\ q = queue[w][1] /\ 1 \in 1..Len(queue[w])
        /\ responder' = [responder EXCEPT ![q] = "alive"] /\ UNCHANGED <<life, parent>>
    BY <1>0, <1>4, <2>0, TailType DEF FlushTake, SpawnResponder, TypeOK
  <2>2. /\ life[q] = "alive" /\ parent[q] = "nobody" /\ responder[q] = "none" /\ thread[q] = w
        /\ \A r \in Requests : thread[r] = w /\ responder[r] # "none" => r < q
    BY <2>1 DEF IInv, OwnThread, Placement, InOrder, QueueInOrder
  <2>3. Replaced(w, RunFrame(q))
    BY <1>0, <1>4, <2>0, StackEffect
  <2>4. \A i \in 2..Len(stack[w]) : Kept(stack[w][i].request) /\ stack[w][i].request < q
    BY <1>0, <2>1, <2>2, SlotInvNow DEF QueueTypeOK, Kept
  <2>5. /\ RunFrame(q).request = q /\ life'[q] = "alive" /\ parent'[q] # "queue"
        /\ responder'[q] = "alive"
    BY <1>0, <2>1, <2>2 DEF RunFrame, QueueTypeOK
  <2> QED  BY <1>0, <2>1, <2>2, <2>3, <2>4, <2>5, ReplacedSlots DEF Replaced
<1>5. ASSUME AtPc(w, "run")
      PROVE  \A i \in 2..Len(stack[w]) : stack[w][i].request < Current(w)
  <2>1. 1 \in 1..Len(stack[w]) /\ stack[w][1].pc = "run" /\ stack[w][1].request = Current(w)
    <3>1. 1 \in 1..Len(stack[w]) /\ stack[w][1] = RunFrame(Current(w))
      BY <1>5, CurrentRequest
    <3>2. RunFrame(Current(w)).pc = "run" /\ RunFrame(Current(w)).request = Current(w)
      BY DEF RunFrame
    <3> QED  BY <3>1, <3>2
  <2>2. \A i \in 2..Len(stack[w]) : 1 < i /\ i \in 1..Len(stack[w]) /\ stack[w][i].pc = "run"
    BY SlotInvNow
  <2> QED  BY <1>0, <2>1, <2>2 DEF SlotsOf, SlotsInOrder
<1>6. CASE SlotReturn(w)
  <2>1. AtPc(w, "run") /\ AfterSlot(Current(w)) /\ UNCHANGED parent /\ Replaced(w, LockFrame)
        /\ LockFrame.pc # "run"
    BY <1>0, <1>6, StackEffect DEF SlotReturn, LockFrame
  <2>2. Current(w) \in Requests
    BY <2>1, CurrentRequest
  <2>3. \A r \in Requests : r # Current(w) => Kept(r)
    BY <1>0, <2>1, <2>2 DEF AfterSlot, QueueTypeOK, Kept
  <2>4. \A i \in 2..Len(stack[w]) : Kept(stack[w][i].request)
    <3>1. ASSUME NEW i \in 2..Len(stack[w])  PROVE stack[w][i].request \in Requests /\ stack[w][i].request # Current(w)
      BY <1>0, <1>5, <2>1, <2>2, SlotInvNow
    <3> QED  BY <2>3, <3>1
  <2> QED  BY <1>0, <2>1, <2>4, ReplacedSlots DEF Replaced
<1>7. CASE Adopt(w)
  <2>0. PICK c : c = Current(w)
    OBVIOUS
  <2>1. /\ AtPc(w, "run") /\ c \in Requests /\ parent' = [parent EXCEPT ![c] = "responder"]
        /\ UNCHANGED <<life, responder, stack>>
    BY <1>7, <2>0, CurrentRequest DEF Adopt, SetParent, workerVars
  <2>2. \A r \in Requests : parent'[r] = IF r = c THEN "responder" ELSE parent[r]
    BY <1>0, <2>1 DEF QueueTypeOK
  <2>3. \A i \in 2..Len(stack[w]) : parent'[stack[w][i].request] = "nobody"
    <3>1. ASSUME NEW i \in 2..Len(stack[w])  PROVE stack[w][i].request \in Requests /\ stack[w][i].request # c
      BY <1>0, <1>5, <2>0, <2>1, SlotInvNow
    <3> QED  BY <2>2, <3>1, SlotInvNow
  <2>4. SlotsInOrder(w)'
    BY <1>0, <2>1 DEF SlotsOf, SlotsInOrder
  <2> QED  BY <1>0, <2>1, <2>2, <2>3, <2>4 DEF SlotsOf, OthersKept
<1>8. CASE AnswerAdopted(w)
  <2>1. PICK q \in Requests : thread[q] = w /\ DeleteAdopted(q)
    BY <1>8 DEF AnswerAdopted
  <2>2. /\ parent[q] = "responder" /\ UNCHANGED <<parent, stack>>
        /\ \A r \in Requests : r # q => Kept(r)
    BY <1>0, <1>8, <2>1 DEF AnswerAdopted, DeleteAdopted, QueueTypeOK, workerVars, Kept
  <2>3. \A i \in 1..Len(stack[w]) : parent[stack[w][i].request] = "nobody"
    <3>1. Len(stack[w]) \in Nat /\ stack[w] # <<>> => parent[stack[w][1].request] = "nobody"
      BY <1>0, <1>8, TailType DEF AnswerAdopted, InEventLoop, Current, TypeOK
    <3>2. \A i \in 1..Len(stack[w]) : (i = 1 /\ stack[w] # <<>>) \/ i \in 2..Len(stack[w])
      BY <1>0 DEF TypeOK
    <3> QED  BY <3>1, <3>2, SlotInvNow
  <2>4. \A i \in 1..Len(stack[w]) : stack[w][i].request \in Requests => Kept(stack[w][i].request)
    BY <2>2, <2>3
  <2>5. SlotsInOrder(w)'
    BY <1>0, <2>2 DEF SlotsOf, SlotsInOrder
  <2>6. \A i \in 2..Len(stack[w]) : parent'[stack[w][i].request] = "nobody"
    BY <1>0, <2>2 DEF SlotsOf
  <2>7. \A i \in 1..Len(stack[w]) : stack[w][i].pc = "run" =>
          LET r == stack[w][i].request IN
          /\ r \in Requests
          /\ life'[r] = "alive" /\ parent'[r] # "queue" /\ responder'[r] = "alive" /\ thread'[r] = w
    BY <1>0, <2>4 DEF SlotsOf, Kept
  <2> QED  BY <2>2, <2>5, <2>6, <2>7 DEF SlotsOf, OthersKept
<1>9. CASE ExitLoop(w)
  BY <1>0, <1>9 DEF ExitLoop, queueVars, SlotsOf, SlotsInOrder, OthersKept
<1> QED
  BY <1>1, <1>2, <1>3, <1>4, <1>6, <1>7, <1>8, <1>9 DEF WorkerAction, WorkerStep

\* A request in the newest slot that stays there, or in a suspended slot.
LEMMA FramesKept ==
  ASSUME IInv, NEW w \in Workers, WorkerAction(w),
         NEW r \in Requests, NEW i \in 1..Len(stack[w]), stack[w][i] = RunFrame(r),
         i = 1 => ~SlotReturn(w)
  PROVE  \E j \in 1..Len(stack'[w]) : stack'[w][j] = RunFrame(r)
<1>0. /\ TypeOK /\ Len(stack[w]) \in Nat /\ stack[w] # <<>> /\ stack[w][i].pc = "run"
      /\ i = 1 => Head(stack[w]).pc = "run"
  BY TailType, Members DEF IInv, RunFrame, TypeOK
<1>1. CASE FlushEvent(w)
  <2>1. Pushed(w, LockFrame)
    BY <1>0, <1>1, StackEffect
  <2>2. i + 1 \in 2..Len(stack'[w]) /\ (i + 1) - 1 = i
    BY <1>0, <2>1 DEF Pushed
  <2>3. stack'[w][i + 1] = stack[w][i] /\ i + 1 \in 1..Len(stack'[w])
    BY <2>1, <2>2 DEF Pushed
  <2> QED  BY <2>3
<1>2. CASE FlushReturn(w)
  <2>1. Popped(w) /\ i # 1
    BY <1>0, <1>2, StackEffect DEF FlushReturn, AtPc
  <2>2. i - 1 \in 1..Len(stack'[w]) /\ (i - 1) + 1 = i
    BY <1>0, <2>1 DEF Popped
  <2> QED  BY <2>1, <2>2 DEF Popped
<1>3. CASE FlushLock(w) \/ FlushTake(w) \/ SlotReturn(w)
  <2>1. i # 1
    BY <1>0, <1>3 DEF FlushLock, FlushTake, AtPc
  <2>2. Len(stack'[w]) = Len(stack[w]) /\ stack'[w][i] = stack[w][i]
    BY <1>0, <1>3, <2>1, StackEffect DEF Replaced
  <2> QED  BY <2>2
<1>4. CASE UNCHANGED stack
  BY <1>4
<1> QED
  BY <1>1, <1>2, <1>3, <1>4 DEF WorkerAction, WorkerStep, AnswerAdopted, Adopt, ExitLoop, workerVars

LEMMA BegunStep ==
  ASSUME IInv, NEW w \in Workers, WorkerAction(w), NEW r \in Requests
  PROVE  BegunOf(r)'
<1>a. UNCHANGED thread /\ (Kept(r) \/ (InHands(w, r) /\ Handled(r)))
  BY WorkerEffect
<1>b. TypeOK /\ QueueTypeOK /\ BegunOf(r) /\ w # Main
  BY SlotInvNow DEF SlotInv, IInv, TypeOK, Workers
<1>0. /\ TypeOK /\ QueueTypeOK /\ UNCHANGED thread /\ BegunOf(r) /\ OthersKept(w) /\ w # Main
      /\ Kept(r) \/ (InHands(w, r) /\ Handled(r))
  BY <1>a, <1>b, OwnSlots
<1>1. CASE thread[r] # w
  <2>1. Kept(r)
    BY <1>0, <1>1 DEF InHands
  <2>2. thread[r] # Main => stack'[thread[r]] = stack[thread[r]]
    BY <1>0, <1>1 DEF OthersKept, TypeOK
  <2> QED  BY <1>0, <2>1, <2>2 DEF BegunOf, Kept
<1>2. CASE thread[r] = w /\ responder[r] = "none"
  <2>1. CASE Kept(r)
    BY <1>2, <2>1 DEF BegunOf, Kept
  <2>2. CASE FlushTake(w) /\ r = Head(queue[w])
    <3>1. Replaced(w, RunFrame(r)) /\ parent' = parent /\ stack[w] # <<>>
      BY <1>0, <2>2, StackEffect DEF FlushTake, AtPc
    <3>2. parent[r] = "nobody"
      <4>1. queue[w] \in Seq(Requests) /\ queue[w] # <<>>
        BY <1>0, <2>2 DEF FlushTake, TypeOK
      <4>2. r = queue[w][1] /\ 1 \in 1..Len(queue[w])
        BY <2>2, <4>1, TailType
      <4> QED  BY <4>2 DEF IInv, OwnThread
    <3>3. 1 \in 1..Len(stack'[w]) /\ stack'[w][1] = RunFrame(r)
      BY <1>0, <3>1, TailType DEF Replaced, TypeOK
    <3> QED  BY <1>0, <1>2, <3>1, <3>2, <3>3 DEF BegunOf
  <2>3. CASE FlushTake(w) /\ r # Head(queue[w])
    <3>1. Kept(r)
      BY <1>0, <2>3 DEF FlushTake, SpawnResponder, QueueTypeOK, Kept
    <3> QED  BY <2>1, <3>1
  <2>4. CASE ~FlushTake(w)
    <3>1. CASE UNCHANGED queueVars
      BY <1>0, <2>1, <3>1 DEF queueVars, Kept
    <3>2. CASE Adopt(w) \/ SlotReturn(w)
      <4>1. AtPc(w, "run") /\ responder[Current(w)] = "alive" /\ Current(w) \in Requests
        BY <3>2, CurrentRequest DEF Adopt, SlotReturn
      <4>2. Kept(r)
        BY <1>0, <1>2, <3>2, <4>1 DEF Adopt, SetParent, SlotReturn, AfterSlot, QueueTypeOK, Kept
      <4> QED  BY <2>1, <4>2
    <3>3. CASE AnswerAdopted(w)
      <4>1. Kept(r)
        BY <1>0, <1>2, <3>3 DEF AnswerAdopted, DeleteAdopted, QueueTypeOK, IInv, Placement, Begun, Owners, Kept
      <4> QED  BY <2>1, <4>1
    <3> QED
      BY <2>4, <3>1, <3>2, <3>3 DEF WorkerAction, WorkerStep, FlushEvent, FlushLock, FlushReturn, ExitLoop
  <2> QED  BY <2>2, <2>3, <2>4
<1>3. CASE thread[r] = w /\ responder[r] # "none"
  <2>1. thread'[r] = w /\ parent'[r] # "queue"
    BY <1>0, <1>3 DEF BegunOf, Kept, Handled
  <2>2. ASSUME parent'[r] = "nobody", life'[r] # "deleted"
        PROVE  \E j \in 1..Len(stack'[w]) : stack'[w][j] = RunFrame(r)
    <3>1. parent[r] = "nobody"
      <4>1. parent'[r] = parent[r] \/ parent'[r] = "responder"
        BY <1>a DEF Kept, Handled
      <4> QED  BY <2>2, <4>1
    <3>2. life[r] # "deleted"
      <4>1. life'[r] = life[r] \/ life[r] = "alive"
        BY <1>a DEF Kept, InHands
      <4> QED  BY <2>2, <4>1
    <3>3. PICK i \in 1..Len(stack[w]) : stack[w][i] = RunFrame(r)
      BY <1>0, <1>3, <3>1, <3>2 DEF BegunOf
    <3>4. i = 1 => ~SlotReturn(w)
      <4>1. SUFFICES ASSUME i = 1, SlotReturn(w)  PROVE FALSE
        OBVIOUS
      <4>2. Current(w) = r
        BY <1>0, <3>3, <4>1, TailType DEF Current, RunFrame, TypeOK, SlotReturn, AtPc
      <4>3. life'[r] = "deleted"
        BY <1>0, <3>1, <4>1, <4>2 DEF SlotReturn, AfterSlot, Unowned, QueueTypeOK
      <4> QED  BY <2>2, <4>3
    <3> QED  BY <3>3, <3>4, FramesKept
  <2> QED  BY <1>0, <2>1, <2>2 DEF BegunOf
<1> QED  BY <1>1, <1>2, <1>3

LEMMA SlotStep ==
  ASSUME IInv, Next
  PROVE  SlotInv'
<1>0. /\ TypeOK /\ QueueTypeOK
      /\ \A r \in Requests : r \in Nat
  BY DEF IInv, TypeOK, Requests
<1>1. ASSUME NEW w \in Workers, WorkerAction(w)  PROVE SlotInv'
  BY <1>1, OwnSlots, OtherSlots, BegunStep DEF SlotInv
<1>2. CASE NewRequest
  <2>1. UNCHANGED <<responder, stack, thread>>
    BY <1>2 DEF NewRequest, AddRequest, workerVars
  <2>2. arrived + 1 \in Requests /\ responder[arrived + 1] = "none"
    BY <1>0, <1>2, QueueAssumption DEF NewRequest, AddRequest, IInv, Placement, Arrival, NotArrived, Requests, QueueTypeOK
  <2>3. \A r \in Requests : r # arrived + 1 => Kept(r)
    BY <1>0, <1>2, <2>2 DEF NewRequest, AddRequest, Respond, Ignore, QueueTypeOK, Kept
  <2> QED  BY <2>1, <2>2, <2>3, SlotsKept
<1>3. CASE StartNext
  <2>1. /\ Head(unhandledRequests) = unhandledRequests[1] /\ Head(unhandledRequests) \in Requests
        /\ 1 \in 1..Len(unhandledRequests) /\ mainPc = "flush"
        /\ parent' = [parent EXCEPT ![Head(unhandledRequests)] = "nobody"]
        /\ UNCHANGED <<life, responder, stack, thread>>
    BY <1>0, <1>3, TailType DEF StartNext, Dequeue, QueueTypeOK, workerVars
  <2>2. responder[Head(unhandledRequests)] = "none"
    BY <2>1 DEF IInv, OwnThread
  <2>3. \A r \in Requests : responder[r] # "none" => Kept(r)
    BY <1>0, <2>1, <2>2 DEF QueueTypeOK, Kept
  <2> QED  BY <2>1, <2>3, SlotsKept
<1>4. CASE MoveToThread
  <2>1. /\ mainPc = "move" /\ mainRequest \in Requests
        /\ thread' = [thread EXCEPT ![mainRequest] = NextWorker]
        /\ UNCHANGED <<life, parent, responder, stack>>
    BY <1>4 DEF MoveToThread, IInv, Taken, queueVars, workerVars
  <2>2. responder[mainRequest] = "none"
    BY <2>1 DEF IInv, Placement, HandedOver, MovingRequest, Moving
  <2>3. \A r \in Requests : responder[r] # "none" => Kept(r)
    BY <1>0, <2>1, <2>2 DEF TypeOK, Kept
  <2> QED  BY <2>1, <2>3, SlotsKept
<1>5. CASE JoinThread
  <2>1. /\ UNCHANGED <<parent, responder, thread, stack>>
        /\ \A r \in Requests : parent[r] # "queue" => life'[r] = life[r]
    BY <1>5 DEF JoinThread, DestroyQueue
  <2>2. \A r \in Requests : responder[r] # "none" => Kept(r)
    BY <2>1, SlotInvNow DEF SlotInv, BegunOf, Kept
  <2> QED  BY <2>1, <2>2, SlotsKept
<1>6. CASE UNCHANGED <<life, parent, responder, thread, stack>>
  BY <1>6, SlotsKept DEF Kept
<1> QED
  BY <1>1, <1>2, <1>3, <1>4, <1>5, <1>6
  DEF Next, MainStep, ShutdownStep, WorkerAction, FlushQueue, FlushDone, Enqueue, PostFlush,
      Shutdown, QuitThread, JoinTimeout, Terminated, vars, queueVars, workerVars

\* Owners, and the threads that have ended.
LEMMA OwnersStep ==
  ASSUME IInv, Next
  PROVE  Owners'
<1>0. /\ TypeOK /\ QueueTypeOK /\ Owners /\ \A r \in Requests : r \in Nat
  BY DEF IInv, TypeOK, Placement, Begun, Requests
<1>1. CASE NewRequest
  <2> DEFINE q == arrived + 1
  <2>1. /\ q \in Requests /\ UNCHANGED responder
        /\ parent[q] = "nobody"
        /\ parent' = parent \/ parent' = [parent EXCEPT ![q] = "queue"]
        /\ life' = [life EXCEPT ![q] = IF parent'[q] = "nobody" THEN "deleted" ELSE "alive"]
    BY <1>0, <1>1, QueueAssumption
    DEF NewRequest, AddRequest, Respond, Ignore, QueueParent, IInv, Placement, Arrival, NotArrived,
        Requests, QueueTypeOK
  <2>2. life'[q] # "alive" => parent'[q] # "queue"
    BY <1>0, <2>1 DEF QueueTypeOK
  <2>3. parent'[q] # "responder"
    BY <1>0, <2>1 DEF QueueTypeOK
  <2>4. \A r \in Requests : r # q => Kept(r)
    BY <1>0, <1>1, <2>1 DEF NewRequest, Kept, QueueTypeOK
  <2>5. mainPc # "gone"
    BY <1>1 DEF NewRequest
  <2> QED  BY <1>0, <2>2, <2>3, <2>4, <2>5 DEF Owners, Kept
<1>2. CASE StartNext
  <2>1. /\ Head(unhandledRequests) \in Requests /\ mainPc = "flush" /\ UNCHANGED <<life, responder>>
        /\ parent' = [parent EXCEPT ![Head(unhandledRequests)] = "nobody"]
    BY <1>0, <1>2, TailType DEF StartNext, Dequeue, QueueTypeOK
  <2> QED  BY <1>0, <2>1 DEF Owners, QueueTypeOK
<1>3. CASE JoinThread
  <2>1. UNCHANGED <<parent, responder>> /\ mainPc = "wait" /\ (mainPc' = "gone" \/ UNCHANGED life)
    BY <1>3 DEF JoinThread
  <2> QED  BY <1>0, <2>1 DEF Owners
<1>4. CASE UNCHANGED <<life, parent, responder>> /\ (mainPc = "gone" => mainPc' = "gone")
  BY <1>0, <1>4 DEF Owners
<1>5. ASSUME NEW w \in Workers, WorkerAction(w)  PROVE Owners'
  <2>1. /\ UNCHANGED mainPc
        /\ \A r \in Requests : Kept(r) \/ (InHands(w, r) /\ Handled(r))
    BY <1>5, WorkerEffect
  <2> QED  BY <1>0, <2>1 DEF Owners, Kept, InHands, Handled
<1> QED
  BY <1>1, <1>2, <1>3, <1>4, <1>5
  DEF Next, MainStep, ShutdownStep, WorkerAction, FlushQueue, FlushDone, MoveToThread, Enqueue,
      PostFlush, Shutdown, QuitThread, JoinTimeout, Terminated, vars, queueVars, mainVars

LEMMA ExitStep ==
  ASSUME IInv, Next
  PROVE  ExitedIsIdle' /\ JoinedIsExited' /\ NotJoining'
<1>0. /\ TypeOK /\ ExitedIsIdle /\ JoinedIsExited /\ NotJoining /\ InTurn
      /\ joining \in Nat /\ ThreadCount \in Nat /\ \A w \in Workers : w \in Nat /\ 1 <= w /\ w <= ThreadCount
      /\ 1 \in Workers
  BY ThreadAssumption DEF IInv, TypeOK, Placement, Begun, Workers
<1> USE DEF ExitedIsIdle, JoinedIsExited, NotJoining
<1>1. CASE JoinThread
  <2>1. /\ mainPc = "wait" /\ loop[joining] = "exited" /\ UNCHANGED <<loop, stack>>
        /\ \/ joining < ThreadCount /\ joining' = joining + 1 /\ mainPc' = "quit"
           \/ ~(joining < ThreadCount) /\ mainPc' = "gone" /\ joining' = joining
    BY <1>0, <1>1 DEF JoinThread, Joined
  <2> QED  BY <1>0, <2>1
<1>2. CASE QuitThread
  <2>1. loop[joining] = "running" /\ joining \in Workers
    BY <1>0, <1>2 DEF QuitThread, InTurn, TypeOK, Workers
  <2>2. /\ loop' = [loop EXCEPT ![joining] = "quitting"] /\ loop \in [Workers -> {"running", "quitting", "exited"}]
        /\ mainPc = "quit" /\ mainPc' = "wait" /\ UNCHANGED <<stack, joining>>
    BY <1>0, <1>2 DEF QuitThread, TypeOK
  <2>3. ExitedIsIdle' /\ NotJoining'
    BY <1>0, <2>1, <2>2
  <2>4. JoinedIsExited'
    BY <1>0, <2>1, <2>2
  <2> QED  BY <2>3, <2>4
<1>3. CASE Shutdown
  <2>1. UNCHANGED <<loop, stack, joining>> /\ mainPc = "loop" /\ mainPc' = "quit"
    BY <1>3 DEF Shutdown, workerVars
  <2>2. joining = 1 /\ \A w \in Workers : ~(w < 1)
    BY <1>0, <2>1
  <2>3. ExitedIsIdle' /\ NotJoining'
    BY <1>0, <2>1
  <2>4. JoinedIsExited'
    BY <2>1, <2>2
  <2> QED  BY <2>3, <2>4
<1>4. CASE UNCHANGED <<loop, stack, joining>> /\ mainPc' = "aborted"
  BY <1>0, <1>4
<1>5. CASE /\ UNCHANGED <<loop, stack, joining>>
           /\ mainPc \in {"loop", "flush", "move", "enqueue", "post"}
           /\ mainPc' \in {"loop", "flush", "move", "enqueue", "post"}
  BY <1>0, <1>5
<1>6. ASSUME NEW w \in Workers, WorkerAction(w)
      PROVE  ExitedIsIdle' /\ JoinedIsExited' /\ NotJoining'
  <2>1. UNCHANGED <<mainPc, joining>> /\ OthersKept(w)
    BY <1>6, WorkerEffect, OwnSlots
  <2>2. CASE ExitLoop(w)
    BY <1>0, <2>1, <2>2 DEF ExitLoop, TypeOK
  <2>3. CASE ~ExitLoop(w)
    <3>1. UNCHANGED loop /\ (stack' = stack \/ loop[w] # "exited")
      BY <1>6, <2>3 DEF WorkerAction, WorkerStep, FlushEvent, FlushLock, FlushTake, FlushReturn,
           SlotReturn, AnswerAdopted, Adopt, InEventLoop, AtPc, Running, workerVars
    <3> QED  BY <1>0, <2>1, <3>1 DEF OthersKept
  <2> QED  BY <2>2, <2>3
<1>7. CASE UNCHANGED vars
  BY <1>0, <1>7 DEF vars, mainVars, workerVars
<1> QED
  BY <1>0, <1>1, <1>2, <1>3, <1>4, <1>5, <1>6, <1>7
  DEF Next, MainStep, ShutdownStep, WorkerAction, NewRequest, FlushQueue, FlushDone, StartNext, MoveToThread,
      Enqueue, PostFlush, JoinTimeout, Terminated, mainVars, workerVars

-----------------------------------------------------------------------------
(* The theorems. *)

LEMMA IInvInit == Init => IInv
<1> SUFFICES ASSUME Init  PROVE IInv
  OBVIOUS
<1>0. TypeOK /\ Taken /\ MutexHolder
  BY TypeInit, MutexInit
<1>1. /\ \A r \in Requests : life[r] = "absent" /\ parent[r] = "nobody" /\ responder[r] = "none"
                             /\ thread[r] = Main
      /\ unhandledRequests = <<>> /\ mainPc = "loop" /\ joining = 1 /\ arrived = 0
      /\ \A w \in Workers : queue[w] = <<>> /\ stack[w] = <<>> /\ loop[w] = "running" /\ w # Main
      /\ 1..Len(<<>>) = {} /\ 2..Len(<<>>) = {}
  BY DEF Init, QueueInit, Workers
<1>2. InTurn /\ NotJoining /\ SlotHasRequest
  BY <1>1 DEF InTurn, NotJoining, SlotHasRequest
<1>3. Arrival /\ HandedOver
  BY <1>1 DEF Arrival, NotArrived, UnhandledArrived, UnhandledInOrder, UnhandledLast, HandedOver, Dequeueing,
              MovingRequest, MovingLast, Moving
<1>4. InOrder
  BY <1>1 DEF InOrder, QueueInOrder, SlotsInOrder, IsQueued
<1>5. Begun
  BY <1>1 DEF Begun, BegunRequest, Owners, SuspendedSlots, ExitedIsIdle, JoinedIsExited
<1>6. OwnThread
  BY <1>1 DEF OwnThread
<1> QED  BY <1>0, <1>2, <1>3, <1>4, <1>5, <1>6 DEF IInv, Placement

LEMMA IInvStep == IInv /\ [Next]_vars => IInv'
<1> SUFFICES ASSUME IInv, [Next]_vars  PROVE IInv'
  OBVIOUS
<1>1. CASE Next
  <2>1. TypeOK' /\ Taken' /\ MutexHolder' /\ InTurn'
    BY TypeStep, MutexStep, InTurnStep DEF IInv
  <2>2. NotJoining' /\ ExitedIsIdle' /\ JoinedIsExited' /\ Owners'
    BY <1>1, ExitStep, OwnersStep
  <2>3. Arrival' /\ HandedOver' /\ OwnUnhandled' /\ QueueInv' /\ SlotInv'
    BY <1>1, ArrivalStep, HandedOverStep, QueueStep, SlotStep
  <2>4. OwnThread'
    BY <2>3 DEF OwnThread, OwnUnhandled, QueueInv, OwnQueue, SlotInv, SlotsOf
  <2>5. SlotHasRequest' /\ InOrder'
    BY <2>3 DEF SlotHasRequest, InOrder, QueueInv, SlotInv, SlotsOf
  <2>6. Begun'
    BY <2>2, <2>3 DEF Begun, SuspendedSlots, SlotInv, SlotsOf, BegunRequest, BegunOf, RunFrame
  <2> QED  BY <2>1, <2>2, <2>3, <2>4, <2>5, <2>6 DEF IInv, Placement
<1>2. CASE UNCHANGED vars
  BY <1>2 DEF IInv, Placement, vars, queueVars, mainVars, workerVars, TypeOK, QueueTypeOK, Taken, MutexHolder, InTurn,
     NotJoining, SlotHasRequest, Arrival, NotArrived, UnhandledArrived, UnhandledInOrder, UnhandledLast,
     HandedOver, Dequeueing, MovingRequest, MovingLast, Moving, InOrder, QueueInOrder, SlotsInOrder, IsQueued,
     Begun, BegunRequest, Owners, SuspendedSlots, ExitedIsIdle, JoinedIsExited, OwnThread, NextWorker
<1> QED  BY <1>1, <1>2

\* Every request is where the order of its calls has put it.
THEOREM PlacementCorrect == Spec => []Placement
<1>1. IInv => Placement
  BY DEF IInv
<1> QED  BY <1>1, IInvInit, IInvStep, PTL DEF Spec

\* Whoever can reach a request is the thread it lives in, and it is not deleted.
THEOREM OwnThreadCorrect == Spec => []OwnThread
<1>1. IInv => OwnThread
  BY DEF IInv
<1> QED  BY <1>1, IInvInit, IInvStep, PTL DEF Spec

\* A worker starts its requests in the order of arrival.
THEOREM OrderCorrect == Spec => []OrderedStart
<1>1. IInv => OrderedStart
  <2> SUFFICES ASSUME IInv, NEW r \in Requests, NEW s \in Requests, r < s, thread[r] = thread[s],
                      thread[r] # Main, responder[s] # "none", responder[r] = "none"
               PROVE  FALSE
    BY DEF OrderedStart
  <2>0. thread \in [Requests -> Workers \union {Main}] /\ TypeOK
    BY DEF IInv, TypeOK
  <2>1. thread[r] \in Workers /\ r \in Nat /\ s \in Nat
    BY <2>0 DEF Requests
  <2>2. QueueInOrder(thread[r]) /\ IsQueued(thread[r])
    BY <2>1 DEF IInv, Placement, InOrder
  <2>3. CASE \E i \in 1..Len(queue[thread[r]]) : queue[thread[r]][i] = r
    BY <2>1, <2>2, <2>3 DEF QueueInOrder
  <2>4. CASE mainPc = "enqueue" /\ r = mainRequest
    BY <2>1, <2>4 DEF IInv, Placement, HandedOver, MovingLast, Moving
  <2> QED  BY <2>2, <2>3, <2>4 DEF IsQueued
<1> QED  BY <1>1, IInvInit, IInvStep, PTL DEF Spec

\* No slot is cut off by the shutdown.
THEOREM FinishedCorrect == Spec => []StartedIsFinished
<1>1. IInv => StartedIsFinished
  <2> SUFFICES ASSUME IInv, mainPc = "gone", NEW r \in Requests, responder[r] # "none", parent[r] = "nobody"
               PROVE  life[r] = "deleted"
    BY DEF StartedIsFinished
  <2>0. thread \in [Requests -> Workers \union {Main}] /\ thread[r] # Main
    BY DEF IInv, TypeOK, Placement, Begun, BegunRequest
  <2>1. thread[r] \in Workers
    BY <2>0
  <2>2. stack[thread[r]] = <<>>
    BY <2>1 DEF IInv, Placement, Begun, JoinedIsExited, ExitedIsIdle
  <2>3. 1..Len(stack[thread[r]]) = {}
    BY <2>2
  <2> QED  BY <2>3 DEF IInv, Placement, Begun, BegunRequest
<1> QED  BY <1>1, IInvInit, IInvStep, PTL DEF Spec

-----------------------------------------------------------------------------
(* What every responder promises. *)

Phases == [r \in Requests |-> Phase(r)]

LEMMA PhaseValue ==
  ASSUME NEW r \in Requests
  PROVE  /\ life[r] = "absent" => Phase(r) = "absent"
         /\ life[r] = "alive" /\ responder[r] = "none" => Phase(r) = "accepted"
         /\ life[r] = "alive" /\ responder[r] # "none" => Phase(r) = "responding"
         /\ life[r] = "deleted" /\ responder[r] = "none" => Phase(r) = "refused"
         /\ life[r] = "deleted" /\ responder[r] # "none" => Phase(r) = "answered"
         /\ life'[r] = "absent" => Phase(r)' = "absent"
         /\ life'[r] = "alive" /\ responder'[r] = "none" => Phase(r)' = "accepted"
         /\ life'[r] = "alive" /\ responder'[r] # "none" => Phase(r)' = "responding"
         /\ life'[r] = "deleted" /\ responder'[r] = "none" => Phase(r)' = "refused"
         /\ life'[r] = "deleted" /\ responder'[r] # "none" => Phase(r)' = "answered"
BY DEF Phase

\* A request that only moves keeps its phase.
LEMMA PhaseKept ==
  ASSUME NEW r \in Requests, life'[r] = life[r], responder'[r] = responder[r]
  PROVE  Phase(r)' = Phase(r)
BY DEF Phase

\* One request changes its phase.
LEMMA PhaseMoves ==
  ASSUME NEW q \in Requests, \A r \in Requests : r # q => Kept(r)
  PROVE  Phases' = [Phases EXCEPT ![q] = Phase(q)']
<1>1. \A r \in Requests : r # q => Phase(r)' = Phase(r)
  BY PhaseKept DEF Kept
<1> QED  BY <1>1 DEF Phases

LEMMA PhasesStay ==
  ASSUME UNCHANGED <<life, responder>>
  PROVE  UNCHANGED Phases
BY DEF Phases, Phase

LEMMA ServiceStep ==
  ASSUME IInv, [Next]_vars
  PROVE  Service!Next \/ UNCHANGED Phases
<1>0. /\ TypeOK /\ QueueTypeOK /\ Service!Requests = Requests
      /\ \A r \in Requests : Phases[r] = Phase(r)
  BY DEF IInv, TypeOK, Phases, Service!Requests, Requests
<1>1. ASSUME NEW q \in Requests, \A r \in Requests : r # q => Kept(r),
             \/ Phase(q) = "absent" /\ Phase(q)' = "accepted"
             \/ Phase(q) = "accepted" /\ Phase(q)' = "responding"
             \/ Phase(q) = "responding" /\ Phase(q)' = "answered"
      PROVE  Service!Next
  <2>1. Phases' = [Phases EXCEPT ![q] = Phase(q)']
    BY <1>1, PhaseMoves
  <2>2. Service!Accept(q) \/ Service!Respond(q) \/ Service!Answer(q)
    BY <1>0, <1>1, <2>1 DEF Service!Accept, Service!Respond, Service!Answer, Service!Move, Phases
  <2> QED  BY <1>0, <2>2 DEF Service!Next
<1>2. ASSUME NEW R \in SUBSET Requests, \A r \in Requests \ R : Phase(r)' = Phase(r),
             \A r \in R : Phase(r) \in {"absent", "accepted"} /\ Phase(r)' = "refused"
      PROVE  Service!Next
  <2>1. Phases' = [r \in Requests |-> IF r \in R THEN "refused" ELSE Phases[r]]
    BY <1>0, <1>2 DEF Phases
  <2>2. Service!Refuse
    BY <1>0, <1>2, <2>1 DEF Service!Refuse, Phases
  <2> QED  BY <2>2 DEF Service!Next
<1>3. CASE NewRequest
  <2>0. PICK q : q = arrived + 1
    OBVIOUS
  <2>1. /\ q \in Requests /\ life[q] = "absent" /\ responder[q] = "none" /\ UNCHANGED <<responder, thread>>
        /\ life' = [life EXCEPT ![q] = IF parent'[q] = "nobody" THEN "deleted" ELSE "alive"]
    BY <1>0, <1>3, <2>0, QueueAssumption
    DEF NewRequest, AddRequest, IInv, Placement, Arrival, NotArrived, Requests, QueueTypeOK
  <2>2. \A r \in Requests : r # q => Kept(r)
    BY <1>0, <1>3, <2>0, <2>1 DEF NewRequest, AddRequest, Respond, Ignore, QueueTypeOK, Kept
  <2>3. CASE life'[q] = "alive"
    BY <1>1, <2>1, <2>2, <2>3, PhaseValue
  <2>4. CASE life'[q] = "deleted"
    <3>1. Phase(q) = "absent" /\ Phase(q)' = "refused"
      BY <2>1, <2>4, PhaseValue
    <3>2. \A r \in Requests \ {q} : Phase(r)' = Phase(r)
      BY <2>2, PhaseKept DEF Kept
    <3>3. {q} \in SUBSET Requests /\ \A r \in {q} : Phase(r) = "absent" /\ Phase(r)' = "refused"
      BY <2>1, <3>1
    <3> QED  BY <1>2, <3>2, <3>3
  <2> QED  BY <1>0, <2>1, <2>3, <2>4 DEF QueueTypeOK
<1>4. CASE JoinThread
  <2>1. UNCHANGED responder /\ mainPc = "wait" /\ (UNCHANGED life \/ DestroyQueue)
    BY <1>4 DEF JoinThread
  <2>2. CASE UNCHANGED life
    BY <2>1, <2>2, PhasesStay
  <2>3. CASE DestroyQueue
    <3> DEFINE R == {r \in Requests : parent[r] = "queue"}
    <3>1. \A r \in R : life[r] = "alive" /\ responder[r] = "none" /\ life'[r] = "deleted"
      BY <2>1, <2>3 DEF DestroyQueue, IInv, Placement, Begun, Owners, BegunRequest
    <3>2. \A r \in R : Phase(r) = "accepted" /\ Phase(r)' = "refused"
      BY <2>1, <3>1, PhaseValue
    <3>3. \A r \in Requests \ R : Phase(r)' = Phase(r)
      BY <2>1, <2>3, PhaseKept DEF DestroyQueue
    <3> QED  BY <1>2, <3>2, <3>3
  <2> QED  BY <2>1, <2>2, <2>3
<1>5. ASSUME NEW w \in Workers, WorkerAction(w)  PROVE Service!Next \/ UNCHANGED Phases
  <2>1. \A r \in Requests : Kept(r) \/ (InHands(w, r) /\ Handled(r))
    BY <1>5, WorkerEffect
  <2>2. ASSUME NEW q \in Requests, \A r \in Requests : r # q => Kept(r)
        PROVE  Service!Next \/ UNCHANGED Phases
    <3>1. CASE Kept(q)
      <4>1. \A r \in Requests : Phase(r)' = Phase(r)
        BY <2>2, <3>1, PhaseKept DEF Kept
      <4> QED  BY <4>1 DEF Phases
    <3>2. CASE InHands(w, q) /\ Handled(q)
      <4>1. Phase(q)' = Phase(q) => UNCHANGED Phases
        <5>1. \A r \in Requests : r # q => Phase(r)' = Phase(r)
          BY <2>2, PhaseKept DEF Kept
        <5> QED  BY <5>1 DEF Phases
      <4>2. CASE responder[q] # "none"
        <5>1. Phase(q) = "responding" /\ (Phase(q)' = "responding" \/ Phase(q)' = "answered")
          BY <3>2, <4>2, PhaseValue DEF InHands, Handled
        <5> QED  BY <1>1, <2>2, <4>1, <5>1
      <4>3. CASE responder[q] = "none"
        <5>1. Phase(q) = "accepted" /\ Phase(q)' = "responding"
          BY <3>2, <4>3, PhaseValue DEF InHands, Handled
        <5> QED  BY <1>1, <2>2, <5>1
      <4> QED  BY <4>2, <4>3
    <3> QED  BY <2>1, <3>1, <3>2
  <2>3. CASE \A r \in Requests : Kept(r)
    <3>1. \A r \in Requests : Phase(r)' = Phase(r)
      BY <2>3, PhaseKept DEF Kept
    <3> QED  BY <3>1 DEF Phases
  <2> QED  BY <1>5, <2>2, <2>3, WorkerEffect DEF OneHandled
<1>6. CASE UNCHANGED <<life, responder>>
  BY <1>6, PhasesStay
<1> QED
  BY <1>3, <1>4, <1>5, <1>6
  DEF Next, MainStep, ShutdownStep, WorkerAction, FlushQueue, FlushDone, StartNext, Dequeue, MoveToThread,
      Enqueue, PostFlush, Shutdown, QuitThread, JoinTimeout, Terminated, vars, queueVars

\* Every step of the threads is a step of the service that a responder promises,
\* or changes none of its requests.
THEOREM ServiceImplemented == Spec => ImplementsService
<1>1. Init => Service!Init
  BY DEF Init, QueueInit, Service!Init, Service!Requests, Requests, Phase
<1>2. IInv /\ [Next]_vars => [Service!Next]_Phases
  BY ServiceStep
<1>3. IInv /\ [Next]_vars => [Service!Next]_[r \in Requests |-> Phase(r)]
  BY <1>2 DEF Phases
<1> QED  BY <1>1, <1>3, IInvInit, IInvStep, PTL DEF Spec, ImplementsService, Service!Spec
=============================================================================
