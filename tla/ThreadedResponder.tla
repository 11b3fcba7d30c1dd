-------------------------- MODULE ThreadedResponder --------------------------
(***************************************************************************)
(* ThreadedResponder: the RequestQueue of the main thread feeds the        *)
(* ThreadPool.  Thread 0 is the main thread, threads 1..ThreadCount are    *)
(* the pool's; each of those runs an event loop whose only events for us   *)
(* are the queued calls of Worker::flushQueue.  A slot that waits for POST *)
(* data runs a nested event loop, which may dispatch another flushQueue of *)
(* the same worker: a worker therefore has a stack of flushQueue frames,   *)
(* the newest first, and only the newest one moves.                        *)
(***************************************************************************)
EXTENDS RequestQueue, Integers, FiniteSets

CONSTANT ThreadCount  \* m_threadCount

ASSUME ThreadAssumption == ThreadCount \in Nat \ {0}

VARIABLES thread,          \* QObject::thread() of each request and its device
          mainPc,          \* where the main thread is
          mainRequest,     \* the request flushQueue is starting; 0: none
          joining,         \* the thread ~ThreadPool is at
          nextWorker,      \* m_nextWorker, counted from 0
          queue,           \* Worker::m_queue
          queueMutex,      \* Worker::m_queueMutex: "free", "main" or "worker"
          posted,          \* flushQueue calls in the worker's event queue
          stack,           \* the flushQueue calls in progress, newest first
          loop             \* event loop: "running", "quitting" or "exited"

mainVars == <<mainPc, mainRequest, joining, nextWorker>>
workerVars == <<queue, queueMutex, posted, stack, loop>>
vars == <<queueVars, thread, mainVars, workerVars>>

Main == 0
Workers == 1..ThreadCount
NoRequest == 0

\* A flushQueue frame waits for the mutex, tests the queue under it, or runs
\* the slot for a request.
Frame == [pc : {"lock", "test", "run"}, request : Requests \union {NoRequest}]

TypeOK ==
  /\ QueueTypeOK
  /\ thread \in [Requests -> Workers \union {Main}]
  /\ mainPc \in {"loop", "flush", "move", "enqueue", "post", "quit", "wait", "gone", "aborted"}
  /\ mainRequest \in Requests \union {NoRequest}
  /\ joining \in Workers
  /\ nextWorker \in 0..(ThreadCount - 1)
  /\ queue \in [Workers -> Seq(Requests)]
  /\ queueMutex \in [Workers -> {"free", "main", "worker"}]
  /\ posted \in [Workers -> Nat]
  /\ stack \in [Workers -> Seq(Frame)]
  /\ loop \in [Workers -> {"running", "quitting", "exited"}]

Init ==
  /\ QueueInit
  /\ thread = [r \in Requests |-> Main]
  /\ mainPc = "loop" /\ mainRequest = NoRequest
  /\ joining = 1 /\ nextWorker = 0
  /\ queue = [w \in Workers |-> <<>>]
  /\ queueMutex = [w \in Workers |-> "free"]
  /\ posted = [w \in Workers |-> 0]
  /\ stack = [w \in Workers |-> <<>>]
  /\ loop = [w \in Workers |-> "running"]

-----------------------------------------------------------------------------
(* The main thread. *)

NewRequest ==
  /\ mainPc = "loop"
  /\ AddRequest
  /\ UNCHANGED <<thread, mainVars, workerVars>>

FlushQueue ==
  /\ mainPc = "loop"
  /\ QueueRunnerTimeout
  /\ mainPc' = "flush"
  /\ UNCHANGED <<arrived, life, parent, responder, unhandledRequests, thread,
                 mainRequest, joining, nextWorker, workerVars>>

StartNext ==
  /\ mainPc = "flush"
  /\ Dequeue
  /\ mainRequest' = Head(unhandledRequests)
  /\ mainPc' = "move"
  /\ UNCHANGED <<arrived, life, responder, queueRunner, thread, joining, nextWorker, workerVars>>

\* A variant for mutation: flushQueue does not look for more.
FlushDone_Early ==
  /\ mainPc = "flush" /\ mainPc' = "loop"
  /\ UNCHANGED <<queueVars, thread, mainRequest, joining, nextWorker, workerVars>>

FlushDone ==
  /\ mainPc = "flush" /\ unhandledRequests = <<>>
  /\ mainPc' = "loop"
  /\ UNCHANGED <<queueVars, thread, mainRequest, joining, nextWorker, workerVars>>

NextWorker == nextWorker + 1  \* the thread of m_workers[m_nextWorker]

\* ThreadPool::start: the request changes threads before the worker knows it.
MoveToThread ==
  /\ mainPc = "move"
  /\ thread' = [thread EXCEPT ![mainRequest] = NextWorker]
  /\ mainPc' = "enqueue"
  /\ UNCHANGED <<queueVars, mainRequest, joining, nextWorker, workerVars>>

\* m_queue.enqueue, and a variant for mutation.
Queued_AtHead(w, r) == <<r>> \o queue[w]
Queued(w, r) == Append(queue[w], r)

\* Worker::enqueue, with the mutex held from here ...
Enqueue ==
  /\ mainPc = "enqueue"
  /\ queueMutex[NextWorker] = "free"
  /\ queueMutex' = [queueMutex EXCEPT ![NextWorker] = "main"]
  /\ queue' = [queue EXCEPT ![NextWorker] = Queued(NextWorker, mainRequest)]
  /\ mainPc' = "post"
  /\ UNCHANGED <<queueVars, thread, mainRequest, joining, nextWorker, posted, stack, loop>>

\* The round robin over the workers, and a variant for mutation.
Advance_NoWrap == nextWorker + 1
Advance == (nextWorker + 1) % ThreadCount

\* ... until the flushQueue call is in the worker's event queue.
PostFlush ==
  /\ mainPc = "post"
  /\ posted' = [posted EXCEPT ![NextWorker] = @ + 1]
  /\ queueMutex' = [queueMutex EXCEPT ![NextWorker] = "free"]
  /\ nextWorker' = Advance
  /\ mainRequest' = NoRequest
  /\ mainPc' = "flush"
  /\ UNCHANGED <<queueVars, thread, joining, queue, stack, loop>>

-----------------------------------------------------------------------------
(* The end of the process: exec() has returned, ~ThreadedResponder deletes *)
(* the RequestQueue's children: its timer, the pool, the queued requests.  *)

Shutdown ==
  /\ mainPc = "loop"
  /\ mainPc' = "quit"
  /\ UNCHANGED <<queueVars, thread, mainRequest, joining, nextWorker, workerVars>>

QuitThread ==
  /\ mainPc = "quit"
  /\ loop' = [loop EXCEPT ![joining] = "quitting"]
  /\ mainPc' = "wait"
  /\ UNCHANGED <<queueVars, thread, mainRequest, joining, nextWorker,
                 queue, queueMutex, posted, stack>>

\* wait(10000) has succeeded, and a variant for mutation.
Joined_Regardless == TRUE
Joined == loop[joining] = "exited"

\* The thread ended within wait(10000): delete it, its worker and the worker's
\* undelivered events.  After the last one the queued requests are deleted.
JoinThread ==
  /\ mainPc = "wait" /\ Joined
  /\ posted' = [posted EXCEPT ![joining] = 0]
  /\ IF joining < ThreadCount
     THEN /\ joining' = joining + 1
          /\ mainPc' = "quit"
          /\ UNCHANGED <<life, queueRunner>>
     ELSE /\ mainPc' = "gone"
          /\ DestroyQueue
          /\ UNCHANGED joining
  /\ UNCHANGED <<arrived, parent, responder, unhandledRequests, thread, mainRequest,
                 nextWorker, queue, queueMutex, stack, loop>>

\* The ten seconds pass; deleting a QThread that still runs ends the process.
JoinTimeout ==
  /\ mainPc = "wait" /\ loop[joining] # "exited"
  /\ mainPc' = "aborted"
  /\ UNCHANGED <<queueVars, thread, mainRequest, joining, nextWorker, workerVars>>

-----------------------------------------------------------------------------
(* A worker thread w. *)

Running(w) == mainPc # "aborted" /\ loop[w] # "exited"
AtPc(w, pc) == Running(w) /\ stack[w] # <<>> /\ Head(stack[w]).pc = pc
Current(w) == Head(stack[w]).request

\* The newest frame of w becomes f.
Goto(w, f) == stack' = [stack EXCEPT ![w] = <<f>> \o Tail(@)]

\* The thread's event loop has control: nothing is in progress, or the newest
\* slot waits for POST data.  No slot waits for data it has handed on.
InEventLoop(w) ==
  /\ Running(w)
  /\ stack[w] # <<>> => /\ Head(stack[w]).pc = "run"
                        /\ parent[Current(w)] = "nobody"

FlushEvent(w) ==
  /\ InEventLoop(w)
  /\ posted[w] > 0
  /\ posted' = [posted EXCEPT ![w] = @ - 1]
  /\ stack' = [stack EXCEPT ![w] = <<[pc |-> "lock", request |-> NoRequest]>> \o @]
  /\ UNCHANGED <<queueVars, thread, mainVars, queue, queueMutex, loop>>

FlushLock(w) ==
  /\ AtPc(w, "lock")
  /\ queueMutex[w] = "free"
  /\ queueMutex' = [queueMutex EXCEPT ![w] = "worker"]
  /\ Goto(w, [pc |-> "test", request |-> NoRequest])
  /\ UNCHANGED <<queueVars, thread, mainVars, queue, posted, loop>>

\* lock.unlock() around the slot, and a variant for mutation.
Unlocked_Not(w) == queueMutex
Unlocked(w) == [queueMutex EXCEPT ![w] = "free"]

\* takeFirst, unlock, and RequestRunner::run up to the slot.
FlushTake(w) ==
  /\ AtPc(w, "test")
  /\ queue[w] # <<>>
  /\ queue' = [queue EXCEPT ![w] = Tail(@)]
  /\ queueMutex' = Unlocked(w)
  /\ SpawnResponder(Head(queue[w]))
  /\ Goto(w, [pc |-> "run", request |-> Head(queue[w])])
  /\ UNCHANGED <<arrived, life, parent, unhandledRequests, queueRunner, thread, mainVars,
                 posted, loop>>

FlushReturn(w) ==
  /\ AtPc(w, "test")
  /\ queue[w] = <<>>
  /\ queueMutex' = [queueMutex EXCEPT ![w] = "free"]
  /\ stack' = [stack EXCEPT ![w] = Tail(@)]
  /\ UNCHANGED <<queueVars, thread, mainVars, queue, posted, loop>>

Adopt(w) ==
  /\ AtPc(w, "run")
  /\ parent[Current(w)] = "nobody"
  /\ SetParent(Current(w))
  /\ UNCHANGED <<arrived, life, responder, unhandledRequests, queueRunner, thread,
                 mainVars, workerVars>>

\* The slot returns, run() cleans up, flushQueue goes for the mutex again.
SlotReturn(w) ==
  /\ AtPc(w, "run")
  /\ AfterSlot(Current(w))
  /\ Goto(w, [pc |-> "lock", request |-> NoRequest])
  /\ UNCHANGED <<arrived, parent, unhandledRequests, queueRunner, thread, mainVars,
                 queue, queueMutex, posted, loop>>

\* An adopting responder finishes, from an event of its own thread's loop.
AnswerAdopted(w) ==
  /\ InEventLoop(w)
  /\ \E r \in Requests : thread[r] = w /\ DeleteAdopted(r)
  /\ UNCHANGED <<arrived, parent, unhandledRequests, queueRunner, thread, mainVars, workerVars>>

\* After quit() the outermost loop may still deliver events that were posted.
ExitLoop(w) ==
  /\ mainPc # "aborted"
  /\ loop[w] = "quitting" /\ stack[w] = <<>>
  /\ loop' = [loop EXCEPT ![w] = "exited"]
  /\ UNCHANGED <<queueVars, thread, mainVars, queue, queueMutex, posted, stack>>

-----------------------------------------------------------------------------
MainStep == FlushQueue \/ StartNext \/ FlushDone \/ MoveToThread \/ Enqueue \/ PostFlush
ShutdownStep == Shutdown \/ QuitThread \/ JoinThread \/ JoinTimeout
WorkerStep(w) ==
  \/ FlushEvent(w) \/ FlushLock(w) \/ FlushTake(w) \/ FlushReturn(w)
  \/ SlotReturn(w) \/ AnswerAdopted(w)

\* The process has ended.
Terminated == mainPc \in {"gone", "aborted"} /\ UNCHANGED vars

Next ==
  \/ NewRequest \/ MainStep \/ ShutdownStep
  \/ \E w \in Workers : WorkerStep(w) \/ Adopt(w) \/ ExitLoop(w)
  \/ Terminated

Spec == Init /\ [][Next]_vars

\* Threads are scheduled, their event loops deliver what is posted, a timer
\* that is due fires, and a responder ends: a slot returns, an adopting
\* responder gets the rest of its data.
Fairness ==
  /\ WF_vars(MainStep)
  /\ \A w \in Workers : WF_vars(WorkerStep(w))

FairSpec == Spec /\ Fairness

-----------------------------------------------------------------------------
(* Properties. *)

ShuttingDown == mainPc \in {"quit", "wait", "gone", "aborted"}
Flushing == mainPc \in {"flush", "move", "enqueue", "post"}

\* Work is never left behind without someone bound to look at it: queued requests
\* with the timer or flushQueue active (RequestQueue.cpp:45-62), a worker's queue
\* with an event posted, a flush in progress or the producer about to post
\* (ThreadPool_Worker.cpp:28-49).
NoLostWakeup ==
  /\ unhandledRequests # <<>> => queueRunner \/ Flushing \/ ShuttingDown
  /\ \A w \in Workers :
       queue[w] # <<>> =>
         posted[w] > 0 \/ stack[w] # <<>> \/ queueMutex[w] = "main" \/ loop[w] = "exited"

\* Whoever can reach a request is the thread it lives in, and the request is not
\* deleted, taken twice, or left to the collection of addRequest: in the queue
\* (parented), in a worker's queue (not yet given to a responder), in a slot.
OwnThread ==
  /\ mainPc # "gone" =>
       \A i \in 1..Len(unhandledRequests) :
         LET r == unhandledRequests[i] IN
         life[r] = "alive" /\ parent[r] = "queue" /\ responder[r] = "none" /\ thread[r] = Main
  /\ \A w \in Workers : \A i \in 1..Len(queue[w]) :
         LET r == queue[w][i] IN
         life[r] = "alive" /\ parent[r] = "nobody" /\ responder[r] = "none" /\ thread[r] = w
  /\ \A w \in Workers : \A i \in 1..Len(stack[w]) :
         LET r == stack[w][i].request IN
         stack[w][i].pc = "run" =>
           life[r] = "alive" /\ parent[r] # "queue" /\ responder[r] = "alive" /\ thread[r] = w

\* The queue's mutex is not recursive: a worker holds it only while its newest
\* flushQueue tests the queue, never around a slot, whose nested event loop may
\* enter flushQueue again; the main thread only while it enqueues to that worker.
MutexHolder ==
  \A w \in Workers :
    /\ queueMutex[w] = "main" <=> mainPc = "post" /\ w = NextWorker
    /\ queueMutex[w] = "worker" <=> stack[w] # <<>> /\ Head(stack[w]).pc = "test"
    /\ \A i \in 2..Len(stack[w]) : stack[w][i].pc = "run"

\* A worker starts its requests in the order in which they arrived, nested event
\* loops included.
OrderedStart ==
  \A r, s \in Requests :
    r < s /\ thread[r] = thread[s] /\ thread[r] # Main /\ responder[s] # "none"
      => responder[r] # "none"

\* Once ~ThreadPool is through, every request whose slot had begun has been
\* answered, unless the slot adopted it: no slot is cut off half-way, none runs on.
StartedIsFinished ==
  mainPc = "gone" =>
    \A r \in Requests : responder[r] # "none" /\ parent[r] = "nobody" => life[r] = "deleted"

\* Why these hold: the places a request goes through, in the order of arrival.
\* Before its place in m_unhandledRequests, and in it:
NotArrived ==
  \A r \in Requests : r > arrived =>
    life[r] = "absent" /\ parent[r] = "nobody" /\ responder[r] = "none" /\ thread[r] = Main
UnhandledArrived == \A i \in 1..Len(unhandledRequests) : unhandledRequests[i] <= arrived
UnhandledInOrder ==
  \A i, j \in 1..Len(unhandledRequests) : i < j => unhandledRequests[i] < unhandledRequests[j]
UnhandledLast ==
  \A r \in Requests : thread[r] # Main \/ (mainPc = "move" /\ r = mainRequest) =>
    \A i \in 1..Len(unhandledRequests) : r < unhandledRequests[i]

Arrival == NotArrived /\ UnhandledArrived /\ UnhandledInOrder /\ UnhandledLast

\* Between that and a worker's queue:
Moving == mainPc \in {"move", "enqueue"}
Dequeueing == mainPc \in {"move", "enqueue", "post"} => mainRequest \in Requests /\ mainRequest <= arrived
MovingRequest ==
  Moving => /\ life[mainRequest] = "alive" /\ parent[mainRequest] = "nobody"
            /\ responder[mainRequest] = "none"
            /\ thread[mainRequest] = IF mainPc = "move" THEN Main ELSE NextWorker
MovingLast ==
  Moving => /\ \A r \in Requests : thread[r] # Main => r <= mainRequest
            /\ \A i \in 1..Len(queue[NextWorker]) : queue[NextWorker][i] < mainRequest

HandedOver == Dequeueing /\ MovingRequest /\ MovingLast

\* In a worker's queue, then in its slots:
QueueInOrder(w) ==
  /\ \A i, j \in 1..Len(queue[w]) : i < j => queue[w][i] < queue[w][j]
  /\ \A i \in 1..Len(queue[w]) : \A r \in Requests :
       thread[r] = w /\ responder[r] # "none" => r < queue[w][i]
SlotsInOrder(w) ==
  \A i, j \in 1..Len(stack[w]) :
    i < j /\ stack[w][i].pc = "run" /\ stack[w][j].pc = "run"
      => stack[w][j].request < stack[w][i].request
IsQueued(w) ==
  \A r \in Requests : thread[r] = w /\ responder[r] = "none" =>
    (\E i \in 1..Len(queue[w]) : queue[w][i] = r) \/ (mainPc = "enqueue" /\ r = mainRequest)

InOrder == \A w \in Workers : QueueInOrder(w) /\ SlotsInOrder(w) /\ IsQueued(w)

\* After the slot has begun, until the thread has been joined:
BegunRequest ==
  \A r \in Requests : responder[r] # "none" =>
    /\ thread[r] # Main /\ parent[r] # "queue"
    /\ parent[r] = "nobody" =>
         life[r] = "deleted" \/ \E i \in 1..Len(stack[thread[r]]) :
                                  stack[thread[r]][i] = [pc |-> "run", request |-> r]
Owners ==
  \A r \in Requests :
    /\ life[r] # "alive" => parent[r] # "queue" \/ mainPc = "gone"
    /\ parent[r] = "responder" => responder[r] # "none"
SuspendedSlots ==
  \A w \in Workers : \A i \in 2..Len(stack[w]) : parent[stack[w][i].request] = "nobody"
ExitedIsIdle == \A w \in Workers : loop[w] = "exited" => stack[w] = <<>>
JoinedIsExited ==
  \A w \in Workers :
    mainPc = "gone" \/ (mainPc \in {"quit", "wait"} /\ w < joining) => loop[w] = "exited"

Begun == BegunRequest /\ Owners /\ SuspendedSlots /\ ExitedIsIdle /\ JoinedIsExited

Placement == Arrival /\ HandedOver /\ InOrder /\ Begun

\* What every responder promises, see RequestService.
Phase(r) ==
  CASE life[r] = "absent" -> "absent"
    [] life[r] = "alive" -> IF responder[r] = "none" THEN "accepted" ELSE "responding"
    [] life[r] = "deleted" -> IF responder[r] = "none" THEN "refused" ELSE "answered"

Service == INSTANCE RequestService WITH phase <- [r \in Requests |-> Phase(r)]
ImplementsService == Service!Spec

\* Every request is answered in the end, whatever the nesting of event loops,
\* unless the process shuts down first.
EveryRequestAnswered ==
  \A r \in Requests : life[r] = "alive" ~> life[r] = "deleted" \/ ShuttingDown
=============================================================================
