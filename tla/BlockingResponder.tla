-------------------------- MODULE BlockingResponder --------------------------
(***************************************************************************)
(* BlockingResponder: the RequestQueue runs every slot itself, in the main *)
(* thread.  A slot that waits for POST data runs a nested event loop, from *)
(* which requests may be added and flushQueue be entered again: the main   *)
(* thread has a stack of flushQueue calls, the newest first, each with the *)
(* request whose slot it is in, or NoRequest between two requests.         *)
(***************************************************************************)
EXTENDS RequestQueue

VARIABLES stack,  \* the flushQueue calls in progress
          ended   \* exec() has returned and ~BlockingResponder has run

vars == <<queueVars, stack, ended>>

NoRequest == 0

TypeOK ==
  /\ QueueTypeOK
  /\ stack \in Seq(Requests \union {NoRequest})
  /\ ended \in BOOLEAN

Init == QueueInit /\ stack = <<>> /\ ended = FALSE

-----------------------------------------------------------------------------
\* Control is in an event loop: the outermost one, or the one of the newest
\* slot.  No slot waits for data it has handed on.
InEventLoop ==
  /\ ~ended
  /\ stack # <<>> => Head(stack) # NoRequest /\ parent[Head(stack)] = "nobody"

InSlot == stack # <<>> /\ Head(stack) # NoRequest
BetweenRequests == stack # <<>> /\ Head(stack) = NoRequest

NewRequest ==
  /\ InEventLoop
  /\ AddRequest
  /\ UNCHANGED <<stack, ended>>

FlushQueue ==
  /\ InEventLoop
  /\ QueueRunnerTimeout
  /\ stack' = <<NoRequest>> \o stack
  /\ UNCHANGED <<arrived, life, parent, responder, unhandledRequests, ended>>

\* dequeue, setParent(0), and start(runner): RequestRunner::run up to the slot.
RunNext ==
  /\ BetweenRequests
  /\ Dequeue
  /\ SpawnResponder(Head(unhandledRequests))
  /\ stack' = <<Head(unhandledRequests)>> \o Tail(stack)
  /\ UNCHANGED <<arrived, life, queueRunner, ended>>

\* A variant for mutation: flushQueue does not look for more.
FlushDone_Early ==
  BetweenRequests /\ stack' = Tail(stack) /\ UNCHANGED <<queueVars, ended>>

FlushDone ==
  /\ BetweenRequests
  /\ unhandledRequests = <<>>
  /\ stack' = Tail(stack)
  /\ UNCHANGED <<queueVars, ended>>

Adopt ==
  /\ InSlot
  /\ parent[Head(stack)] = "nobody"
  /\ SetParent(Head(stack))
  /\ UNCHANGED <<arrived, life, responder, unhandledRequests, queueRunner, stack, ended>>

SlotReturn ==
  /\ InSlot
  /\ AfterSlot(Head(stack))
  /\ stack' = <<NoRequest>> \o Tail(stack)
  /\ UNCHANGED <<arrived, parent, unhandledRequests, queueRunner, ended>>

AnswerAdopted ==
  /\ InEventLoop
  /\ \E r \in Requests : DeleteAdopted(r)
  /\ UNCHANGED <<arrived, parent, unhandledRequests, queueRunner, stack, ended>>

\* exec() returns, the responder is destroyed.
Shutdown ==
  /\ ~ended /\ stack = <<>>
  /\ ended' = TRUE
  /\ DestroyQueue
  /\ UNCHANGED <<arrived, parent, responder, unhandledRequests, stack>>

Terminated == ended /\ UNCHANGED vars

Step == FlushQueue \/ RunNext \/ FlushDone \/ SlotReturn \/ AnswerAdopted

Next == NewRequest \/ Step \/ Adopt \/ Shutdown \/ Terminated

Spec == Init /\ [][Next]_vars

-----------------------------------------------------------------------------
(* Properties. *)

\* No request is run twice, run while it is queued, or deleted under a slot that
\* is still running in an outer event loop.
SlotOwnsRequest ==
  /\ \A i, j \in 1..Len(stack) : i # j /\ stack[i] # NoRequest => stack[i] # stack[j]
  /\ \A i \in 1..Len(stack) : stack[i] # NoRequest =>
       life[stack[i]] = "alive" /\ parent[stack[i]] # "queue" /\ responder[stack[i]] = "alive"
  /\ ~ended => \A i \in 1..Len(unhandledRequests) :
       LET r == unhandledRequests[i] IN
       life[r] = "alive" /\ parent[r] = "queue" /\ responder[r] = "none"

Phase(r) ==
  CASE life[r] = "absent" -> "absent"
    [] life[r] = "alive" -> IF responder[r] = "none" THEN "accepted" ELSE "responding"
    [] life[r] = "deleted" -> IF responder[r] = "none" THEN "refused" ELSE "answered"

\* What every responder promises, see RequestService.
Service == INSTANCE RequestService WITH phase <- [r \in Requests |-> Phase(r)]
ImplementsService == Service!Spec
=============================================================================
