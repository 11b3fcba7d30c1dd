---------------------------- MODULE RequestQueue ----------------------------
(***************************************************************************)
(* The life of a request inside the process, as far as it does not depend  *)
(* on the kind of responder: CommunicationInterface::addRequest creates    *)
(* it, RequestQueue::respond takes it over and queues a runner for it,     *)
(* RequestQueue::flushQueue hands it on, RequestRunner::run invokes the    *)
(* responder's slot and deletes what the slot did not adopt.               *)
(*                                                                         *)
(* The operators are the action fragments that BlockingResponder and       *)
(* ThreadedResponder compose.  A RequestRunner holds exactly one request,  *)
(* so the queue of runners is a sequence of requests.  Requests are        *)
(* numbered in the order in which they arrive.                             *)
(***************************************************************************)
EXTENDS Naturals, Sequences

CONSTANTS MaxRequests,  \* bound: how many requests arrive
          Persist       \* SpawnerBase::persist(): one prespawned responder object

ASSUME QueueAssumption == MaxRequests \in Nat /\ Persist \in BOOLEAN

VARIABLES arrived,            \* how many requests have been created
          life,               \* "absent", "alive" or "deleted", per request
          parent,             \* QObject::parent() of each request
          responder,          \* the object the request's slot is invoked on
          unhandledRequests,  \* m_unhandledRequests
          queueRunner         \* m_queueRunner, the 0 ms single-shot timer, is active

queueVars == <<arrived, life, parent, responder, unhandledRequests, queueRunner>>

Requests == 1..MaxRequests

QueueTypeOK ==
  /\ arrived \in 0..MaxRequests
  /\ life \in [Requests -> {"absent", "alive", "deleted"}]
  /\ parent \in [Requests -> {"nobody", "queue", "responder"}]
  /\ responder \in [Requests -> {"none", "alive", "deleted"}]
  /\ unhandledRequests \in Seq(Requests)
  /\ queueRunner \in BOOLEAN

QueueInit ==
  /\ arrived = 0
  /\ life = [r \in Requests |-> "absent"]
  /\ parent = [r \in Requests |-> "nobody"]
  /\ responder = [r \in Requests |-> "none"]
  /\ unhandledRequests = <<>>
  /\ queueRunner = FALSE

-----------------------------------------------------------------------------
\* m_unhandledRequests.enqueue, and two variants for mutation.
Enqueued_AtHead(r) == <<r>> \o unhandledRequests
Enqueued_OffByOne(r) == Append(unhandledRequests, r - 1)
Enqueued(r) == Append(unhandledRequests, r)

\* setParent(this) in respond, and a variant for mutation.
QueueParent_None == "nobody"
QueueParent == "queue"

\* RequestQueue::respond: the parent keeps addRequest from collecting the
\* request; the timer (re)starts, a running timer is not started twice.
Respond(r) ==
  /\ parent' = [parent EXCEPT ![r] = QueueParent]
  /\ unhandledRequests' = Enqueued(r)
  /\ queueRunner' = TRUE

\* No slot connected to newRequest() takes the request.
Ignore == UNCHANGED <<parent, unhandledRequests, queueRunner>>

\* CommunicationInterface::addRequest: create, emit newRequest() (its slots run
\* inside the emission), then delete the request if nobody has taken it.
AddRequest ==
  LET r == arrived + 1 IN
  /\ arrived < MaxRequests
  /\ arrived' = r
  /\ Respond(r) \/ Ignore
  /\ life' = [life EXCEPT ![r] = IF parent'[r] = "nobody" THEN "deleted" ELSE "alive"]
  /\ UNCHANGED responder

\* The single-shot timer times out and is no longer active.
QueueRunnerTimeout ==
  /\ queueRunner
  /\ queueRunner' = FALSE

\* m_unhandledRequests.dequeue, and a variant for mutation.
Dequeued_Peek == unhandledRequests
Dequeued == Tail(unhandledRequests)

\* One turn of the loop of RequestQueue::flushQueue, up to the call of start().
Dequeue ==
  /\ unhandledRequests # <<>>
  /\ unhandledRequests' = Dequeued
  /\ parent' = [parent EXCEPT ![Head(unhandledRequests)] = "nobody"]

\* RequestRunner::run up to the invocation of the slot.
SpawnResponder(r) ==
  responder' = [responder EXCEPT ![r] = "alive"]

\* The slot calls request->setParent(this) to answer later.
SetParent(r) ==
  parent' = [parent EXCEPT ![r] = "responder"]

\* Nobody owns the request, and two variants for mutation.
Unowned_Never(r) == FALSE
Unowned_Always(r) == TRUE
Unowned(r) == parent[r] = "nobody"

\* RequestRunner::run after the slot has returned.
AfterSlot(r) ==
  IF Unowned(r)
  THEN /\ life' = [life EXCEPT ![r] = "deleted"]
       /\ responder' = IF Persist THEN responder
                       ELSE [responder EXCEPT ![r] = "deleted"]
  ELSE UNCHANGED <<life, responder>>

\* A responder that adopted the request is done with it: it deletes itself and,
\* with it, the request; a prespawned one stays and deletes the request only.
DeleteAdopted(r) ==
  /\ parent[r] = "responder" /\ life[r] = "alive"
  /\ life' = [life EXCEPT ![r] = "deleted"]
  /\ responder' = IF Persist THEN responder
                  ELSE [responder EXCEPT ![r] = "deleted"]

\* ~RequestQueue: the QObject deletes its children, the timer and the requests
\* that are still queued.  The runners in m_unhandledRequests are not deleted.
DestroyQueue ==
  /\ queueRunner' = FALSE
  /\ life' = [r \in Requests |-> IF parent[r] = "queue" THEN "deleted" ELSE life[r]]

=============================================================================
