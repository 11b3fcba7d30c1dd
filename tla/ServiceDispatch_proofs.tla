------------------------ MODULE ServiceDispatch_proofs ------------------------
(***************************************************************************)
(* Proofs about BlockingResponder, for any number of requests, and about   *)
(* ServiceDispatch, for any paths, mappings, services and scripts of their *)
(* methods.                                                                *)
(***************************************************************************)
EXTENDS ServiceDispatch, SequenceLemmas

USE DEF NoRequest

-----------------------------------------------------------------------------
(* BlockingResponder: the inductive invariant. *)

NotArrived ==
  \A r \in Requests : r > arrived => life[r] = "absent" /\ parent[r] = "nobody" /\ responder[r] = "none"

\* The requests of m_unhandledRequests, each there once.
UnhandledOnce == \A i, j \in 1..Len(unhandledRequests) : i # j => unhandledRequests[i] # unhandledRequests[j]
UnhandledOwned ==
  ~ended => \A i \in 1..Len(unhandledRequests) :
    LET r == unhandledRequests[i] IN
    life[r] = "alive" /\ parent[r] = "queue" /\ responder[r] = "none"

\* The flushQueue calls in progress: all but the newest wait in a slot, for data.
StackOnce == \A i, j \in 1..Len(stack) : i # j /\ stack[i] # NoRequest => stack[i] # stack[j]
StackOwned ==
  \A i \in 1..Len(stack) : stack[i] # NoRequest =>
    life[stack[i]] = "alive" /\ parent[stack[i]] # "queue" /\ responder[stack[i]] = "alive"
Suspended == \A i \in 2..Len(stack) : stack[i] # NoRequest /\ parent[stack[i]] = "nobody"
EndedIsIdle == ended => stack = <<>>

Owners ==
  \A r \in Requests :
    /\ parent[r] = "queue" => (life[r] = "alive" \/ ended) /\ responder[r] = "none"
    /\ parent[r] = "responder" => responder[r] # "none"

IInv ==
  /\ TypeOK /\ NotArrived /\ UnhandledOnce /\ UnhandledOwned
  /\ StackOnce /\ StackOwned /\ Suspended /\ EndedIsIdle /\ Owners

LEMMA OwnsRequest == IInv => SlotOwnsRequest
BY DEF IInv, SlotOwnsRequest, StackOnce, StackOwned, UnhandledOwned

LEMMA IInvInit == Init => IInv
<1> SUFFICES ASSUME Init  PROVE IInv
  OBVIOUS
<1>1. <<>> \in Seq(Requests) /\ <<>> \in Seq(Requests \union {NoRequest}) /\ 0 \in 0..MaxRequests
  BY QueueAssumption
<1>2. TypeOK
  BY <1>1 DEF Init, QueueInit, TypeOK, QueueTypeOK
<1>3. Len(<<>>) = 0
  OBVIOUS
<1> QED
  BY <1>2, <1>3
  DEF Init, QueueInit, IInv, NotArrived, UnhandledOnce, UnhandledOwned, StackOnce, StackOwned, Suspended,
      EndedIsIdle, Owners

-----------------------------------------------------------------------------
(* What a step does to a request and to the calls in progress. *)

Kept(r) == life'[r] = life[r] /\ parent'[r] = parent[r] /\ responder'[r] = responder[r]

LEMMA Members ==
  ASSUME TypeOK
  PROVE  /\ Len(unhandledRequests) \in Nat /\ Len(stack) \in Nat
         /\ \A i \in 1..Len(unhandledRequests) : unhandledRequests[i] \in Requests
         /\ \A i \in 1..Len(stack) : stack[i] # NoRequest => stack[i] \in Requests
         /\ \A r \in Requests : r \in Nat /\ r # NoRequest
<1>1. /\ Len(unhandledRequests) \in Nat /\ Len(stack) \in Nat
      /\ \A i \in 1..Len(unhandledRequests) : unhandledRequests[i] \in Requests
      /\ \A i \in 1..Len(stack) : stack[i] \in Requests \union {NoRequest}
  BY ElementOfSeq, LenProperties DEF TypeOK, QueueTypeOK
<1>2. \A r \in Requests : r \in Nat /\ r # NoRequest
  BY DEF Requests
<1> QED  BY <1>1, <1>2

\* The newest call is in a slot.
LEMMA InSlotNow ==
  ASSUME IInv, InSlot
  PROVE  /\ Head(stack) \in Requests /\ stack # <<>> /\ 1 \in 1..Len(stack) /\ Head(stack) = stack[1]
         /\ life[Head(stack)] = "alive" /\ parent[Head(stack)] # "queue" /\ responder[Head(stack)] = "alive"
         /\ ~ended /\ \A i \in 2..Len(stack) : stack[i] # Head(stack)
<1>1. stack # <<>> /\ Head(stack) # NoRequest /\ stack \in Seq(Requests \union {NoRequest}) /\ TypeOK
  BY DEF InSlot, IInv, TypeOK
<1>2. 1 \in 1..Len(stack) /\ Head(stack) = stack[1] /\ Head(stack) \in Requests
  BY <1>1, TailType
<1>3. \A i \in 2..Len(stack) : i \in 1..Len(stack) /\ i # 1
  OBVIOUS
<1> QED  BY <1>1, <1>2, <1>3 DEF IInv, StackOwned, StackOnce, EndedIsIdle

\* In an event loop, every slot waits for data.
LEMMA AllSuspended ==
  ASSUME IInv, InEventLoop
  PROVE  /\ ~ended
         /\ \A i \in 1..Len(stack) :
              stack[i] \in Requests /\ parent[stack[i]] = "nobody" /\ stack[i] # NoRequest
<1>1. \A i \in 1..Len(stack) : (i = 1 /\ stack # <<>>) \/ i \in 2..Len(stack)
  BY Members DEF IInv, TypeOK
<1>2. stack # <<>> => stack[1] # NoRequest /\ parent[stack[1]] = "nobody"
  BY TailType DEF InEventLoop, IInv, TypeOK
<1> QED  BY <1>1, <1>2, Members DEF IInv, Suspended, InEventLoop

-----------------------------------------------------------------------------
(* The steps. *)

LEMMA NewRequestStep == ASSUME IInv, NewRequest  PROVE IInv'
<1>0. PICK q : q = arrived + 1
  OBVIOUS
<1>1. /\ IInv /\ TypeOK /\ QueueTypeOK /\ q \in Requests /\ arrived' = q /\ q \in Nat
      /\ UNCHANGED <<responder, stack, ended>> /\ (Respond(q) \/ Ignore)
      /\ life' = [life EXCEPT ![q] = IF parent'[q] = "nobody" THEN "deleted" ELSE "alive"]
      /\ life[q] = "absent" /\ parent[q] = "nobody" /\ responder[q] = "none"
  BY <1>0, QueueAssumption DEF NewRequest, AddRequest, IInv, TypeOK, QueueTypeOK, NotArrived, Requests
<1>2. /\ ~ended
      /\ \A i \in 1..Len(stack) : stack[i] \in Requests /\ parent[stack[i]] = "nobody" /\ stack[i] # NoRequest
  BY AllSuspended DEF NewRequest
<1>3. /\ parent' = IF Respond(q) THEN [parent EXCEPT ![q] = "queue"] ELSE parent
      /\ \A r \in Requests : r # q => Kept(r)
  BY <1>1 DEF Respond, Ignore, QueueParent, QueueTypeOK, Kept
<1>4. \A i \in 1..Len(unhandledRequests) : unhandledRequests[i] # q /\ unhandledRequests[i] \in Requests
  <2>1. \A i \in 1..Len(unhandledRequests) : parent[unhandledRequests[i]] = "queue"
    BY <1>1, <1>2 DEF IInv, UnhandledOwned
  <2> QED  BY <1>1, <2>1, Members
<1>5. \A i \in 1..Len(stack) : stack[i] # q
  BY <1>1, <1>2 DEF IInv, StackOwned
<1>6. NotArrived' /\ StackOnce' /\ EndedIsIdle'
  <2>1. \A r \in Requests : r > q => r > arrived /\ r # q
    BY <1>0, <1>1, Members DEF QueueTypeOK
  <2> QED  BY <1>1, <1>3, <2>1 DEF IInv, NotArrived, StackOnce, EndedIsIdle, Kept
<1>7. StackOwned' /\ Suspended'
  <2>1. \A i \in 1..Len(stack) : Kept(stack[i])
    BY <1>2, <1>3, <1>5
  <2>2. \A i \in 2..Len(stack) : i \in 1..Len(stack)
    OBVIOUS
  <2> QED  BY <1>1, <2>1, <2>2 DEF IInv, StackOwned, Suspended, Kept
<1>8. Owners'
  <2>1. life'[q] = "alive" \/ parent'[q] # "queue"
    BY <1>1, <1>3 DEF QueueTypeOK
  <2>2. parent'[q] # "responder"
    BY <1>1, <1>3 DEF QueueTypeOK
  <2> QED  BY <1>1, <1>3, <2>1, <2>2 DEF IInv, Owners, Kept
<1>9. CASE Respond(q)
  <2>1. Appended(unhandledRequests, q, unhandledRequests') /\ unhandledRequests' \in Seq(Requests)
    BY <1>1, <1>9, AppendEffect, AppendProperties DEF Respond, Enqueued, QueueTypeOK
  <2>2. \A i \in 1..Len(unhandledRequests') :
          \/ i \in 1..Len(unhandledRequests) /\ unhandledRequests'[i] = unhandledRequests[i]
          \/ i = Len(unhandledRequests) + 1 /\ unhandledRequests'[i] = q
    BY <2>1, AppendedElements
  <2>3. UnhandledOnce'
    BY <1>1, <1>4, <2>2 DEF IInv, UnhandledOnce
  <2>4. UnhandledOwned'
    <3>1. life'[q] = "alive" /\ parent'[q] = "queue" /\ responder'[q] = "none"
      BY <1>1, <1>3, <1>9 DEF QueueTypeOK
    <3>2. ASSUME NEW i \in 1..Len(unhandledRequests'), NEW r, r = unhandledRequests'[i]
          PROVE  life'[r] = "alive" /\ parent'[r] = "queue" /\ responder'[r] = "none"
      <4>1. CASE r = q
        BY <3>1, <4>1
      <4>2. CASE i \in 1..Len(unhandledRequests) /\ r = unhandledRequests[i]
        BY <1>1, <1>2, <1>3, <1>4, <4>2 DEF IInv, UnhandledOwned, Kept
      <4> QED  BY <2>2, <3>2, <4>1, <4>2
    <3> QED  BY <3>2 DEF UnhandledOwned
  <2>5. TypeOK'
    <3>1. q \in 0..MaxRequests
      BY <1>1, QueueAssumption DEF Requests
    <3> QED  BY <1>1, <1>3, <1>9, <2>1, <3>1 DEF Respond, TypeOK, QueueTypeOK
  <2> QED  BY <1>6, <1>7, <1>8, <2>3, <2>4, <2>5 DEF IInv
<1>10. CASE Ignore
  <2>1. unhandledRequests' = unhandledRequests /\ queueRunner' = queueRunner /\ parent' = parent
    BY <1>10 DEF Ignore
  <2>2. UnhandledOnce'
    BY <1>1, <2>1 DEF IInv, UnhandledOnce
  <2>3. UnhandledOwned'
    <3>1. \A i \in 1..Len(unhandledRequests) : Kept(unhandledRequests[i])
      BY <1>3, <1>4
    <3> QED  BY <1>1, <2>1, <3>1 DEF IInv, UnhandledOwned, Kept
  <2>4. TypeOK'
    <3>1. q \in 0..MaxRequests
      BY <1>1, QueueAssumption DEF Requests
    <3> QED  BY <1>1, <2>1, <3>1 DEF TypeOK, QueueTypeOK
  <2> QED  BY <1>6, <1>7, <1>8, <2>2, <2>3, <2>4 DEF IInv
<1> QED  BY <1>1, <1>9, <1>10

LEMMA FlushQueueStep == ASSUME IInv, FlushQueue  PROVE IInv'
<1>1. /\ stack' = <<NoRequest>> \o stack /\ queueRunner' = FALSE
      /\ UNCHANGED <<arrived, life, parent, responder, unhandledRequests, ended>>
      /\ stack \in Seq(Requests \union {NoRequest}) /\ TypeOK
  BY DEF FlushQueue, QueueRunnerTimeout, IInv, TypeOK
<1>2. /\ stack' \in Seq(Requests \union {NoRequest}) /\ Len(stack') = Len(stack) + 1
      /\ \A i \in 1..Len(stack') : stack'[i] = IF i = 1 THEN NoRequest ELSE stack[i - 1]
  BY <1>1, PushType
<1>3. \A i \in 1..Len(stack) : parent[stack[i]] = "nobody" /\ stack[i] # NoRequest /\ ~ended
  BY AllSuspended DEF FlushQueue
<1>4. \A i \in 1..Len(stack') : i = 1 \/ i - 1 \in 1..Len(stack)
  BY <1>1, <1>2, Members
<1>5. StackOnce'
  BY <1>1, <1>2, <1>3, <1>4, SMTT(20) DEF IInv, StackOnce
<1>6. StackOwned'
  BY <1>1, <1>2, <1>4 DEF IInv, StackOwned
<1>7. Suspended'
  BY <1>1, <1>2, <1>3, <1>4 DEF Suspended
<1>8. EndedIsIdle'
  BY <1>1 DEF FlushQueue, InEventLoop, EndedIsIdle
<1>9. NotArrived' /\ UnhandledOnce' /\ UnhandledOwned' /\ Owners'
  BY <1>1 DEF IInv, NotArrived, UnhandledOnce, UnhandledOwned, Owners
<1>10. TypeOK'
  BY <1>1, <1>2 DEF TypeOK, QueueTypeOK
<1> QED  BY <1>5, <1>6, <1>7, <1>8, <1>9, <1>10 DEF IInv

LEMMA RunNextStep == ASSUME IInv, RunNext  PROVE IInv'
<1>0. PICK q : q = Head(unhandledRequests)
  OBVIOUS
<1>1. /\ stack # <<>> /\ Head(stack) = NoRequest /\ ~ended
      /\ unhandledRequests # <<>> /\ unhandledRequests' = Tail(unhandledRequests)
      /\ parent' = [parent EXCEPT ![q] = "nobody"] /\ responder' = [responder EXCEPT ![q] = "alive"]
      /\ stack' = <<q>> \o Tail(stack) /\ UNCHANGED <<arrived, life, queueRunner, ended>>
      /\ TypeOK /\ QueueTypeOK
  BY <1>0 DEF RunNext, BetweenRequests, Dequeue, Dequeued, SpawnResponder, IInv, TypeOK, EndedIsIdle
<1>2. /\ Dropped(unhandledRequests, unhandledRequests') /\ q = unhandledRequests[1] /\ q \in Requests
      /\ unhandledRequests' \in Seq(Requests) /\ 1 \in 1..Len(unhandledRequests)
  BY <1>0, <1>1, DropEffect, TailType DEF QueueTypeOK
<1>3. life[q] = "alive" /\ parent[q] = "queue" /\ responder[q] = "none" /\ q # NoRequest /\ q \in Nat
  BY <1>1, <1>2, Members DEF IInv, UnhandledOwned
<1>4. \A r \in Requests : r # q => Kept(r)
  BY <1>1, <1>2 DEF QueueTypeOK, Kept
<1>5. life'[q] = "alive" /\ parent'[q] = "nobody" /\ responder'[q] = "alive"
  BY <1>1, <1>2, <1>3 DEF QueueTypeOK
<1>6. \A i \in 1..Len(unhandledRequests') :
        /\ unhandledRequests'[i] = unhandledRequests[i + 1] /\ i + 1 \in 1..Len(unhandledRequests)
        /\ unhandledRequests'[i] # q /\ unhandledRequests'[i] \in Requests
  <2>1. \A i \in 1..Len(unhandledRequests') :
          /\ unhandledRequests'[i] = unhandledRequests[i + 1] /\ i + 1 \in 1..Len(unhandledRequests)
          /\ i + 1 # 1
    BY <1>2, DroppedElements
  <2> QED  BY <1>1, <1>2, <2>1, Members DEF IInv, UnhandledOnce
<1>7. /\ stack' \in Seq(Requests \union {NoRequest}) /\ Len(stack') = Len(stack) /\ Len(stack) \in Nat
      /\ \A i \in 1..Len(stack) : stack'[i] = IF i = 1 THEN q ELSE stack[i]
  <2>1. stack \in Seq(Requests \union {NoRequest})
    BY <1>1 DEF TypeOK
  <2> QED  BY <1>1, <1>2, <2>1, ReplaceType
<1>8. \A i \in 2..Len(stack) : i \in 1..Len(stack) /\ stack[i] \in Requests /\ stack[i] # q /\ Kept(stack[i])
  <2>1. \A i \in 2..Len(stack) : i \in 1..Len(stack) /\ stack[i] \in Requests /\ stack[i] # q
    BY <1>1, <1>3, Members DEF IInv, Suspended
  <2> QED  BY <1>4, <2>1
<1>9. \A i \in 1..Len(stack) : i = 1 \/ i \in 2..Len(stack)
  BY <1>7
<1>10. NotArrived'
  BY <1>1, <1>3, <1>4, <1>5 DEF IInv, NotArrived, Kept
<1>11. UnhandledOnce'
  <2>1. ASSUME NEW i \in 1..Len(unhandledRequests'), NEW j \in 1..Len(unhandledRequests'), i # j
        PROVE  unhandledRequests'[i] # unhandledRequests'[j]
    BY <1>6, <2>1 DEF IInv, UnhandledOnce
  <2> QED  BY <2>1 DEF UnhandledOnce
<1>12. UnhandledOwned'
  <2>1. \A i \in 1..Len(unhandledRequests') : Kept(unhandledRequests'[i])
    BY <1>4, <1>6
  <2> QED  BY <1>1, <1>6, <2>1 DEF IInv, UnhandledOwned, Kept
<1>13. StackOnce'
  BY <1>7, <1>8, <1>9 DEF IInv, StackOnce
<1>14. StackOwned' /\ Suspended'
  BY <1>5, <1>7, <1>8, <1>9 DEF IInv, StackOwned, Suspended, Kept
<1>15. EndedIsIdle'
  BY <1>1 DEF EndedIsIdle
<1>16. Owners'
  BY <1>1, <1>4, <1>5 DEF IInv, Owners, Kept
<1>17. TypeOK'
  BY <1>1, <1>2, <1>7 DEF TypeOK, QueueTypeOK
<1> QED  BY <1>10, <1>11, <1>12, <1>13, <1>14, <1>15, <1>16, <1>17 DEF IInv

LEMMA FlushDoneStep == ASSUME IInv, FlushDone  PROVE IInv'
<1>1. /\ stack # <<>> /\ stack' = Tail(stack) /\ UNCHANGED <<queueVars, ended>>
      /\ stack \in Seq(Requests \union {NoRequest}) /\ TypeOK /\ ~ended
  BY DEF FlushDone, BetweenRequests, IInv, TypeOK, EndedIsIdle
<1>2. stack' \in Seq(Requests \union {NoRequest})
      /\ \A i \in 1..Len(stack') : stack'[i] = stack[i + 1] /\ i + 1 \in 2..Len(stack) /\ i + 1 \in 1..Len(stack)
  BY <1>1, TailType
<1>3. StackOnce'
  <2>1. ASSUME NEW i \in 1..Len(stack'), NEW j \in 1..Len(stack'), i # j, stack'[i] # NoRequest
        PROVE  stack'[i] # stack'[j]
    BY <1>2, <2>1 DEF IInv, StackOnce
  <2> QED  BY <2>1 DEF StackOnce
<1>4. StackOwned'
  BY <1>1, <1>2 DEF IInv, StackOwned, queueVars
<1>5. Suspended'
  <2>1. \A i \in 2..Len(stack') : i \in 1..Len(stack')
    OBVIOUS
  <2> QED  BY <1>1, <1>2, <2>1 DEF IInv, Suspended, queueVars
<1>6. NotArrived' /\ UnhandledOnce' /\ UnhandledOwned' /\ Owners' /\ EndedIsIdle'
  BY <1>1 DEF IInv, NotArrived, UnhandledOnce, UnhandledOwned, Owners, EndedIsIdle, queueVars
<1>7. TypeOK'
  BY <1>1, <1>2 DEF TypeOK, QueueTypeOK, queueVars
<1> QED  BY <1>3, <1>4, <1>5, <1>6, <1>7 DEF IInv

LEMMA AdoptStep == ASSUME IInv, Adopt  PROVE IInv'
<1>0. PICK q : q = Head(stack)
  OBVIOUS
<1>1. /\ q \in Requests /\ q = stack[1] /\ responder[q] = "alive" /\ life[q] = "alive" /\ ~ended
      /\ parent[q] = "nobody" /\ (\A i \in 2..Len(stack) : stack[i] # q)
      /\ parent' = [parent EXCEPT ![q] = "responder"]
      /\ UNCHANGED <<arrived, life, responder, unhandledRequests, queueRunner, stack, ended>>
      /\ TypeOK /\ QueueTypeOK
  BY <1>0, InSlotNow DEF Adopt, SetParent, IInv, TypeOK
<1>2. \A r \in Requests : parent'[r] = IF r = q THEN "responder" ELSE parent[r]
  BY <1>1 DEF QueueTypeOK
<1>3. NotArrived' /\ Owners'
  BY <1>1, <1>2 DEF IInv, NotArrived, Owners
<1>4. UnhandledOnce' /\ UnhandledOwned'
  BY <1>1, <1>2, Members DEF IInv, UnhandledOnce, UnhandledOwned
<1>5. StackOnce' /\ EndedIsIdle'
  BY <1>1 DEF IInv, StackOnce, EndedIsIdle
<1>6. StackOwned'
  BY <1>1, <1>2, Members DEF IInv, StackOwned
<1>7. Suspended'
  <2>1. \A i \in 2..Len(stack) : stack[i] \in Requests
    BY <1>1, Members DEF IInv, Suspended
  <2> QED  BY <1>1, <1>2, <2>1 DEF IInv, Suspended
<1>8. TypeOK'
  BY <1>1 DEF TypeOK, QueueTypeOK
<1> QED  BY <1>3, <1>4, <1>5, <1>6, <1>7, <1>8 DEF IInv

LEMMA SlotReturnStep == ASSUME IInv, SlotReturn  PROVE IInv'
<1>0. PICK q : q = Head(stack)
  OBVIOUS
<1>1. /\ q \in Requests /\ q = stack[1] /\ responder[q] = "alive" /\ life[q] = "alive" /\ ~ended
      /\ stack # <<>> /\ parent[q] # "queue" /\ (\A i \in 2..Len(stack) : stack[i] # q)
      /\ AfterSlot(q) /\ stack' = <<NoRequest>> \o Tail(stack)
      /\ UNCHANGED <<arrived, parent, unhandledRequests, queueRunner, ended>>
      /\ TypeOK /\ QueueTypeOK
  BY <1>0, InSlotNow DEF SlotReturn, IInv, TypeOK
<1>2. \A r \in Requests : r # q => Kept(r)
  BY <1>1 DEF AfterSlot, QueueTypeOK, Kept
<1>3. responder'[q] # "none" /\ parent'[q] = parent[q]
  BY <1>1 DEF AfterSlot, QueueTypeOK
<1>4. /\ stack' \in Seq(Requests \union {NoRequest}) /\ Len(stack') = Len(stack) /\ Len(stack) \in Nat
      /\ \A i \in 1..Len(stack) : stack'[i] = IF i = 1 THEN NoRequest ELSE stack[i]
  <2>1. stack \in Seq(Requests \union {NoRequest}) /\ NoRequest \in Requests \union {NoRequest}
    BY <1>1 DEF TypeOK
  <2> QED  BY <1>1, <2>1, ReplaceType
<1>5. \A i \in 2..Len(stack) : i \in 1..Len(stack) /\ Kept(stack[i])
  BY <1>1, <1>2, Members DEF IInv, Suspended
<1>6. \A i \in 1..Len(stack) : i = 1 \/ i \in 2..Len(stack)
  BY <1>4
<1>7. NotArrived'
  BY <1>1, <1>2 DEF IInv, NotArrived, Kept
<1>8. UnhandledOnce' /\ EndedIsIdle'
  BY <1>1 DEF IInv, UnhandledOnce, EndedIsIdle
<1>9. UnhandledOwned'
  <2>1. \A i \in 1..Len(unhandledRequests) : unhandledRequests[i] \in Requests /\ unhandledRequests[i] # q
    BY <1>1, Members DEF IInv, UnhandledOwned
  <2> QED  BY <1>1, <1>2, <2>1 DEF IInv, UnhandledOwned, Kept
<1>10. StackOnce'
  BY <1>4, <1>6, <1>5 DEF IInv, StackOnce, Suspended
<1>11. StackOwned' /\ Suspended'
  BY <1>4, <1>5, <1>6 DEF IInv, StackOwned, Suspended, Kept
<1>12. Owners'
  BY <1>1, <1>2, <1>3 DEF IInv, Owners, Kept
<1>13. TypeOK'
  <2>1. life' \in [Requests -> {"absent", "alive", "deleted"}]
        /\ responder' \in [Requests -> {"none", "alive", "deleted"}]
    BY <1>1 DEF AfterSlot, QueueTypeOK
  <2> QED  BY <1>1, <1>4, <2>1 DEF TypeOK, QueueTypeOK
<1> QED  BY <1>7, <1>8, <1>9, <1>10, <1>11, <1>12, <1>13 DEF IInv

LEMMA AnswerAdoptedStep == ASSUME IInv, AnswerAdopted  PROVE IInv'
<1>1. PICK q \in Requests : DeleteAdopted(q)
  BY DEF AnswerAdopted
<1>2. /\ parent[q] = "responder" /\ TypeOK /\ QueueTypeOK /\ responder[q] # "none" /\ ~ended
      /\ life' = [life EXCEPT ![q] = "deleted"]
      /\ responder' = responder \/ responder' = [responder EXCEPT ![q] = "deleted"]
      /\ UNCHANGED <<arrived, parent, unhandledRequests, queueRunner, stack, ended>>
  BY <1>1 DEF AnswerAdopted, DeleteAdopted, InEventLoop, IInv, TypeOK, Owners
<1>3. (\A r \in Requests : r # q => Kept(r)) /\ responder'[q] # "none"
  BY <1>2 DEF QueueTypeOK, Kept
<1>4. \A i \in 1..Len(stack) : Kept(stack[i]) /\ stack[i] # NoRequest
  BY <1>2, <1>3, AllSuspended DEF AnswerAdopted
<1>5. NotArrived' /\ Owners'
  BY <1>2, <1>3 DEF IInv, NotArrived, Owners, Kept
<1>6. UnhandledOnce' /\ StackOnce' /\ EndedIsIdle'
  BY <1>2 DEF IInv, UnhandledOnce, StackOnce, EndedIsIdle
<1>7. UnhandledOwned'
  <2>1. \A i \in 1..Len(unhandledRequests) : unhandledRequests[i] \in Requests /\ unhandledRequests[i] # q
    BY <1>2, Members DEF IInv, UnhandledOwned
  <2> QED  BY <1>2, <1>3, <2>1 DEF IInv, UnhandledOwned, Kept
<1>8. StackOwned' /\ Suspended'
  BY <1>2, <1>4 DEF IInv, StackOwned, Suspended, Kept
<1>9. TypeOK'
  BY <1>2 DEF TypeOK, QueueTypeOK
<1> QED  BY <1>5, <1>6, <1>7, <1>8, <1>9 DEF IInv

LEMMA ShutdownStep == ASSUME IInv, Shutdown  PROVE IInv'
<1>1. /\ stack = <<>> /\ ended' = TRUE /\ ~ended /\ TypeOK /\ QueueTypeOK /\ queueRunner' = FALSE
      /\ life' = [r \in Requests |-> IF parent[r] = "queue" THEN "deleted" ELSE life[r]]
      /\ UNCHANGED <<arrived, parent, responder, unhandledRequests, stack>>
  BY DEF Shutdown, DestroyQueue, IInv, TypeOK
<1>2. 1..Len(stack) = {} /\ 2..Len(stack) = {}
  BY <1>1
<1>3. NotArrived' /\ Owners'
  BY <1>1 DEF IInv, NotArrived, Owners
<1>4. UnhandledOnce' /\ UnhandledOwned' /\ StackOnce' /\ StackOwned' /\ Suspended' /\ EndedIsIdle'
  BY <1>1, <1>2 DEF IInv, UnhandledOnce, UnhandledOwned, StackOnce, StackOwned, Suspended, EndedIsIdle
<1>5. TypeOK'
  <2>1. life' \in [Requests -> {"absent", "alive", "deleted"}]
    BY <1>1 DEF QueueTypeOK
  <2> QED  BY <1>1, <2>1 DEF TypeOK, QueueTypeOK
<1> QED  BY <1>3, <1>4, <1>5 DEF IInv

LEMMA IInvStep == IInv /\ [Next]_vars => IInv'
<1> SUFFICES ASSUME IInv, [Next]_vars  PROVE IInv'
  OBVIOUS
<1>1. CASE UNCHANGED vars
  BY <1>1 DEF vars, queueVars, IInv, TypeOK, QueueTypeOK, NotArrived, UnhandledOnce, UnhandledOwned,
              StackOnce, StackOwned, Suspended, EndedIsIdle, Owners
<1> QED
  BY <1>1, NewRequestStep, FlushQueueStep, RunNextStep, FlushDoneStep, AdoptStep, SlotReturnStep,
     AnswerAdoptedStep, ShutdownStep
  DEF Next, Step, Terminated

\* The variables stay within their types, whatever the nesting of event loops.
THEOREM TypeCorrect == Spec => []TypeOK
<1>1. IInv => TypeOK
  BY DEF IInv
<1> QED  BY <1>1, IInvInit, IInvStep, PTL DEF Spec

\* No request is run twice, run while it is queued, or deleted under its slot.
THEOREM OwnershipCorrect == Spec => []SlotOwnsRequest
BY IInvInit, IInvStep, OwnsRequest, PTL DEF Spec

-----------------------------------------------------------------------------
(* What every responder promises. *)

Phases == [r \in Requests |-> Phase(r)]

LEMMA PhaseValue ==
  ASSUME NEW r \in Requests
  PROVE  /\ life[r] = "absent" => Phase(r) = "absent"
         /\ life[r] = "alive" /\ responder[r] = "none" => Phase(r) = "accepted"
         /\ life[r] = "alive" /\ responder[r] # "none" => Phase(r) = "responding"
         /\ life'[r] = "alive" /\ responder'[r] = "none" => Phase(r)' = "accepted"
         /\ life'[r] = "alive" /\ responder'[r] # "none" => Phase(r)' = "responding"
         /\ life'[r] = "deleted" /\ responder'[r] = "none" => Phase(r)' = "refused"
         /\ life'[r] = "deleted" /\ responder'[r] # "none" => Phase(r)' = "answered"
BY DEF Phase

LEMMA PhaseKept ==
  ASSUME NEW r \in Requests, life'[r] = life[r], responder'[r] = responder[r]
  PROVE  Phase(r)' = Phase(r)
BY DEF Phase

LEMMA PhasesStay ==
  ASSUME UNCHANGED <<life, responder>>
  PROVE  UNCHANGED Phases
BY DEF Phases, Phase

LEMMA ServiceStep ==
  ASSUME IInv, [Next]_vars
  PROVE  Service!Next \/ UNCHANGED Phases
<1>0. /\ TypeOK /\ QueueTypeOK /\ Service!Requests = Requests
      /\ \A r \in Requests : Phases[r] = Phase(r)
  BY DEF IInv, TypeOK, Phases, Service!Requests, Requests
<1>1. ASSUME NEW q \in Requests, \A r \in Requests : r # q => Kept(r),
             \/ Phase(q) = "absent" /\ Phase(q)' = "accepted"
             \/ Phase(q) = "accepted" /\ Phase(q)' = "responding"
             \/ Phase(q) = "responding" /\ Phase(q)' = "answered"
      PROVE  Service!Next
  <2>0. \A r \in Requests : r # q => Phase(r)' = Phase(r)
    BY <1>1, PhaseKept DEF Kept
  <2>1. Phases' = [Phases EXCEPT ![q] = Phase(q)']
    BY <2>0 DEF Phases
  <2>2. Service!Accept(q) \/ Service!Respond(q) \/ Service!Answer(q)
    BY <1>0, <1>1, <2>1 DEF Service!Accept, Service!Respond, Service!Answer, Service!Move, Phases
  <2> QED  BY <1>0, <2>2 DEF Service!Next
<1>2. ASSUME NEW R \in SUBSET Requests, \A r \in Requests \ R : Phase(r)' = Phase(r),
             \A r \in R : Phase(r) \in {"absent", "accepted"} /\ Phase(r)' = "refused"
      PROVE  Service!Next
  <2>1. Phases' = [r \in Requests |-> IF r \in R THEN "refused" ELSE Phases[r]]
    BY <1>0, <1>2 DEF Phases
  <2>2. Service!Refuse
    BY <1>0, <1>2, <2>1 DEF Service!Refuse, Phases
  <2> QED  BY <2>2 DEF Service!Next
<1>3. CASE NewRequest
  <2>0. PICK q : q = arrived + 1
    OBVIOUS
  <2>1. /\ q \in Requests /\ life[q] = "absent" /\ responder[q] = "none" /\ UNCHANGED responder
        /\ life' = [life EXCEPT ![q] = IF parent'[q] = "nobody" THEN "deleted" ELSE "alive"]
    BY <1>0, <1>3, <2>0, QueueAssumption DEF NewRequest, AddRequest, IInv, NotArrived, Requests, QueueTypeOK
  <2>2. \A r \in Requests : r # q => Kept(r)
    BY <1>0, <1>3, <2>0, <2>1 DEF NewRequest, AddRequest, Respond, Ignore, QueueTypeOK, Kept
  <2>3. CASE life'[q] = "alive"
    BY <1>1, <2>1, <2>2, <2>3, PhaseValue
  <2>4. CASE life'[q] = "deleted"
    <3>1. Phase(q) = "absent" /\ Phase(q)' = "refused"
      BY <2>1, <2>4, PhaseValue
    <3>2. \A r \in Requests \ {q} : Phase(r)' = Phase(r)
      BY <2>2, PhaseKept DEF Kept
    <3>3. {q} \in SUBSET Requests /\ \A r \in {q} : Phase(r) = "absent" /\ Phase(r)' = "refused"
      BY <2>1, <3>1
    <3> QED  BY <1>2, <3>2, <3>3
  <2> QED  BY <1>0, <2>1, <2>3, <2>4 DEF QueueTypeOK
<1>4. CASE RunNext
  <2>0. PICK q : q = Head(unhandledRequests)
    OBVIOUS
  <2>1. /\ q \in Requests /\ q = unhandledRequests[1] /\ 1 \in 1..Len(unhandledRequests) /\ ~ended
        /\ UNCHANGED life /\ responder' = [responder EXCEPT ![q] = "alive"]
        /\ parent' = [parent EXCEPT ![q] = "nobody"]
    BY <1>0, <1>4, <2>0, TailType
    DEF RunNext, BetweenRequests, Dequeue, SpawnResponder, QueueTypeOK, IInv, EndedIsIdle
  <2>2. Phase(q) = "accepted" /\ Phase(q)' = "responding"
    <3>1. life[q] = "alive" /\ responder[q] = "none"
      BY <2>1 DEF IInv, UnhandledOwned
    <3> QED  BY <1>0, <2>1, <3>1, PhaseValue DEF QueueTypeOK
  <2>3. \A r \in Requests : r # q => Kept(r)
    BY <1>0, <2>1 DEF QueueTypeOK, Kept
  <2> QED  BY <1>1, <2>1, <2>2, <2>3
<1>5. CASE SlotReturn
  <2>0. PICK q : q = Head(stack)
    OBVIOUS
  <2>1. q \in Requests /\ life[q] = "alive" /\ responder[q] = "alive" /\ AfterSlot(q) /\ UNCHANGED parent
    BY <1>5, <2>0, InSlotNow DEF SlotReturn
  <2>2. CASE ~Unowned(q)
    BY <2>1, <2>2, PhasesStay DEF AfterSlot
  <2>3. CASE Unowned(q)
    <3>1. \A r \in Requests : r # q => Kept(r)
      BY <1>0, <2>1 DEF AfterSlot, QueueTypeOK, Kept
    <3>2. life'[q] = "deleted" /\ responder'[q] # "none"
      BY <1>0, <2>1, <2>3 DEF AfterSlot, QueueTypeOK
    <3>3. Phase(q) = "responding" /\ Phase(q)' = "answered"
      BY <2>1, <3>2, PhaseValue
    <3> QED  BY <1>1, <2>1, <3>1, <3>3
  <2> QED  BY <2>2, <2>3
<1>6. CASE AnswerAdopted
  <2>1. PICK q \in Requests : DeleteAdopted(q)
    BY <1>6 DEF AnswerAdopted
  <2>2. /\ life[q] = "alive" /\ responder[q] # "none" /\ life' = [life EXCEPT ![q] = "deleted"]
        /\ responder' = responder \/ responder' = [responder EXCEPT ![q] = "deleted"]
        /\ UNCHANGED parent
    BY <1>6, <2>1 DEF AnswerAdopted, DeleteAdopted, IInv, Owners
  <2>3. (\A r \in Requests : r # q => Kept(r)) /\ life'[q] = "deleted" /\ responder'[q] # "none"
    BY <1>0, <2>2 DEF QueueTypeOK, Kept
  <2>4. Phase(q) = "responding" /\ Phase(q)' = "answered"
    BY <2>2, <2>3, PhaseValue
  <2> QED  BY <1>1, <2>3, <2>4
<1>7. CASE Shutdown
  <2> DEFINE R == {r \in Requests : parent[r] = "queue"}
  <2>1. UNCHANGED responder /\ ~ended /\ DestroyQueue
    BY <1>7 DEF Shutdown
  <2>2. \A r \in R : life[r] = "alive" /\ responder[r] = "none" /\ life'[r] = "deleted"
    BY <2>1 DEF DestroyQueue, IInv, Owners
  <2>3. \A r \in R : Phase(r) = "accepted" /\ Phase(r)' = "refused"
    BY <2>1, <2>2, PhaseValue
  <2>4. \A r \in Requests \ R : Phase(r)' = Phase(r)
    BY <2>1, PhaseKept DEF DestroyQueue
  <2> QED  BY <1>2, <2>3, <2>4
<1>8. CASE UNCHANGED <<life, responder>>
  BY <1>8, PhasesStay
<1> QED
  BY <1>3, <1>4, <1>5, <1>6, <1>7, <1>8
  DEF Next, Step, FlushQueue, FlushDone, Adopt, Terminated, vars, queueVars

\* Every step of the main thread is a step of the service that a responder promises,
\* or changes none of its requests.
THEOREM ServiceImplemented == Spec => ImplementsService
<1>1. Init => Service!Init
  BY DEF Init, QueueInit, Service!Init, Service!Requests, Requests, Phase
<1>2. IInv /\ [Next]_vars => [Service!Next]_[r \in Requests |-> Phase(r)]
  BY ServiceStep DEF Phases
<1> QED  BY <1>1, <1>2, IInvInit, IInvStep, PTL DEF Spec, ImplementsService, Service!Spec

-----------------------------------------------------------------------------
(* ServiceDispatch: the search for a method. *)

Slots == [name : DOMAIN Scripts, parameters : Nat]
Entries == [pattern : Patterns, slot : Slots]
Calls == [slot : Slots \union {NoSlot}, parameters : Seq(Seq(STRING)), exact : BOOLEAN]
Fragments == Seq(STRING) \ {<<>>}

\* The entries that Service::dispatchUncachedRequest may choose, as Answered names them.
Matching(map, fragment) == {k \in DOMAIN map : ExactMatch(map[k].pattern, fragment)}
Nulls(map) == {k \in DOMAIN map : map[k].pattern = NullPattern}
Candidates(map, fragment) ==
  IF Matching(map, fragment) # {} THEN Matching(map, fragment) ELSE Nulls(map)

LEMMA NoCallType == NoCall \in Calls /\ NoCall.slot = NoSlot /\ NoCall.parameters = <<>> /\ NoCall.exact = FALSE
BY DEF NoCall, Calls

LEMMA NoCallSlot ==
  ASSUME NEW s
  PROVE  [NoCall EXCEPT !.slot = s] = [slot |-> s, parameters |-> <<>>, exact |-> FALSE]
<1>1. PICK a, b, c : a = NoSlot /\ b = <<>> /\ c = FALSE
  OBVIOUS
<1>2. NoCall = [slot |-> a, parameters |-> b, exact |-> c]
  BY <1>1 DEF NoCall
<1>3. [[slot |-> a, parameters |-> b, exact |-> c] EXCEPT !.slot = s] = [slot |-> s, parameters |-> b, exact |-> c]
  OBVIOUS
<1> QED  BY <1>1, <1>2, <1>3

\* A slot is not the one that stands for none.
LEMMA SlotsAreReal == NoSlot \notin Slots
<1>1. NoSlot.name = "none"
  BY DEF NoSlot
<1> QED  BY <1>1, DispatchAssumption DEF Slots

LEMMA EntryShape ==
  ASSUME NEW map \in Seq(Entries), NEW k \in 1..Len(map)
  PROVE  map[k].slot \in Slots /\ map[k].slot # NoSlot /\ map[k].pattern \in Patterns
<1>1. map[k] \in Entries
  BY ElementOfSeq
<1>2. map[k].slot \in Slots /\ map[k].pattern \in Patterns
  BY <1>1 DEF Entries
<1> QED  BY <1>2, SlotsAreReal

LEMMA PatternShape ==
  ASSUME NEW p \in Patterns, p \notin {NullPattern, <<>>}
  PROVE  /\ Len(p) \in Nat \ {0} /\ p \in Seq({"\\d+", ".+"})
         /\ \A k \in 1..Len(p) : p[k] = ".+" => k = Len(p)
         /\ \A k \in 1..Len(p) : p[k] \in {"\\d+", ".+"}
<1>1. p \in Seq({"\\d+", ".+"}) /\ \A k \in 1..Len(p) - 1 : p[k] = "\\d+"
  BY DEF Patterns
<1>2. p # <<>> /\ Len(p) \in Nat /\ Len(p) # 0
  BY <1>1, EmptySeq
<1>3. "\\d+" # ".+"
  OBVIOUS
<1> QED  BY <1>1, <1>2, <1>3

\* An exact match of an expression that is not empty: where it ends, and what it captures.
LEMMA MatchShape ==
  ASSUME NEW p \in Patterns, p \notin {NullPattern, <<>>}, NEW fragment \in Fragments,
         ExactMatch(p, fragment)
  PROVE  /\ Len(p) <= Len(fragment)
         /\ p[Len(p)] # ".+" => Len(fragment) = Len(p)
         /\ Captured(p, fragment) \in Seq(Seq(STRING)) /\ Len(Captured(p, fragment)) = Len(p)
         /\ \A k \in 1..Len(p) : Captured(p, fragment)[k] =
              IF p[k] = ".+" THEN SubSeq(fragment, k, Len(fragment)) ELSE <<fragment[k]>>
<1>1. /\ Len(p) \in Nat \ {0} /\ \A k \in 1..Len(p) : p[k] = ".+" => k = Len(p)
  BY PatternShape
<1>2. fragment \in Seq(STRING) /\ Len(fragment) \in Nat
  BY DEF Fragments
<1>3. /\ p[Len(p)] = ".+" => Len(fragment) >= Len(p)
      /\ p[Len(p)] # ".+" => Len(fragment) = Len(p)
  <2>1. CASE p[Len(p)] = ".+"
    <3>1. Len(p) > 0 /\ Len(p) - 1 # Len(p)
      BY <1>1
    <3>2. Len(fragment) >= Len(p)
      BY <2>1, <3>1 DEF ExactMatch
    <3> QED  BY <2>1, <3>2
  <2>2. CASE p[Len(p)] # ".+"
    BY <1>1, <2>2 DEF ExactMatch
  <2> QED  BY <2>1, <2>2
<1>4. \A k \in 1..Len(p) : k \in 1..Len(fragment) /\ fragment[k] \in STRING
  BY <1>1, <1>2, <1>3, ElementOfSeq
<1>5. \A k \in 1..Len(p) : /\ SubSeq(fragment, k, Len(fragment)) \in Seq(STRING)
                           /\ <<fragment[k]>> \in Seq(STRING)
  BY <1>2, <1>4
<1>6. Captured(p, fragment) = [k \in 1..Len(p) |->
         IF p[k] = ".+" THEN SubSeq(fragment, k, Len(fragment)) ELSE <<fragment[k]>>]
  BY DEF Captured
<1>7. Captured(p, fragment) \in [1..Len(p) -> Seq(STRING)]
  BY <1>5, <1>6
<1>8. Captured(p, fragment) \in Seq(Seq(STRING)) /\ Len(Captured(p, fragment)) = Len(p)
  BY <1>1, <1>7
<1>9. Len(p) <= Len(fragment)
  BY <1>1, <1>2, <1>3
<1>10. \A k \in 1..Len(p) : Captured(p, fragment)[k] =
         IF p[k] = ".+" THEN SubSeq(fragment, k, Len(fragment)) ELSE <<fragment[k]>>
  BY <1>6
<1> QED  BY <1>3, <1>8, <1>9, <1>10

LEMMA CapturedType ==
  ASSUME NEW p \in Patterns, NEW fragment \in Fragments, ExactMatch(p, fragment)
  PROVE  Captured(p, fragment) \in Seq(Seq(STRING))
<1>1. CASE p \in {NullPattern, <<>>}
  BY <1>1 DEF Captured
<1>2. CASE p \notin {NullPattern, <<>>}
  BY <1>2, MatchShape
<1> QED  BY <1>1, <1>2

\* Nothing but an empty expression matches the empty segment alone.
LEMMA EmptyIsNoNumber ==
  ASSUME NEW p \in Patterns, p \notin {NullPattern, <<>>}, NEW fragment \in Fragments, ExactMatch(p, fragment)
  PROVE  fragment # <<"">>
<1>1. /\ Len(p) <= Len(fragment) /\ Len(p) \in Nat \ {0}
      /\ Len(p) > 0 /\ Len(p) - 1 # Len(p) /\ 1 \in 1..Len(p)
  <2>1. Len(p) <= Len(fragment)
    BY MatchShape
  <2>2. Len(p) \in Nat \ {0}
    BY PatternShape
  <2> QED  BY <2>1, <2>2
<1>2. ASSUME Len(fragment) = 1  PROVE fragment[1] # ""
  <2>1. Len(p) = 1
    <3>1. \A n \in Nat \ {0} : n <= 1 => n = 1
      OBVIOUS
    <3> QED  BY <1>1, <1>2, <3>1, Zenon
  <2>2. CASE p[Len(p)] = ".+"
    <3>1. Len(fragment) = Len(p) => fragment[Len(p)] # ""
      BY <1>1, <2>2, Zenon DEF ExactMatch
    <3> QED  BY <1>2, <2>1, <3>1, Zenon
  <2>3. CASE p[Len(p)] # ".+"
    <3>1. \A k \in 1..Len(p) : fragment[k] \in Numbers
      BY <2>3, Zenon DEF ExactMatch
    <3> QED  BY <1>1, <3>1, DispatchAssumption, Zenon
  <2> QED  BY <2>2, <2>3
<1>3. Len(<<"">>) = 1 /\ <<"">>[1] = ""
  BY EmptySegment, Singleton, Zenon
<1> QED  BY <1>2, <1>3, Zenon

LEMMA NextCallType ==
  ASSUME NEW found \in Calls, NEW entry \in Entries, NEW fragment \in Fragments
  PROVE  NextCall(found, entry, fragment) \in Calls
<1>1. entry.slot \in Slots /\ entry.pattern \in Patterns
  BY DEF Entries
<1>2. CASE found.exact
  BY <1>2 DEF NextCall
<1>3. CASE ~found.exact /\ ExactMatch(entry.pattern, fragment)
  <2>1. Captured(entry.pattern, fragment) \in Seq(Seq(STRING))
    BY <1>1, <1>3, CapturedType
  <2> QED  BY <1>1, <1>3, <2>1 DEF NextCall, Calls
<1>4. CASE ~found.exact /\ ~ExactMatch(entry.pattern, fragment)
  <2>1. [NoCall EXCEPT !.slot = entry.slot] \in Calls
    <3>1. [NoCall EXCEPT !.slot = entry.slot] = [slot |-> entry.slot, parameters |-> <<>>, exact |-> FALSE]
      BY NoCallSlot
    <3>2. <<>> \in Seq(Seq(STRING)) /\ FALSE \in BOOLEAN
      OBVIOUS
    <3> QED  BY <1>1, <3>1, <3>2 DEF Calls
  <2> QED  BY <1>4, <2>1 DEF NextCall
<1> QED  BY <1>2, <1>3, <1>4

\* The search is the last of the results after each entry of the map.
Searching(g, map, fragment) ==
  /\ g[0] = NoCall
  /\ \A k \in 1..Len(map) : g[k] = NextCall(g[k - 1], map[k], fragment)

LEMMA SearchIterates ==
  ASSUME NEW map \in Seq(Entries), NEW fragment \in Fragments
  PROVE  \E g \in [0..Len(map) -> Calls] :
           Searching(g, map, fragment) /\ Search(map, fragment) = g[Len(map)]
<1> DEFINE n == Len(map)
           step == [s \in Calls \X (1..n) |-> NextCall(s[1], map[s[2]], fragment)]
           Eqn(f) == f = [k \in 0..n |-> IF k = 0 THEN NoCall ELSE NextCall(f[k - 1], map[k], fragment)]
<1>1. n \in Nat /\ \A k \in 1..n : map[k] \in Entries
  BY ElementOfSeq
<1>2. step \in [Calls \X (1..n) -> Calls]
  <2>1. \A s \in Calls \X (1..n) : NextCall(s[1], map[s[2]], fragment) \in Calls
    BY <1>1, NextCallType
  <2> QED  BY <2>1
<1>3. \A c \in Calls, k \in 1..n : step[<<c, k>>] = NextCall(c, map[k], fragment)
  OBVIOUS
<1> HIDE DEF step
<1>4. PICK g \in [0..n -> Calls] : Iterates(g, n, NoCall, step)
  <2> HIDE DEF n
  <2> QED  BY <1>1, <1>2, NoCallType, ExistsRecursive
<1>5. \A k \in 1..n : g[k] = NextCall(g[k - 1], map[k], fragment)
  <2> SUFFICES ASSUME NEW k \in 1..n  PROVE g[k] = NextCall(g[k - 1], map[k], fragment)
    OBVIOUS
  <2>1. k - 1 \in 0..n
    BY <1>1
  <2>2. g[k - 1] \in Calls /\ g[k] = step[<<g[k - 1], k>>]
    BY <1>4, <2>1 DEF Iterates
  <2> QED  BY <1>3, <2>2
<1>6. g = [k \in 0..n |-> IF k = 0 THEN NoCall ELSE NextCall(g[k - 1], map[k], fragment)]
  <2>1. \A k \in 0..n : g[k] = IF k = 0 THEN NoCall ELSE NextCall(g[k - 1], map[k], fragment)
    BY <1>1, <1>4, <1>5 DEF Iterates
  <2> QED  BY <1>4, <2>1
<1>7. \E f : Eqn(f)
  BY <1>6
<1>8. PICK f : f = (CHOOSE h : Eqn(h))
  OBVIOUS
<1>9. Eqn(f)
  BY <1>7, <1>8
<1>10. Search(map, fragment) = f[n]
  BY <1>8 DEF Search
<1>11. DOMAIN f = 0..n /\ f[0] = NoCall /\ \A k \in 1..n : f[k] = NextCall(f[k - 1], map[k], fragment)
  BY <1>1, <1>9
<1> HIDE DEF Eqn
<1>12. 0..n \subseteq {k \in 0..n : f[k] \in Calls}
  <2> DEFINE T == {k \in 0..n : f[k] \in Calls}
  <2>1. 0 \in T
    BY <1>1, <1>11, NoCallType
  <2>2. \A k \in 1..n : k - 1 \in T => k \in T
    <3> SUFFICES ASSUME NEW k \in 1..n, k - 1 \in T  PROVE k \in T
      OBVIOUS
    <3>1. f[k - 1] \in Calls /\ f[k] = NextCall(f[k - 1], map[k], fragment) /\ k \in 0..n
      BY <1>1, <1>11
    <3> QED  BY <1>1, <3>1, NextCallType
  <2> HIDE DEF T, n
  <2>3. 0..n \subseteq T
    BY <1>1, <2>1, <2>2, BoundedInduction
  <2> QED  BY <2>3 DEF T
<1>13. f \in [0..n -> Calls]
  <2>1. f = [k \in 0..n |-> f[k]]
    BY <1>9 DEF Eqn
  <2> QED  BY <1>12, <2>1
<1> QED  BY <1>10, <1>11, <1>13 DEF Searching

\* j is the first of the entries in S.
FirstIn(j, S) == j \in S /\ \A i \in 1..(j - 1) : i \notin S

\* What the search has found in the first k entries.
FoundExact(c, k, map, fragment) ==
  c.exact /\ \E j \in 1..k : /\ FirstIn(j, Matching(map, fragment)) /\ c.slot = map[j].slot
                             /\ c.parameters = Captured(map[j].pattern, fragment)
FoundNull(c, k, map) ==
  \/ c.slot = NoSlot /\ \A i \in 1..k : i \notin Nulls(map)
  \/ \E j \in 1..k : FirstIn(j, Nulls(map)) /\ c.slot = map[j].slot
FoundIn(c, k, map, fragment) ==
  \/ FoundExact(c, k, map, fragment)
  \/ /\ ~c.exact /\ c.parameters = <<>> /\ \A i \in 1..k : i \notin Matching(map, fragment)
     /\ FoundNull(c, k, map)

LEMMA FoundNext ==
  ASSUME NEW map \in Seq(Entries), NEW fragment \in Fragments, NEW k \in 1..Len(map), NEW c \in Calls,
         FoundIn(c, k - 1, map, fragment)
  PROVE  FoundIn(NextCall(c, map[k], fragment), k, map, fragment)
<1>1. PICK d : d = NextCall(c, map[k], fragment)
  OBVIOUS
<1>2. /\ Len(map) \in Nat /\ k \in Nat /\ k - 1 \in Nat /\ k \in 1..k
      /\ \A i \in 1..k : i = k \/ i \in 1..(k - 1)
      /\ \A i \in 1..(k - 1) : i \in 1..k
      /\ map[k].slot # NoSlot
  <2>1. Len(map) \in Nat
    OBVIOUS
  <2> QED  BY <2>1, EntryShape
<1>3. /\ k \in Matching(map, fragment) <=> ExactMatch(map[k].pattern, fragment)
      /\ k \in Nulls(map) <=> map[k].pattern = NullPattern
  BY <1>2 DEF Matching, Nulls
<1>4. CASE c.exact
  <2>1. d = c
    BY <1>1, <1>4 DEF NextCall
  <2>2. FoundExact(c, k - 1, map, fragment)
    BY <1>4 DEF FoundIn
  <2>3. FoundExact(c, k, map, fragment)
    BY <1>2, <2>2 DEF FoundExact
  <2> QED  BY <1>1, <2>1, <2>3 DEF FoundIn
<1>5. CASE ~c.exact
  <2>1. /\ c.parameters = <<>> /\ \A i \in 1..(k - 1) : i \notin Matching(map, fragment)
        /\ FoundNull(c, k - 1, map)
    BY <1>5 DEF FoundIn, FoundExact
  <2>2. CASE k \in Matching(map, fragment)
    <3>1. d = [slot |-> map[k].slot, parameters |-> Captured(map[k].pattern, fragment), exact |-> TRUE]
      BY <1>1, <1>3, <1>5, <2>2 DEF NextCall
    <3>2. d.slot = map[k].slot /\ d.parameters = Captured(map[k].pattern, fragment) /\ d.exact
      BY <3>1
    <3>3. FirstIn(k, Matching(map, fragment))
      BY <2>1, <2>2 DEF FirstIn
    <3>4. FoundExact(d, k, map, fragment)
      BY <1>2, <3>2, <3>3 DEF FoundExact
    <3> QED  BY <1>1, <3>4 DEF FoundIn
  <2>3. CASE k \notin Matching(map, fragment)
    <3>1. \A i \in 1..k : i \notin Matching(map, fragment)
      BY <1>2, <2>1, <2>3
    <3>2. CASE k \in Nulls(map) /\ c.slot = NoSlot
      <4>1. d = [NoCall EXCEPT !.slot = map[k].slot]
        BY <1>1, <1>3, <1>5, <2>3, <3>2 DEF NextCall
      <4>2. d.slot = map[k].slot /\ d.parameters = <<>> /\ d.exact = FALSE
        BY <4>1, NoCallSlot
      <4>3. \A i \in 1..(k - 1) : i \notin Nulls(map)
        <5>1. ASSUME NEW j \in 1..(k - 1), FirstIn(j, Nulls(map)), c.slot = map[j].slot  PROVE FALSE
          <6>1. j \in 1..Len(map)
            BY <1>2
          <6> QED  BY <3>2, <5>1, <6>1, EntryShape
        <5> QED  BY <2>1, <5>1 DEF FoundNull
      <4>4. FirstIn(k, Nulls(map))
        BY <3>2, <4>3 DEF FirstIn
      <4>5. FoundNull(d, k, map)
        BY <1>2, <4>2, <4>4 DEF FoundNull
      <4> QED  BY <1>1, <3>1, <4>2, <4>5 DEF FoundIn
    <3>3. CASE ~(k \in Nulls(map) /\ c.slot = NoSlot)
      <4>1. d = c
        BY <1>1, <1>3, <1>5, <2>3, <3>3 DEF NextCall
      <4>2. FoundNull(c, k, map)
        <5>1. CASE c.slot = NoSlot /\ \A i \in 1..(k - 1) : i \notin Nulls(map)
          <6>1. \A i \in 1..k : i \notin Nulls(map)
            BY <1>2, <3>3, <5>1
          <6> QED  BY <5>1, <6>1 DEF FoundNull
        <5>2. CASE \E j \in 1..(k - 1) : FirstIn(j, Nulls(map)) /\ c.slot = map[j].slot
          BY <1>2, <5>2 DEF FoundNull
        <5> QED  BY <2>1, <5>1, <5>2 DEF FoundNull
      <4> QED  BY <1>1, <1>5, <2>1, <3>1, <4>1, <4>2 DEF FoundIn
    <3> QED  BY <3>2, <3>3
  <2> QED  BY <2>2, <2>3
<1> QED  BY <1>4, <1>5

\* The loop over the map finds the first exact match, else the first null expression.
LEMMA SearchFinds ==
  ASSUME NEW map \in Seq(Entries), NEW fragment \in Fragments
  PROVE  Search(map, fragment) \in Calls /\ FoundIn(Search(map, fragment), Len(map), map, fragment)
<1>1. PICK g \in [0..Len(map) -> Calls] : Searching(g, map, fragment) /\ Search(map, fragment) = g[Len(map)]
  BY SearchIterates
<1> DEFINE T == {k \in 0..Len(map) : FoundIn(g[k], k, map, fragment)}
<1>2. Len(map) \in Nat
  OBVIOUS
<1>3. 0 \in T
  <2>1. g[0] = NoCall /\ 1..0 = {} /\ 0 \in 0..Len(map)
    BY <1>1, <1>2 DEF Searching
  <2>2. FoundIn(NoCall, 0, map, fragment)
    BY <2>1, NoCallType DEF FoundIn, FoundNull
  <2> QED  BY <2>1, <2>2
<1>4. \A k \in 1..Len(map) : k - 1 \in T => k \in T
  <2> SUFFICES ASSUME NEW k \in 1..Len(map), k - 1 \in T  PROVE k \in T
    OBVIOUS
  <2>1. k \in 0..Len(map) /\ k - 1 \in 0..Len(map) /\ g[k - 1] \in Calls
    BY <1>2
  <2>2. g[k] = NextCall(g[k - 1], map[k], fragment)
    BY <1>1 DEF Searching
  <2>3. FoundIn(g[k - 1], k - 1, map, fragment)
    OBVIOUS
  <2>4. FoundIn(g[k], k, map, fragment)
    BY <2>1, <2>2, <2>3, FoundNext
  <2> QED  BY <2>1, <2>4
<1> HIDE DEF T
<1>5. 0..Len(map) \subseteq T
  BY <1>2, <1>3, <1>4, BoundedInduction
<1>6. Len(map) \in T /\ Len(map) \in 0..Len(map)
  BY <1>2, <1>5
<1> QED  BY <1>1, <1>6 DEF T

LEMMA FirstIsMin ==
  ASSUME NEW n \in Nat, NEW S \in SUBSET (1..n), NEW j \in 1..n, FirstIn(j, S)
  PROVE  Min(S) = j
<1>1. j \in S /\ \A i \in S : j <= i
  BY DEF FirstIn
<1>2. \A x \in S : (\A y \in S : x <= y) => x = j
  BY <1>1
<1> QED  BY <1>1, <1>2 DEF Min

\* The same in the words of Answered.
LEMMA SearchCorrect ==
  ASSUME NEW map \in Seq(Entries), NEW fragment \in Fragments
  PROVE  LET c == Search(map, fragment) IN
         /\ c.slot = NoSlot <=> Candidates(map, fragment) = {}
         /\ Candidates(map, fragment) # {} =>
              /\ Min(Candidates(map, fragment)) \in Candidates(map, fragment)
              /\ c.slot = map[Min(Candidates(map, fragment))].slot
         /\ Matching(map, fragment) # {} =>
              \E j \in Matching(map, fragment) :
                c.slot = map[j].slot /\ c.parameters = Captured(map[j].pattern, fragment)
         /\ Matching(map, fragment) = {} => c.parameters = <<>>
<1>1. PICK c : c = Search(map, fragment)
  OBVIOUS
<1>2. /\ Len(map) \in Nat /\ DOMAIN map = 1..Len(map) /\ c \in Calls /\ FoundIn(c, Len(map), map, fragment)
      /\ \A j \in 1..Len(map) : map[j].slot # NoSlot
  <2>1. \A j \in 1..Len(map) : map[j].slot # NoSlot
    BY EntryShape
  <2> QED  BY <1>1, <2>1, SearchFinds
<1>3. Matching(map, fragment) \in SUBSET (1..Len(map)) /\ Nulls(map) \in SUBSET (1..Len(map))
  BY <1>2 DEF Matching, Nulls
<1>4. CASE FoundExact(c, Len(map), map, fragment)
  <2>1. PICK j \in 1..Len(map) : /\ FirstIn(j, Matching(map, fragment)) /\ c.slot = map[j].slot
                                 /\ c.parameters = Captured(map[j].pattern, fragment)
    BY <1>4 DEF FoundExact
  <2>2. Min(Matching(map, fragment)) = j
    BY <1>2, <1>3, <2>1, FirstIsMin
  <2>3. j \in Matching(map, fragment) /\ Candidates(map, fragment) = Matching(map, fragment)
    BY <2>1 DEF FirstIn, Candidates
  <2> QED  BY <1>1, <1>2, <2>1, <2>2, <2>3
<1>5. CASE ~FoundExact(c, Len(map), map, fragment)
  <2>1. /\ c.parameters = <<>> /\ Matching(map, fragment) = {} /\ FoundNull(c, Len(map), map)
        /\ Candidates(map, fragment) = Nulls(map)
    BY <1>2, <1>3, <1>5 DEF FoundIn, Candidates
  <2>2. CASE c.slot = NoSlot /\ \A i \in 1..Len(map) : i \notin Nulls(map)
    BY <1>1, <1>3, <2>1, <2>2
  <2>3. CASE \E j \in 1..Len(map) : FirstIn(j, Nulls(map)) /\ c.slot = map[j].slot
    <3>1. PICK j \in 1..Len(map) : FirstIn(j, Nulls(map)) /\ c.slot = map[j].slot
      BY <2>3
    <3>2. Min(Nulls(map)) = j /\ j \in Nulls(map)
      BY <1>2, <1>3, <3>1, FirstIsMin DEF FirstIn
    <3> QED  BY <1>1, <1>2, <2>1, <3>1, <3>2
  <2> QED  BY <2>1, <2>2, <2>3 DEF FoundNull
<1> QED  BY <1>4, <1>5

-----------------------------------------------------------------------------
(* What an exact match captures, part by part, is the fragment. *)

\* g[i] is the first i of the sequences c[1..n] in a row.
Flattens(g, c, n) ==
  /\ Len(c) = n /\ g = [i \in 1..n |-> g[i]]
  /\ g[1] = c[1] /\ \A i \in 2..n : g[i] = g[i - 1] \o c[i]

LEMMA Flattened ==
  ASSUME NEW c, NEW n \in Nat \ {0}, NEW g, Flattens(g, c, n)
  PROVE  FlattenSeq(c) = g[n]
<1>0. /\ Len(c) = n /\ g = [i \in 1..n |-> g[i]]
      /\ g[1] = c[1] /\ \A i \in 2..n : g[i] = g[i - 1] \o c[i]
  BY DEF Flattens
<1> DEFINE Eqn(f) == f = [i \in 1..n |-> IF i = 1 THEN c[i] ELSE f[i - 1] \o c[i]]
<1>1. g = [i \in 1..n |-> IF i = 1 THEN c[i] ELSE g[i - 1] \o c[i]]
  <2>1. \A i \in 1..n : g[i] = IF i = 1 THEN c[i] ELSE g[i - 1] \o c[i]
    <3>1. \A i \in 1..n : i = 1 \/ i \in 2..n
      OBVIOUS
    <3> QED  BY <1>0, <3>1, Zenon
  <2> QED  BY <1>0, <2>1
<1>2. PICK f : f = (CHOOSE h : Eqn(h))
  OBVIOUS
<1>3. Eqn(f)
  BY <1>1, <1>2
<1>4. FlattenSeq(c) = f[n]
  BY <1>0, <1>2 DEF FlattenSeq
<1>5. \A i \in 1..n : f[i] = IF i = 1 THEN c[i] ELSE f[i - 1] \o c[i]
  BY <1>3
<1> HIDE DEF Eqn
<1> DEFINE T == {i \in 0..n : i # 0 => f[i] = g[i]}
<1>6. 0 \in T
  OBVIOUS
<1>7. \A i \in 1..n : i - 1 \in T => i \in T
  <2> SUFFICES ASSUME NEW i \in 1..n, i - 1 \in T  PROVE i \in T
    OBVIOUS
  <2>1. i \in 0..n
    OBVIOUS
  <2>2. CASE i = 1
    BY <1>0, <1>5, <2>1, <2>2
  <2>3. CASE i # 1
    <3>1. i \in 2..n /\ i - 1 # 0
      BY <2>3
    <3>2. f[i - 1] = g[i - 1]
      BY <3>1
    <3>3. f[i] = f[i - 1] \o c[i] /\ g[i] = g[i - 1] \o c[i]
      BY <1>0, <1>5, <2>3, <3>1
    <3> QED  BY <2>1, <3>2, <3>3
  <2> QED  BY <2>2, <2>3
<1> HIDE DEF T
<1>8. 0..n \subseteq T
  BY <1>6, <1>7, BoundedInduction
<1>9. n \in T
  BY <1>8
<1> QED  BY <1>4, <1>9 DEF T

LEMMA PartsOfSeq ==
  ASSUME NEW S, NEW s \in Seq(S), NEW k \in 1..Len(s)
  PROVE  /\ SubSeq(s, 1, 1) = <<s[1]>> /\ SubSeq(s, 1, Len(s)) = s
         /\ k > 1 => SubSeq(s, 1, k - 1) \o <<s[k]>> = SubSeq(s, 1, k)
         /\ k > 1 => SubSeq(s, 1, k - 1) \o SubSeq(s, k, Len(s)) = s
<1>1. Len(s) \in Nat /\ Len(s) > 0 /\ s \in [1..Len(s) -> S]
  BY LenProperties
<1>2. SubSeq(s, 1, Len(s)) = s
  BY SubSeqProperties, SeqEqual
<1>3. SubSeq(s, 1, 1) = <<s[1]>>
  <2>1. s[1] \in S
    BY <1>1
  <2>2. /\ SubSeq(s, 1, 1) \in Seq(S) /\ Len(SubSeq(s, 1, 1)) = 1 /\ SubSeq(s, 1, 1)[1] = s[1]
        /\ <<s[1]>> \in Seq(S) /\ Len(<<s[1]>>) = 1
    BY <1>1, <2>1, SubSeqProperties
  <2>3. \A i \in 1..Len(SubSeq(s, 1, 1)) : SubSeq(s, 1, 1)[i] = <<s[1]>>[i]
    BY <2>2
  <2> QED  BY <2>2, <2>3, SeqEqual
<1>4. ASSUME k > 1  PROVE SubSeq(s, 1, k - 1) \o <<s[k]>> = SubSeq(s, 1, k)
  OBVIOUS
<1>5. ASSUME k > 1  PROVE SubSeq(s, 1, k - 1) \o SubSeq(s, k, Len(s)) = s
  OBVIOUS
<1> QED  BY <1>2, <1>3, <1>4, <1>5

LEMMA CapturesAll ==
  ASSUME NEW p \in Patterns, p \notin {NullPattern, <<>>}, NEW fragment \in Fragments, ExactMatch(p, fragment)
  PROVE  FlattenSeq(Captured(p, fragment)) = fragment
<1>1. PICK c, n : c = Captured(p, fragment) /\ n = Len(p)
  OBVIOUS
<1>2. /\ n \in Nat \ {0} /\ Len(c) = n /\ n <= Len(fragment) /\ (p[n] # ".+" => Len(fragment) = n)
      /\ fragment \in Seq(STRING) /\ Len(fragment) \in Nat
      /\ \A k \in 1..n : p[k] = ".+" => k = n
      /\ \A k \in 1..n : c[k] = IF p[k] = ".+" THEN SubSeq(fragment, k, Len(fragment)) ELSE <<fragment[k]>>
  BY <1>1, PatternShape, MatchShape DEF Fragments
<1>3. PICK g : g = [i \in 1..n |-> IF p[i] = ".+" THEN fragment ELSE SubSeq(fragment, 1, i)]
  OBVIOUS
<1>4. g[1] = c[1]
  <2>1. 1 \in 1..n /\ 1 \in 1..Len(fragment)
    BY <1>2
  <2>2. SubSeq(fragment, 1, 1) = <<fragment[1]>> /\ SubSeq(fragment, 1, Len(fragment)) = fragment
    BY <1>2, <2>1, PartsOfSeq
  <2> QED  BY <1>2, <1>3, <2>1, <2>2
<1>5. ASSUME NEW i \in 2..n  PROVE g[i] = g[i - 1] \o c[i]
  <2>1. /\ i \in 1..n /\ i - 1 \in 1..n /\ i - 1 # n /\ i \in 1..Len(fragment) /\ i > 1
        /\ g[i - 1] = SubSeq(fragment, 1, i - 1)
    BY <1>2, <1>3
  <2>2. /\ SubSeq(fragment, 1, i - 1) \o <<fragment[i]>> = SubSeq(fragment, 1, i)
        /\ SubSeq(fragment, 1, i - 1) \o SubSeq(fragment, i, Len(fragment)) = fragment
    BY <1>2, <2>1, PartsOfSeq
  <2>3. CASE p[i] = ".+"
    <3>1. g[i] = fragment /\ c[i] = SubSeq(fragment, i, Len(fragment))
      BY <1>2, <1>3, <2>1, <2>3
    <3> QED  BY <2>1, <2>2, <3>1
  <2>4. CASE p[i] # ".+"
    <3>1. g[i] = SubSeq(fragment, 1, i) /\ c[i] = <<fragment[i]>>
      BY <1>2, <1>3, <2>1, <2>4
    <3> QED  BY <2>1, <2>2, <3>1
  <2> QED  BY <2>3, <2>4
<1>6. g[n] = fragment
  <2>1. n \in 1..n /\ n \in 1..Len(fragment) /\ SubSeq(fragment, 1, Len(fragment)) = fragment
    BY <1>2, PartsOfSeq
  <2> QED  BY <1>2, <1>3, <2>1
<1>7. g = [i \in 1..n |-> g[i]]
  BY <1>3
<1>8. Flattens(g, c, n)
  BY <1>2, <1>4, <1>5, <1>7 DEF Flattens
<1>9. FlattenSeq(c) = g[n]
  BY <1>2, <1>8, Flattened
<1> QED  BY <1>1, <1>6, <1>9

-----------------------------------------------------------------------------
(* What the calls of a method leave in the document of an XsltService. *)

MethodCalls == {"addXsltFile", "setXsltUrl", "setNoXsltUrl", "write"}

\* The calls that choose a stylesheet or none; and whether the last of them has chosen one.
Styling(calls, k) == {i \in 1..k : calls[i] # "write"}
Transforms(calls, k) ==
  Styling(calls, k) # {} /\ calls[Max(Styling(calls, k))] # "setNoXsltUrl"

LEMMA MaxOf ==
  ASSUME NEW n \in Nat, NEW S \in SUBSET (1..n), n \in S
  PROVE  Max(S) = n
<1>1. \A i \in S : n >= i
  OBVIOUS
<1>2. \A x \in S : (\A y \in S : x >= y) => x = n
  OBVIOUS
<1> QED  BY <1>1, <1>2 DEF Max

LEMMA AfterType ==
  ASSUME NEW d \in Documents, NEW call \in MethodCalls
  PROVE  /\ After(d, call) \in Documents /\ After(d, call).state = d.state
         /\ call = "write" => After(d, call).source = d.source
         /\ call # "write" => (After(d, call).source # "NoXslt" <=> call # "setNoXsltUrl")
         /\ d.position = d.xml => After(d, call).position = After(d, call).xml
<1>1. /\ d.state \in {"none", "open", "written", "lost"} /\ d.xml \in Nat /\ d.position \in Nat
      /\ d.output \in {"nothing", "xml", "transformed"}
      /\ d = [state |-> d.state, source |-> d.source, xml |-> d.xml, position |-> d.position, output |-> d.output]
  BY DEF Documents
<1>2. CASE call = "write"
  <2>1. After(d, call) = [d EXCEPT !.xml = d.xml + 1, !.position = d.position + 1]
    BY <1>2 DEF After
  <2>2. d.xml + 1 \in Nat /\ d.position + 1 \in Nat
    BY <1>1
  <2>3. PICK x \in Nat, y \in Nat : x = d.xml + 1 /\ y = d.position + 1 /\ (d.position = d.xml => y = x)
    BY <2>2
  <2>4. After(d, call) = [state |-> d.state, source |-> d.source, xml |-> x, position |-> y, output |-> d.output]
    BY <1>1, <2>1, <2>3
  <2> QED  BY <1>1, <1>2, <2>3, <2>4 DEF Documents
<1>3. CASE call # "write"
  <2>1. \/ call = "addXsltFile" /\ After(d, call) = [d EXCEPT !.source = "StringXslt"]
        \/ call = "setXsltUrl" /\ After(d, call) = [d EXCEPT !.source = "FileXslt"]
        \/ call = "setNoXsltUrl" /\ After(d, call) = [d EXCEPT !.source = "NoXslt"]
    BY <1>3 DEF After, MethodCalls
  <2> QED  BY <1>1, <1>3, <2>1 DEF Documents
<1> QED  BY <1>2, <1>3

LEMMA NewDocumentType ==
  NoDocument \in Documents /\ NewDocument \in Documents /\ NewDocument.state = "open" /\ NewDocument.source = "NoXslt"
  /\ NewDocument.position = NewDocument.xml
BY DEF NewDocument, NoDocument, Documents

LEMMA CollectedIterates ==
  ASSUME NEW calls \in Seq(MethodCalls)
  PROVE  \E g : /\ g[0] = NewDocument /\ Collected(calls) = g[Len(calls)]
                /\ \A k \in 1..Len(calls) : g[k] = After(g[k - 1], calls[k])
<1> DEFINE n == Len(calls)
           step == [s \in Documents \X (1..n) |-> After(s[1], calls[s[2]])]
           Eqn(f) == f = [k \in 0..n |-> IF k = 0 THEN NewDocument ELSE After(f[k - 1], calls[k])]
<1>1. n \in Nat /\ \A k \in 1..n : calls[k] \in MethodCalls
  BY ElementOfSeq
<1>2. step \in [Documents \X (1..n) -> Documents]
  <2>1. \A s \in Documents \X (1..n) : After(s[1], calls[s[2]]) \in Documents
    BY <1>1, AfterType
  <2> QED  BY <2>1
<1>3. \A d \in Documents, k \in 1..n : step[<<d, k>>] = After(d, calls[k])
  OBVIOUS
<1> HIDE DEF step
<1>4. PICK g \in [0..n -> Documents] : Iterates(g, n, NewDocument, step)
  <2> HIDE DEF n
  <2> QED  BY <1>1, <1>2, NewDocumentType, ExistsRecursive
<1>5. \A k \in 1..n : g[k] = After(g[k - 1], calls[k])
  <2> SUFFICES ASSUME NEW k \in 1..n  PROVE g[k] = After(g[k - 1], calls[k])
    OBVIOUS
  <2>1. k - 1 \in 0..n
    BY <1>1
  <2>2. g[k - 1] \in Documents /\ g[k] = step[<<g[k - 1], k>>]
    BY <1>4, <2>1 DEF Iterates
  <2> QED  BY <1>3, <2>2
<1>6. g = [k \in 0..n |-> IF k = 0 THEN NewDocument ELSE After(g[k - 1], calls[k])]
  <2>1. \A k \in 0..n : g[k] = IF k = 0 THEN NewDocument ELSE After(g[k - 1], calls[k])
    BY <1>1, <1>4, <1>5 DEF Iterates
  <2> QED  BY <1>4, <2>1
<1>7. PICK f : f = (CHOOSE h : Eqn(h))
  OBVIOUS
<1>8. Eqn(f)
  BY <1>6, <1>7
<1>9. Collected(calls) = f[n]
  BY <1>7 DEF Collected
<1>10. f[0] = NewDocument /\ \A k \in 1..n : f[k] = After(f[k - 1], calls[k])
  BY <1>1, <1>8
<1> QED  BY <1>9, <1>10

\* The document of a method is transformed if the last stylesheet chosen is one.
LEMMA CollectedCorrect ==
  ASSUME NEW calls \in Seq(MethodCalls)
  PROVE  /\ Collected(calls) \in Documents /\ Collected(calls).state = "open"
         /\ Collected(calls).source # "NoXslt" <=> Transforms(calls, Len(calls))
         /\ Collected(calls).position = Collected(calls).xml
<1>1. PICK g : /\ g[0] = NewDocument /\ Collected(calls) = g[Len(calls)]
               /\ \A k \in 1..Len(calls) : g[k] = After(g[k - 1], calls[k])
  BY CollectedIterates
<1>2. Len(calls) \in Nat /\ \A k \in 1..Len(calls) : calls[k] \in MethodCalls
  BY ElementOfSeq
<1> DEFINE Good(k) == /\ g[k] \in Documents /\ g[k].state = "open" /\ (g[k].source # "NoXslt" <=> Transforms(calls, k))
                      /\ g[k].position = g[k].xml
           T == {k \in 0..Len(calls) : Good(k)}
<1>3. 0 \in T
  <2>1. Styling(calls, 0) = {}
    BY DEF Styling
  <2> QED  BY <1>1, <1>2, <2>1, NewDocumentType DEF Transforms
<1>4. \A k \in 1..Len(calls) : k - 1 \in T => k \in T
  <2> SUFFICES ASSUME NEW k \in 1..Len(calls), k - 1 \in T  PROVE Good(k)
    BY <1>2
  <2>1. Good(k - 1) /\ calls[k] \in MethodCalls /\ g[k] = After(g[k - 1], calls[k])
    BY <1>1, <1>2
  <2>2. /\ g[k] \in Documents /\ g[k].state = "open"
        /\ calls[k] = "write" => g[k].source = g[k - 1].source
        /\ calls[k] # "write" => (g[k].source # "NoXslt" <=> calls[k] # "setNoXsltUrl")
        /\ g[k].position = g[k].xml
    <3>1. PICK d \in Documents : d = g[k - 1] /\ d.position = d.xml
      BY <2>1
    <3>2. PICK e : e = After(d, calls[k])
      OBVIOUS
    <3>3. /\ e \in Documents /\ e.state = d.state
          /\ calls[k] = "write" => e.source = d.source
          /\ calls[k] # "write" => (e.source # "NoXslt" <=> calls[k] # "setNoXsltUrl")
          /\ e.position = e.xml
      BY <2>1, <3>1, <3>2, AfterType
    <3> QED  BY <2>1, <3>1, <3>2, <3>3
  <2>3. CASE calls[k] = "write"
    <3>1. Styling(calls, k) = Styling(calls, k - 1)
      BY <1>2, <2>3 DEF Styling
    <3>2. Transforms(calls, k) <=> Transforms(calls, k - 1)
      BY <3>1 DEF Transforms
    <3> QED  BY <2>1, <2>2, <2>3, <3>2
  <2>4. CASE calls[k] # "write"
    <3>1. k \in Nat /\ Styling(calls, k) \in SUBSET (1..k) /\ k \in Styling(calls, k)
      BY <1>2, <2>4 DEF Styling
    <3>2. Max(Styling(calls, k)) = k
      BY <3>1, MaxOf
    <3>3. Transforms(calls, k) <=> calls[k] # "setNoXsltUrl"
      BY <3>1, <3>2 DEF Transforms
    <3> QED  BY <2>2, <2>4, <3>3
  <2> QED  BY <2>3, <2>4
<1> HIDE DEF T
<1>5. 0..Len(calls) \subseteq T
  BY <1>2, <1>3, <1>4, BoundedInduction
<1>6. Len(calls) \in T
  BY <1>2, <1>5
<1> QED  BY <1>1, <1>6 DEF T

-----------------------------------------------------------------------------
(* The dispatching is a BlockingResponder. *)

LEMMA StepIsNext == [DispatchNext]_allVars => [Next]_vars
<1>1. MapperRespond => NewRequest
  BY DEF MapperRespond, InLoop, NewRequest
<1>2. ServiceRespond => RunNext
  BY DEF ServiceRespond
<1>3. MethodAdopts => Adopt
  BY DEF MethodAdopts
<1>4. MethodReturn => SlotReturn
  BY DEF MethodReturn
<1>5. AnswerLater => AnswerAdopted
  BY DEF AnswerLater
<1>6. (DispatchFlush => FlushQueue) /\ (DispatchFlushDone => FlushDone) /\ (DispatchShutdown => Shutdown)
  BY DEF DispatchFlush, DispatchFlushDone, DispatchShutdown
<1>7. DispatchTerminated \/ UNCHANGED allVars => UNCHANGED vars
  BY DEF DispatchTerminated, allVars
<1> QED  BY <1>1, <1>2, <1>3, <1>4, <1>5, <1>6, <1>7 DEF DispatchNext, DispatchStep, Next, Step

\* A request that goes through PrefixMapper and Service is treated as any other by the
\* queue in each of them.
THEOREM DispatchIsResponder == DispatchSpec => Spec
<1>1. DispatchInit => Init
  BY DEF DispatchInit
<1> QED  BY <1>1, StepIsNext, PTL DEF DispatchSpec, Spec

-----------------------------------------------------------------------------
(* The inductive invariant, request by request. *)

\* The mapper has been there before the request is in the queue, and only then.
MappedOnce(r) ==
  /\ r > arrived => prefix[r] = Null /\ suffix[r] = Null
  /\ life[r] = "alive" \/ responder[r] # "none" => \E name \in names : prefix[r] = <<name>>

Rest(r) ==
  IF Head(prefix[r]) = "" /\ Head(Parts(path[r])) # "" THEN path[r] ELSE Tail(Parts(path[r]))
RestIsLeft(r) ==
  prefix[r] # Null =>
    /\ Head(prefix[r]) \in names /\ Head(prefix[r]) \in {"", Head(Parts(path[r]))}
    /\ Parts(Suffix(r)) = IF Rest(r) = <<>> THEN Parts(path[r]) ELSE Rest(r)

\* A service has nothing to do with a request before its slot is invoked; from then on
\* the method and, of the answers, 404 are those that the URL decides.
Unserved(r) ==
  responder[r] = "none" =>
    /\ called[r] = NoCall /\ answer[r] # "method" /\ (life[r] # "deleted" => answer[r] = "none")
    /\ ~Persist => ~service[r].dispatching
Served(r) ==
  responder[r] # "none" /\ (fatal => life[r] = "deleted") =>
    called[r] = Chosen(r) /\ (answer[r] = "404" <=> called[r].slot = NoSlot)
AdoptedByMethod(r) == parent[r] = "responder" => answer[r] # "404"
EndsAnswered(r) == life[r] = "deleted" => answer[r] # "none" \/ ended

\* The document of a request is open as long as the request is with its method.
WrittenOut(d) == [d EXCEPT !.state = "written", !.output = Output(d)]
Collecting(r) ==
  WithXslt /\ ~Persist /\ responder[r] # "none" /\ (fatal => life[r] = "deleted") =>
    document[r] = IF life[r] = "alive" /\ called[r].slot # NoSlot
                  THEN Collected(CallsOf(called[r])) ELSE WrittenOut(Collected(CallsOf(called[r])))

RequestInv(r) ==
  /\ MappedOnce(r) /\ RestIsLeft(r) /\ Unserved(r) /\ Served(r)
  /\ AdoptedByMethod(r) /\ EndsAnswered(r) /\ Collecting(r)

Sound == ~Persist /\ MapsFit => ~fatal
CalledType == called \in [Requests -> Calls]

DispatchInv ==
  /\ IInv /\ DispatchTypeOK /\ CalledType /\ Sound
  /\ \A r \in Requests : RequestInv(r)

-----------------------------------------------------------------------------
(* What the URL decides. *)

LEMMA PartsType ==
  ASSUME NEW p \in Seq(STRING)
  PROVE  Parts(p) \in Fragments /\ (p # <<>> => Parts(p) = p)
<1>1. <<"">> \in Seq(STRING) /\ <<"">> # <<>>
  BY EmptySegment, Singleton
<1>2. CASE p = <<>>
  BY <1>1, <1>2, Zenon DEF Parts, Fragments
<1>3. CASE p # <<>>
  BY <1>3, Zenon DEF Parts, Fragments
<1> QED  BY <1>2, <1>3

LEMMA ChosenType ==
  ASSUME DispatchTypeOK, NEW r \in Requests, \E name \in names : prefix[r] = <<name>>
  PROVE  /\ UrlMapFor(r) \in Seq(Entries) /\ Fragment(r) \in Fragments /\ Chosen(r) \in Calls
         /\ \E name \in DOMAIN Services : UrlMapFor(r) = Services[name]
<1>1. PICK name \in names : prefix[r] = <<name>>
  OBVIOUS
<1>2. name \in DOMAIN Services
  BY DispatchAssumption DEF DispatchTypeOK
<1>3. UrlMapFor(r) = Services[name]
  BY <1>1 DEF UrlMapFor, Last
<1>4. Services[name] \in Seq(Entries)
  BY <1>2, DispatchAssumption DEF Entries, Slots
<1>5. Fragment(r) \in Fragments
  <2>1. path[r] \in Seq(STRING) /\ suffix[r] \in Seq(STRING)
    BY DispatchAssumption DEF DispatchTypeOK
  <2>2. Parts(Suffix(r)) \in Fragments
    BY <2>1, PartsType DEF Suffix
  <2> QED  BY <2>2, DispatchAssumption DEF Fragment, Decoded, Fragments
<1> QED  BY <1>2, <1>3, <1>4, <1>5, SearchFinds DEF Chosen

LEMMA CallsOfType ==
  ASSUME NEW call \in Calls
  PROVE  CallsOf(call) \in Seq(MethodCalls)
<1>1. CASE call.slot = NoSlot
  BY <1>1 DEF CallsOf
<1>2. CASE call.slot # NoSlot
  <2>1. call.slot.name \in DOMAIN Scripts
    BY <1>2 DEF Calls, Slots
  <2> QED  BY <1>2, <2>1, DispatchAssumption DEF CallsOf, MethodCalls
<1> QED  BY <1>1, <1>2

LEMMA UrlKept ==
  ASSUME NEW r \in Requests, path' = path, prefix'[r] = prefix[r], suffix'[r] = suffix[r]
  PROVE  /\ Suffix(r)' = Suffix(r) /\ UrlMapFor(r)' = UrlMapFor(r) /\ Fragment(r)' = Fragment(r)
         /\ Chosen(r)' = Chosen(r)
<1>1. Suffix(r)' = Suffix(r)
  BY DEF Suffix
<1>2. UrlMapFor(r)' = UrlMapFor(r)
  BY DEF UrlMapFor
<1>3. Fragment(r)' = Fragment(r)
  BY <1>1 DEF Fragment
<1> QED  BY <1>1, <1>2, <1>3 DEF Chosen

LEMMA MatchedSlot ==
  ASSUME NEW r \in Requests, DispatchTypeOK, \E name \in names : prefix[r] = <<name>>, MapsFit
  PROVE  ~CannotInvoke(r)
<1>1. PICK map, fragment : map = UrlMapFor(r) /\ fragment = Fragment(r)
  OBVIOUS
<1>2. map \in Seq(Entries) /\ fragment \in Fragments /\ Chosen(r) = Search(map, fragment) /\ Chosen(r) \in Calls
  BY <1>1, ChosenType DEF Chosen
<1>3. \A k \in DOMAIN map : map[k].slot.parameters = Captures(map[k].pattern) /\ Captures(map[k].pattern) < 10
  <2>1. PICK name \in DOMAIN Services : map = Services[name]
    BY <1>1, ChosenType
  <2> QED  BY <2>1 DEF MapsFit
<1>4. CASE Matching(map, fragment) # {}
  <2>1. PICK j \in Matching(map, fragment) :
          Chosen(r).slot = map[j].slot /\ Chosen(r).parameters = Captured(map[j].pattern, fragment)
    BY <1>2, <1>4, SearchCorrect
  <2>2. j \in DOMAIN map /\ j \in 1..Len(map) /\ ExactMatch(map[j].pattern, fragment) /\ map[j].pattern \in Patterns
    BY <1>2, <2>1, EntryShape DEF Matching
  <2>3. Len(Captured(map[j].pattern, fragment)) = Captures(map[j].pattern)
    <3>1. CASE map[j].pattern \in {NullPattern, <<>>}
      BY <3>1 DEF Captured, Captures
    <3>2. CASE map[j].pattern \notin {NullPattern, <<>>}
      BY <1>2, <2>2, <3>2, MatchShape DEF Captures
    <3> QED  BY <3>1, <3>2
  <2>4. Captures(map[j].pattern) < 10 /\ Captures(map[j].pattern) \in Nat
    <3>1. Captures(map[j].pattern) \in Nat
      BY <2>2, PatternShape DEF Captures
    <3> QED  BY <1>3, <2>2, <3>1
  <2> QED  BY <1>3, <2>1, <2>2, <2>3, <2>4 DEF CannotInvoke
<1>5. CASE Matching(map, fragment) = {}
  <2>1. Chosen(r).parameters = <<>> /\ Candidates(map, fragment) = Nulls(map)
    BY <1>2, <1>5, SearchCorrect DEF Candidates
  <2>2. Chosen(r).slot.parameters = 0
    <3>1. CASE Nulls(map) = {}
      BY <1>2, <2>1, <3>1, SearchCorrect DEF NoSlot
    <3>2. CASE Nulls(map) # {}
      <4>1. Chosen(r).slot = map[Min(Nulls(map))].slot /\ Min(Nulls(map)) \in Nulls(map)
        BY <1>2, <2>1, <3>2, SearchCorrect
      <4> QED  BY <1>3, <4>1 DEF Nulls, Captures
    <3> QED  BY <3>1, <3>2
  <2>3. Len(Chosen(r).parameters) = 0
    BY <2>1
  <2> QED  BY <2>2, <2>3 DEF CannotInvoke
<1> QED  BY <1>4, <1>5

-----------------------------------------------------------------------------
(* A request that a step leaves alone, and what a step may change besides. *)

Untouched(r) ==
  /\ UNCHANGED <<prefix[r], suffix[r], called[r], document[r], answer[r], life[r], parent[r], responder[r]>>
  /\ ~Persist => service'[r].dispatching = service[r].dispatching

Onward ==
  /\ UNCHANGED <<names, path>> /\ arrived \in Nat /\ arrived' \in Nat /\ arrived' >= arrived
  /\ (ended => ended') /\ (fatal => fatal')

LEMMA UntouchedKept ==
  ASSUME NEW r \in Requests, RequestInv(r), Untouched(r), Onward
  PROVE  RequestInv(r)'
<1>1. /\ Suffix(r)' = Suffix(r) /\ Chosen(r)' = Chosen(r) /\ r \in Nat
      /\ prefix'[r] = prefix[r] /\ suffix'[r] = suffix[r] /\ called'[r] = called[r] /\ document'[r] = document[r]
      /\ answer'[r] = answer[r] /\ life'[r] = life[r] /\ parent'[r] = parent[r] /\ responder'[r] = responder[r]
      /\ path'[r] = path[r] /\ names' = names
  BY UrlKept DEF Untouched, Onward, Requests
<1>2. MappedOnce(r)'
  BY <1>1 DEF MappedOnce, RequestInv, Onward
<1>3. RestIsLeft(r)'
  BY <1>1 DEF RestIsLeft, RequestInv, Rest
<1>4. Unserved(r)'
  BY <1>1 DEF Unserved, RequestInv, Untouched
<1>5. Served(r)'
  BY <1>1 DEF Served, RequestInv, Onward
<1>6. AdoptedByMethod(r)' /\ EndsAnswered(r)'
  BY <1>1 DEF AdoptedByMethod, EndsAnswered, RequestInv, Onward
<1>7. Collecting(r)'
  BY <1>1 DEF Collecting, RequestInv, Onward
<1> QED  BY <1>2, <1>3, <1>4, <1>5, <1>6, <1>7 DEF RequestInv

LEMMA DispatchInvInit == DispatchInit => DispatchInv
<1> SUFFICES ASSUME DispatchInit  PROVE DispatchInv
  OBVIOUS
<1>1. IInv
  BY IInvInit DEF DispatchInit
<1>2. /\ names \in Mappings /\ path \in [Requests -> Paths] /\ fatal = FALSE
      /\ \A r \in Requests : /\ prefix[r] = Null /\ suffix[r] = Null /\ answer[r] = "none" /\ called[r] = NoCall
                             /\ document[r] = NoDocument /\ life[r] = "absent" /\ parent[r] = "nobody"
                             /\ responder[r] = "none"
  BY DEF DispatchInit, Init, QueueInit
<1>3. DispatchTypeOK
  <2>1. TypeOK
    BY <1>1 DEF IInv
  <2>2. Null \in Seq(STRING)
    BY DEF Null
  <2>3. prefix \in [Requests -> Seq(STRING)] /\ suffix \in [Requests -> Seq(STRING)]
    BY <2>2 DEF DispatchInit
  <2>4. service \in [Objects -> [dispatching : BOOLEAN, request : Requests \union {NoRequest}]]
    <3>1. NewService \in [dispatching : BOOLEAN, request : Requests \union {NoRequest}]
      BY DEF NewService
    <3> QED  BY <3>1 DEF DispatchInit
  <2>5. answer \in [Requests -> {"none", "404", "method"}] /\ document \in [Requests -> Documents]
    BY NewDocumentType DEF DispatchInit
  <2> QED  BY <1>2, <2>1, <2>3, <2>4, <2>5 DEF DispatchTypeOK
<1>4. CalledType
  BY NoCallType DEF CalledType, DispatchInit
<1>5. \A r \in Requests : ~Persist => ~service[r].dispatching
  BY DEF DispatchInit, Objects, NewService
<1>6. \A r \in Requests : RequestInv(r)
  BY <1>2, <1>5 DEF RequestInv, MappedOnce, RestIsLeft, Unserved, Served, AdoptedByMethod, EndsAnswered, Collecting
<1> QED  BY <1>1, <1>2, <1>3, <1>4, <1>6 DEF DispatchInv, Sound

-----------------------------------------------------------------------------
(* The steps. *)

LEMMA NextState ==
  ASSUME DispatchInv, [DispatchNext]_allVars
  PROVE  /\ IInv /\ TypeOK /\ QueueTypeOK /\ IInv' /\ TypeOK' /\ QueueTypeOK'
         /\ arrived \in Nat /\ arrived' \in Nat
         /\ \A r \in Requests : RequestInv(r) /\ r \in Nat
<1>1. IInv /\ IInv'
  BY StepIsNext, IInvStep DEF DispatchInv
<1>2. TypeOK /\ TypeOK' /\ QueueTypeOK /\ QueueTypeOK'
  BY <1>1 DEF IInv, TypeOK
<1> QED  BY <1>1, <1>2, QueueAssumption DEF DispatchInv, QueueTypeOK, Requests

\* The newest call of flushQueue waits, and nothing happens to a request.
LEMMA OutsideStep ==
  ASSUME DispatchInv, [DispatchNext]_allVars, UNCHANGED <<dispatchVars, arrived, life, parent, responder, ended>>
  PROVE  DispatchInv'
<1>1. /\ UNCHANGED <<names, path, prefix, suffix, service, answer, called, document, fatal>>
      /\ UNCHANGED <<arrived, life, parent, responder, ended>>
  BY DEF dispatchVars
<1>2. \A r \in Requests : Untouched(r)
  BY <1>1 DEF Untouched
<1>3. Onward
  BY <1>1, NextState DEF Onward
<1>4. \A r \in Requests : RequestInv(r)'
  BY <1>2, <1>3, NextState, UntouchedKept
<1>5. DispatchTypeOK' /\ CalledType' /\ Sound'
  BY <1>1, NextState DEF DispatchInv, DispatchTypeOK, CalledType, Sound
<1> QED  BY <1>4, <1>5, NextState DEF DispatchInv

LEMMA MethodAdoptsStep == ASSUME DispatchInv, MethodAdopts  PROVE DispatchInv'
<1>0. /\ [DispatchNext]_allVars /\ DispatchTypeOK
      /\ UNCHANGED <<names, path, prefix, suffix, service, answer, called, document, fatal>>
      /\ UNCHANGED <<arrived, life, responder, ended>>
  BY DEF DispatchNext, MethodAdopts, Adopt, dispatchVars, DispatchInv
<1>1. PICK q \in Requests : q = Head(stack) /\ parent' = [parent EXCEPT ![q] = "responder"] /\ answer[q] = "none"
  BY <1>0, NextState, InSlotNow DEF MethodAdopts, Adopt, SetParent
<1>2. Onward /\ \A r \in Requests : r # q => Untouched(r)
  BY <1>0, <1>1, NextState DEF Onward, Untouched, QueueTypeOK
<1>3. \A r \in Requests : r # q => RequestInv(r)'
  BY <1>0, <1>2, NextState, UntouchedKept
<1>4. RequestInv(q)'
  <2>1. RequestInv(q)
    BY <1>0, NextState
  <2>2. Suffix(q)' = Suffix(q) /\ Chosen(q)' = Chosen(q)
    BY <1>0, UrlKept
  <2>3. MappedOnce(q)' /\ RestIsLeft(q)'
    BY <1>0, <2>1, <2>2 DEF RequestInv, MappedOnce, RestIsLeft, Rest
  <2>4. Unserved(q)' /\ Served(q)' /\ EndsAnswered(q)'
    BY <1>0, <2>1, <2>2 DEF RequestInv, Unserved, Served, EndsAnswered
  <2>5. Collecting(q)'
    BY <1>0, <2>1 DEF RequestInv, Collecting
  <2>6. AdoptedByMethod(q)'
    BY <1>0, <1>1 DEF AdoptedByMethod
  <2> QED  BY <2>3, <2>4, <2>5, <2>6 DEF RequestInv
<1>5. DispatchTypeOK' /\ CalledType' /\ Sound'
  BY <1>0, NextState DEF DispatchInv, DispatchTypeOK, CalledType, Sound
<1> QED  BY <1>0, <1>3, <1>4, <1>5, NextState DEF DispatchInv

LEMMA DispatchShutdownStep == ASSUME DispatchInv, DispatchShutdown  PROVE DispatchInv'
<1>0. /\ [DispatchNext]_allVars /\ DispatchTypeOK
      /\ UNCHANGED <<names, path, prefix, suffix, service, answer, called, document, fatal>>
      /\ UNCHANGED <<arrived, parent, responder>> /\ ended' = TRUE /\ ~ended
      /\ life' = [r \in Requests |-> IF parent[r] = "queue" THEN "deleted" ELSE life[r]]
  BY DEF DispatchNext, DispatchShutdown, Shutdown, DestroyQueue, dispatchVars, DispatchInv
<1>1. Onward
  BY <1>0, NextState DEF Onward
<1>2. ASSUME NEW r \in Requests, parent[r] # "queue"  PROVE RequestInv(r)'
  <2>1. Untouched(r)
    BY <1>0, <1>2 DEF Untouched
  <2> QED  BY <1>0, <1>1, <2>1, NextState, UntouchedKept
<1>3. ASSUME NEW r \in Requests, parent[r] = "queue"  PROVE RequestInv(r)'
  <2>1. RequestInv(r) /\ responder[r] = "none" /\ life[r] = "alive" /\ life'[r] = "deleted" /\ answer[r] = "none"
    BY <1>0, <1>3, NextState DEF IInv, Owners, RequestInv, Unserved
  <2>2. Suffix(r)' = Suffix(r)
    BY <1>0, UrlKept
  <2>3. MappedOnce(r)' /\ RestIsLeft(r)'
    BY <1>0, <2>1, <2>2 DEF RequestInv, MappedOnce, RestIsLeft, Rest
  <2>4. Unserved(r)' /\ Served(r)' /\ EndsAnswered(r)' /\ Collecting(r)' /\ AdoptedByMethod(r)'
    BY <1>0, <1>3, <2>1 DEF RequestInv, Unserved, Served, EndsAnswered, Collecting, AdoptedByMethod
  <2> QED  BY <2>3, <2>4 DEF RequestInv
<1>4. DispatchTypeOK' /\ CalledType' /\ Sound'
  BY <1>0, NextState DEF DispatchInv, DispatchTypeOK, CalledType, Sound
<1> QED  BY <1>0, <1>2, <1>3, <1>4, NextState DEF DispatchInv

LEMMA MapperRespondStep == ASSUME DispatchInv, MapperRespond  PROVE DispatchInv'
<1>0. PICK q : q = arrived + 1
  OBVIOUS
<1>1. /\ [DispatchNext]_allVars /\ DispatchTypeOK /\ ~fatal
      /\ UNCHANGED <<names, path, service, called, document, fatal, ended, responder>>
      /\ arrived < MaxRequests /\ arrived' = q /\ MapRequest(q)
      /\ life' = [life EXCEPT ![q] = IF parent'[q] = "nobody" THEN "deleted" ELSE "alive"]
  BY <1>0 DEF DispatchNext, MapperRespond, AddRequest, InLoop, DispatchInv
<1>2. /\ q \in Requests /\ q \in Nat /\ q > arrived /\ RequestInv(q)
      /\ life[q] = "absent" /\ parent[q] = "nobody" /\ responder[q] = "none"
  BY <1>0, <1>1, NextState, QueueAssumption DEF Requests, IInv, NotArrived
<1>3. /\ prefix[q] = <<>> /\ suffix[q] = <<>> /\ called[q] = NoCall /\ answer[q] = "none"
      /\ Suffix(q) = path[q] /\ path[q] \in Seq(STRING)
  BY <1>1, <1>2, DispatchAssumption DEF RequestInv, MappedOnce, Unserved, Null, Suffix, DispatchTypeOK
<1>4. PICK parts : parts = Parts(path[q])
  OBVIOUS
<1>5. /\ parts \in Seq(STRING) /\ parts # <<>> /\ Head(parts) \in STRING /\ Tail(parts) \in Seq(STRING)
      /\ path[q] # <<>> => parts = path[q]
  <2>1. parts \in Seq(STRING) /\ parts # <<>> /\ (path[q] # <<>> => parts = path[q])
    BY <1>3, <1>4, PartsType DEF Fragments
  <2> QED  BY <2>1, TailType
<1>6. CASE Mapped(parts)
  <2>1. PICK name : name = NewPrefix(parts)
    OBVIOUS
  <2>2. /\ prefix' = [prefix EXCEPT ![q] = Append(prefix[q], name)]
        /\ suffix' = [suffix EXCEPT ![q] = Remaining(parts)]
        /\ parent' = [parent EXCEPT ![q] = "queue"] /\ UNCHANGED answer
    BY <1>1, <1>3, <1>4, <1>6, <2>1 DEF MapRequest, Respond, QueueParent, StoredSuffix
  <2>3. name \in names /\ name \in STRING /\ Remaining(parts) \in Seq(STRING)
    BY <1>1, <1>5, <1>6, <2>1, DispatchAssumption
    DEF Mapped, NewPrefix, Known, Remaining, DispatchTypeOK
  <2>4. Append(prefix[q], name) = <<name>> /\ <<name>> \in Seq(STRING) /\ Head(<<name>>) = name /\ <<name>> # <<>>
    BY <1>3, <2>3, Singleton
  <2>5. /\ prefix'[q] = <<name>> /\ suffix'[q] = Remaining(parts) /\ life'[q] = "alive" /\ parent'[q] = "queue"
        /\ prefix' \in [Requests -> Seq(STRING)] /\ suffix' \in [Requests -> Seq(STRING)]
        /\ Onward /\ \A r \in Requests : r # q => Untouched(r)
    <3>1. prefix'[q] = <<name>> /\ suffix'[q] = Remaining(parts)
      BY <1>1, <1>2, <2>2, <2>4 DEF DispatchTypeOK
    <3>2. life'[q] = "alive" /\ parent'[q] = "queue"
      BY <1>1, <1>2, <2>2, NextState DEF QueueTypeOK
    <3>3. prefix' \in [Requests -> Seq(STRING)] /\ suffix' \in [Requests -> Seq(STRING)]
      BY <1>1, <1>2, <2>2, <2>3, <2>4 DEF DispatchTypeOK
    <3>4. Onward
      BY <1>0, <1>1, NextState DEF Onward
    <3>5. \A r \in Requests : r # q => Untouched(r)
      BY <1>1, <1>2, <2>2, NextState DEF Untouched, QueueTypeOK, DispatchTypeOK
    <3> QED  BY <3>1, <3>2, <3>3, <3>4, <3>5
  <2>6. \A r \in Requests : r # q => RequestInv(r)'
    BY <1>1, <2>5, NextState, UntouchedKept
  <2>7. RequestInv(q)'
    <3>1. MappedOnce(q)'
      BY <1>1, <1>2, <2>3, <2>5 DEF MappedOnce
    <3>2. RestIsLeft(q)'
      <4>1. Head(prefix'[q]) = name /\ path'[q] = path[q] /\ names' = names
        BY <1>1, <2>4, <2>5
      <4>2. name \in {"", Head(parts)}
        BY <2>1 DEF NewPrefix
      <4>3. Suffix(q)' = IF Remaining(parts) = <<>> THEN path[q] ELSE Remaining(parts)
        BY <2>5, <4>1 DEF Suffix, Null
      <4>4. Remaining(parts) = IF name = "" /\ Head(parts) # "" THEN path[q] ELSE Tail(parts)
        <5>1. CASE Known(parts)
          BY <2>1, <5>1 DEF NewPrefix, Remaining
        <5>2. CASE ~Known(parts)
          <6>1. "" \in names /\ Head(parts) \notin names /\ name = "" /\ Remaining(parts) = parts
            BY <1>6, <2>1, <5>2 DEF Mapped, Known, NewPrefix, Remaining
          <6>2. Head(parts) # ""
            BY <6>1
          <6>3. path[q] # <<>>
            <7>1. CASE path[q] = <<>>
              <8>1. parts = <<"">> /\ Head(parts) = ""
                BY <1>4, <7>1, EmptySegment, Singleton DEF Parts
              <8> QED  BY <6>2, <8>1
            <7> QED  BY <7>1
          <6> QED  BY <1>5, <6>1, <6>2, <6>3
        <5> QED  BY <5>1, <5>2
      <4>5. Rest(q)' = Remaining(parts)
        BY <1>4, <4>1, <4>4 DEF Rest
      <4>6. Parts(Suffix(q)') = IF Remaining(parts) = <<>> THEN parts ELSE Remaining(parts)
        BY <1>4, <2>3, <4>3, PartsType
      <4> QED  BY <1>4, <2>3, <4>1, <4>2, <4>5, <4>6 DEF RestIsLeft
    <3>3. Unserved(q)' /\ Served(q)' /\ EndsAnswered(q)' /\ Collecting(q)' /\ AdoptedByMethod(q)'
      BY <1>1, <1>2, <1>3, <2>2, <2>5 DEF RequestInv, Unserved, Served, EndsAnswered, Collecting, AdoptedByMethod
    <3> QED  BY <3>1, <3>2, <3>3 DEF RequestInv
  <2>8. DispatchTypeOK' /\ CalledType' /\ Sound'
    BY <1>1, <2>2, <2>5, NextState DEF DispatchInv, DispatchTypeOK, CalledType, Sound
  <2> QED  BY <1>1, <2>6, <2>7, <2>8, NextState DEF DispatchInv
<1>7. CASE ~Mapped(parts)
  <2>1. answer' = [answer EXCEPT ![q] = "404"] /\ UNCHANGED <<parent, prefix, suffix>>
    BY <1>1, <1>3, <1>4, <1>7 DEF MapRequest, Ignore
  <2>2. /\ answer'[q] = "404" /\ answer' \in [Requests -> {"none", "404", "method"}]
        /\ life'[q] = "deleted" /\ parent'[q] = "nobody"
        /\ Onward /\ \A r \in Requests : r # q => Untouched(r)
    <3>1. answer'[q] = "404" /\ answer' \in [Requests -> {"none", "404", "method"}]
      BY <1>1, <1>2, <2>1 DEF DispatchTypeOK
    <3>2. life'[q] = "deleted" /\ parent'[q] = "nobody"
      BY <1>1, <1>2, <2>1, NextState DEF QueueTypeOK
    <3>3. Onward
      BY <1>0, <1>1, NextState DEF Onward
    <3>4. \A r \in Requests : r # q => Untouched(r)
      BY <1>1, <1>2, <2>1, NextState DEF Untouched, QueueTypeOK, DispatchTypeOK
    <3> QED  BY <3>1, <3>2, <3>3, <3>4
  <2>3. \A r \in Requests : r # q => RequestInv(r)'
    BY <1>1, <2>2, NextState, UntouchedKept
  <2>4. RequestInv(q)'
    BY <1>1, <1>2, <1>3, <2>1, <2>2
    DEF RequestInv, MappedOnce, RestIsLeft, Unserved, Served, EndsAnswered, Collecting, AdoptedByMethod, Null
  <2>5. DispatchTypeOK' /\ CalledType' /\ Sound'
    BY <1>1, <2>1, <2>2, NextState DEF DispatchInv, DispatchTypeOK, CalledType, Sound
  <2> QED  BY <1>1, <2>3, <2>4, <2>5, NextState DEF DispatchInv
<1> QED  BY <1>6, <1>7

LEMMA WrittenOutType ==
  ASSUME NEW d \in Documents
  PROVE  /\ WrittenOut(d) \in Documents /\ WrittenOut(d).state = "written"
         /\ d.position = d.xml => WrittenOut(d).output = IF d.source # "NoXslt" THEN "transformed" ELSE "nothing"
<1>1. /\ Output(d) \in {"nothing", "xml", "transformed"}
      /\ d.position = d.xml => Output(d) = IF d.source # "NoXslt" THEN "transformed" ELSE "nothing"
  <2>1. CASE d.source # "NoXslt"
    BY <2>1 DEF Output
  <2>2. CASE d.source = "NoXslt"
    <3>1. d.position \in Nat /\ (d.position = d.xml => ~(d.position < d.xml))
      BY DEF Documents
    <3> QED  BY <2>2, <3>1 DEF Output
  <2> QED  BY <2>1, <2>2
<1>2. PICK out : out = Output(d)
  OBVIOUS
<1>3. WrittenOut(d) = [d EXCEPT !.state = "written", !.output = out]
  BY <1>2 DEF WrittenOut
<1> QED  BY <1>1, <1>2, <1>3 DEF Documents

\* A document that ~XsltService has closed.
LEMMA ClosedDocument ==
  ASSUME NEW q \in Requests, document \in [Requests -> Documents], NEW d \in Documents
  PROVE  /\ Closed(q, d) \in [Requests -> Documents]
         /\ \A r \in Requests : r # q => Closed(q, d)[r] = document[r]
         /\ WithXslt => Closed(q, d)[q] = WrittenOut(d)
<1>1. PICK e : e = IF WithXslt THEN WrittenOut(d) ELSE d
  OBVIOUS
<1>2. e \in Documents
  BY <1>1, WrittenOutType
<1>3. Closed(q, d) = [document EXCEPT ![q] = e]
  BY <1>1 DEF Closed, WrittenOut
<1> QED  BY <1>1, <1>2, <1>3

LEMMA ServiceRespondStep == ASSUME DispatchInv, ServiceRespond  PROVE DispatchInv'
<1>0. PICK q, o : q = Head(unhandledRequests) /\ o = ObjectOf(q)
  OBVIOUS
<1>1. /\ [DispatchNext]_allVars /\ DispatchTypeOK /\ ~fatal /\ CalledType
      /\ fatal' = (Recursion(o) \/ CannotInvoke(q))
      /\ UNCHANGED <<names, path, prefix, suffix, arrived, life, ended>>
      /\ BetweenRequests /\ unhandledRequests # <<>>
      /\ parent' = [parent EXCEPT ![q] = "nobody"] /\ responder' = [responder EXCEPT ![q] = "alive"]
  BY <1>0 DEF DispatchNext, DispatchStep, ServiceRespond, RunNext, Dequeue, SpawnResponder, DispatchInv
<1>2. /\ q \in Requests /\ RequestInv(q) /\ Onward
      /\ life[q] = "alive" /\ parent[q] = "queue" /\ responder[q] = "none"
  <2>1. q \in Requests /\ 1 \in 1..Len(unhandledRequests) /\ q = unhandledRequests[1]
    BY <1>0, <1>1, NextState, TailType DEF QueueTypeOK
  <2>2. ~ended
    BY <1>1, NextState DEF IInv, EndedIsIdle, BetweenRequests
  <2>3. life[q] = "alive" /\ parent[q] = "queue" /\ responder[q] = "none"
    BY <1>1, <2>1, <2>2, NextState DEF IInv, UnhandledOwned
  <2>4. Onward
    BY <1>1, NextState DEF Onward
  <2> QED  BY <1>1, <2>1, <2>3, <2>4, NextState
<1>3. /\ \E name \in names : prefix[q] = <<name>>
      /\ called[q] = NoCall /\ answer[q] = "none" /\ (~Persist => ~service[q].dispatching)
      /\ life'[q] = "alive" /\ parent'[q] = "nobody" /\ responder'[q] = "alive"
  <2>1. life'[q] = "alive" /\ parent'[q] = "nobody" /\ responder'[q] = "alive"
    BY <1>1, <1>2, NextState DEF QueueTypeOK
  <2> QED  BY <1>2, <2>1 DEF RequestInv, MappedOnce, Unserved
<1>4. /\ Chosen(q) \in Calls /\ Suffix(q)' = Suffix(q) /\ Chosen(q)' = Chosen(q)
      /\ CallsOf(Chosen(q)) \in Seq(MethodCalls)
  BY <1>1, <1>2, <1>3, ChosenType, CallsOfType, UrlKept
<1>5. Opened(q) = Collected(CallsOf(Chosen(q))) /\ Opened(q) \in Documents
  BY <1>4, CollectedCorrect DEF Opened
<1>6. MappedOnce(q)' /\ RestIsLeft(q)'
  BY <1>1, <1>2, <1>4 DEF RequestInv, MappedOnce, RestIsLeft, Rest
<1>7. Unserved(q)' /\ EndsAnswered(q)' /\ AdoptedByMethod(q)'
  BY <1>3 DEF Unserved, EndsAnswered, AdoptedByMethod
<1>8. Sound'
  <2>1. ASSUME ~Persist, MapsFit  PROVE ~Recursion(o) /\ ~CannotInvoke(q)
    BY <1>0, <1>1, <1>2, <1>3, <2>1, MatchedSlot DEF Recursion, ObjectOf
  <2> QED  BY <1>1, <2>1 DEF Sound
<1>9. CASE fatal'
  <2>1. UNCHANGED <<service, answer, called, document>>
    BY <1>9 DEF ServiceRespond
  <2>2. \A r \in Requests : r # q => Untouched(r)
    BY <1>1, <1>2, <2>1, NextState DEF Untouched, QueueTypeOK
  <2>3. \A r \in Requests : r # q => RequestInv(r)'
    BY <1>1, <1>2, <2>2, NextState, UntouchedKept
  <2>4. Served(q)' /\ Collecting(q)'
    BY <1>3, <1>9 DEF Served, Collecting
  <2>5. DispatchTypeOK' /\ CalledType'
    BY <1>1, <1>9, <2>1, NextState DEF DispatchInv, DispatchTypeOK, CalledType
  <2> QED  BY <1>1, <1>6, <1>7, <1>8, <2>3, <2>4, <2>5, NextState DEF DispatchInv, RequestInv
<1>10. CASE ~fatal'
  <2>1. /\ service' = [service EXCEPT ![o] = [dispatching |-> HasMethod(q), request |-> q]]
        /\ called' = [called EXCEPT ![q] = Chosen(q)]
        /\ HasMethod(q) => /\ document' = IF WithXslt THEN [document EXCEPT ![q] = Opened(q)] ELSE document
                           /\ UNCHANGED answer
        /\ ~HasMethod(q) => /\ document' = Closed(q, Opened(q))
                            /\ answer' = [answer EXCEPT ![q] = "404"]
    BY <1>0, <1>10 DEF ServiceRespond
  <2>2. /\ called'[q] = Chosen(q) /\ called' \in [Requests -> Calls]
        /\ (\A r \in Requests : r # q => called'[r] = called[r])
        /\ HasMethod(q) <=> called'[q].slot # NoSlot
    BY <1>1, <1>2, <1>4, <2>1 DEF CalledType, HasMethod
  <2>3. /\ o \in Objects /\ service' \in [Objects -> [dispatching : BOOLEAN, request : Requests \union {NoRequest}]]
        /\ ~Persist => \A r \in Requests : r # q => service'[r].dispatching = service[r].dispatching
    <3>1. o \in Objects /\ (~Persist => o = q /\ Objects = Requests)
      BY <1>0, <1>2 DEF Objects, ObjectOf
    <3>2. [dispatching |-> HasMethod(q), request |-> q] \in [dispatching : BOOLEAN, request : Requests \union {NoRequest}]
      BY <1>2 DEF HasMethod
    <3>3. service' \in [Objects -> [dispatching : BOOLEAN, request : Requests \union {NoRequest}]]
      BY <1>1, <2>1, <3>1, <3>2 DEF DispatchTypeOK
    <3>4. ASSUME ~Persist, NEW r \in Requests, r # q  PROVE service'[r].dispatching = service[r].dispatching
      BY <1>1, <2>1, <3>1, <3>4 DEF DispatchTypeOK
    <3> QED  BY <3>1, <3>3, <3>4
  <2>4. /\ answer' \in [Requests -> {"none", "404", "method"}]
        /\ (\A r \in Requests : r # q => answer'[r] = answer[r])
        /\ answer'[q] = "404" <=> ~HasMethod(q)
    <3>1. answer \in [Requests -> {"none", "404", "method"}]
      BY <1>1 DEF DispatchTypeOK
    <3>2. CASE HasMethod(q)
      BY <1>3, <2>1, <3>1, <3>2
    <3>3. CASE ~HasMethod(q)
      BY <1>2, <2>1, <3>1, <3>3
    <3> QED  BY <3>2, <3>3
  <2>5. /\ document' \in [Requests -> Documents]
        /\ (\A r \in Requests : r # q => document'[r] = document[r])
        /\ WithXslt => document'[q] = IF HasMethod(q) THEN Opened(q) ELSE WrittenOut(Opened(q))
    <3>1. document \in [Requests -> Documents]
      BY <1>1 DEF DispatchTypeOK
    <3>2. CASE HasMethod(q)
      <4>1. document' = IF WithXslt THEN [document EXCEPT ![q] = Opened(q)] ELSE document
        BY <2>1, <3>2
      <4>2. CASE WithXslt
        BY <1>2, <1>5, <3>1, <3>2, <4>1, <4>2
      <4>3. CASE ~WithXslt
        BY <3>1, <4>1, <4>3
      <4> QED  BY <4>2, <4>3
    <3>3. CASE ~HasMethod(q)
      <4>1. document' = Closed(q, Opened(q))
        BY <2>1, <3>3
      <4> QED  BY <1>2, <1>5, <3>1, <3>3, <4>1, ClosedDocument
    <3> QED  BY <3>2, <3>3
  <2>6. \A r \in Requests : r # q => Untouched(r)
    BY <1>1, <1>2, <2>2, <2>3, <2>4, <2>5, NextState DEF Untouched, QueueTypeOK
  <2>7. \A r \in Requests : r # q => RequestInv(r)'
    BY <1>1, <1>2, <2>6, NextState, UntouchedKept
  <2>8. Served(q)'
    BY <1>4, <2>2, <2>4 DEF Served
  <2>9. Collecting(q)'
    BY <1>3, <1>5, <2>2, <2>5 DEF Collecting
  <2>10. DispatchTypeOK'
    <3>1. ~CannotInvoke(q) /\ fatal' \in BOOLEAN
      BY <1>1, <1>10
    <3>2. \A r \in Requests : called'[r] # NoCall => called'[r].slot.parameters = Len(called'[r].parameters)
      BY <1>1, <2>2, <3>1 DEF CannotInvoke, DispatchTypeOK
    <3>3. path' \in [Requests -> Paths] /\ names' \in Mappings
          /\ prefix' \in [Requests -> Seq(STRING)] /\ suffix' \in [Requests -> Seq(STRING)]
      BY <1>1 DEF DispatchTypeOK
    <3> QED  BY <1>1, <2>3, <2>4, <2>5, <3>1, <3>2, <3>3, NextState DEF DispatchTypeOK
  <2>11. CalledType'
    BY <2>2 DEF CalledType
  <2> QED  BY <1>1, <1>6, <1>7, <1>8, <2>7, <2>8, <2>9, <2>10, <2>11, NextState DEF DispatchInv, RequestInv
<1> QED  BY <1>9, <1>10

LEMMA MethodReturnStep == ASSUME DispatchInv, MethodReturn  PROVE DispatchInv'
<1>0. PICK q, o : q = Head(stack) /\ o = ObjectOf(q)
  OBVIOUS
<1>1. /\ [DispatchNext]_allVars /\ DispatchTypeOK /\ ~fatal /\ CalledType /\ InSlot /\ AfterSlot(q)
      /\ UNCHANGED <<names, path, prefix, suffix, called, fatal, arrived, parent, ended>>
      /\ service' = [service EXCEPT ![o].dispatching = service[o].dispatching /\ StillDispatching(q)]
  BY <1>0 DEF DispatchNext, DispatchStep, MethodReturn, SlotReturn, DispatchInv
<1>2. /\ q \in Requests /\ RequestInv(q) /\ Onward
      /\ life[q] = "alive" /\ responder[q] = "alive"
  <2>1. q \in Requests /\ life[q] = "alive" /\ responder[q] = "alive"
    BY <1>0, <1>1, NextState, InSlotNow
  <2>2. Onward
    BY <1>1, NextState DEF Onward
  <2> QED  BY <1>1, <2>1, <2>2, NextState
<1>3. /\ \E name \in names : prefix[q] = <<name>>
      /\ called[q] = Chosen(q) /\ Suffix(q)' = Suffix(q) /\ Chosen(q)' = Chosen(q)
      /\ answer[q] = "404" <=> called[q].slot = NoSlot
      /\ parent[q] = "responder" => answer[q] # "404"
  <2>1. called[q] = Chosen(q) /\ (answer[q] = "404" <=> called[q].slot = NoSlot)
    BY <1>1, <1>2 DEF RequestInv, Served
  <2>2. \E name \in names : prefix[q] = <<name>>
    BY <1>2 DEF RequestInv, MappedOnce
  <2> QED  BY <1>1, <1>2, <2>1, <2>2, UrlKept DEF RequestInv, AdoptedByMethod
<1>4. /\ o \in Objects /\ service' \in [Objects -> [dispatching : BOOLEAN, request : Requests \union {NoRequest}]]
      /\ ~Persist => \A r \in Requests : r # q => service'[r].dispatching = service[r].dispatching
  <2>1. o \in Objects /\ (~Persist => o = q /\ Objects = Requests)
    BY <1>0, <1>2 DEF Objects, ObjectOf
  <2>2. PICK b \in BOOLEAN : b = (service[o].dispatching /\ StillDispatching(q))
    OBVIOUS
  <2>3. service' = [service EXCEPT ![o].dispatching = b]
    BY <1>1, <2>2
  <2>4. service' \in [Objects -> [dispatching : BOOLEAN, request : Requests \union {NoRequest}]]
    BY <1>1, <2>1, <2>3 DEF DispatchTypeOK
  <2>5. ASSUME ~Persist, NEW r \in Requests, r # q  PROVE service'[r].dispatching = service[r].dispatching
    BY <1>1, <2>1, <2>3, <2>5 DEF DispatchTypeOK
  <2> QED  BY <2>1, <2>4, <2>5
<1>5. /\ responder'[q] # "none" /\ life'[q] \in {"alive", "deleted"}
      /\ life'[q] = "deleted" <=> parent[q] = "nobody"
      /\ \A r \in Requests : r # q => life'[r] = life[r] /\ responder'[r] = responder[r]
  <2>1. CASE Unowned(q)
    BY <1>1, <1>2, <2>1, NextState DEF AfterSlot, Unowned, QueueTypeOK
  <2>2. CASE ~Unowned(q)
    BY <1>1, <1>2, <2>2, NextState DEF AfterSlot, Unowned
  <2> QED  BY <2>1, <2>2
<1>6. /\ answer' \in [Requests -> {"none", "404", "method"}] /\ document' \in [Requests -> Documents]
      /\ \A r \in Requests : r # q => answer'[r] = answer[r] /\ document'[r] = document[r]
      /\ answer'[q] = "404" <=> answer[q] = "404"
      /\ parent[q] = "nobody" => answer'[q] # "none"
      /\ \/ (answer[q] = "404" \/ parent[q] # "nobody") /\ document'[q] = document[q]
         \/ /\ answer[q] # "404" /\ parent[q] = "nobody"
            /\ WithXslt => document'[q] = WrittenOut(document[q])
  <2>1. document \in [Requests -> Documents] /\ answer \in [Requests -> {"none", "404", "method"}]
    BY <1>1 DEF DispatchTypeOK
  <2>2. CASE answer[q] = "404" \/ parent[q] # "nobody"
    <3>1. UNCHANGED <<answer, document>>
      BY <1>0, <2>2 DEF MethodReturn
    <3> QED  BY <2>1, <2>2, <3>1
  <2>3. CASE ~(answer[q] = "404" \/ parent[q] # "nobody")
    <3>1. answer' = [answer EXCEPT ![q] = "method"] /\ document' = Closed(q, document[q])
      BY <1>0, <2>3 DEF MethodReturn
    <3>2. document' \in [Requests -> Documents] /\ (WithXslt => document'[q] = WrittenOut(document[q]))
          /\ \A r \in Requests : r # q => document'[r] = document[r]
      BY <1>2, <2>1, <3>1, ClosedDocument
    <3> QED  BY <1>2, <2>1, <2>3, <3>1, <3>2
  <2> QED  BY <2>2, <2>3
<1>7. \A r \in Requests : r # q => RequestInv(r)'
  <2>1. \A r \in Requests : r # q => Untouched(r)
    BY <1>1, <1>4, <1>5, <1>6 DEF Untouched
  <2> QED  BY <1>1, <1>2, <2>1, NextState, UntouchedKept
<1>8. RequestInv(q)'
  <2>1. MappedOnce(q)' /\ RestIsLeft(q)'
    BY <1>1, <1>2, <1>3 DEF RequestInv, MappedOnce, RestIsLeft, Rest
  <2>2. Unserved(q)' /\ EndsAnswered(q)' /\ AdoptedByMethod(q)' /\ Served(q)'
    BY <1>1, <1>3, <1>5, <1>6 DEF Unserved, EndsAnswered, AdoptedByMethod, Served
  <2>3. Collecting(q)'
    <3>1. SUFFICES ASSUME WithXslt, ~Persist
                   PROVE  document'[q] = IF life'[q] = "alive" /\ called[q].slot # NoSlot
                                         THEN Collected(CallsOf(called[q]))
                                         ELSE WrittenOut(Collected(CallsOf(called[q])))
      BY <1>1 DEF Collecting
    <3>2. document[q] = IF called[q].slot # NoSlot THEN Collected(CallsOf(called[q]))
                        ELSE WrittenOut(Collected(CallsOf(called[q])))
      BY <1>1, <1>2, <3>1 DEF RequestInv, Collecting
    <3> QED  BY <1>3, <1>5, <1>6, <3>1, <3>2
  <2> QED  BY <2>1, <2>2, <2>3 DEF RequestInv
<1>9. DispatchTypeOK' /\ CalledType' /\ Sound'
  <2>1. path' \in [Requests -> Paths] /\ names' \in Mappings /\ fatal' \in BOOLEAN
        /\ prefix' \in [Requests -> Seq(STRING)] /\ suffix' \in [Requests -> Seq(STRING)]
        /\ \A r \in Requests : called'[r] # NoCall => called'[r].slot.parameters = Len(called'[r].parameters)
    BY <1>1 DEF DispatchTypeOK
  <2> QED  BY <1>1, <1>4, <1>6, <2>1, NextState DEF DispatchTypeOK, CalledType, Sound
<1> QED  BY <1>1, <1>7, <1>8, <1>9, NextState DEF DispatchInv

LEMMA AnswerLaterStep == ASSUME DispatchInv, AnswerLater  PROVE DispatchInv'
<1>1. PICK q \in Requests : DeleteAdopted(q)
  BY DEF AnswerLater, AnswerAdopted
<1>2. /\ [DispatchNext]_allVars /\ DispatchTypeOK /\ ~fatal /\ CalledType
      /\ UNCHANGED <<names, path, prefix, suffix, called, fatal, arrived, parent, ended>>
  BY DEF DispatchNext, DispatchStep, AnswerLater, AnswerAdopted, InLoop, DispatchInv
<1>3. /\ RequestInv(q) /\ Onward /\ parent[q] = "responder" /\ life[q] = "alive" /\ responder[q] # "none"
      /\ life' = [life EXCEPT ![q] = "deleted"]
      /\ responder' = responder \/ responder' = [responder EXCEPT ![q] = "deleted"]
  <2>1. Onward
    BY <1>2, NextState DEF Onward
  <2>2. parent[q] = "responder" /\ responder[q] # "none" /\ RequestInv(q)
    BY <1>1, <1>2, NextState DEF DeleteAdopted, IInv, Owners
  <2> QED  BY <1>1, <2>1, <2>2 DEF DeleteAdopted
<1>4. /\ life'[q] = "deleted" /\ responder'[q] # "none"
      /\ \A r \in Requests : r # q => life'[r] = life[r] /\ responder'[r] = responder[r]
  BY <1>2, <1>3, NextState DEF QueueTypeOK
<1>5. /\ answer' = [answer EXCEPT ![q] = "method"] /\ service' = Destroyed(ObjectOf(q))
      /\ document' = IF WithXslt /\ Persist THEN [document EXCEPT ![q].state = "lost"] ELSE Closed(q, document[q])
  <2>1. PICK r \in Requests :
          /\ life'[r] # life[r] /\ answer' = [answer EXCEPT ![r] = "method"] /\ service' = Destroyed(ObjectOf(r))
          /\ document' = IF WithXslt /\ Persist THEN [document EXCEPT ![r].state = "lost"] ELSE Closed(r, document[r])
    BY DEF AnswerLater
  <2>2. r = q
    BY <1>4, <2>1
  <2> QED  BY <2>1, <2>2
<1>6. /\ \E name \in names : prefix[q] = <<name>>
      /\ called[q] = Chosen(q) /\ Suffix(q)' = Suffix(q) /\ Chosen(q)' = Chosen(q)
      /\ called[q].slot # NoSlot /\ answer[q] # "404"
  <2>1. called[q] = Chosen(q) /\ (answer[q] = "404" <=> called[q].slot = NoSlot)
    BY <1>2, <1>3 DEF RequestInv, Served
  <2>2. answer[q] # "404" /\ \E name \in names : prefix[q] = <<name>>
    BY <1>3 DEF RequestInv, MappedOnce, AdoptedByMethod
  <2> QED  BY <1>2, <2>1, <2>2, UrlKept
<1>7. /\ service' \in [Objects -> [dispatching : BOOLEAN, request : Requests \union {NoRequest}]]
      /\ ~Persist => \A r \in Requests : r # q => service'[r].dispatching = service[r].dispatching
  <2>1. service \in [Objects -> [dispatching : BOOLEAN, request : Requests \union {NoRequest}]]
    BY <1>2 DEF DispatchTypeOK
  <2>2. CASE Persist
    BY <1>5, <2>1, <2>2 DEF Destroyed
  <2>3. CASE ~Persist
    <3>1. Objects = Requests /\ ObjectOf(q) = q
      BY <2>3 DEF Objects, ObjectOf
    <3>2. service' = [service EXCEPT ![q].dispatching = FALSE]
      BY <1>5, <2>3, <3>1 DEF Destroyed
    <3> QED  BY <2>1, <3>1, <3>2
  <2> QED  BY <2>2, <2>3
<1>8. /\ answer' \in [Requests -> {"none", "404", "method"}] /\ answer'[q] = "method"
      /\ \A r \in Requests : r # q => answer'[r] = answer[r]
  BY <1>2, <1>5 DEF DispatchTypeOK
<1>9. /\ document' \in [Requests -> Documents]
      /\ \A r \in Requests : r # q => document'[r] = document[r]
      /\ WithXslt /\ ~Persist => document'[q] = WrittenOut(document[q])
  <2>1. document \in [Requests -> Documents]
    BY <1>2 DEF DispatchTypeOK
  <2>2. CASE WithXslt /\ Persist
    <3>1. document' = [document EXCEPT ![q].state = "lost"]
      BY <1>5, <2>2
    <3>2. document' = [document EXCEPT ![q] = [document[q] EXCEPT !.state = "lost"]]
      BY <3>1
    <3>3. [document[q] EXCEPT !.state = "lost"] \in Documents
      BY <2>1 DEF Documents
    <3> QED  BY <2>1, <2>2, <3>2, <3>3
  <2>3. CASE ~(WithXslt /\ Persist)
    <3>1. document' = Closed(q, document[q]) /\ document[q] \in Documents
      BY <1>5, <2>1, <2>3
    <3> QED  BY <2>1, <3>1, ClosedDocument
  <2> QED  BY <2>2, <2>3
<1>10. \A r \in Requests : r # q => RequestInv(r)'
  <2>1. \A r \in Requests : r # q => Untouched(r)
    BY <1>2, <1>4, <1>7, <1>8, <1>9 DEF Untouched
  <2> QED  BY <1>2, <1>3, <2>1, NextState, UntouchedKept
<1>11. RequestInv(q)'
  <2>1. MappedOnce(q)' /\ RestIsLeft(q)'
    BY <1>2, <1>3, <1>6 DEF RequestInv, MappedOnce, RestIsLeft, Rest
  <2>2. Unserved(q)' /\ EndsAnswered(q)' /\ AdoptedByMethod(q)' /\ Served(q)'
    BY <1>2, <1>4, <1>6, <1>8 DEF Unserved, EndsAnswered, AdoptedByMethod, Served
  <2>3. Collecting(q)'
    BY <1>2, <1>3, <1>4, <1>6, <1>9 DEF RequestInv, Collecting
  <2> QED  BY <2>1, <2>2, <2>3 DEF RequestInv
<1>12. DispatchTypeOK' /\ CalledType' /\ Sound'
  <2>1. path' \in [Requests -> Paths] /\ names' \in Mappings /\ fatal' \in BOOLEAN
        /\ prefix' \in [Requests -> Seq(STRING)] /\ suffix' \in [Requests -> Seq(STRING)]
        /\ \A r \in Requests : called'[r] # NoCall => called'[r].slot.parameters = Len(called'[r].parameters)
    BY <1>2 DEF DispatchTypeOK
  <2> QED  BY <1>2, <1>7, <1>8, <1>9, <2>1, NextState DEF DispatchInv, DispatchTypeOK, CalledType, Sound
<1> QED  BY <1>2, <1>10, <1>11, <1>12, NextState DEF DispatchInv

LEMMA DispatchInvStep == DispatchInv /\ [DispatchNext]_allVars => DispatchInv'
<1> SUFFICES ASSUME DispatchInv, [DispatchNext]_allVars  PROVE DispatchInv'
  OBVIOUS
<1>1. CASE DispatchFlush
  BY <1>1, OutsideStep DEF DispatchFlush, FlushQueue
<1>2. CASE DispatchFlushDone
  BY <1>2, OutsideStep DEF DispatchFlushDone, FlushDone, queueVars
<1>3. CASE DispatchTerminated \/ UNCHANGED allVars
  BY <1>3, OutsideStep DEF DispatchTerminated, allVars, vars, queueVars
<1> QED
  BY <1>1, <1>2, <1>3, MapperRespondStep, ServiceRespondStep, MethodAdoptsStep, MethodReturnStep,
     AnswerLaterStep, DispatchShutdownStep DEF DispatchNext, DispatchStep

-----------------------------------------------------------------------------
(* What follows for every execution. *)

\* The environment and the calls of every request have their types, at every step.
THEOREM DispatchTypeCorrect == DispatchSpec => []DispatchTypeOK
<1>1. DispatchInv => DispatchTypeOK
  BY DEF DispatchInv
<1> QED  BY <1>1, DispatchInvInit, DispatchInvStep, PTL DEF DispatchSpec

\* The service that a request is queued for, by a mapper that no other mapper is behind, sees
\* the path without the segment that selected it, all of it if that was the default service,
\* and all of it again if nothing is left.
THEOREM SuffixCorrect == DispatchSpec => []SuffixIsRest
<1>1. DispatchInv => SuffixIsRest
  BY DEF DispatchInv, RequestInv, RestIsLeft, Rest, SuffixIsRest
<1> QED  BY <1>1, DispatchInvInit, DispatchInvStep, PTL DEF DispatchSpec

\* With a service for each request and maps that fit their slots, every request that ends
\* while the process runs has been answered as the map of its service says.
THEOREM AnsweredCorrect == ~Persist /\ MapsFit /\ DispatchSpec => []Answered
<1> SUFFICES ASSUME ~Persist, MapsFit  PROVE DispatchSpec => []Answered
  OBVIOUS
<1>1. ASSUME DispatchInv  PROVE Answered
  <2>1. ~fatal
    BY <1>1 DEF DispatchInv, Sound
  <2>2. ASSUME NEW r \in Requests, life[r] = "deleted"  PROVE answer[r] # "none" \/ ended
    BY <1>1, <2>2 DEF DispatchInv, RequestInv, EndsAnswered
  <2>3. ASSUME NEW r \in Requests, answer[r] = "method"  PROVE called[r] # NoCall
    <3>1. responder[r] # "none" /\ called[r].slot # NoSlot
      BY <1>1, <2>1, <2>3 DEF DispatchInv, RequestInv, Unserved, Served
    <3> QED  BY <3>1, NoCallType
  <2>4. ASSUME NEW r \in Requests, responder[r] # "none",
               NEW map, map = UrlMapFor(r), NEW fragment, fragment = Fragment(r)
        PROVE  LET matching == {k \in DOMAIN map : ExactMatch(map[k].pattern, fragment)}
                   null == {k \in DOMAIN map : map[k].pattern = NullPattern}
                   candidates == IF matching # {} THEN matching ELSE null IN
               /\ answer[r] = "404" <=> candidates = {}
               /\ candidates # {} => called[r].slot = map[Min(candidates)].slot
               /\ matching # {} =>
                    FlattenSeq(called[r].parameters) = IF fragment = <<"">> THEN <<>> ELSE fragment
    <3>1. RequestInv(r) /\ DispatchTypeOK
      BY <1>1 DEF DispatchInv
    <3>2. /\ called[r] = Search(map, fragment) /\ (answer[r] = "404" <=> called[r].slot = NoSlot)
          /\ map \in Seq(Entries) /\ fragment \in Fragments
      <4>1. \E name \in names : prefix[r] = <<name>>
        BY <2>4, <3>1 DEF RequestInv, MappedOnce
      <4> QED  BY <2>1, <2>4, <3>1, <4>1, ChosenType DEF RequestInv, Served, Chosen
    <3>3. /\ answer[r] = "404" <=> Candidates(map, fragment) = {}
          /\ Candidates(map, fragment) # {} => called[r].slot = map[Min(Candidates(map, fragment))].slot
      BY <3>2, SearchCorrect
    <3>4. ASSUME Matching(map, fragment) # {}
          PROVE  FlattenSeq(called[r].parameters) = IF fragment = <<"">> THEN <<>> ELSE fragment
      <4>1. PICK j \in Matching(map, fragment) : called[r].parameters = Captured(map[j].pattern, fragment)
        BY <3>2, <3>4, SearchCorrect
      <4>2. map[j].pattern \in Patterns /\ ExactMatch(map[j].pattern, fragment)
        BY <3>2, <4>1, EntryShape DEF Matching
      <4>3. CASE map[j].pattern \in {NullPattern, <<>>}
        BY <4>1, <4>2, <4>3 DEF Captured, ExactMatch, FlattenSeq
      <4>4. CASE map[j].pattern \notin {NullPattern, <<>>}
        <5>1. FlattenSeq(called[r].parameters) = fragment
          BY <3>2, <4>1, <4>2, <4>4, CapturesAll
        <5>2. fragment # <<"">>
          BY <3>2, <4>2, <4>4, EmptyIsNoNumber
        <5> QED  BY <5>1, <5>2
      <4> QED  BY <4>3, <4>4
    <3> QED  BY <3>3, <3>4 DEF Matching, Nulls, Candidates
  <2> QED  BY <2>1, <2>2, <2>3, <2>4 DEF Answered
<1> QED  BY <1>1, DispatchInvInit, DispatchInvStep, PTL DEF DispatchSpec

\* With a service for each request, its document is closed before the request goes: what has
\* been collected is written transformed if the last stylesheet that its method has chosen is
\* one, and dropped if not.
THEOREM OutputCorrect == ~Persist /\ DispatchSpec => []OutputWritten
<1> SUFFICES ASSUME ~Persist  PROVE DispatchSpec => []OutputWritten
  OBVIOUS
<1>1. ASSUME DispatchInv  PROVE OutputWritten
  <2>1. ASSUME NEW r \in Requests, WithXslt, life[r] = "deleted", responder[r] # "none",
               NEW calls, calls = CallsOf(called[r])
        PROVE  /\ document[r].state = "written"
               /\ document[r].output = IF Transforms(calls, Len(calls)) THEN "transformed" ELSE "nothing"
    <3>1. called[r] \in Calls /\ document[r] = WrittenOut(Collected(calls))
      BY <1>1, <2>1 DEF DispatchInv, CalledType, RequestInv, Collecting
    <3>2. /\ Collected(calls) \in Documents /\ (Collected(calls).source # "NoXslt" <=> Transforms(calls, Len(calls)))
          /\ Collected(calls).position = Collected(calls).xml
      BY <2>1, <3>1, CallsOfType, CollectedCorrect
    <3> QED  BY <3>1, <3>2, WrittenOutType
  <2> QED  BY <2>1 DEF OutputWritten, Transforms, Styling
<1> QED  BY <1>1, DispatchInvInit, DispatchInvStep, PTL DEF DispatchSpec

\* The requests of the services are owned, and served, as in any responder.
THEOREM DispatchOwnershipCorrect == DispatchSpec => []SlotOwnsRequest
BY DispatchIsResponder, OwnershipCorrect, PTL

THEOREM DispatchServiceImplemented == DispatchSpec => ImplementsService
BY DispatchIsResponder, ServiceImplemented, PTL
=============================================================================
