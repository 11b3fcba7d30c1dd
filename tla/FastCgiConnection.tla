-------------------------- MODULE FastCgiConnection --------------------------
(***************************************************************************)
(* One FastCGI connection: the web server at the other end, the socket,    *)
(* its FastCgiSocketManager, the FastCgiStreams of its requests and the    *)
(* SocketFlushers that end them.  What happens between newRequest() and    *)
(* the deletion of the request is reduced to its phases (RequestService).  *)
(*                                                                         *)
(* mode says how the application is connected to newRequest():             *)
(*   "direct"    to a slot of its own, which runs inside respond();        *)
(*   "blocking"  to a BlockingResponder: the slot runs from a timer;       *)
(*   "threaded"  to a ThreadedResponder: the request is moved to a worker, *)
(*               here to thread r for request r; the main thread is 0.     *)
(* A request is the r-th BEGIN_REQUEST of the connection.  Records are the *)
(* unit of data, each with its header and, unless empty, its payload as    *)
(* two separate pieces, which may arrive separately; nth says which record *)
(* of its request it is.                                                   *)
(***************************************************************************)
EXTENDS Naturals, Sequences

CONSTANTS Modes,        \* how the application may be connected
          KeepConn,     \* the web server sets FCGI_KEEP_CONN
          Multiplex,    \* the web server overlaps requests
          Ids,          \* the request ids it uses
          MaxRequests,  \* bound: requests on this connection
          BodyRecords   \* bound: nonempty STDIN records of each request

ASSUME ConnectionAssumption ==
  /\ Modes \subseteq {"direct", "blocking", "threaded"}
  /\ KeepConn \in BOOLEAN /\ Multiplex \in BOOLEAN
  /\ 0 \notin Ids /\ MaxRequests \in Nat \ {0} /\ BodyRecords \in Nat

VARIABLES
  server,    \* the web server: requests begun, idOf and records sent of each,
             \* requests it has seen the end of, and its bytes on the wire
  socket,    \* the QTcpSocket: its buffers, parent, thread, whether it exists
  manager,   \* m_recordHeader, m_requestHeaders, m_streams, m_closeSocketOnExit,
             \* and its state: "alive", "doomed" by deleteLater, "deleted"
  main,      \* the main thread: what newRequest() is connected to, the pending
             \* singleShots of queueSocketCheck, the queued signals from other
             \* threads, the calls in progress
  request,   \* per request its phase, parameters, input, the wait for POST data,
             \* whether a response was written, and the flusher of its end
  crashed    \* undefined behaviour, or qFatal

vars == <<server, socket, manager, main, request, crashed>>

mode == main.mode
Requests == 1..MaxRequests
NoRequest == 0
Main == 0
NoRecord == [kind |-> "none", nth |-> 0, request |-> NoRequest]

\* The records of a request, in the order the web server sends them.
Script == <<"begin", "params", "paramsEnd">>
            \o [i \in 1..BodyRecords |-> "stdin"] \o <<"stdinEnd">>
Kinds == {"begin", "params", "paramsEnd", "stdin", "stdinEnd"}
Empty(kind) == kind \in {"paramsEnd", "stdinEnd"}
Record == [kind : Kinds, nth : 1..Len(Script), request : Requests]
Piece == [kind : Kinds, nth : 1..Len(Script), request : Requests, part : {"header", "payload"}]

\* A processSocketData call, or the slot of a request.  signalled: the call comes
\* out of readyRead(), which QAbstractSocket does not emit recursively.
ReadFrame(signalled) == [call |-> "read", request |-> NoRequest, signalled |-> signalled]
SlotFrame(r) == [call |-> "slot", request |-> r, signalled |-> FALSE]
Frames == {ReadFrame(b) : b \in BOOLEAN} \union {SlotFrame(r) : r \in Requests}

Check == <<"check", 0>>         \* a queued readyRead()
Cleanup(r) == <<"cleanup", r>>  \* a queued destroyed() of the stream of r

\* The members of FastCgiSocketManager.
Manager ==
  [header : Record \union {NoRecord}, headers : [Ids -> SUBSET Requests],
   streams : [Ids -> Requests \union {NoRequest}], close : [Ids -> BOOLEAN],
   state : {"alive", "doomed", "deleted"}]

TypeOK ==
  /\ server \in [begun : 0..MaxRequests, idOf : [Requests -> Ids \union {0}],
                 sent : [Requests -> 0..Len(Script)], ended : SUBSET Requests, wire : Seq(Piece)]
  /\ socket \in [in : Seq(Piece), out : Seq([kind : {"out", "end"}, request : Requests]),
                 alive : BOOLEAN, thread : {Main} \union Requests,
                 parent : {<<"manager", 0>>} \union ({"stream", "flusher"} \X Requests)]
  /\ manager \in Manager
  /\ main \in [mode : Modes, checks : Nat,
               events : Seq({Check} \union {Cleanup(r) : r \in Requests}), stack : Seq(Frames)]
  /\ request \in [Requests -> [phase : {"none", "queued", "handed", "running", "deleted"},
                               headers : SUBSET Requests, body : Seq(Requests),
                               data : Seq(1..BodyRecords),
                               wait : {"no", "yes", "over"}, written : BOOLEAN,
                               flusher : {"none", "waiting", "doomed", "deleted"}]]
  /\ crashed \in BOOLEAN

Init ==
  /\ server = [begun |-> 0, idOf |-> [r \in Requests |-> 0], sent |-> [r \in Requests |-> 0],
               ended |-> {}, wire |-> <<>>]
  /\ socket = [in |-> <<>>, out |-> <<>>, alive |-> TRUE, thread |-> Main,
               parent |-> <<"manager", 0>>]
  /\ manager = [header |-> NoRecord, headers |-> [i \in Ids |-> {}],
                streams |-> [i \in Ids |-> NoRequest], close |-> [i \in Ids |-> FALSE],
                state |-> "alive"]
  /\ \E how \in Modes : main = [mode |-> how, checks |-> 0, events |-> <<>>, stack |-> <<>>]
  /\ request = [r \in Requests |-> [phase |-> "none", headers |-> {}, body |-> <<>>,
                                    data |-> <<>>, wait |-> "no", written |-> FALSE, flusher |-> "none"]]
  /\ crashed = FALSE

-----------------------------------------------------------------------------
(* The web server (external). *)

Outstanding == {r \in 1..server.begun : r \notin server.ended}

\* The next record of r; its pieces go out together.
Pieces(r, n) ==
  LET piece(part) == [kind |-> Script[n], nth |-> n, request |-> r, part |-> part] IN
  IF Empty(Script[n]) THEN <<piece("header")>> ELSE <<piece("header"), piece("payload")>>

BeginRequest(i) ==
  LET r == server.begun + 1 IN
  /\ socket.alive /\ ~crashed /\ r \in Requests
  /\ r = 1 \/ KeepConn \/ Multiplex
  /\ \A s \in Outstanding : Multiplex /\ server.idOf[s] # i
  /\ server' = [server EXCEPT !.begun = r, !.idOf[r] = i, !.sent[r] = 1, !.wire = @ \o Pieces(r, 1)]
  /\ UNCHANGED <<socket, manager, main, request, crashed>>

SendRecord(r) ==
  LET n == server.sent[r] + 1 IN
  /\ socket.alive /\ ~crashed
  /\ r \in Outstanding /\ n <= Len(Script)
  /\ server' = [server EXCEPT !.sent[r] = n, !.wire = @ \o Pieces(r, n)]
  /\ UNCHANGED <<socket, manager, main, request, crashed>>

-----------------------------------------------------------------------------
(* Event loops. *)

TopCall == IF main.stack = <<>> THEN "loop" ELSE Head(main.stack).call
TopSlot == Head(main.stack).request
Phase(r) == request[r].phase

\* The main thread's event loop has control: the outermost one, or the one of a
\* slot in loadPostVariables.  A worker's loop may always be entered.
InMainLoop ==
  ~crashed /\ (TopCall = "loop" \/ (TopCall = "slot" /\ request[TopSlot].wait = "yes"))

\* A slot that writes also serves the socket, in waitForBytesWritten.
ServesSocket ==
  socket.alive /\ ~crashed /\ (socket.thread = Main => TopCall \in {"loop", "slot"})

\* processSocketData() is entered, whatever else is in progress; and a variant for
\* mutation, which keeps out of nested event loops.
Entered_Once(call) == IF main.stack # <<>> THEN main.stack ELSE <<call>>
Entered(call) == <<call>> \o main.stack

\* readyRead(), which is not emitted recursively.
Signalled ==
  IF \E i \in 1..Len(main.stack) : main.stack[i].signalled THEN main.stack
  ELSE Entered(ReadFrame(TRUE))

\* Bytes arrive and readyRead() is emitted: a call in the main thread, a queued
\* one if the socket has moved, none inside a call that readyRead() made.
Arrive ==
  /\ ServesSocket /\ server.wire # <<>>
  /\ server' = [server EXCEPT !.wire = Tail(@)]
  /\ socket' = [socket EXCEPT !.in = Append(@, Head(server.wire))]
  /\ main' = IF manager.state = "deleted" THEN main
             ELSE IF socket.thread = Main THEN [main EXCEPT !.stack = Signalled]
             ELSE [main EXCEPT !.events = Append(@, Check)]
  /\ UNCHANGED <<manager, request, crashed>>

\* A singleShot of queueSocketCheck is due, and a variant for mutation.
CheckDue_Always == TRUE
CheckDue == main.checks > 0

CheckTimeout ==
  /\ InMainLoop /\ manager.state # "deleted" /\ CheckDue
  /\ main' = [main EXCEPT !.checks = @ - 1, !.stack = Entered(ReadFrame(FALSE))]
  /\ UNCHANGED <<server, socket, manager, request, crashed>>

NextEvent(kind) ==
  InMainLoop /\ manager.state # "deleted" /\ main.events # <<>> /\ Head(main.events)[1] = kind

QueuedCheck ==
  /\ NextEvent("check")
  /\ main' = [main EXCEPT !.events = Tail(@), !.stack = Entered(ReadFrame(FALSE))]
  /\ UNCHANGED <<server, socket, manager, request, crashed>>

-----------------------------------------------------------------------------
(* FastCgiSocketManager::processSocketData, one record per step. *)

PieceAt(k, part) == Len(socket.in) >= k /\ socket.in[k].part = part
RecordOf(piece) == [kind |-> piece.kind, nth |-> piece.nth, request |-> piece.request]

\* The record that the newest call is going to dispatch now, and its pieces in the
\* socket's buffer.
NextRecord ==
  CASE TopCall # "read" -> NoRecord
    [] TopCall = "read" /\ manager.header # NoRecord ->
         IF PieceAt(1, "payload") THEN manager.header ELSE NoRecord
    [] OTHER ->
         IF PieceAt(1, "header") /\ (Empty(socket.in[1].kind) \/ PieceAt(2, "payload"))
         THEN RecordOf(socket.in[1]) ELSE NoRecord

NextLength == IF manager.header = NoRecord /\ ~Empty(socket.in[1].kind) THEN 2 ELSE 1

\* m_recordHeader after a record, and a variant for mutation.
HeaderAfterwards_Kept == NextRecord
HeaderAfterwards == NoRecord

\* The step of the manager that reads the record: its effect on m_recordHeader and
\* the socket, with m as the rest of the manager and parent as the socket's parent.
Consume(m, parent) ==
  /\ manager' = [m EXCEPT !.header = HeaderAfterwards]
  /\ socket' = [socket EXCEPT !.in = SubSeq(@, NextLength + 1, Len(@)), !.parent = parent]
  /\ UNCHANGED <<server, crashed>>

\* m_streams[i] = 0, and a variant for mutation.
WithoutStream_Kept(i) == manager.streams
WithoutStream(i) == [manager.streams EXCEPT ![i] = NoRequest]

BeginRecord(i) ==
  /\ NextRecord.kind = "begin"
  /\ Consume([manager EXCEPT !.headers[i] = {}, !.streams = WithoutStream(i),
                             !.close[i] = ~KeepConn], socket.parent)
  /\ UNCHANGED <<main, request>>

\* loadParameters with a nonempty record
LoadParameters(i) ==
  /\ NextRecord.kind = "params"
  /\ Consume([manager EXCEPT !.headers[i] = @ \union {NextRecord.request}], socket.parent)
  /\ UNCHANGED <<main, request>>

\* respond: the stream takes the socket (setParent refuses across threads), and
\* newRequest() is emitted, which in direct mode runs the slot right here.
Respond(i) ==
  LET r == NextRecord.request IN
  /\ NextRecord.kind = "paramsEnd"
  /\ Consume([manager EXCEPT !.streams[i] = r],
             IF socket.thread = Main THEN <<"stream", r>> ELSE socket.parent)
  /\ request' = [request EXCEPT ![r].headers = manager.headers[i],
                                ![r].phase = IF mode = "direct" THEN "running" ELSE "queued"]
  /\ main' = [main EXCEPT !.checks = @ + 1,
                          !.stack = IF mode = "direct" THEN <<SlotFrame(r)>> \o @ ELSE @]

\* The stream that input for id i goes to, and a variant for mutation.
StreamFor_Newest(i) ==
  LET live == {manager.streams[k] : k \in Ids} IN CHOOSE s \in live : \A t \in live : s >= t
StreamFor(i) == manager.streams[i]

\* appendData would be called on a stream that no longer exists.
TouchesDeadStream ==
  /\ NextRecord.kind \in {"stdin", "stdinEnd"}
  /\ LET s == StreamFor(server.idOf[NextRecord.request]) IN s # NoRequest /\ Phase(s) = "deleted"

\* appendData() emits readyRead() while m_streamMutex is held.  No slot is connected to it
\* here, they wait in loadPostVariables; for one that is, see Locked in FormUpload.
ReadStandardInput(i) ==
  LET s == StreamFor(i) IN
  /\ NextRecord.kind \in {"stdin", "stdinEnd"} /\ ~TouchesDeadStream
  /\ request' = IF s # NoRequest /\ NextRecord.kind = "stdin"
                THEN [request EXCEPT ![s].body = Append(@, NextRecord.request)] ELSE request
  /\ Consume(manager, socket.parent)
  /\ UNCHANGED main

ProcessRecordData ==
  /\ ~crashed /\ socket.alive /\ manager.state # "deleted"
  /\ NextRecord # NoRecord
  /\ LET i == server.idOf[NextRecord.request] IN
     BeginRecord(i) \/ LoadParameters(i) \/ Respond(i) \/ ReadStandardInput(i)

\* processNewRecord when the payload has not arrived yet.
ProcessHeaderOnly ==
  /\ ~crashed /\ socket.alive /\ manager.state # "deleted"
  /\ TopCall = "read" /\ manager.header = NoRecord /\ NextRecord = NoRecord
  /\ PieceAt(1, "header")
  /\ manager' = [manager EXCEPT !.header = RecordOf(socket.in[1])]
  /\ socket' = [socket EXCEPT !.in = Tail(@)]
  /\ UNCHANGED <<server, main, request, crashed>>

\* The loop of processSocketData ends: nothing, or not enough, is available.
ProcessDone ==
  /\ ~crashed /\ socket.alive
  /\ TopCall = "read" /\ socket.in = <<>>
  /\ main' = [main EXCEPT !.stack = Tail(@)]
  /\ UNCHANGED <<server, socket, manager, request, crashed>>

-----------------------------------------------------------------------------
(* The request between newRequest() and its deletion. *)

\* The thread of the socket once r has moved, and a variant for mutation.
MovedTo_Stays(r) == socket.thread
MovedTo(r) == IF socket.parent = <<"stream", r>> THEN r ELSE socket.thread

\* ThreadPool::start: the request moves, with its stream and the stream's child.
HandOver(r) ==
  /\ mode = "threaded" /\ InMainLoop /\ Phase(r) = "queued"
  /\ request' = [request EXCEPT ![r].phase = "handed"]
  /\ socket' = [socket EXCEPT !.thread = MovedTo(r)]
  /\ UNCHANGED <<server, manager, main, crashed>>

RunSlot(r) ==
  /\ ~crashed
  /\ \/ /\ mode = "blocking" /\ InMainLoop
        /\ Phase(r) = "queued" /\ \A s \in Requests : Phase(s) = "queued" => r <= s
        /\ main' = [main EXCEPT !.stack = <<SlotFrame(r)>> \o @]
     \/ mode = "threaded" /\ Phase(r) = "handed" /\ UNCHANGED main
  /\ request' = [request EXCEPT ![r].phase = "running"]
  /\ UNCHANGED <<server, socket, manager, crashed>>

\* The slot of r has control.
InSlot(r) ==
  ~crashed /\ Phase(r) = "running" /\ (mode # "threaded" => TopCall = "slot" /\ TopSlot = r)

\* device->readAll() in loadPostVariables: as many records as have come in since the
\* last time, by FastCgiStream::readData, which copies them from the beginning of
\* m_requestBuffer.
ReadAll(r) == [k \in 1..(Len(request[r].body) - Len(request[r].data)) |-> k]

Loaded(r, wait) ==
  request' = [request EXCEPT ![r].data = @ \o ReadAll(r), ![r].wait = wait]

\* loadPostVariables takes what is there and starts waiting for the rest, ...
WaitForBody(r) ==
  /\ InSlot(r) /\ request[r].wait = "no" /\ ~request[r].written
  /\ Len(request[r].body) < BodyRecords
  /\ Loaded(r, "yes")
  /\ UNCHANGED <<server, socket, manager, main, crashed>>

\* ... or has it all at once, ...
LoadBody(r) ==
  /\ InSlot(r) /\ request[r].wait = "no" /\ ~request[r].written
  /\ Len(request[r].body) = BodyRecords
  /\ Loaded(r, "over")
  /\ UNCHANGED <<server, socket, manager, main, crashed>>

\* ... reads what the nested event loop has brought, still not all, ...
PollBody(r) ==
  /\ InSlot(r) /\ request[r].wait = "yes"
  /\ Len(request[r].data) < Len(request[r].body) /\ Len(request[r].body) < BodyRecords
  /\ Loaded(r, "yes")
  /\ UNCHANGED <<server, socket, manager, main, crashed>>

\* The wait of loadPostVariables may end, and a variant for mutation, without limit.
WaitIsOver_Complete(r) == request[r].wait = "yes" /\ Len(request[r].body) = BodyRecords
WaitIsOver(r) == request[r].wait = "yes"

\* ... until it has CONTENT_LENGTH bytes or five minutes have passed, ...
EndWait(r) ==
  /\ InSlot(r) /\ WaitIsOver(r)
  /\ Loaded(r, "over")
  /\ UNCHANGED <<server, socket, manager, main, crashed>>

\* ... and the slot writes its response, one STDOUT record of it.
Write(r) ==
  /\ InSlot(r) /\ request[r].wait # "yes" /\ ~request[r].written
  /\ socket.alive
  /\ socket' = [socket EXCEPT !.out = Append(@, [kind |-> "out", request |-> r])]
  /\ request' = [request EXCEPT ![r].written = TRUE]
  /\ UNCHANGED <<server, manager, main, crashed>>

\* The test of m_closeSocketOnExit, and a variant for mutation.
CloseAfter_Never(i) == FALSE
CloseAfter(i) == manager.close[i]

\* The manager after cleanupStream for the stream of r.
CleanedUp(r) ==
  LET i == server.idOf[r] IN
  [manager EXCEPT !.state = IF CloseAfter(i) THEN "doomed" ELSE @,
                  !.headers[i] = {}, !.streams = WithoutStream(i)]

\* The slot returns and the request is deleted.  ~FastCgiStream writes the
\* END_REQUEST record and leaves the socket to a SocketFlusher; then destroyed()
\* calls cleanupStream, through the event queue from another thread.  In direct
\* mode control is back in processRecordData, which forgets m_recordHeader.
Finish(r) ==
  /\ InSlot(r) /\ request[r].wait # "yes"
  /\ socket.alive
  /\ request' = [request EXCEPT ![r].phase = "deleted", ![r].flusher = "waiting"]
  /\ socket' = [socket EXCEPT !.out = Append(@, [kind |-> "end", request |-> r]),
                              !.parent = <<"flusher", r>>]
  /\ IF mode = "threaded"
     THEN /\ main' = [main EXCEPT !.events = Append(@, Cleanup(r))]
          /\ UNCHANGED manager
     ELSE /\ main' = [main EXCEPT !.stack = Tail(@)]
          /\ LET m == IF manager.state = "deleted" THEN manager ELSE CleanedUp(r) IN
             manager' = [m EXCEPT !.header = IF mode = "direct" THEN NoRecord ELSE @]
  /\ UNCHANGED <<server, crashed>>

QueuedCleanup ==
  /\ NextEvent("cleanup")
  /\ manager' = CleanedUp(Head(main.events)[2])
  /\ main' = [main EXCEPT !.events = Tail(@)]
  /\ UNCHANGED <<server, socket, request, crashed>>

-----------------------------------------------------------------------------
(* The end of a connection. *)

\* The head of the write buffer reaches the web server.  With nothing left to
\* write, bytesWritten() makes the socket's flushers delete themselves later.
Transmit ==
  LET sent == Head(socket.out) IN
  /\ ServesSocket /\ socket.out # <<>>
  /\ socket' = [socket EXCEPT !.out = Tail(@)]
  /\ server' = IF sent.kind = "end" THEN [server EXCEPT !.ended = @ \union {sent.request}] ELSE server
  /\ request' = [r \in Requests |->
                   IF request[r].flusher = "waiting" /\ socket'.out = <<>>
                   THEN [request[r] EXCEPT !.flusher = "doomed"] ELSE request[r]]
  /\ UNCHANGED <<manager, main, crashed>>

\* The flushers of R are deleted, and the manager if withManager, which then gets
\* no more calls; their children go with them, and the socket may be one.
DeleteObjects(R, withManager) ==
  LET gone == ({"flusher"} \X R) \union (IF withManager THEN {<<"manager", 0>>} ELSE {}) IN
  /\ request' = [r \in Requests |-> IF r \in R THEN [request[r] EXCEPT !.flusher = "deleted"]
                                    ELSE request[r]]
  /\ socket' = [socket EXCEPT !.alive = @ /\ socket.parent \notin gone]
  /\ IF withManager
     THEN /\ manager' = [manager EXCEPT !.state = "deleted"]
          /\ main' = [main EXCEPT !.checks = 0, !.events = <<>>]
     ELSE UNCHANGED <<manager, main>>
  /\ UNCHANGED <<server, crashed>>

\* One thread: its event loop deletes all that is due before anything else happens.
\* Threads: the manager goes in the main thread, a flusher in that of its request.
DeferredDelete ==
  LET doomed == {r \in Requests : request[r].flusher = "doomed"} IN
  /\ InMainLoop
  /\ manager.state = "doomed" \/ (mode # "threaded" /\ doomed # {})
  /\ DeleteObjects(IF mode = "threaded" THEN {} ELSE doomed, manager.state = "doomed")

DeferredDeleteFlusher(r) ==
  /\ mode = "threaded" /\ ~crashed /\ request[r].flusher = "doomed"
  /\ DeleteObjects({r}, FALSE)

\* What the code does next is undefined: it uses a deleted socket, manager or
\* stream, or it takes payload for the header of a record (which ends in qFatal
\* unless the bytes happen to be one).
Undefined ==
  /\ ~crashed
  /\ \/ /\ TopCall = "read"
        /\ \/ ~socket.alive \/ manager.state = "deleted"
           \/ manager.header = NoRecord /\ PieceAt(1, "payload")
     \/ TouchesDeadStream
     \/ \E r \in Requests : InSlot(r) /\ request[r].wait # "yes" /\ ~socket.alive
  /\ crashed' = TRUE
  /\ UNCHANGED <<server, socket, manager, main, request>>

-----------------------------------------------------------------------------
ServerStep == (\E i \in Ids : BeginRequest(i)) \/ \E r \in Requests : SendRecord(r)
NetworkStep == Arrive \/ Transmit
MainStep ==
  \/ CheckTimeout \/ QueuedCheck \/ QueuedCleanup
  \/ ProcessRecordData \/ ProcessHeaderOnly \/ ProcessDone
  \/ DeferredDelete \/ \E r \in Requests : HandOver(r)
RequestStep(r) == RunSlot(r) \/ EndWait(r) \/ Finish(r) \/ DeferredDeleteFlusher(r)

\* The connection is gone, or the process is.
Terminated == (crashed \/ ~socket.alive) /\ UNCHANGED vars

Next ==
  \/ ServerStep \/ NetworkStep \/ MainStep \/ Undefined
  \/ \E r \in Requests : RequestStep(r) \/ WaitForBody(r) \/ LoadBody(r) \/ PollBody(r) \/ Write(r)
  \/ Terminated

Spec == Init /\ [][Next]_vars

\* Threads run and their event loops deliver; the peers' TCP stacks move bytes; a
\* wait for POST data ends, by the five-minute limit if by nothing else.  The web
\* server need not send anything.
FairSpec ==
  /\ Spec
  /\ WF_vars(MainStep) /\ WF_vars(NetworkStep) /\ WF_vars(Undefined)
  /\ \A r \in Requests : WF_vars(RequestStep(r))

-----------------------------------------------------------------------------
(* Properties. *)

\* Behind a BlockingResponder, on a connection of its own, nothing a request makes
\* the process do depends on a dead object or on misread framing.
Defined == mode = "blocking" => ~crashed

\* m_recordHeader is the header of the current record: set exactly while the next
\* piece of the byte stream is that record's payload (FastCgiSocketManager.h:84).
\* Not so for a slot that runs inside respond(): a header that a nested call has
\* read is forgotten when the outer processRecordData returns.
RecordHeaderIsCurrent ==
  LET rest == socket.in \o server.wire IN
  mode # "direct" =>
    manager.header = IF rest # <<>> /\ rest[1].part = "payload" THEN RecordOf(rest[1]) ELSE NoRecord

\* Requests overlap, but each has its own parameters and its own standard input
\* (FastCgiSocketManager.cpp:110-138).
RoutedToOwner ==
  \A r \in Requests : Phase(r) # "none" =>
    /\ request[r].headers = {r}
    /\ Len(request[r].body) <= BodyRecords
    /\ \A k \in 1..Len(request[r].body) : request[r].body[k] = r

\* While a slot waits for POST data, nothing that has arrived lies in the socket's
\* buffer without a call of processSocketData that is going to look at it.  Not so
\* for a slot inside respond(): no readyRead() is emitted within the one it is in.
WaitingIsFed ==
  mode # "direct" /\ TopCall = "slot" /\ request[TopSlot].wait = "yes" /\ socket.in # <<>> =>
    main.checks > 0 \/ \E k \in 1..Len(main.events) : main.events[k] = Check

\* The socket lives in the thread that answers on it (FastCgiStream.cpp:87).
SocketInSlotThread ==
  \A r \in Requests : Phase(r) = "running" => socket.thread = IF mode = "threaded" THEN r ELSE Main

\* A request keeps the socket it has to answer on: no other request of the
\* connection, and no flusher, closes it (FastCgiSocketManager.h:37).
SocketOutlivesRequests ==
  \A r \in Requests : Phase(r) \in {"queued", "handed", "running"} => socket.alive

\* Standard input for a request that has been dealt with is ignored: readStandardInput
\* never appends to a stream that is gone (FastCgiSocketManager.cpp:136-137).
LateInputIgnored == ~TouchesDeadStream

\* The POST data of a request are its standard input, in order (Request.h:39,
\* FastCgiStream.h:42).
PostDataAsSent ==
  \A r \in Requests : \A k \in 1..Len(request[r].data) : request[r].data[k] = k

\* Every request is ended towards the web server.
EndDelivered == \A r \in Requests : Phase(r) # "none" ~> r \in server.ended \/ crashed

\* Without FCGI_KEEP_CONN, once a request is over the socket is closed and its
\* manager deleted.
ClosesConnection ==
  \A r \in Requests :
    Phase(r) = "deleted" /\ ~KeepConn
      ~> (~socket.alive /\ manager.state = "deleted") \/ crashed
=============================================================================
