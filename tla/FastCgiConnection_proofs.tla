---------------------- MODULE FastCgiConnection_proofs ----------------------
(***************************************************************************)
(* The proofs of FastCgiConnection: what is left of the byte stream is in   *)
(* order, so each record goes to the request it belongs to, whichever      *)
(* events of the connection come in between.                               *)
(***************************************************************************)
EXTENDS FastCgiConnection, SequenceLemmas, TLAPS

ServerRecords ==
  [begun : 0..MaxRequests, idOf : [Requests -> Ids \union {0}],
   sent : [Requests -> 0..Len(Script)], ended : SUBSET Requests, wire : Seq(Piece)]
Outputs == [kind : {"out", "end"}, request : Requests]
SocketRecords ==
  [in : Seq(Piece), out : Seq(Outputs),
   alive : BOOLEAN, thread : {Main} \union Requests,
   parent : {<<"manager", 0>>} \union ({"stream", "flusher"} \X Requests)]
Events == {Check} \union {Cleanup(r) : r \in Requests}
MainRecords == [mode : Modes, checks : Nat, events : Seq(Events), stack : Seq(Frames)]
RequestRecords ==
  [phase : {"none", "queued", "handed", "running", "deleted"},
   headers : SUBSET Requests, body : Seq(Requests), data : Seq(1..BodyRecords),
   wait : {"no", "yes", "over"}, written : BOOLEAN,
   flusher : {"none", "waiting", "doomed", "deleted"}]
RecordsOK ==
  /\ server \in ServerRecords /\ socket \in SocketRecords /\ manager \in Manager
  /\ main \in MainRecords /\ request \in [Requests -> RequestRecords] /\ crashed \in BOOLEAN

Begun == 1..server.begun
IdOf(r) == server.idOf[r]
Sent(r) == server.sent[r]

\* What is left of the web server's bytes; and whether some of the n-th record of r is.
Rest == socket.in \o server.wire
Of(piece, r, n) == piece.request = r /\ piece.nth = n
InRest(r, n) == \E k \in DOMAIN Rest : Of(Rest[k], r, n)

\* Requests begin one after the other, those with an id once the last with it has ended.
BegunOK ==
  /\ \A r \in Begun : IdOf(r) \in Ids /\ Sent(r) >= 1
  /\ \A r \in Requests \ Begun : Sent(r) = 0 /\ Phase(r) = "none"
  /\ \A r, s \in Begun : r < s /\ IdOf(r) = IdOf(s) => r \in server.ended
  /\ \A r \in Begun : Phase(r) # "none" => Sent(r) >= 3

\* A request has ended for the web server once its stream is gone.
EndedOK ==
  /\ \A r \in server.ended : Phase(r) = "deleted"
  /\ \A k \in DOMAIN socket.out : socket.out[k].kind = "end" => Phase(socket.out[k].request) = "deleted"

\* The pieces are of records that were sent, ...
PiecesOK(rest) ==
  \A k \in DOMAIN rest :
    /\ rest[k].request \in Begun /\ rest[k].nth <= Sent(rest[k].request)
    /\ rest[k].kind = Script[rest[k].nth]
    /\ rest[k].part = "payload" => ~Empty(rest[k].kind)

\* ... header and payload together, ...
PairedOK(rest) ==
  /\ \A k \in DOMAIN rest :
       rest[k].part = "header" /\ ~Empty(rest[k].kind) =>
         k + 1 \in DOMAIN rest /\ rest[k + 1].part = "payload" /\ RecordOf(rest[k + 1]) = RecordOf(rest[k])
  /\ \A k \in DOMAIN rest :
       k > 1 /\ rest[k].part = "payload" =>
         rest[k - 1].part = "header" /\ RecordOf(rest[k - 1]) = RecordOf(rest[k])

\* ... in the order of the requests of an id, and of the records of a request.
OrderedOK(rest) ==
  \A j, k \in DOMAIN rest : j < k /\ IdOf(rest[j].request) = IdOf(rest[k].request) =>
    /\ rest[j].request <= rest[k].request
    /\ rest[j].request = rest[k].request =>
         /\ rest[j].nth <= rest[k].nth
         /\ rest[j].nth = rest[k].nth => rest[j].part = "header" /\ rest[k].part = "payload"

\* Nothing is overtaken: what was sent after a piece that is left, is left.
NotOvertaken ==
  /\ \A r \in Begun : \A n, m \in 1..Len(Script) :
       InRest(r, n) /\ n <= m /\ m <= Sent(r) => InRest(r, m)
  /\ \A r, s \in Begun : \A n \in 1..Len(Script) :
       r < s /\ IdOf(r) = IdOf(s) /\ InRest(r, n) => InRest(s, 1)

\* A request is announced when its parameters have been read.
AnnouncedOK ==
  \A r \in Begun : \A n \in 1..3 : Phase(r) # "none" => ~InRest(r, n)

\* With threads, cleanupStream() of a request may come when another has its id.
NoLateCleanup == mode = "threaded" => server.begun <= 1

\* m_requestHeaders of the id of a request that is being read.
HeadersOK ==
  NoLateCleanup =>
    /\ \A r \in Begun : Phase(r) = "none" /\ ~InRest(r, 1) =>
         manager.headers[IdOf(r)] = IF Sent(r) >= 2 /\ ~InRest(r, 2) THEN {r} ELSE {}
    /\ \A r \in Begun : Phase(r) # "none" => request[r].headers = {r}

\* A stream in m_streams is that of a request with the id, which only in another thread may
\* have been deleted.
StreamsOK ==
  \A i \in Ids : manager.state # "deleted" /\ manager.streams[i] # NoRequest =>
    LET s == manager.streams[i] IN
    s \in Begun /\ IdOf(s) = i /\ Phase(s) # "none" /\ (mode # "threaded" => Phase(s) # "deleted")

\* A stream has its own input, as much as the records of it that are not left.
BodyOK ==
  \A r \in Requests :
    /\ \A k \in DOMAIN request[r].body : request[r].body[k] = r
    /\ Len(request[r].body) <= BodyRecords /\ Len(request[r].data) <= Len(request[r].body)
    /\ request[r].body # <<>> => Len(request[r].body) + 3 <= Sent(r)
    /\ \A n \in 4..Len(Script) : InRest(r, n) => Len(request[r].body) < n - 3

\* m_recordHeader, if set, is the header of the payload that comes first; behind a
\* responder it is set then.
HeaderOK ==
  /\ manager.header # NoRecord =>
       Rest # <<>> /\ Rest[1].part = "payload" /\ manager.header = RecordOf(Rest[1])
  /\ mode # "direct" /\ Rest # <<>> /\ Rest[1].part = "payload" => manager.header # NoRecord

\* The socket goes where the only request of its connection goes.
ThreadOK ==
  /\ mode # "threaded" => socket.thread = Main
  /\ mode = "threaded" /\ server.begun <= 1 =>
       /\ Phase(1) \in {"none", "queued"} => socket.thread = Main
       /\ Phase(1) = "queued" => socket.parent = <<"stream", 1>>
       /\ Phase(1) \in {"handed", "running"} => socket.thread = 1

\* One call of processSocketData() at a time, on top, behind a BlockingResponder; it looks at
\* all that has arrived.
StackOK ==
  /\ \A k \in DOMAIN main.stack :
       main.stack[k].call = "slot" =>
         mode # "threaded" /\ ~main.stack[k].signalled /\ Phase(main.stack[k].request) = "running"
  /\ \A j, k \in DOMAIN main.stack :
       main.stack[j].call = "slot" /\ main.stack[k].call = "slot" /\ main.stack[j].request = main.stack[k].request => j = k
  /\ mode = "blocking" =>
       /\ \A k \in DOMAIN main.stack : k > 1 => main.stack[k].call = "slot"
       /\ TopCall # "read" /\ manager.state # "deleted" => socket.in = <<>>

\* The manager is deleted with the last request of its connection.
ManagerOK ==
  /\ KeepConn => manager.state = "alive" /\ \A i \in Ids : ~manager.close[i]
  /\ KeepConn \/ Multiplex \/ server.begun <= 1
  /\ ~KeepConn /\ ~Multiplex /\ manager.state # "alive" => Phase(1) = "deleted"
  /\ \A k \in DOMAIN main.events : main.events[k][1] = "cleanup" => mode = "threaded" /\ Phase(main.events[k][2]) = "deleted"

IInv ==
  /\ RecordsOK /\ BegunOK /\ EndedOK /\ PiecesOK(Rest) /\ PairedOK(Rest) /\ OrderedOK(Rest) /\ NotOvertaken
  /\ AnnouncedOK /\ HeadersOK /\ StreamsOK /\ BodyOK /\ HeaderOK /\ ThreadOK /\ StackOK /\ ManagerOK

\* Behind a BlockingResponder the socket of a single request is there until the manager goes.
BlockingOK ==
  mode = "blocking" /\ ~KeepConn /\ ~Multiplex =>
    /\ ~crashed
    /\ Phase(1) # "deleted" => socket.alive /\ socket.parent[1] # "flusher" /\ request[1].flusher = "none"
    /\ \A r \in Begun : manager.close[IdOf(r)] \/ InRest(r, 1)
    /\ Phase(1) = "deleted" => manager.state # "alive"
    /\ \A r \in Requests \ {1} : request[r].flusher = "none"
    /\ manager.state # "deleted" => socket.alive
    /\ manager.state = "deleted" => TopCall # "read"

-----------------------------------------------------------------------------
(* What is left of the byte stream, when pieces are sent, arrive and are read. *)

LEMMA JoinArrive ==
  ASSUME NEW S, NEW s \in Seq(S), NEW t \in Seq(S), t # <<>>
  PROVE  Append(s, Head(t)) \o Tail(t) = s \o t
<1>1. Head(t) \in S /\ Tail(t) \in Seq(S) /\ Len(Tail(t)) = Len(t) - 1 /\ Append(s, Head(t)) \in Seq(S)
  OBVIOUS
<1>2. Len(Append(s, Head(t)) \o Tail(t)) = Len(s \o t)
  BY <1>1
<1>3. ASSUME NEW k \in 1..Len(s \o t) PROVE (Append(s, Head(t)) \o Tail(t))[k] = (s \o t)[k]
  BY <1>1
<1>4. Append(s, Head(t)) \o Tail(t) \in Seq(S) /\ s \o t \in Seq(S)
  BY <1>1
<1> QED
  BY <1>2, <1>3, <1>4

ReadFrom(S, s, t, d, u) ==
  /\ u \in Seq(S) /\ u \o t \in Seq(S) /\ Len(u \o t) = Len(s \o t) - d
  /\ \A k \in 1..Len(u \o t) : (u \o t)[k] = (s \o t)[k + d]

LEMMA JoinRead ==
  ASSUME NEW S, NEW s \in Seq(S), NEW t \in Seq(S), NEW d \in 1..Len(s),
         NEW u, u = SubSeq(s, d + 1, Len(s))
  PROVE  ReadFrom(S, s, t, d, u)
<1> USE DEF ReadFrom
<1>1. u \in Seq(S) /\ Len(u) = Len(s) - d /\ \A k \in 1..Len(u) : u[k] = s[k + d]
  OBVIOUS
<1>2. PICK a \in Seq(S) : a = u
  BY <1>1
<1>3. PICK la \in Nat, ls \in Nat, lt \in Nat : la = Len(a) /\ ls = Len(s) /\ lt = Len(t)
  OBVIOUS
<1>4. d \in Nat /\ d >= 1 /\ d <= ls
  BY <1>3
<1>5. la = ls - d /\ \A k \in 1..la : a[k] = s[k + d]
  BY <1>1, <1>2, <1>3, Zenon
<1>6. /\ a \o t \in Seq(S) /\ Len(a \o t) = Len(a) + Len(t)
      /\ \A k \in 1..Len(a) : (a \o t)[k] = a[k]
      /\ \A k \in 1..Len(t) : (a \o t)[Len(a) + k] = t[k]
  OBVIOUS
<1>7. /\ Len(s \o t) = Len(s) + Len(t)
      /\ \A k \in 1..Len(s) : (s \o t)[k] = s[k]
      /\ \A k \in 1..Len(t) : (s \o t)[Len(s) + k] = t[k]
  OBVIOUS
<1>8. /\ a \o t \in Seq(S) /\ Len(a \o t) = la + lt /\ Len(s \o t) = ls + lt
      /\ \A k \in 1..la : (a \o t)[k] = a[k]
      /\ \A k \in 1..lt : (a \o t)[la + k] = t[k]
      /\ \A k \in 1..ls : (s \o t)[k] = s[k]
      /\ \A k \in 1..lt : (s \o t)[ls + k] = t[k]
  BY <1>3, <1>6, <1>7, Zenon
<1>9. la + lt = (ls + lt) - d
  BY <1>4, <1>5
<1>10. ASSUME NEW k \in 1..(la + lt) PROVE (a \o t)[k] = (s \o t)[k + d]
  <2>1. CASE k <= la
    <3>1. k \in 1..la /\ k + d \in 1..ls
      BY <1>4, <1>5, <2>1
    <3> QED
      BY <1>5, <1>8, <3>1, Zenon
  <2>2. CASE k > la
    <3>1. PICK m \in 1..lt : k = la + m /\ k + d = ls + m
      <4>1. k - la \in 1..lt /\ k = la + (k - la) /\ k + d = ls + (k - la)
        BY <1>4, <1>5, <2>2
      <4> QED
        BY <4>1
    <3>2. (a \o t)[la + m] = t[m] /\ (s \o t)[ls + m] = t[m]
      BY <1>8
    <3>3. (a \o t)[k] = (a \o t)[la + m] /\ (s \o t)[k + d] = (s \o t)[ls + m]
      BY <3>1
    <3> QED
      BY <3>2, <3>3, Zenon
  <2>3. k <= la \/ k > la
    OBVIOUS
  <2> QED
    BY <2>1, <2>2, <2>3, Zenon
<1> QED
  BY <1>1, <1>2, <1>8, <1>9, <1>10, Zenon

LEMMA JoinAssociative ==
  ASSUME NEW S, NEW s \in Seq(S), NEW t \in Seq(S), NEW u \in Seq(S)
  PROVE  s \o (t \o u) = (s \o t) \o u
  OBVIOUS

LEMMA RestTyped ==
  ASSUME RecordsOK
  PROVE  /\ Rest \in Seq(Piece) /\ Len(Rest) \in Nat /\ DOMAIN Rest = 1..Len(Rest)
         /\ Len(socket.in) \in Nat /\ Len(socket.in) <= Len(Rest)
         /\ \A k \in 1..Len(socket.in) : Rest[k] = socket.in[k]
         /\ socket.in \in Seq(Piece) /\ server.wire \in Seq(Piece)
         /\ Rest = <<>> <=> Len(Rest) = 0
<1>1. socket.in \in Seq(Piece) /\ server.wire \in Seq(Piece)
  BY DEF RecordsOK, SocketRecords, ServerRecords
<1>2. /\ Rest \in Seq(Piece) /\ Len(Rest) = Len(socket.in) + Len(server.wire)
      /\ \A k \in 1..Len(socket.in) : Rest[k] = socket.in[k]
  <2>1. PICK a \in Seq(Piece) : a = socket.in
    BY <1>1
  <2>2. PICK b \in Seq(Piece) : b = server.wire
    BY <1>1
  <2>3. a \o b \in Seq(Piece) /\ Len(a \o b) = Len(a) + Len(b) /\ \A k \in 1..Len(a) : (a \o b)[k] = a[k]
    OBVIOUS
  <2> QED
    BY <2>1, <2>2, <2>3, Zenon DEF Rest
<1>3. Len(socket.in) \in Nat /\ Len(server.wire) \in Nat
  BY <1>1
<1>4. Len(socket.in) <= Len(Rest) /\ Len(Rest) \in Nat
  <2>1. \A a, b \in Nat : a <= a + b /\ a + b \in Nat
    OBVIOUS
  <2> QED
    BY <1>2, <1>3, <2>1, Zenon
<1>5. PICK t \in Seq(Piece) : t = Rest
  BY <1>2
<1>6. DOMAIN t = 1..Len(t) /\ (t = <<>> <=> Len(t) = 0)
  OBVIOUS
<1> QED
  BY <1>1, <1>2, <1>3, <1>4, <1>5, <1>6, Zenon

LEMMA RestSame ==
  ASSUME Rest' = Rest
  PROVE  \A r, n : InRest(r, n)' = InRest(r, n)
  BY DEF InRest, Of

LEMMA ScriptFacts ==
  /\ Len(Script) = BodyRecords + 4 /\ Len(Script) \in Nat /\ DOMAIN Script = 1..Len(Script)
  /\ Script[1] = "begin" /\ Script[2] = "params" /\ Script[3] = "paramsEnd"
  /\ \A n \in 4..(BodyRecords + 3) : Script[n] = "stdin"
  /\ Script[BodyRecords + 4] = "stdinEnd"
  /\ \A n \in 1..Len(Script) : Script[n] \in Kinds
<1> DEFINE first == <<"begin", "params", "paramsEnd">>
           body == [i \in 1..BodyRecords |-> "stdin"]
           last == <<"stdinEnd">>
<1>1. first \in Seq(Kinds) /\ Len(first) = 3 /\ first[1] = "begin" /\ first[2] = "params" /\ first[3] = "paramsEnd"
  BY DEF Kinds
<1>2. BodyRecords \in Nat
  BY ConnectionAssumption
<1>3. body \in Seq(Kinds) /\ Len(body) = BodyRecords /\ \A i \in 1..BodyRecords : body[i] = "stdin"
  BY <1>2 DEF Kinds
<1>4. last \in Seq(Kinds) /\ Len(last) = 1 /\ last[1] = "stdinEnd"
  BY DEF Kinds
<1> HIDE DEF first, body, last
<1>13. /\ first \o body \in Seq(Kinds) /\ Len(first \o body) = Len(first) + Len(body)
       /\ \A k \in 1..Len(first) : (first \o body)[k] = first[k]
       /\ \A k \in 1..Len(body) : (first \o body)[Len(first) + k] = body[k]
  <2>1. PICK a \in Seq(Kinds) : a = first
    BY <1>1
  <2>2. PICK b \in Seq(Kinds) : b = body
    BY <1>3
  <2>3. /\ a \o b \in Seq(Kinds) /\ Len(a \o b) = Len(a) + Len(b)
        /\ \A k \in 1..Len(a) : (a \o b)[k] = a[k]
        /\ \A k \in 1..Len(b) : (a \o b)[Len(a) + k] = b[k]
    OBVIOUS
  <2> QED
    BY <2>1, <2>2, <2>3, Zenon
<1>5. first \o body \in Seq(Kinds) /\ Len(first \o body) = 3 + BodyRecords
  BY <1>1, <1>3, <1>13, Zenon
<1>6. \A i \in 1..BodyRecords : (first \o body)[3 + i] = "stdin"
  BY <1>1, <1>3, <1>13, Zenon
<1>7. \A k \in 1..3 : (first \o body)[k] = first[k]
  BY <1>1, <1>13, Zenon
<1>8. Script = (first \o body) \o last
  BY DEF Script, first, body, last
<1>9. /\ Script \in Seq(Kinds) /\ Len(Script) = BodyRecords + 4
      /\ \A k \in 1..(BodyRecords + 3) : Script[k] = (first \o body)[k]
      /\ Script[BodyRecords + 4] = "stdinEnd"
  <2>1. /\ (first \o body) \o last \in Seq(Kinds) /\ Len((first \o body) \o last) = Len(first \o body) + Len(last)
        /\ \A k \in 1..Len(first \o body) : ((first \o body) \o last)[k] = (first \o body)[k]
        /\ \A k \in 1..Len(last) : ((first \o body) \o last)[Len(first \o body) + k] = last[k]
    <3>1. PICK a \in Seq(Kinds) : a = first \o body
      BY <1>5
    <3>2. PICK b \in Seq(Kinds) : b = last
      BY <1>4
    <3>3. /\ a \o b \in Seq(Kinds) /\ Len(a \o b) = Len(a) + Len(b)
          /\ \A k \in 1..Len(a) : (a \o b)[k] = a[k]
          /\ \A k \in 1..Len(b) : (a \o b)[Len(a) + k] = b[k]
      OBVIOUS
    <3> QED
      BY <3>1, <3>2, <3>3, Zenon
  <2>2. Len(first \o body) + Len(last) = BodyRecords + 4 /\ Len(first \o body) + 1 = BodyRecords + 4
        /\ Len(first \o body) = BodyRecords + 3
    BY <1>2, <1>4, <1>5
  <2>3. ((first \o body) \o last)[Len(first \o body) + 1] = "stdinEnd"
    BY <1>4, <2>1
  <2> QED
    BY <1>8, <2>1, <2>2, <2>3, Zenon
<1>10. ASSUME NEW n \in 4..(BodyRecords + 3) PROVE Script[n] = "stdin"
  <2>1. n - 3 \in 1..BodyRecords /\ n = 3 + (n - 3) /\ n \in 1..(BodyRecords + 3)
    BY <1>2
  <2> QED
    BY <1>6, <1>9, <2>1
<1>11. Script[1] = "begin" /\ Script[2] = "params" /\ Script[3] = "paramsEnd"
  <2>1. 1 \in 1..3 /\ 2 \in 1..3 /\ 3 \in 1..3 /\ \A k \in 1..3 : k \in 1..(BodyRecords + 3)
    BY <1>2
  <2> QED
    BY <1>1, <1>7, <1>9, <2>1, Zenon
<1>12. Len(Script) \in Nat /\ DOMAIN Script = 1..Len(Script) /\ \A n \in 1..Len(Script) : Script[n] \in Kinds
  BY <1>9
<1> QED
  BY <1>9, <1>10, <1>11, <1>12

\* The first d pieces have been read, all that is left of their record.
Reads(d) ==
  /\ d \in 1..Len(socket.in) /\ UNCHANGED server
  /\ socket'.in = SubSeq(socket.in, d + 1, Len(socket.in))

LEMMA DroppedRest ==
  ASSUME RecordsOK, NEW d, Reads(d)
  PROVE  /\ Rest' \in Seq(Piece) /\ Len(Rest') = Len(Rest) - d /\ socket'.in \in Seq(Piece)
         /\ DOMAIN Rest' = 1..Len(Rest') /\ Len(Rest') \in Nat /\ d \in 1..Len(Rest)
         /\ \A k \in DOMAIN Rest' : k + d \in DOMAIN Rest /\ Rest'[k] = Rest[k + d]
         /\ \A k \in DOMAIN Rest : k > d => k - d \in DOMAIN Rest' /\ Rest[k] = Rest'[k - d]
<1>1. PICK s \in Seq(Piece) : s = socket.in
  BY RestTyped
<1>2. PICK t \in Seq(Piece) : t = server.wire
  BY RestTyped
<1>3. PICK u : u = SubSeq(s, d + 1, Len(s))
  OBVIOUS
<1>4. d \in 1..Len(s) /\ d \in Nat
  BY <1>1 DEF Reads
<1>20. ReadFrom(Piece, s, t, d, u)
  BY <1>3, <1>4, JoinRead
<1>5. u \in Seq(Piece) /\ u \o t \in Seq(Piece) /\ Len(u \o t) = Len(s \o t) - d /\ \A k \in 1..Len(u \o t) : (u \o t)[k] = (s \o t)[k + d]
  BY <1>20, Zenon DEF ReadFrom
<1>6. PICK w \in Seq(Piece) : w = u \o t
  BY <1>5
<1>7. Rest' = w /\ socket'.in = u
  BY <1>1, <1>2, <1>3, <1>6 DEF Rest, Reads
<1>8. PICK l \in Nat : l = Len(Rest) /\ DOMAIN Rest = 1..l
  BY RestTyped
<1>9. PICK n \in Nat : n = Len(w) /\ DOMAIN w = 1..n
  OBVIOUS
<1>10. Rest = s \o t
  BY <1>1, <1>2 DEF Rest
<1>11. n = l - d /\ \A k \in 1..n : w[k] = Rest[k + d]
  BY <1>5, <1>6, <1>8, <1>9, <1>10, Zenon
<1>12. d \in Nat /\ d >= 1 /\ d <= l
  <2>1. \A a, b \in Nat : \A c \in 1..a : a <= b => c \in Nat /\ c >= 1 /\ c <= b
    OBVIOUS
  <2>2. Len(s) \in Nat /\ Len(s) <= l
    BY <1>1, <1>8, RestTyped
  <2> QED
    BY <1>4, <1>8, <2>1, <2>2, Zenon
<1>13. /\ \A k \in 1..n : k + d \in 1..l /\ w[k] = Rest[k + d]
       /\ \A k \in 1..l : k > d => k - d \in 1..n /\ Rest[k] = w[k - d]
  <2>1. \A k \in 1..n : k + d \in 1..l
    BY <1>11, <1>12
  <2>2. \A k \in 1..l : k > d => k - d \in 1..n /\ (k - d) + d = k
    BY <1>11, <1>12
  <2> QED
    BY <1>11, <2>1, <2>2, Zenon
<1>14. d \in 1..l
  BY <1>12
<1> QED
  BY <1>5, <1>7, <1>8, <1>9, <1>11, <1>13, <1>14, Zenon

LEMMA PieceFields ==
  ASSUME NEW x \in Piece
  PROVE  /\ x.kind \in Kinds /\ x.nth \in 1..Len(Script) /\ x.nth \in Nat /\ x.request \in Requests
         /\ x.request \in Nat /\ x.part \in {"header", "payload"}
  BY ConnectionAssumption, ScriptFacts DEF Piece, Requests

LEMMA RestPieces ==
  ASSUME RecordsOK, NEW k \in DOMAIN Rest
  PROVE  /\ Rest[k] \in Piece /\ Rest[k].kind \in Kinds /\ Rest[k].nth \in 1..Len(Script) /\ Rest[k].nth \in Nat
         /\ Rest[k].request \in Requests /\ Rest[k].request \in Nat
         /\ Rest[k].part \in {"header", "payload"} /\ k \in Nat /\ k >= 1
<1>1. PICK t \in Seq(Piece) : t = Rest
  BY RestTyped
<1>2. Rest[k] \in Piece /\ k \in Nat /\ k >= 1
  BY <1>1
<1> QED
  BY <1>2, PieceFields

LEMMA InRestDropped ==
  ASSUME RecordsOK, NEW d, Reads(d), NEW r, NEW n
  PROVE  /\ InRest(r, n)' => \E k \in DOMAIN Rest : k > d /\ Of(Rest[k], r, n)
         /\ (\E k \in DOMAIN Rest : k > d /\ Of(Rest[k], r, n)) => InRest(r, n)'
<1>1. InRest(r, n)' <=> \E k \in DOMAIN Rest' : Of(Rest'[k], r, n)
  BY DEF InRest, Of
<1>2. ASSUME NEW k \in DOMAIN Rest', Of(Rest'[k], r, n) PROVE \E j \in DOMAIN Rest : j > d /\ Of(Rest[j], r, n)
  <2>1. k + d \in DOMAIN Rest /\ Rest'[k] = Rest[k + d] /\ DOMAIN Rest' = 1..Len(Rest') /\ Len(Rest') \in Nat /\ d \in 1..Len(Rest) /\ Len(Rest) \in Nat
    BY DroppedRest, RestTyped
  <2>2. k + d > d
    BY <2>1
  <2> QED
    BY <1>2, <2>1, <2>2
<1>3. ASSUME NEW k \in DOMAIN Rest, k > d, Of(Rest[k], r, n) PROVE \E j \in DOMAIN Rest' : Of(Rest'[j], r, n)
  <2>1. k - d \in DOMAIN Rest' /\ Rest[k] = Rest'[k - d]
    BY <1>3, DroppedRest
  <2> QED
    BY <1>3, <2>1
<1> QED
  BY <1>1, <1>2, <1>3

StreamOK == PiecesOK(Rest) /\ PairedOK(Rest) /\ OrderedOK(Rest) /\ NotOvertaken

\* The pieces that are dropped are of one record.
OneRecord(d) == d = 1 \/ (d = 2 /\ Rest[1].part = "header" /\ ~Empty(Rest[1].kind))
WholeRecord(d) ==
  \/ d = 1 /\ (Rest[1].part = "payload" \/ Empty(Rest[1].kind))
  \/ d = 2 /\ Rest[1].part = "header" /\ ~Empty(Rest[1].kind)

LEMMA DroppedRecord ==
  ASSUME RecordsOK, StreamOK, NEW d, Reads(d), OneRecord(d)
  PROVE  /\ 1 \in DOMAIN Rest /\ Rest[1].request \in Begun /\ Rest[1].nth \in 1..Len(Script)
         /\ \A k \in DOMAIN Rest : k <= d => Rest[k].request = Rest[1].request /\ Rest[k].nth = Rest[1].nth
         /\ \A r, n : InRest(r, n)' => InRest(r, n)
         /\ \A r, n : InRest(r, n) => InRest(r, n)' \/ (r = Rest[1].request /\ n = Rest[1].nth)
         /\ \A r \in Begun : \A n : InRest(r, n)' /\ IdOf(r) = IdOf(Rest[1].request) =>
              Rest[1].request <= r /\ (r = Rest[1].request => Rest[1].nth <= n)
<1>1. PICK l \in Nat : DOMAIN Rest = 1..l /\ l = Len(Rest)
  BY RestTyped
<1>2. d \in 1..l
  BY <1>1, DroppedRest
<1>3. 1 \in DOMAIN Rest
  BY <1>1, <1>2
<1>4. Rest[1].request \in Begun /\ Rest[1].nth \in 1..Len(Script)
  BY <1>3, RestPieces DEF StreamOK, PiecesOK
<1>5. ASSUME NEW k \in DOMAIN Rest, k <= d PROVE Rest[k].request = Rest[1].request /\ Rest[k].nth = Rest[1].nth
  <2>1. k = 1 \/ (k = 2 /\ d = 2)
    BY <1>1, <1>5 DEF OneRecord
  <2>2. CASE k = 2 /\ d = 2
    <3>1. RecordOf(Rest[1 + 1]) = RecordOf(Rest[1])
      BY <1>3, <2>2 DEF OneRecord, StreamOK, PairedOK
    <3> QED
      BY <2>2, <3>1 DEF RecordOf
  <2> QED
    BY <2>1, <2>2
<1>6. \A r, n : InRest(r, n)' => InRest(r, n)
  <2> SUFFICES ASSUME NEW r, NEW n, InRest(r, n)' PROVE InRest(r, n)
    OBVIOUS
  <2>1. PICK k \in DOMAIN Rest : k > d /\ Of(Rest[k], r, n)
    BY InRestDropped
  <2> QED
    BY <2>1 DEF InRest
<1>7. \A r, n : InRest(r, n) => InRest(r, n)' \/ (r = Rest[1].request /\ n = Rest[1].nth)
  <2> SUFFICES ASSUME NEW r, NEW n, InRest(r, n), ~InRest(r, n)' PROVE r = Rest[1].request /\ n = Rest[1].nth
    OBVIOUS
  <2>1. PICK k \in DOMAIN Rest : Of(Rest[k], r, n)
    BY DEF InRest
  <2>2. ~(k > d)
    BY <2>1, InRestDropped
  <2>3. k <= d
    BY <1>1, <1>2, <2>2
  <2> QED
    BY <1>5, <2>1, <2>3 DEF Of
<1>8. ASSUME NEW r \in Begun, NEW n, InRest(r, n)', IdOf(r) = IdOf(Rest[1].request)
      PROVE  Rest[1].request <= r /\ (r = Rest[1].request => Rest[1].nth <= n)
  <2>1. PICK k \in DOMAIN Rest : k > d /\ Of(Rest[k], r, n)
    BY <1>8, InRestDropped
  <2>2. 1 < k
    BY <1>1, <1>2, <2>1
  <2> QED
    BY <1>3, <1>8, <2>1, <2>2 DEF Of, StreamOK, OrderedOK
<1> QED
  BY <1>3, <1>4, <1>5, <1>6, <1>7, <1>8

LEMMA WholeGone ==
  ASSUME RecordsOK, StreamOK, NEW d, Reads(d), WholeRecord(d), NEW r, NEW n, Of(Rest[1], r, n)
  PROVE  /\ OneRecord(d) /\ ~InRest(r, n)'
         /\ Rest' # <<>> => Rest'[1].part = "header"
<1>1. PICK l \in Nat : DOMAIN Rest = 1..l /\ l = Len(Rest)
  BY RestTyped
<1>2. d \in 1..l /\ OneRecord(d) /\ d \in {1, 2}
  BY <1>1, DroppedRest DEF WholeRecord, OneRecord
<1>3. Rest[d].part = "payload" \/ (d = 1 /\ Empty(Rest[1].kind))
  <2>1. CASE d = 2
    <3>1. Rest[1 + 1].part = "payload"
      BY <1>1, <1>2, <2>1 DEF WholeRecord, StreamOK, PairedOK
    <3> QED
      BY <2>1, <3>1
  <2>2. CASE d = 1
    BY <2>2 DEF WholeRecord
  <2> QED
    BY <1>2, <2>1, <2>2
<1>4. Rest[d].request = r /\ Rest[d].nth = n
  BY <1>1, <1>2, DroppedRecord DEF Of
<1>5. ~InRest(r, n)'
  <2> SUFFICES ASSUME InRest(r, n)' PROVE FALSE
    OBVIOUS
  <2>1. PICK k \in DOMAIN Rest : k > d /\ Of(Rest[k], r, n)
    BY InRestDropped
  <2>2. Rest[d].part = "header" /\ Rest[k].part = "payload"
    BY <1>1, <1>2, <1>4, <2>1 DEF Of, StreamOK, OrderedOK
  <2>3. Empty(Rest[1].kind) /\ d = 1
    BY <1>3, <2>2
  <2>4. Rest[k].kind = Script[n] /\ Rest[1].kind = Script[n]
    BY <1>1, <1>2, <1>4, <2>1, <2>3 DEF Of, StreamOK, PiecesOK
  <2>5. ~Empty(Rest[k].kind)
    BY <2>1, <2>2 DEF StreamOK, PiecesOK
  <2> QED
    BY <2>3, <2>4, <2>5
<1>6. ASSUME Rest' # <<>> PROVE Rest'[1].part = "header"
  <2>1. 1 \in DOMAIN Rest' /\ 1 + d \in DOMAIN Rest /\ Rest'[1] = Rest[1 + d]
    <3>1. Rest' \in Seq(Piece) /\ DOMAIN Rest' = 1..Len(Rest') /\ Len(Rest') \in Nat
      BY DroppedRest
    <3>2. 1 \in DOMAIN Rest'
      <4>1. PICK t \in Seq(Piece) : t = Rest'
        BY <3>1
      <4>2. t # <<>> => 1 \in DOMAIN t
        OBVIOUS
      <4> QED
        BY <1>6, <4>1, <4>2
    <3> QED
      BY <3>2, DroppedRest
  <2> SUFFICES ASSUME Rest[1 + d].part # "header" PROVE FALSE
    BY <2>1
  <2>2. Rest[1 + d].part = "payload" /\ ~Empty(Rest[1 + d].kind)
    BY <2>1, RestPieces DEF StreamOK, PiecesOK
  <2>3. (1 + d) - 1 = d /\ 1 + d > 1
    BY <1>1, <1>2
  <2>4. Rest[d].part = "header" /\ RecordOf(Rest[d]) = RecordOf(Rest[1 + d])
    BY <2>1, <2>2, <2>3 DEF StreamOK, PairedOK
  <2> QED
    BY <1>3, <2>2, <2>4 DEF RecordOf
<1> QED
  BY <1>2, <1>5, <1>6

LEMMA StreamRead ==
  ASSUME RecordsOK, BegunOK, StreamOK, NEW d, Reads(d), OneRecord(d)
  PROVE  StreamOK'
<1>1. PICK l \in Nat : DOMAIN Rest = 1..l /\ l = Len(Rest)
  BY RestTyped
<1>2. PICK m \in Nat : DOMAIN Rest' = 1..m /\ m = l - d /\ d \in 1..l
  BY <1>1, DroppedRest
<1>3. \A k \in 1..m : k + d \in 1..l /\ Rest'[k] = Rest[k + d]
  BY <1>1, <1>2, DroppedRest
<1>4. UNCHANGED server
  BY DEF Reads
<1>5. PiecesOK(Rest)'
  BY <1>1, <1>2, <1>3, <1>4, SMTT(20) DEF StreamOK, PiecesOK, Begun, Sent
<1>6. OrderedOK(Rest)'
  <2>1. ASSUME NEW j \in 1..m, NEW k \in 1..m, j < k, IdOf(Rest'[j].request) = IdOf(Rest'[k].request)
        PROVE  /\ Rest'[j].request <= Rest'[k].request
               /\ Rest'[j].request = Rest'[k].request =>
                    /\ Rest'[j].nth <= Rest'[k].nth
                    /\ Rest'[j].nth = Rest'[k].nth => Rest'[j].part = "header" /\ Rest'[k].part = "payload"
    <3>1. PICK a \in 1..l, b \in 1..l : a < b /\ Rest'[j] = Rest[a] /\ Rest'[k] = Rest[b]
      <4>1. j + d < k + d
        BY <1>2, <2>1
      <4> QED
        BY <1>3, <4>1
    <3> QED
      BY <1>1, <2>1, <3>1 DEF StreamOK, OrderedOK
  <2>2. \A r : IdOf(r)' = IdOf(r)
    BY <1>4 DEF IdOf
  <2> QED
    BY <1>2, <2>1, <2>2 DEF OrderedOK, IdOf
<1>7. PairedOK(Rest)'
  <2>1. ASSUME NEW k \in 1..m, Rest'[k].part = "header", ~Empty(Rest'[k].kind)
        PROVE  k + 1 \in 1..m /\ Rest'[k + 1].part = "payload" /\ RecordOf(Rest'[k + 1]) = RecordOf(Rest'[k])
    <3>1. k + d \in 1..l /\ Rest'[k] = Rest[k + d]
      BY <1>3
    <3>2. (k + d) + 1 \in 1..l /\ Rest[(k + d) + 1].part = "payload" /\ RecordOf(Rest[(k + d) + 1]) = RecordOf(Rest[k + d])
      BY <1>1, <2>1, <3>1 DEF StreamOK, PairedOK
    <3>3. k + 1 \in 1..m /\ (k + 1) + d = (k + d) + 1
      BY <1>2, <3>2
    <3>4. Rest'[k + 1] = Rest[(k + d) + 1]
      BY <1>3, <3>3
    <3> QED
      BY <3>1, <3>2, <3>3, <3>4
  <2>2. ASSUME NEW k \in 1..m, k > 1, Rest'[k].part = "payload"
        PROVE  Rest'[k - 1].part = "header" /\ RecordOf(Rest'[k - 1]) = RecordOf(Rest'[k])
    <3>1. k + d \in 1..l /\ Rest'[k] = Rest[k + d] /\ k + d > 1
      BY <1>2, <1>3
    <3>2. Rest[(k + d) - 1].part = "header" /\ RecordOf(Rest[(k + d) - 1]) = RecordOf(Rest[k + d])
      BY <1>1, <2>2, <3>1 DEF StreamOK, PairedOK
    <3>3. k - 1 \in 1..m /\ (k - 1) + d = (k + d) - 1
      BY <1>2, <2>2
    <3>4. Rest'[k - 1] = Rest[(k + d) - 1]
      BY <1>3, <3>3
    <3> QED
      BY <3>1, <3>2, <3>4
  <2> QED
    BY <1>2, <2>1, <2>2 DEF PairedOK, RecordOf
<1>8. NotOvertaken'
  <2> PICK r0, n0 : r0 = Rest[1].request /\ n0 = Rest[1].nth
    OBVIOUS
  <2>1. /\ r0 \in Begun /\ n0 \in 1..Len(Script)
        /\ \A r, n : InRest(r, n)' => InRest(r, n)
        /\ \A r, n : InRest(r, n) => InRest(r, n)' \/ (r = r0 /\ n = n0)
        /\ \A r \in Begun : \A n : InRest(r, n)' /\ IdOf(r) = IdOf(r0) => r0 <= r /\ (r = r0 => n0 <= n)
    BY DroppedRecord
  <2>2. ASSUME NEW r \in Begun, NEW n \in 1..Len(Script), NEW k \in 1..Len(Script), InRest(r, n)', n <= k, k <= Sent(r)
        PROVE  InRest(r, k)'
    <3>1. InRest(r, k)
      BY <2>1, <2>2 DEF StreamOK, NotOvertaken
    <3>2. CASE r = r0 /\ k = n0
      <4>1. n0 <= n
        BY <2>1, <2>2, <3>2
      <4>2. n = k
        BY <2>2, <3>2, <4>1, ScriptFacts
      <4> QED
        BY <2>2, <4>2
    <3> QED
      BY <2>1, <3>1, <3>2
  <2>3. ASSUME NEW r \in Begun, NEW s \in Begun, NEW n \in 1..Len(Script), r < s, IdOf(r) = IdOf(s), InRest(r, n)'
        PROVE  InRest(s, 1)'
    <3>1. InRest(s, 1)
      BY <2>1, <2>3 DEF StreamOK, NotOvertaken
    <3>2. s # r0
      <4>1. r \in Nat /\ s \in Nat
        BY DEF Begun, RecordsOK, ServerRecords
      <4>2. IdOf(r) = IdOf(r0) => r0 <= r
        BY <2>1, <2>3
      <4> QED
        BY <2>3, <4>1, <4>2
    <3> QED
      BY <2>1, <3>1, <3>2
  <2> QED
    BY <1>4, <2>2, <2>3 DEF NotOvertaken, Begun, IdOf, Sent
<1> QED
  BY <1>5, <1>6, <1>7, <1>8 DEF StreamOK

HeaderOf(r, n) == [kind |-> Script[n], nth |-> n, request |-> r, part |-> "header"]
PayloadOf(r, n) == [kind |-> Script[n], nth |-> n, request |-> r, part |-> "payload"]

\* The n-th record of r, and nothing else, is new at the end of the byte stream.
Sends(r, n) ==
  /\ r \in Requests /\ n \in 1..Len(Script) /\ UNCHANGED socket
  /\ server'.wire = server.wire \o Pieces(r, n)

LEMMA SentRest ==
  ASSUME RecordsOK, NEW r, NEW n, Sends(r, n)
  PROVE  \E l \in Nat, m \in Nat :
           /\ DOMAIN Rest = 1..l /\ DOMAIN Rest' = 1..m
           /\ m = IF Empty(Script[n]) THEN l + 1 ELSE l + 2
           /\ \A k \in 1..l : Rest'[k] = Rest[k]
           /\ Rest'[l + 1] = HeaderOf(r, n)
           /\ m = l + 2 => Rest'[l + 2] = PayloadOf(r, n)
<1> DEFINE h == HeaderOf(r, n)
           p == PayloadOf(r, n)
<1>1. h \in Piece /\ p \in Piece
  BY ScriptFacts DEF Sends, Piece, HeaderOf, PayloadOf
<1>2. Pieces(r, n) = IF Empty(Script[n]) THEN <<h>> ELSE <<h, p>>
  BY DEF Pieces, HeaderOf, PayloadOf
<1> HIDE DEF h, p
<1>3. PICK q \in Seq(Piece) :
        /\ q = Pieces(r, n) /\ Len(q) = (IF Empty(Script[n]) THEN 1 ELSE 2)
        /\ q[1] = h /\ (~Empty(Script[n]) => q[2] = p)
  <2>1. CASE Empty(Script[n])
    <3>1. <<h>> \in Seq(Piece) /\ Len(<<h>>) = 1 /\ <<h>>[1] = h
      BY <1>1
    <3> QED
      BY <1>2, <2>1, <3>1
  <2>2. CASE ~Empty(Script[n])
    <3>1. <<h, p>> \in Seq(Piece) /\ Len(<<h, p>>) = 2 /\ <<h, p>>[1] = h /\ <<h, p>>[2] = p
      BY <1>1
    <3> QED
      BY <1>2, <2>2, <3>1
  <2> QED
    BY <2>1, <2>2
<1>4. PICK s \in Seq(Piece), t \in Seq(Piece) : s = socket.in /\ t = server.wire
  BY RestTyped
<1>5. Rest' = s \o (t \o q) /\ Rest = s \o t
  BY <1>3, <1>4 DEF Rest, Sends
<1>6. PICK a \in Seq(Piece) : a = Rest
  BY RestTyped
<1>7. Rest' = a \o q
  <2>1. s \o (t \o q) = (s \o t) \o q
    BY JoinAssociative
  <2> QED
    BY <1>5, <1>6, <2>1, Zenon
<1>8. /\ a \o q \in Seq(Piece) /\ Len(a \o q) = Len(a) + Len(q)
      /\ \A k \in 1..Len(a) : (a \o q)[k] = a[k]
      /\ \A k \in 1..Len(q) : (a \o q)[Len(a) + k] = q[k]
  OBVIOUS
<1>9. PICK l \in Nat, i \in Nat : l = Len(a) /\ i = Len(q)
  OBVIOUS
<1>10. DOMAIN a = 1..l /\ DOMAIN (a \o q) = 1..(l + i)
  <2>1. PICK b \in Seq(Piece) : b = a \o q
    BY <1>8
  <2>2. DOMAIN b = 1..Len(b) /\ DOMAIN a = 1..Len(a)
    OBVIOUS
  <2> QED
    BY <1>8, <1>9, <2>1, <2>2, Zenon
<1>11. /\ \A k \in 1..l : (a \o q)[k] = a[k]
       /\ \A k \in 1..i : (a \o q)[l + k] = q[k]
  BY <1>8, <1>9, Zenon
<1>12. i = (IF Empty(Script[n]) THEN 1 ELSE 2)
  BY <1>3, <1>9
<1>13. 1 \in 1..i /\ (~Empty(Script[n]) => 2 \in 1..i)
  BY <1>12
<1>14. (a \o q)[l + 1] = h /\ (~Empty(Script[n]) => (a \o q)[l + 2] = p)
  BY <1>3, <1>11, <1>13, Zenon
<1>15. l + i \in Nat /\ (l + i = IF Empty(Script[n]) THEN l + 1 ELSE l + 2) /\ (l + i = l + 2 => ~Empty(Script[n]))
  BY <1>12
<1>16. \A k \in 1..l : Rest'[k] = Rest[k]
  BY <1>6, <1>7, <1>11, Zenon
<1>17. DOMAIN Rest = 1..l /\ DOMAIN Rest' = 1..(l + i)
  BY <1>6, <1>7, <1>10, Zenon
<1>18. Rest'[l + 1] = h /\ (l + i = l + 2 => Rest'[l + 2] = p)
  BY <1>7, <1>14, <1>15, Zenon
<1> QED
  BY <1>15, <1>16, <1>17, <1>18 DEF h, p

LEMMA InRestSent ==
  ASSUME RecordsOK, NEW r, NEW n, Sends(r, n)
  PROVE  /\ InRest(r, n)'
         /\ \A a, k : InRest(a, k) => InRest(a, k)'
         /\ \A a, k : InRest(a, k)' => InRest(a, k) \/ (a = r /\ k = n)
<1>1. PICK l \in Nat, m \in Nat :
           /\ DOMAIN Rest = 1..l /\ DOMAIN Rest' = 1..m
           /\ m = IF Empty(Script[n]) THEN l + 1 ELSE l + 2
           /\ \A k \in 1..l : Rest'[k] = Rest[k]
           /\ Rest'[l + 1] = HeaderOf(r, n)
           /\ m = l + 2 => Rest'[l + 2] = PayloadOf(r, n)
  BY SentRest
<1>2. l + 1 \in 1..m /\ \A k \in 1..l : k \in 1..m
  BY <1>1
<1>3. HeaderOf(r, n).request = r /\ HeaderOf(r, n).nth = n /\ PayloadOf(r, n).request = r /\ PayloadOf(r, n).nth = n
  BY DEF HeaderOf, PayloadOf
<1>4. InRest(r, n)'
  BY <1>1, <1>2, <1>3 DEF InRest, Of
<1>5. ASSUME NEW a, NEW k, InRest(a, k) PROVE InRest(a, k)'
  BY <1>1, <1>2, <1>5 DEF InRest, Of
<1>6. ASSUME NEW a, NEW k, InRest(a, k)' PROVE InRest(a, k) \/ (a = r /\ k = n)
  <2>1. PICK j \in 1..m : Rest'[j].request = a /\ Rest'[j].nth = k
    BY <1>1, <1>6 DEF InRest, Of
  <2>2. CASE j \in 1..l
    BY <1>1, <2>1, <2>2 DEF InRest, Of
  <2>3. CASE j \notin 1..l
    <3>1. j = l + 1 \/ (j = l + 2 /\ m = l + 2)
      BY <1>1, <2>3
    <3> QED
      BY <1>1, <1>3, <2>1, <3>1
  <2> QED
    BY <2>2, <2>3
<1> QED
  BY <1>4, <1>5, <1>6
\* It is the next record of r, which is the newest request with its id.
SendsNext(r, n) ==
  /\ Sends(r, n) /\ Begun' = Begun \union {r}
  /\ \A s \in Begun : server'.idOf[s] = IdOf(s)
  /\ \A s \in Requests \ {r} : server'.sent[s] = Sent(s)
  /\ server'.sent[r] = n /\ Sent(r) = n - 1 /\ (r \notin Begun => n = 1)
  /\ \A s \in Begun : s # r /\ server'.idOf[s] = server'.idOf[r] => s < r

LEMMA StreamSent ==
  ASSUME RecordsOK, StreamOK, NEW r, NEW n, SendsNext(r, n)
  PROVE  StreamOK'
<1>1. PICK l \in Nat, m \in Nat :
           /\ DOMAIN Rest = 1..l /\ DOMAIN Rest' = 1..m
           /\ m = IF Empty(Script[n]) THEN l + 1 ELSE l + 2
           /\ \A k \in 1..l : Rest'[k] = Rest[k]
           /\ Rest'[l + 1] = HeaderOf(r, n)
           /\ m = l + 2 => Rest'[l + 2] = PayloadOf(r, n)
  BY SentRest DEF SendsNext
<1>2. /\ HeaderOf(r, n).request = r /\ HeaderOf(r, n).nth = n /\ HeaderOf(r, n).kind = Script[n] /\ HeaderOf(r, n).part = "header"
      /\ PayloadOf(r, n).request = r /\ PayloadOf(r, n).nth = n /\ PayloadOf(r, n).kind = Script[n] /\ PayloadOf(r, n).part = "payload"
      /\ RecordOf(HeaderOf(r, n)) = RecordOf(PayloadOf(r, n))
  BY DEF HeaderOf, PayloadOf, RecordOf
<1>3. \A k \in 1..m : k \in 1..l \/ k = l + 1 \/ (k = l + 2 /\ m = l + 2 /\ ~Empty(Script[n]))
  BY <1>1
<1>4. r \in Requests /\ r \in Begun' /\ n \in 1..Len(Script) /\ Begun \subseteq Requests /\ Len(Script) \in Nat
  <2>1. Begun \subseteq Requests
    BY ConnectionAssumption DEF Begun, Requests, RecordsOK, ServerRecords
  <2> QED
    BY <2>1, ScriptFacts DEF SendsNext, Sends
<1>5. \A s \in Begun : Sent(s) \in Nat /\ server'.sent[s] \in Nat /\ Sent(s) <= server'.sent[s]
  <2>1. \A s \in Begun : Sent(s) \in Nat
    BY <1>4, ScriptFacts DEF RecordsOK, ServerRecords, Sent
  <2> QED
    BY <1>4, <2>1 DEF SendsNext
<1>6. PiecesOK(Rest)'
  <2> SUFFICES ASSUME NEW k \in 1..m
               PROVE  /\ Rest'[k].request \in Begun' /\ Rest'[k].nth <= server'.sent[Rest'[k].request]
                      /\ Rest'[k].kind = Script[Rest'[k].nth]
                      /\ Rest'[k].part = "payload" => ~Empty(Rest'[k].kind)
    BY <1>1 DEF PiecesOK, Sent
  <2>1. CASE k \in 1..l
    <3>1. /\ Rest[k].request \in Begun /\ Rest[k].nth <= Sent(Rest[k].request)
          /\ Rest[k].kind = Script[Rest[k].nth]
          /\ Rest[k].part = "payload" => ~Empty(Rest[k].kind)
      BY <1>1, <2>1 DEF StreamOK, PiecesOK
    <3>2. Rest[k].nth \in Nat
      BY <1>1, <2>1, RestPieces
    <3>3. Rest[k].nth <= server'.sent[Rest[k].request]
      BY <1>5, <3>1, <3>2
    <3> QED
      BY <1>1, <2>1, <3>1, <3>3 DEF SendsNext
  <2>2. CASE k = l + 1
    BY <1>1, <1>2, <1>4, <2>2 DEF SendsNext
  <2>3. CASE k = l + 2 /\ m = l + 2 /\ ~Empty(Script[n])
    BY <1>1, <1>2, <1>4, <2>3 DEF SendsNext
  <2> QED
    BY <1>3, <2>1, <2>2, <2>3
<1>7. PairedOK(Rest)'
  <2>1. ASSUME NEW k \in 1..m, Rest'[k].part = "header", ~Empty(Rest'[k].kind)
        PROVE  k + 1 \in 1..m /\ Rest'[k + 1].part = "payload" /\ RecordOf(Rest'[k + 1]) = RecordOf(Rest'[k])
    <3>1. CASE k \in 1..l
      <4>1. k + 1 \in 1..l /\ Rest[k + 1].part = "payload" /\ RecordOf(Rest[k + 1]) = RecordOf(Rest[k])
        BY <1>1, <2>1, <3>1 DEF StreamOK, PairedOK
      <4>2. k + 1 \in 1..m
        BY <1>1, <4>1
      <4> QED
        BY <1>1, <3>1, <4>1, <4>2
    <3>2. CASE k = l + 1
      <4>1. m = l + 2 /\ k + 1 = l + 2 /\ k + 1 \in 1..m
        BY <1>1, <1>2, <2>1, <3>2
      <4> QED
        BY <1>1, <1>2, <3>2, <4>1
    <3>3. CASE k = l + 2 /\ m = l + 2
      BY <1>1, <1>2, <2>1, <3>3
    <3> QED
      BY <1>3, <3>1, <3>2, <3>3
  <2>2. ASSUME NEW k \in 1..m, k > 1, Rest'[k].part = "payload"
        PROVE  Rest'[k - 1].part = "header" /\ RecordOf(Rest'[k - 1]) = RecordOf(Rest'[k])
    <3>1. CASE k \in 1..l
      <4>1. Rest[k - 1].part = "header" /\ RecordOf(Rest[k - 1]) = RecordOf(Rest[k]) /\ k - 1 \in 1..l
        BY <1>1, <2>2, <3>1 DEF StreamOK, PairedOK
      <4> QED
        BY <1>1, <3>1, <4>1
    <3>2. CASE k = l + 1
      BY <1>1, <1>2, <2>2, <3>2
    <3>3. CASE k = l + 2 /\ m = l + 2
      <4>1. k - 1 = l + 1
        BY <3>3
      <4> QED
        BY <1>1, <1>2, <3>3, <4>1
    <3> QED
      BY <1>3, <3>1, <3>2, <3>3
  <2> QED
    BY <1>1, <2>1, <2>2 DEF PairedOK, RecordOf
<1>8. OrderedOK(Rest)'
  <2>1. ASSUME NEW j \in 1..m, NEW k \in 1..m, j < k, server'.idOf[Rest'[j].request] = server'.idOf[Rest'[k].request]
        PROVE  /\ Rest'[j].request <= Rest'[k].request
               /\ Rest'[j].request = Rest'[k].request =>
                    /\ Rest'[j].nth <= Rest'[k].nth
                    /\ Rest'[j].nth = Rest'[k].nth => Rest'[j].part = "header" /\ Rest'[k].part = "payload"
    <3>1. CASE k \in 1..l
      <4>1. j \in 1..l
        BY <1>1, <2>1, <3>1
      <4>2. Rest[j].request \in Begun /\ Rest[k].request \in Begun
        BY <1>1, <3>1, <4>1 DEF StreamOK, PiecesOK
      <4>3. IdOf(Rest[j].request) = IdOf(Rest[k].request)
        BY <1>1, <2>1, <3>1, <4>1, <4>2 DEF SendsNext
      <4> QED
        BY <1>1, <2>1, <3>1, <4>1, <4>3 DEF StreamOK, OrderedOK
    <3>2. CASE k \notin 1..l /\ j \in 1..l
      <4>1. Rest'[k].request = r /\ Rest'[k].nth = n /\ Rest'[j] = Rest[j]
        BY <1>1, <1>2, <1>3, <3>2
      <4>2. Rest[j].request \in Begun /\ Rest[j].nth <= Sent(Rest[j].request) /\ Rest[j].request \in Nat /\ Rest[j].nth \in Nat
        BY <1>1, <3>2, RestPieces DEF StreamOK, PiecesOK
      <4>3. r \in Nat /\ n \in Nat
        BY <1>4, ConnectionAssumption DEF Requests
      <4>4. Rest[j].request <= r
        BY <2>1, <4>1, <4>2, <4>3 DEF SendsNext
      <4>5. Rest[j].request = r => Rest[j].nth < n
        BY <4>2, <4>3 DEF SendsNext
      <4> QED
        BY <4>1, <4>2, <4>3, <4>4, <4>5
    <3>3. CASE k \notin 1..l /\ j \notin 1..l
      <4>1. j = l + 1 /\ k = l + 2 /\ m = l + 2
        BY <1>1, <1>3, <2>1, <3>3
      <4>2. r \in Nat /\ n \in Nat
        BY <1>4, ConnectionAssumption DEF Requests
      <4> QED
        BY <1>1, <1>2, <4>1, <4>2
    <3> QED
      BY <3>1, <3>2, <3>3
  <2> QED
    BY <1>1, <2>1 DEF OrderedOK, IdOf
<1>9. NotOvertaken'
  <2>1. /\ InRest(r, n)'
        /\ \A a, k : InRest(a, k) => InRest(a, k)'
        /\ \A a, k : InRest(a, k)' => InRest(a, k) \/ (a = r /\ k = n)
    BY InRestSent DEF SendsNext
  <2>2. \A a, k : InRest(a, k) => a \in Begun /\ k \in 1..Len(Script) /\ k <= Sent(a)
    BY RestPieces DEF InRest, Of, StreamOK, PiecesOK
  <2>3. ASSUME NEW a \in Begun', NEW x \in 1..Len(Script), NEW y \in 1..Len(Script), InRest(a, x)', x <= y, y <= server'.sent[a]
        PROVE  InRest(a, y)'
    <3>1. CASE a # r
      <4>1. a \in Begun /\ InRest(a, x) /\ server'.sent[a] = Sent(a)
        BY <1>4, <2>1, <2>3, <3>1 DEF SendsNext
      <4> QED
        BY <2>1, <2>3, <4>1 DEF StreamOK, NotOvertaken
    <3>2. CASE a = r /\ y # n
      <4>1. y < n /\ y <= Sent(r) /\ x # n
        BY <1>4, <2>3, <3>2 DEF SendsNext
      <4>2. InRest(r, x) /\ r \in Begun
        BY <2>1, <2>2, <2>3, <3>2, <4>1
      <4> QED
        BY <2>1, <2>3, <3>2, <4>1, <4>2 DEF StreamOK, NotOvertaken
    <3> QED
      BY <2>1, <3>1, <3>2
  <2>4. ASSUME NEW a \in Begun', NEW b \in Begun', NEW x \in 1..Len(Script), a < b,
               server'.idOf[a] = server'.idOf[b], InRest(a, x)'
        PROVE  InRest(b, 1)'
    <3>0. a \in Nat /\ b \in Nat /\ r \in Nat
      BY <1>4, ConnectionAssumption DEF SendsNext, Requests
    <3>1. CASE b = r
      <4>1. CASE r \in Begun
        <5>1. a \in Begun /\ InRest(a, x) /\ IdOf(a) = IdOf(r)
          BY <2>1, <2>4, <3>0, <3>1, <4>1 DEF SendsNext
        <5> QED
          BY <2>1, <2>4, <3>1, <4>1, <5>1 DEF StreamOK, NotOvertaken
      <4>2. CASE r \notin Begun
        BY <2>1, <3>1, <4>2 DEF SendsNext
      <4> QED
        BY <4>1, <4>2
    <3>2. CASE b # r
      <4>1. b \in Begun
        BY <3>2 DEF SendsNext
      <4>2. a # r
        <5> SUFFICES ASSUME a = r PROVE FALSE
          OBVIOUS
        <5>1. b < r
          BY <2>4, <3>2, <4>1 DEF SendsNext
        <5> QED
          BY <2>4, <3>0, <5>1
      <4>3. a \in Begun /\ InRest(a, x) /\ IdOf(a) = IdOf(b)
        BY <2>1, <2>4, <4>1, <4>2 DEF SendsNext
      <4> QED
        BY <2>1, <2>4, <4>1, <4>3 DEF StreamOK, NotOvertaken
    <3> QED
      BY <3>1, <3>2
  <2> QED
    BY <2>3, <2>4 DEF NotOvertaken, IdOf, Sent
<1> QED
  BY <1>6, <1>7, <1>8, <1>9 DEF StreamOK
-----------------------------------------------------------------------------
(* Steps that leave alone what the requests have. *)

LEMMA Numbers ==
  ASSUME RecordsOK
  PROVE  /\ Begun \subseteq Requests /\ \A r \in Requests : r \in Nat /\ r >= 1
         /\ 1 \in Requests /\ server.begun \in Nat /\ \A r \in Requests : r \in Begun <=> r <= server.begun
         /\ \A r \in Requests : Sent(r) \in Nat /\ IdOf(r) \in Ids \union {0}
         /\ \A r \in Requests : request[r] \in RequestRecords
<1>1. MaxRequests \in Nat /\ MaxRequests >= 1 /\ server.begun \in 0..MaxRequests
  BY ConnectionAssumption DEF RecordsOK, ServerRecords
<1>2. \A r \in Requests : Sent(r) \in Nat /\ IdOf(r) \in Ids \union {0}
  BY ScriptFacts DEF RecordsOK, ServerRecords, Sent, IdOf
<1>3. \A r \in Requests : request[r] \in RequestRecords
  BY DEF RecordsOK
<1> QED
  BY <1>1, <1>2, <1>3 DEF Begun, Requests

LEMMA InRestSent2 ==
  ASSUME RecordsOK, StreamOK
  PROVE  \A r, n : InRest(r, n) => r \in Begun /\ n \in 1..Len(Script) /\ n <= Sent(r)
BY RestPieces DEF InRest, Of, StreamOK, PiecesOK

Quiet ==
  /\ main'.mode = main.mode /\ Rest' = Rest
  /\ server'.begun = server.begun /\ server'.idOf = server.idOf /\ server'.sent = server.sent
  /\ server.ended \subseteq server'.ended
  /\ manager'.header = manager.header /\ manager'.headers = manager.headers
  /\ manager'.streams = manager.streams /\ manager'.close = manager.close
  /\ manager.state = "deleted" => manager'.state = "deleted"
  /\ socket'.thread = socket.thread /\ socket'.parent = socket.parent
  /\ \A r \in Requests :
       /\ request'[r].phase = request[r].phase /\ request'[r].headers = request[r].headers
       /\ request'[r].body = request[r].body /\ Len(request'[r].data) <= Len(request[r].body)

LEMMA QuietStep ==
  ASSUME IInv, Quiet
  PROVE  BegunOK' /\ StreamOK' /\ AnnouncedOK' /\ HeadersOK' /\ StreamsOK' /\ BodyOK' /\ HeaderOK' /\ ThreadOK'
<1>1. Begun' = Begun /\ (\A r : IdOf(r)' = IdOf(r) /\ Sent(r)' = Sent(r)) /\ \A r \in Requests : Phase(r)' = Phase(r)
  BY DEF Quiet, Begun, IdOf, Sent, Phase
<1>2. \A r, n : InRest(r, n)' = InRest(r, n)
  BY RestSame DEF Quiet
<1>3. Begun \subseteq Requests /\ 1 \in Requests
  BY Numbers DEF IInv
<1>4. mode' = mode /\ server'.begun = server.begun
  BY DEF Quiet, mode
<1>5. BegunOK'
  BY <1>1, <1>3 DEF IInv, BegunOK, Quiet
<1>6. StreamOK'
  <2>1. PiecesOK(Rest)'
    BY <1>1 DEF IInv, PiecesOK, Quiet
  <2>2. PairedOK(Rest)'
    BY DEF IInv, PairedOK, Quiet, RecordOf
  <2>3. OrderedOK(Rest)'
    BY <1>1 DEF IInv, OrderedOK, Quiet
  <2>4. NotOvertaken'
    BY <1>1, <1>2 DEF IInv, NotOvertaken
  <2> QED
    BY <2>1, <2>2, <2>3, <2>4 DEF StreamOK
<1>7. AnnouncedOK'
  BY <1>1, <1>2, <1>3 DEF IInv, AnnouncedOK
<1>8. HeadersOK'
  <2>1. NoLateCleanup' = NoLateCleanup
    BY <1>4 DEF NoLateCleanup
  <2>2. manager'.headers = manager.headers /\ \A r \in Requests : request'[r].headers = request[r].headers
    BY DEF Quiet
  <2> QED
    BY <1>1, <1>2, <1>3, <2>1, <2>2 DEF IInv, HeadersOK
<1>9. StreamsOK'
  <2>1. manager'.streams = manager.streams /\ (manager'.state # "deleted" => manager.state # "deleted")
    BY DEF Quiet
  <2> QED
    BY <1>1, <1>3, <1>4, <2>1 DEF IInv, StreamsOK
<1>10. BodyOK'
  <2>1. \A r \in Requests : request'[r].body = request[r].body /\ Len(request'[r].data) <= Len(request'[r].body)
    BY DEF Quiet
  <2> QED
    BY <1>1, <1>2, <2>1 DEF IInv, BodyOK
<1>11. HeaderOK'
  BY <1>4 DEF IInv, HeaderOK, Quiet, RecordOf
<1>12. ThreadOK'
  BY <1>1, <1>3, <1>4 DEF IInv, ThreadOK, Quiet
<1> QED
  BY <1>5, <1>6, <1>7, <1>8, <1>9, <1>10, <1>11, <1>12
-----------------------------------------------------------------------------
(* The calls in progress. *)

\* A slot keeps running while it is called.
KeepRunning == \A r \in Requests : Phase(r) = "running" => request'[r].phase = "running"

\* When processSocketData is not called, it has looked at everything.
LookedAt == mode = "blocking" /\ manager'.state # "deleted" => socket'.in = <<>>

LEMMA TopFrame ==
  ASSUME RecordsOK
  PROVE  /\ main.stack \in Seq(Frames)
         /\ main.stack = <<>> => TopCall = "loop"
         /\ main.stack # <<>> => 1 \in DOMAIN main.stack /\ TopCall = main.stack[1].call /\ TopSlot = main.stack[1].request
         /\ \A k \in DOMAIN main.stack : k \in Nat /\ k >= 1 /\ main.stack[k] \in Frames
<1>1. PICK s \in Seq(Frames) : s = main.stack
  BY DEF RecordsOK, MainRecords
<1>2. s # <<>> => 1 \in DOMAIN s /\ Head(s) = s[1]
  OBVIOUS
<1>3. \A k \in DOMAIN s : k \in Nat /\ k >= 1 /\ s[k] \in Frames
  OBVIOUS
<1> QED
  BY <1>1, <1>2, <1>3 DEF TopCall, TopSlot

LEMMA FrameFields ==
  /\ \A b \in BOOLEAN : ReadFrame(b) \in Frames /\ ReadFrame(b).call = "read"
  /\ \A r \in Requests : /\ SlotFrame(r) \in Frames /\ SlotFrame(r).call = "slot"
                         /\ SlotFrame(r).request = r /\ SlotFrame(r).signalled = FALSE
  /\ \A f \in Frames : f.call \in {"read", "slot"} /\ (f.call = "slot" => f.request \in Requests)
<1>1. \A b \in BOOLEAN : ReadFrame(b) \in Frames /\ ReadFrame(b).call = "read"
  BY DEF Frames, ReadFrame
<1>2. \A r \in Requests : SlotFrame(r) \in Frames
  BY DEF Frames
<1>3. \A r \in Requests : SlotFrame(r).call = "slot" /\ SlotFrame(r).request = r /\ SlotFrame(r).signalled = FALSE
  BY DEF SlotFrame
<1>4. ASSUME NEW f \in Frames PROVE f.call \in {"read", "slot"} /\ (f.call = "slot" => f.request \in Requests)
  <2>1. CASE \E b \in BOOLEAN : f = ReadFrame(b)
    BY <1>1, <2>1
  <2>2. CASE \E r \in Requests : f = SlotFrame(r)
    BY <1>3, <2>2
  <2> QED
    BY <2>1, <2>2 DEF Frames
<1> QED
  BY <1>1, <1>2, <1>3, <1>4

LEMMA StackSame ==
  ASSUME RecordsOK, StackOK, main'.stack = main.stack, main'.mode = main.mode, KeepRunning,
         TopCall # "read" => LookedAt
  PROVE  StackOK'
<1>1. TopCall' = TopCall /\ mode' = mode
  BY DEF TopCall, mode
<1>2. \A k \in DOMAIN main.stack : main.stack[k].call = "slot" => main.stack[k].request \in Requests
  BY TopFrame, FrameFields
<1> QED
  BY <1>1, <1>2 DEF StackOK, KeepRunning, LookedAt, Phase

LEMMA StackPushed ==
  ASSUME RecordsOK, StackOK, NEW f \in Frames, main'.stack = <<f>> \o main.stack, main'.mode = main.mode, KeepRunning,
         mode = "blocking" => TopCall # "read",
         f.call = "slot" =>
           /\ mode # "threaded" /\ ~f.signalled /\ Phase(f.request) # "running"
           /\ request'[f.request].phase = "running" /\ LookedAt
  PROVE  StackOK'
<1>1. PICK s \in Seq(Frames) : s = main.stack
  BY TopFrame
<1>2. PICK t \in Seq(Frames) : /\ t = <<f>> \o s /\ Len(t) = Len(s) + 1
                               /\ \A k \in 1..(Len(s) + 1) : t[k] = IF k = 1 THEN f ELSE s[k - 1]
  <2>1. /\ <<f>> \o s \in Seq(Frames) /\ Len(<<f>> \o s) = Len(s) + 1
        /\ \A k \in 1..(Len(s) + 1) : (<<f>> \o s)[k] = IF k = 1 THEN f ELSE s[k - 1]
    BY PushType
  <2> QED
    BY <2>1, Zenon
<1>3. PICK l \in Nat : l = Len(s) /\ DOMAIN s = 1..l /\ DOMAIN t = 1..(l + 1)
  BY <1>2
<1>4. main'.stack = t /\ main.stack = s
  BY <1>1, <1>2
<1>5. t[1] = f /\ \A k \in 1..(l + 1) : k # 1 => k - 1 \in 1..l /\ t[k] = s[k - 1]
  <2>1. \A k \in 1..(l + 1) : k # 1 => k - 1 \in 1..l
    OBVIOUS
  <2>2. 1 \in 1..(l + 1) /\ \A k \in 1..(l + 1) : t[k] = IF k = 1 THEN f ELSE s[k - 1]
    BY <1>2, <1>3
  <2> QED
    BY <2>1, <2>2
<1>6. TopCall' = f.call
  <2>1. t # <<>> /\ Head(t) = t[1]
    BY <1>3
  <2> QED
    BY <1>4, <1>5, <2>1 DEF TopCall
<1>7. mode' = mode
  BY DEF mode
<1>8. \A k \in 1..l : s[k].call = "slot" =>
        /\ s[k].request \in Requests /\ mode # "threaded" /\ ~s[k].signalled
        /\ Phase(s[k].request) = "running" /\ request'[s[k].request].phase = "running"
  <2>1. \A k \in 1..l : s[k].call = "slot" => mode # "threaded" /\ ~s[k].signalled /\ Phase(s[k].request) = "running"
    BY <1>3, <1>4 DEF StackOK
  <2>2. \A k \in 1..l : s[k].call = "slot" => s[k].request \in Requests
    BY <1>3, <1>4, TopFrame, FrameFields
  <2> QED
    BY <2>1, <2>2 DEF KeepRunning
<1>9. \A k \in 1..(l + 1) : t[k].call = "slot" =>
        mode # "threaded" /\ ~t[k].signalled /\ request'[t[k].request].phase = "running"
  BY <1>5, <1>8
<1>10. ASSUME NEW j \in 1..(l + 1), NEW k \in 1..(l + 1), t[j].call = "slot", t[k].call = "slot", t[j].request = t[k].request
       PROVE  j = k
  <2>1. CASE j = 1 /\ k # 1
    BY <1>5, <1>8, <1>10, <2>1
  <2>2. CASE j # 1 /\ k = 1
    BY <1>5, <1>8, <1>10, <2>2
  <2>3. CASE j # 1 /\ k # 1
    <3>1. j - 1 \in 1..l /\ k - 1 \in 1..l /\ t[j] = s[j - 1] /\ t[k] = s[k - 1]
      BY <1>5, <2>3
    <3>2. \A a, b \in 1..l : s[a].call = "slot" /\ s[b].call = "slot" /\ s[a].request = s[b].request => a = b
      BY <1>3, <1>4 DEF StackOK
    <3>3. j - 1 = k - 1
      BY <1>10, <3>1, <3>2
    <3> QED
      BY <3>3
  <2> QED
    BY <2>1, <2>2, <2>3
<1>11. ASSUME mode = "blocking", NEW k \in 1..(l + 1), k > 1 PROVE t[k].call = "slot"
  <2>1. k - 1 \in 1..l /\ t[k] = s[k - 1]
    BY <1>5, <1>11
  <2>2. k - 1 > 1 => s[k - 1].call = "slot"
    BY <1>3, <1>4, <1>11, <2>1 DEF StackOK
  <2>3. k - 1 = 1 => s[1].call = "slot"
    <3> SUFFICES ASSUME k - 1 = 1 PROVE s[1].call = "slot"
      OBVIOUS
    <3>1. s # <<>> /\ 1 \in DOMAIN s
      BY <1>3, <2>1
    <3>2. s[1].call = TopCall /\ s[1] \in Frames
      BY <1>4, <3>1, TopFrame
    <3> QED
      BY <1>11, <3>2, FrameFields
  <2>4. k - 1 > 1 \/ k - 1 = 1
    BY <2>1
  <2> QED
    BY <2>1, <2>2, <2>3, <2>4
<1>12. mode = "blocking" /\ f.call # "read" /\ manager'.state # "deleted" => socket'.in = <<>>
  BY FrameFields DEF LookedAt
<1> QED
  BY <1>3, <1>4, <1>6, <1>7, <1>9, <1>10, <1>11, <1>12 DEF StackOK, Phase

LEMMA StackPopped ==
  ASSUME RecordsOK, StackOK, main.stack # <<>>, main'.stack = Tail(main.stack), main'.mode = main.mode, LookedAt,
         \A k \in DOMAIN main.stack : k # 1 /\ main.stack[k].call = "slot" =>
           request'[main.stack[k].request].phase = "running"
  PROVE  StackOK'
<1>1. PICK s \in Seq(Frames) : s = main.stack
  BY TopFrame
<1>2. PICK t \in Seq(Frames) : /\ t = Tail(s) /\ Len(t) = Len(s) - 1 /\ Len(s) > 0
                               /\ \A k \in 1..(Len(s) - 1) : t[k] = s[k + 1]
  <2>1. s # <<>>
    BY <1>1
  <2>2. /\ Tail(s) \in Seq(Frames) /\ Len(Tail(s)) = Len(s) - 1 /\ Len(s) > 0
        /\ \A k \in 1..(Len(s) - 1) : Tail(s)[k] = s[k + 1]
    BY <2>1, TailType
  <2> QED
    BY <2>2, Zenon
<1>3. PICK l \in Nat : l = Len(t) /\ DOMAIN s = 1..(l + 1) /\ DOMAIN t = 1..l
  <2>1. Len(s) \in Nat /\ DOMAIN s = 1..Len(s) /\ Len(t) \in Nat /\ DOMAIN t = 1..Len(t)
    OBVIOUS
  <2>2. Len(s) = Len(t) + 1
    BY <1>2, <2>1
  <2> QED
    BY <2>1, <2>2
<1>4. main'.stack = t /\ main.stack = s
  BY <1>1, <1>2
<1>5. \A k \in 1..l : k + 1 \in 1..(l + 1) /\ k + 1 # 1 /\ k + 1 > 1 /\ t[k] = s[k + 1]
  <2>1. l = Len(s) - 1
    BY <1>2, <1>3
  <2>2. \A k \in 1..l : t[k] = s[k + 1]
    BY <1>2, <2>1
  <2> QED
    BY <2>2
<1>6. mode' = mode
  BY DEF mode
<1>7. \A k \in 1..l : t[k].call = "slot" =>
        mode # "threaded" /\ ~t[k].signalled /\ request'[t[k].request].phase = "running"
  BY <1>3, <1>4, <1>5 DEF StackOK
<1>8. ASSUME NEW j \in 1..l, NEW k \in 1..l, t[j].call = "slot", t[k].call = "slot", t[j].request = t[k].request
      PROVE  j = k
  <2>1. j + 1 = k + 1
    BY <1>3, <1>4, <1>5, <1>8, SMTT(20) DEF StackOK
  <2> QED
    BY <2>1
<1>9. ASSUME mode = "blocking", NEW k \in 1..l, k > 1 PROVE t[k].call = "slot"
  BY <1>3, <1>4, <1>5, <1>9 DEF StackOK
<1> QED
  BY <1>3, <1>4, <1>6, <1>7, <1>8, <1>9 DEF StackOK, Phase, LookedAt
LEMMA StackKept ==
  ASSUME RecordsOK, StackOK, main'.stack = main.stack, main'.mode = main.mode, KeepRunning,
         socket'.in = socket.in, manager.state = "deleted" => manager'.state = "deleted"
  PROVE  StackOK'
<1>1. TopCall # "read" => LookedAt
  BY DEF StackOK, LookedAt
<1> QED
  BY <1>1, StackSame

-----------------------------------------------------------------------------
(* Elements of queues. *)

LEMMA AppendElements ==
  ASSUME NEW S, NEW s \in Seq(S), NEW e \in S
  PROVE  /\ Append(s, e) \in Seq(S)
         /\ \A k \in DOMAIN Append(s, e) : Append(s, e)[k] = e \/ \E j \in DOMAIN s : Append(s, e)[k] = s[j]
<1>1. PICK t \in Seq(S) : t = Append(s, e) /\ Len(t) = Len(s) + 1 /\ t[Len(s) + 1] = e /\ \A k \in 1..Len(s) : t[k] = s[k]
  <2>1. /\ Append(s, e) \in Seq(S) /\ Len(Append(s, e)) = Len(s) + 1 /\ Append(s, e)[Len(s) + 1] = e
        /\ \A k \in 1..Len(s) : Append(s, e)[k] = s[k]
    OBVIOUS
  <2> QED
    BY <2>1, Zenon
<1>2. \A k \in DOMAIN t : k = Len(s) + 1 \/ k \in 1..Len(s)
  BY <1>1
<1>3. DOMAIN s = 1..Len(s)
  OBVIOUS
<1> QED
  BY <1>1, <1>2, <1>3, Zenon

LEMMA TailElements ==
  ASSUME NEW S, NEW s \in Seq(S), s # <<>>
  PROVE  /\ Tail(s) \in Seq(S) /\ Head(s) \in S /\ 1 \in DOMAIN s /\ Head(s) = s[1]
         /\ \A k \in DOMAIN Tail(s) : \E j \in DOMAIN s : Tail(s)[k] = s[j]
<1>1. PICK t \in Seq(S) : t = Tail(s) /\ Len(t) = Len(s) - 1 /\ \A k \in 1..(Len(s) - 1) : t[k] = s[k + 1]
  <2>1. Tail(s) \in Seq(S) /\ Len(Tail(s)) = Len(s) - 1 /\ \A k \in 1..(Len(s) - 1) : Tail(s)[k] = s[k + 1]
    BY TailType
  <2> QED
    BY <2>1, Zenon
<1>2. \A k \in DOMAIN t : k \in 1..(Len(s) - 1) /\ k + 1 \in DOMAIN s
  BY <1>1
<1>3. Head(s) \in S /\ 1 \in DOMAIN s /\ Head(s) = s[1]
  OBVIOUS
<1> QED
  BY <1>1, <1>2, <1>3, Zenon

-----------------------------------------------------------------------------
(* The steps that leave alone what the requests have. *)

EventsOK ==
  \A k \in DOMAIN main.events :
    main.events[k][1] = "cleanup" => mode = "threaded" /\ Phase(main.events[k][2]) = "deleted"

LEMMA QuietInv ==
  ASSUME IInv, Quiet, RecordsOK', EndedOK', StackOK', ManagerOK'
  PROVE  IInv'
BY QuietStep DEF IInv, StreamOK

LEMMA EventFields ==
  ASSUME RecordsOK
  PROVE  /\ main.events \in Seq(Events)
         /\ \A e \in Events : e[1] = "cleanup" => e[2] \in Requests
         /\ Check \in Events /\ Check[1] = "check" /\ \A r \in Requests : Cleanup(r) \in Events /\ Cleanup(r) = <<"cleanup", r>>
         /\ \A k \in DOMAIN main.events : main.events[k] \in Events
<1>1. PICK s \in Seq(Events) : s = main.events
  BY DEF RecordsOK, MainRecords
<1>2. \A k \in DOMAIN s : s[k] \in Events
  OBVIOUS
<1> QED
  BY <1>1, <1>2 DEF Events, Check, Cleanup

LEMMA QuietManager ==
  ASSUME IInv, Quiet, manager'.state = manager.state \/ manager.state # "alive",
         \A k \in DOMAIN main'.events : main'.events[k] = Check \/ \E j \in DOMAIN main.events : main'.events[k] = main.events[j]
  PROVE  ManagerOK'
<1>1. \A r \in Requests : Phase(r)' = Phase(r)
  BY DEF Quiet, Phase
<1>2. mode' = mode /\ server'.begun = server.begun /\ manager'.close = manager.close
  BY DEF Quiet, mode
<1>3. 1 \in Requests
  BY Numbers DEF IInv
<1>4. ASSUME NEW k \in DOMAIN main'.events, main'.events[k][1] = "cleanup"
      PROVE  mode = "threaded" /\ request'[main'.events[k][2]].phase = "deleted"
  <2>1. PICK j \in DOMAIN main.events : main'.events[k] = main.events[j]
    <3>1. Check[1] = "check"
      BY EventFields DEF IInv
    <3> QED
      BY <1>4, <3>1
  <2>2. main.events[j][2] \in Requests
    BY <1>4, <2>1, EventFields DEF IInv
  <2>3. mode = "threaded" /\ Phase(main.events[j][2]) = "deleted"
    BY <1>4, <2>1 DEF IInv, ManagerOK
  <2> QED
    BY <2>1, <2>2, <2>3 DEF Phase, Quiet
<1>5. (KeepConn => manager.state = "alive" /\ \A i \in Ids : ~manager.close[i])'
  BY <1>2 DEF IInv, ManagerOK
<1>6. (~KeepConn /\ ~Multiplex /\ manager.state # "alive" => Phase(1) = "deleted")'
  BY <1>1, <1>3 DEF IInv, ManagerOK
<1>7. (KeepConn \/ Multiplex \/ server.begun <= 1)'
  BY <1>2 DEF IInv, ManagerOK
<1> QED
  BY <1>2, <1>4, <1>5, <1>6, <1>7 DEF ManagerOK, Phase

LEMMA OutputFields ==
  ASSUME RecordsOK
  PROVE  /\ socket.out \in Seq(Outputs) /\ \A k \in DOMAIN socket.out : socket.out[k].request \in Requests
         /\ \A x \in Outputs : x.request \in Requests /\ x.kind \in {"out", "end"}
<1>1. PICK s \in Seq(Outputs) : s = socket.out
  BY DEF RecordsOK, SocketRecords
<1>2. \A k \in DOMAIN s : s[k] \in Outputs
  OBVIOUS
<1>3. \A x \in Outputs : x.request \in Requests /\ x.kind \in {"out", "end"}
  BY DEF Outputs
<1> QED
  BY <1>1, <1>2, <1>3

LEMMA EndedSame ==
  ASSUME IInv, server'.ended = server.ended, socket'.out = socket.out, \A r \in Requests : request'[r].phase = request[r].phase
  PROVE  EndedOK'
<1>1. \A r \in server.ended : r \in Requests
  BY DEF IInv, RecordsOK, ServerRecords
<1> QED
  BY <1>1, OutputFields DEF IInv, EndedOK, Phase

LEMMA ArriveStep ==
  ASSUME IInv, Arrive
  PROVE  IInv'
<1>1. PICK t \in Seq(Piece), s \in Seq(Piece) : t = server.wire /\ s = socket.in /\ t # <<>>
  BY RestTyped DEF IInv, Arrive
<1>2. Tail(t) \in Seq(Piece) /\ Head(t) \in Piece /\ Append(s, Head(t)) \in Seq(Piece)
  BY <1>1
<1>3. server' = [server EXCEPT !.wire = Tail(t)] /\ socket' = [socket EXCEPT !.in = Append(s, Head(t))]
  BY <1>1 DEF Arrive
<1>4. Rest' = Rest
  <2>1. Append(s, Head(t)) \o Tail(t) = s \o t
    BY <1>1, JoinArrive
  <2>2. socket'.in = Append(s, Head(t)) /\ server'.wire = Tail(t)
    BY <1>3 DEF IInv, RecordsOK, SocketRecords, ServerRecords
  <2> QED
    BY <1>1, <2>1, <2>2 DEF Rest
<1>5. main'.mode = main.mode /\ UNCHANGED <<manager, request, crashed>>
  BY DEF Arrive, IInv, RecordsOK, MainRecords
<1>6. Quiet
  BY <1>3, <1>4, <1>5 DEF Quiet, IInv, RecordsOK, ServerRecords, SocketRecords, BodyOK
<1>7. \/ UNCHANGED main /\ manager.state = "deleted"
      \/ socket.thread = Main /\ main' = [main EXCEPT !.stack = Signalled]
      \/ socket.thread # Main /\ main' = [main EXCEPT !.events = Append(main.events, Check)]
  BY DEF Arrive
<1>8. main \in MainRecords /\ RecordsOK
  BY DEF IInv, RecordsOK
<1>9. Signalled \in Seq(Frames) /\ Append(main.events, Check) \in Seq(Events)
  <2>1. <<ReadFrame(TRUE)>> \o main.stack \in Seq(Frames)
    BY <1>8, FrameFields, TopFrame, PushType
  <2>2. Append(main.events, Check) \in Seq(Events)
    BY <1>8, EventFields, AppendElements
  <2> QED
    BY <1>8, <2>1, <2>2, TopFrame DEF Signalled, Entered
<1>10. main' \in MainRecords
  BY <1>7, <1>8, <1>9 DEF MainRecords
<1>11. RecordsOK'
  <2>1. server' \in ServerRecords
    BY <1>2, <1>3, <1>8 DEF RecordsOK, ServerRecords
  <2>2. socket' \in SocketRecords
    BY <1>2, <1>3, <1>8 DEF RecordsOK, SocketRecords
  <2> QED
    BY <1>5, <1>8, <1>10, <2>1, <2>2 DEF RecordsOK
<1>12. EndedOK'
  BY <1>3, <1>5, EndedSame DEF IInv, RecordsOK, ServerRecords, SocketRecords
<1>13. ManagerOK'
  <2>1. \A k \in DOMAIN main'.events : main'.events[k] = Check \/ \E j \in DOMAIN main.events : main'.events[k] = main.events[j]
    <3>1. CASE main'.events = main.events
      BY <3>1
    <3>2. CASE main'.events = Append(main.events, Check)
      BY <1>8, <3>2, EventFields, AppendElements
    <3> QED
      BY <1>7, <1>8, <3>1, <3>2 DEF MainRecords
  <2> QED
    BY <1>5, <1>6, <2>1, QuietManager
<1>14. StackOK'
  <2>1. KeepRunning /\ StackOK
    BY <1>5 DEF KeepRunning, Phase, IInv
  <2>2. CASE UNCHANGED main /\ manager.state = "deleted"
    <3>1. LookedAt
      BY <1>5, <2>2 DEF LookedAt
    <3> QED
      BY <1>8, <2>1, <2>2, <3>1, StackSame
  <2>3. CASE socket.thread # Main /\ main' = [main EXCEPT !.events = Append(main.events, Check)]
    <3>1. LookedAt
      BY <2>3 DEF LookedAt, IInv, ThreadOK
    <3>2. main'.stack = main.stack
      BY <1>8, <2>3 DEF MainRecords
    <3> QED
      BY <1>5, <1>8, <2>1, <3>1, <3>2, StackSame
  <2>4. CASE socket.thread = Main /\ main' = [main EXCEPT !.stack = Signalled]
    <3>1. main'.stack = Signalled /\ TopCall # "read"
      BY <1>8, <2>4 DEF MainRecords, Arrive, ServesSocket
    <3>2. CASE \E i \in 1..Len(main.stack) : main.stack[i].signalled
      <4>1. main'.stack = main.stack
        BY <3>1, <3>2 DEF Signalled
      <4>2. PICK i \in DOMAIN main.stack : main.stack[i].signalled /\ main.stack # <<>>
        <5>1. PICK a \in Seq(Frames) : a = main.stack
          BY <1>8, TopFrame
        <5>2. \A i \in 1..Len(a) : i \in DOMAIN a /\ a # <<>>
          OBVIOUS
        <5> QED
          BY <3>2, <5>1, <5>2
      <4>3. mode # "blocking"
        <5> SUFFICES ASSUME mode = "blocking" PROVE FALSE
          OBVIOUS
        <5>1. main.stack[i].call = "slot"
          <6>1. CASE i = 1
            BY <1>8, <3>1, <4>2, <6>1, TopFrame, FrameFields
          <6>2. CASE i # 1
            <7>1. i > 1
              BY <1>8, <6>2, TopFrame
            <7> QED
              BY <2>1, <7>1 DEF StackOK
          <6> QED
            BY <6>1, <6>2
        <5> QED
          BY <2>1, <4>2, <5>1 DEF StackOK
      <4>4. LookedAt
        BY <4>3 DEF LookedAt
      <4> QED
        BY <1>5, <1>8, <2>1, <4>1, <4>4, StackSame
    <3>3. CASE ~\E i \in 1..Len(main.stack) : main.stack[i].signalled
      <4>1. main'.stack = <<ReadFrame(TRUE)>> \o main.stack
        BY <3>1, <3>3 DEF Signalled, Entered
      <4>2. PICK f \in Frames : f = ReadFrame(TRUE) /\ f.call = "read"
        BY FrameFields
      <4> QED
        BY <1>5, <1>8, <2>1, <3>1, <4>1, <4>2, StackPushed
    <3> QED
      BY <3>2, <3>3
  <2> QED
    BY <1>7, <2>2, <2>3, <2>4
<1> QED
  BY <1>6, <1>11, <1>12, <1>13, <1>14, QuietInv
LEMMA CheckStep ==
  ASSUME IInv, CheckTimeout \/ QueuedCheck
  PROVE  IInv'
<1>1. RecordsOK /\ StackOK /\ main \in MainRecords
  BY DEF IInv, RecordsOK
<1>2. UNCHANGED <<server, socket, manager, request, crashed>> /\ TopCall # "read"
  BY DEF CheckTimeout, QueuedCheck, InMainLoop, NextEvent
<1>3. PICK s \in Seq(Frames), e \in Seq(Events), n \in Nat :
        /\ s = <<ReadFrame(FALSE)>> \o main.stack
        /\ main' = [main EXCEPT !.checks = n, !.events = e, !.stack = s]
        /\ \A k \in DOMAIN e : \E j \in DOMAIN main.events : e[k] = main.events[j]
  <2>1. <<ReadFrame(FALSE)>> \o main.stack \in Seq(Frames)
    BY <1>1, FrameFields, TopFrame, PushType
  <2>2. CASE CheckTimeout
    <3>1. main.checks - 1 \in Nat
      BY <1>1, <2>2 DEF CheckTimeout, CheckDue, MainRecords
    <3>2. main' = [main EXCEPT !.checks = main.checks - 1, !.events = main.events, !.stack = <<ReadFrame(FALSE)>> \o main.stack]
      BY <1>1, <2>2 DEF CheckTimeout, Entered, MainRecords
    <3> QED
      BY <1>1, <2>1, <3>1, <3>2, EventFields
  <2>3. CASE QueuedCheck
    <3>1. main.events # <<>>
      BY <2>3 DEF QueuedCheck, NextEvent
    <3>2. Tail(main.events) \in Seq(Events) /\ \A k \in DOMAIN Tail(main.events) : \E j \in DOMAIN main.events : Tail(main.events)[k] = main.events[j]
      BY <1>1, <3>1, EventFields, TailElements
    <3>3. main' = [main EXCEPT !.checks = main.checks, !.events = Tail(main.events), !.stack = <<ReadFrame(FALSE)>> \o main.stack]
      BY <1>1, <2>3 DEF QueuedCheck, Entered, MainRecords
    <3> QED
      BY <1>1, <2>1, <3>2, <3>3 DEF MainRecords
  <2> QED
    BY <2>2, <2>3
<1>4. main' \in MainRecords /\ main'.mode = main.mode /\ main'.events = e /\ main'.stack = s
  BY <1>1, <1>3 DEF MainRecords
<1>5. Quiet
  BY <1>2, <1>4 DEF Quiet, Rest, IInv, BodyOK
<1>6. RecordsOK'
  BY <1>1, <1>2, <1>4 DEF RecordsOK
<1>7. EndedOK'
  BY <1>2, EndedSame
<1>8. ManagerOK'
  BY <1>2, <1>3, <1>4, <1>5, QuietManager
<1>9. StackOK'
  <2>1. PICK f \in Frames : f = ReadFrame(FALSE) /\ f.call = "read"
    BY FrameFields
  <2>2. KeepRunning
    BY <1>2 DEF KeepRunning, Phase
  <2> QED
    BY <1>1, <1>2, <1>3, <1>4, <2>1, <2>2, StackPushed
<1> QED
  BY <1>5, <1>6, <1>7, <1>8, <1>9, QuietInv

LEMMA ProcessDoneStep ==
  ASSUME IInv, ProcessDone
  PROVE  IInv'
<1>1. RecordsOK /\ StackOK /\ main \in MainRecords
  BY DEF IInv, RecordsOK
<1>2. UNCHANGED <<server, socket, manager, request, crashed>> /\ TopCall = "read" /\ socket.in = <<>>
  BY DEF ProcessDone
<1>3. main.stack # <<>>
  BY <1>2 DEF TopCall
<1>4. Tail(main.stack) \in Seq(Frames) /\ main' = [main EXCEPT !.stack = Tail(main.stack)]
  BY <1>1, <1>3, TopFrame, TailType DEF ProcessDone
<1>5. main' \in MainRecords /\ main'.mode = main.mode /\ main'.events = main.events /\ main'.stack = Tail(main.stack)
  BY <1>1, <1>4 DEF MainRecords
<1>6. Quiet
  BY <1>2, <1>5 DEF Quiet, Rest, IInv, BodyOK
<1>7. RecordsOK'
  BY <1>1, <1>2, <1>5 DEF RecordsOK
<1>8. EndedOK'
  BY <1>2, EndedSame
<1>9. ManagerOK'
  BY <1>2, <1>5, <1>6, QuietManager
<1>10. StackOK'
  <2>1. LookedAt
    BY <1>2 DEF LookedAt
  <2>2. \A k \in DOMAIN main.stack : k # 1 /\ main.stack[k].call = "slot" =>
           request'[main.stack[k].request].phase = "running"
    BY <1>1, <1>2 DEF StackOK, Phase
  <2> QED
    BY <1>1, <1>3, <1>5, <2>1, <2>2, StackPopped
<1> QED
  BY <1>6, <1>7, <1>8, <1>9, <1>10, QuietInv

LEMMA LoadedStep ==
  ASSUME IInv, NEW r \in Requests, NEW w \in {"no", "yes", "over"}, Loaded(r, w),
         UNCHANGED <<server, socket, manager, main, crashed>>
  PROVE  IInv'
<1>1. RecordsOK /\ StackOK /\ request \in [Requests -> RequestRecords]
  BY DEF IInv, RecordsOK
<1>2. PICK b \in Seq(Requests), d \in Seq(1..BodyRecords) :
        b = request[r].body /\ d = request[r].data /\ Len(d) <= Len(b) /\ Len(b) <= BodyRecords
  BY <1>1 DEF RequestRecords, IInv, BodyOK
<1>3. PICK n \in Nat : n = Len(b) - Len(d) /\ n <= BodyRecords
  <2>1. PICK x \in Nat, y \in Nat, z \in Nat : x = Len(b) /\ y = Len(d) /\ z = BodyRecords
    BY ConnectionAssumption
  <2>2. y <= x /\ x <= z
    BY <1>2, <2>1
  <2>3. x - y \in Nat /\ x - y <= z
    BY <2>2
  <2> QED
    BY <2>1, <2>3
<1>4. PICK a \in Seq(1..BodyRecords) : a = ReadAll(r) /\ Len(a) = n
  <2>1. ReadAll(r) = [k \in 1..n |-> k]
    BY <1>2, <1>3 DEF ReadAll
  <2>2. [k \in 1..n |-> k] \in Seq(1..BodyRecords) /\ Len([k \in 1..n |-> k]) = n
    BY <1>3, ConnectionAssumption
  <2> QED
    BY <2>1, <2>2, Zenon
<1>5. PICK t \in Seq(1..BodyRecords) : t = d \o a /\ Len(t) = Len(b)
  <2>1. d \o a \in Seq(1..BodyRecords) /\ Len(d \o a) = Len(d) + Len(a)
    OBVIOUS
  <2>2. Len(d) + Len(a) = Len(b)
    BY <1>3, <1>4
  <2> QED
    BY <2>1, <2>2, Zenon
<1>6. request' = [request EXCEPT ![r].data = t, ![r].wait = w]
  BY <1>2, <1>4, <1>5 DEF Loaded
<1>7. /\ request' \in [Requests -> RequestRecords]
      /\ \A s \in Requests : /\ request'[s].phase = request[s].phase /\ request'[s].headers = request[s].headers
                             /\ request'[s].body = request[s].body
      /\ request'[r].data = t /\ \A s \in Requests \ {r} : request'[s].data = request[s].data
  <2>1. PICK q : q = [request[r] EXCEPT !.data = t, !.wait = w]
    OBVIOUS
  <2>2. request[r] \in RequestRecords
    BY <1>1
  <2>3. q \in RequestRecords /\ q.phase = request[r].phase /\ q.headers = request[r].headers /\ q.body = request[r].body /\ q.data = t
    BY <2>1, <2>2 DEF RequestRecords
  <2>4. request' = [request EXCEPT ![r] = q]
    BY <1>1, <1>6, <2>1
  <2> QED
    BY <1>1, <2>3, <2>4
<1>8. \A s \in Requests : Len(request'[s].data) <= Len(request[s].body)
  <2>1. \A s \in Requests : s # r => Len(request'[s].data) <= Len(request[s].body)
    BY <1>7 DEF IInv, BodyOK
  <2>2. Len(request'[r].data) <= Len(request[r].body)
    <3>1. Len(b) \in Nat
      OBVIOUS
    <3> QED
      BY <1>2, <1>5, <1>7, <3>1
  <2> QED
    BY <2>1, <2>2
<1>9. Quiet
  BY <1>7, <1>8 DEF Quiet, Rest
<1>10. RecordsOK'
  BY <1>1, <1>7 DEF RecordsOK
<1>11. EndedOK'
  BY <1>7, EndedSame
<1>12. ManagerOK'
  BY <1>9, QuietManager
<1>13. StackOK'
  <2>1. KeepRunning
    BY <1>7 DEF KeepRunning, Phase
  <2> QED
    BY <1>1, <2>1, StackKept
<1> QED
  BY <1>9, <1>10, <1>11, <1>12, <1>13, QuietInv

LEMMA WriteStep ==
  ASSUME IInv, NEW r \in Requests, Write(r)
  PROVE  IInv'
<1>1. RecordsOK /\ StackOK /\ request \in [Requests -> RequestRecords] /\ socket \in SocketRecords
  BY DEF IInv, RecordsOK
<1>2. UNCHANGED <<server, manager, main, crashed>>
  BY DEF Write
<1>3. PICK x \in Outputs : x = [kind |-> "out", request |-> r] /\ x.kind # "end"
  <2>1. [kind |-> "out", request |-> r] \in Outputs
    BY DEF Outputs
  <2> QED
    BY <2>1
<1>4. PICK o \in Seq(Outputs) : /\ o = Append(socket.out, x)
                                /\ \A k \in DOMAIN o : o[k] = x \/ \E j \in DOMAIN socket.out : o[k] = socket.out[j]
  <2>1. PICK s \in Seq(Outputs) : s = socket.out
    BY <1>1 DEF SocketRecords
  <2>2. Append(s, x) \in Seq(Outputs) /\ \A k \in DOMAIN Append(s, x) : Append(s, x)[k] = x \/ \E j \in DOMAIN s : Append(s, x)[k] = s[j]
    BY AppendElements
  <2> QED
    BY <2>1, <2>2, Zenon
<1>5. socket' = [socket EXCEPT !.out = o] /\ request' = [request EXCEPT ![r].written = TRUE]
  BY <1>3, <1>4 DEF Write
<1>6. /\ socket' \in SocketRecords /\ socket'.in = socket.in /\ socket'.thread = socket.thread
      /\ socket'.parent = socket.parent /\ socket'.out = o
  BY <1>1, <1>5 DEF SocketRecords
<1>7. /\ request' \in [Requests -> RequestRecords]
      /\ \A s \in Requests : /\ request'[s].phase = request[s].phase /\ request'[s].headers = request[s].headers
                             /\ request'[s].body = request[s].body /\ request'[s].data = request[s].data
  <2>1. PICK q : q = [request[r] EXCEPT !.written = TRUE]
    OBVIOUS
  <2>2. request[r] \in RequestRecords
    BY <1>1
  <2>3. q \in RequestRecords /\ q.phase = request[r].phase /\ q.headers = request[r].headers /\ q.body = request[r].body /\ q.data = request[r].data
    BY <2>1, <2>2 DEF RequestRecords
  <2>4. request' = [request EXCEPT ![r] = q]
    BY <1>1, <1>5, <2>1
  <2> QED
    BY <1>1, <2>3, <2>4
<1>8. Quiet
  BY <1>2, <1>6, <1>7 DEF Quiet, Rest, IInv, BodyOK
<1>9. RecordsOK'
  BY <1>1, <1>2, <1>6, <1>7 DEF RecordsOK
<1>10. EndedOK'
  <2>1. \A k \in DOMAIN o : o[k].kind = "end" => o[k].request \in Requests /\ Phase(o[k].request) = "deleted"
    BY <1>1, <1>3, <1>4, OutputFields DEF IInv, EndedOK
  <2>2. \A s \in server.ended : s \in Requests /\ Phase(s) = "deleted"
    BY <1>1 DEF IInv, EndedOK, RecordsOK, ServerRecords
  <2> QED
    BY <1>2, <1>6, <1>7, <2>1, <2>2 DEF EndedOK, Phase
<1>11. ManagerOK'
  BY <1>2, <1>8, QuietManager
<1>12. StackOK'
  <2>1. KeepRunning
    BY <1>7 DEF KeepRunning, Phase
  <2> QED
    BY <1>1, <1>2, <1>6, <2>1, StackKept
<1> QED
  BY <1>8, <1>9, <1>10, <1>11, <1>12, QuietInv
\* Only the flushers of some requests change.
FlushersChange(R, f) ==
  request' = [r \in Requests |-> IF r \in R THEN [request[r] EXCEPT !.flusher = f] ELSE request[r]]

LEMMA FlusherFields ==
  ASSUME RecordsOK, NEW R, NEW f \in {"none", "waiting", "doomed", "deleted"}, FlushersChange(R, f)
  PROVE  /\ request' \in [Requests -> RequestRecords]
         /\ \A r \in Requests : /\ request'[r].phase = request[r].phase /\ request'[r].headers = request[r].headers
                                /\ request'[r].body = request[r].body /\ request'[r].data = request[r].data
                                /\ request'[r].flusher = IF r \in R THEN f ELSE request[r].flusher
<1>1. ASSUME NEW q \in RequestRecords
      PROVE  /\ [q EXCEPT !.flusher = f] \in RequestRecords
             /\ [q EXCEPT !.flusher = f].phase = q.phase /\ [q EXCEPT !.flusher = f].headers = q.headers
             /\ [q EXCEPT !.flusher = f].body = q.body /\ [q EXCEPT !.flusher = f].data = q.data
             /\ [q EXCEPT !.flusher = f].flusher = f
  BY DEF RequestRecords
<1>2. \A r \in Requests : request[r] \in RequestRecords
  BY DEF RecordsOK
<1>3. \A r \in Requests : request'[r] = IF r \in R THEN [request[r] EXCEPT !.flusher = f] ELSE request[r]
  BY DEF FlushersChange
<1>4. request' \in [Requests -> RequestRecords]
  BY <1>1, <1>2 DEF FlushersChange
<1> QED
  BY <1>1, <1>2, <1>3, <1>4

LEMMA TransmitStep ==
  ASSUME IInv, Transmit
  PROVE  IInv'
<1>1. RecordsOK /\ StackOK /\ socket \in SocketRecords /\ server \in ServerRecords
  BY DEF IInv, RecordsOK
<1>2. UNCHANGED <<manager, main, crashed>> /\ socket.out # <<>>
  BY DEF Transmit
<1>3. PICK o \in Seq(Outputs), sent \in Outputs :
        /\ o = Tail(socket.out) /\ sent = Head(socket.out) /\ 1 \in DOMAIN socket.out /\ sent = socket.out[1]
        /\ \A k \in DOMAIN o : \E j \in DOMAIN socket.out : o[k] = socket.out[j]
  <2>1. PICK s \in Seq(Outputs) : s = socket.out
    BY <1>1, OutputFields
  <2>2. /\ Tail(s) \in Seq(Outputs) /\ Head(s) \in Outputs /\ 1 \in DOMAIN s /\ Head(s) = s[1]
        /\ \A k \in DOMAIN Tail(s) : \E j \in DOMAIN s : Tail(s)[k] = s[j]
    BY <1>2, <2>1, TailElements
  <2> QED
    BY <2>1, <2>2, Zenon
<1>4. socket' = [socket EXCEPT !.out = o]
  BY <1>3 DEF Transmit
<1>5. /\ socket' \in SocketRecords /\ socket'.in = socket.in /\ socket'.thread = socket.thread
      /\ socket'.parent = socket.parent /\ socket'.out = o
  BY <1>1, <1>4 DEF SocketRecords
<1>6. PICK E \in SUBSET Requests :
        /\ server' = [server EXCEPT !.ended = E] /\ server.ended \subseteq E
        /\ \A r \in E : r \in server.ended \/ (r = sent.request /\ sent.kind = "end")
  <2>1. sent.request \in Requests
    BY <1>1, OutputFields
  <2>2. CASE sent.kind = "end"
    <3>1. server' = [server EXCEPT !.ended = server.ended \union {sent.request}]
      BY <1>3, <2>2 DEF Transmit
    <3>2. server.ended \in SUBSET Requests
      BY <1>1 DEF ServerRecords
    <3> QED
      BY <2>1, <2>2, <3>1, <3>2
  <2>3. CASE sent.kind # "end"
    <3>1. server' = server
      BY <1>3, <2>3 DEF Transmit
    <3>2. server' = [server EXCEPT !.ended = server.ended] /\ server.ended \in SUBSET Requests
      BY <1>1, <3>1 DEF ServerRecords
    <3> QED
      BY <3>2
  <2> QED
    BY <2>2, <2>3
<1>7. /\ server' \in ServerRecords /\ server'.ended = E /\ server'.wire = server.wire /\ server'.begun = server.begun
      /\ server'.idOf = server.idOf /\ server'.sent = server.sent
  BY <1>1, <1>6 DEF ServerRecords
<1>8. FlushersChange({r \in Requests : request[r].flusher = "waiting" /\ socket'.out = <<>>}, "doomed")
  BY DEF Transmit, FlushersChange
<1>9. /\ request' \in [Requests -> RequestRecords]
      /\ \A s \in Requests : /\ request'[s].phase = request[s].phase /\ request'[s].headers = request[s].headers
                             /\ request'[s].body = request[s].body /\ request'[s].data = request[s].data
  BY <1>1, <1>8, FlusherFields
<1>10. Quiet
  BY <1>2, <1>5, <1>6, <1>7, <1>9 DEF Quiet, Rest, IInv, BodyOK
<1>11. RecordsOK'
  BY <1>1, <1>2, <1>5, <1>7, <1>9 DEF RecordsOK
<1>12. EndedOK'
  <2>1. \A k \in DOMAIN o : o[k].kind = "end" => o[k].request \in Requests /\ Phase(o[k].request) = "deleted"
    BY <1>1, <1>3, OutputFields DEF IInv, EndedOK
  <2>2. \A s \in E : s \in Requests /\ Phase(s) = "deleted"
    BY <1>1, <1>3, <1>6 DEF IInv, EndedOK
  <2> QED
    BY <1>5, <1>7, <1>9, <2>1, <2>2 DEF EndedOK, Phase
<1>13. ManagerOK'
  BY <1>2, <1>10, QuietManager
<1>14. StackOK'
  <2>1. KeepRunning
    BY <1>9 DEF KeepRunning, Phase
  <2> QED
    BY <1>1, <1>2, <1>5, <2>1, StackKept
<1> QED
  BY <1>10, <1>11, <1>12, <1>13, <1>14, QuietInv

LEMMA DeleteStep ==
  ASSUME IInv, NEW R \in SUBSET Requests, NEW b \in BOOLEAN, DeleteObjects(R, b), b => manager.state = "doomed"
  PROVE  IInv'
<1>1. RecordsOK /\ StackOK /\ socket \in SocketRecords /\ manager \in Manager /\ main \in MainRecords
  BY DEF IInv, RecordsOK
<1>2. UNCHANGED <<server, crashed>>
  BY DEF DeleteObjects
<1>3. PICK a \in BOOLEAN : socket' = [socket EXCEPT !.alive = a]
  <2>1. PICK gone : socket' = [socket EXCEPT !.alive = @ /\ socket.parent \notin gone]
    BY DEF DeleteObjects
  <2>2. PICK c : c = (socket.alive /\ socket.parent \notin gone)
    OBVIOUS
  <2>3. c \in BOOLEAN
    BY <1>1, <2>2 DEF SocketRecords
  <2>4. socket' = [socket EXCEPT !.alive = c]
    BY <2>1, <2>2
  <2> QED
    BY <2>3, <2>4
<1>4. /\ socket' \in SocketRecords /\ socket'.in = socket.in /\ socket'.thread = socket.thread
      /\ socket'.parent = socket.parent /\ socket'.out = socket.out
  BY <1>1, <1>3 DEF SocketRecords
<1>5. /\ manager' \in Manager /\ manager'.header = manager.header /\ manager'.headers = manager.headers
      /\ manager'.streams = manager.streams /\ manager'.close = manager.close
      /\ manager'.state = manager.state \/ (manager'.state = "deleted" /\ manager.state = "doomed")
  <2>1. CASE b
    <3>1. manager' = [manager EXCEPT !.state = "deleted"] /\ manager.state = "doomed"
      BY <2>1 DEF DeleteObjects
    <3> QED
      BY <1>1, <3>1 DEF Manager
  <2>2. CASE ~b
    BY <1>1, <2>2 DEF DeleteObjects
  <2> QED
    BY <2>1, <2>2
<1>6. /\ main' \in MainRecords /\ main'.stack = main.stack /\ main'.mode = main.mode
      /\ \A k \in DOMAIN main'.events : \E j \in DOMAIN main.events : main'.events[k] = main.events[j]
  <2>1. CASE b
    <3>1. main' = [main EXCEPT !.checks = 0, !.events = <<>>]
      BY <2>1 DEF DeleteObjects
    <3>2. <<>> \in Seq(Events) /\ \A k \in DOMAIN <<>> : FALSE
      OBVIOUS
    <3> QED
      BY <1>1, <3>1, <3>2 DEF MainRecords
  <2>2. CASE ~b
    BY <1>1, <2>2 DEF DeleteObjects
  <2> QED
    BY <2>1, <2>2
<1>7. FlushersChange(R, "deleted")
  BY DEF DeleteObjects, FlushersChange
<1>8. /\ request' \in [Requests -> RequestRecords]
      /\ \A s \in Requests : /\ request'[s].phase = request[s].phase /\ request'[s].headers = request[s].headers
                             /\ request'[s].body = request[s].body /\ request'[s].data = request[s].data
  BY <1>1, <1>7, FlusherFields
<1>9. Quiet
  BY <1>2, <1>4, <1>5, <1>6, <1>8 DEF Quiet, Rest, IInv, BodyOK
<1>10. RecordsOK'
  BY <1>1, <1>2, <1>4, <1>5, <1>6, <1>8 DEF RecordsOK
<1>11. EndedOK'
  BY <1>2, <1>4, <1>8, EndedSame
<1>12. ManagerOK'
  BY <1>5, <1>6, <1>9, QuietManager
<1>13. StackOK'
  <2>1. KeepRunning
    BY <1>8 DEF KeepRunning, Phase
  <2> QED
    BY <1>1, <1>4, <1>5, <1>6, <2>1, StackKept
<1> QED
  BY <1>9, <1>10, <1>11, <1>12, <1>13, QuietInv

LEMMA CrashStep ==
  ASSUME IInv, UNCHANGED <<server, socket, manager, main, request>>, crashed' \in BOOLEAN
  PROVE  IInv'
<1>1. RecordsOK /\ StackOK
  BY DEF IInv
<1>2. Quiet
  BY DEF Quiet, Rest, IInv, BodyOK
<1>3. RecordsOK'
  BY <1>1 DEF RecordsOK
<1>4. EndedOK'
  BY EndedSame
<1>5. ManagerOK'
  BY <1>2, QuietManager
<1>6. StackOK'
  <2>1. KeepRunning
    BY DEF KeepRunning, Phase
  <2> QED
    BY <1>1, <2>1, StackKept
<1> QED
  BY <1>2, <1>3, <1>4, <1>5, <1>6, QuietInv
-----------------------------------------------------------------------------
(* The web server sends. *)

LEMMA SentTyped ==
  ASSUME RecordsOK, NEW r \in Requests, NEW n \in 1..Len(Script)
  PROVE  server.wire \o Pieces(r, n) \in Seq(Piece)
<1>1. HeaderOf(r, n) \in Piece /\ PayloadOf(r, n) \in Piece
  BY ScriptFacts DEF Piece, HeaderOf, PayloadOf
<1>2. PICK h \in Piece, p \in Piece : h = HeaderOf(r, n) /\ p = PayloadOf(r, n)
  BY <1>1
<1>3. <<h>> \in Seq(Piece) /\ <<h, p>> \in Seq(Piece)
  OBVIOUS
<1>4. Pieces(r, n) \in Seq(Piece)
  BY <1>2, <1>3 DEF Pieces, HeaderOf, PayloadOf
<1>5. PICK a \in Seq(Piece), b \in Seq(Piece) : a = server.wire /\ b = Pieces(r, n)
  BY <1>4, RestTyped
<1> QED
  BY <1>5

LEMMA SendsHeader ==
  ASSUME IInv, NEW r, NEW n, SendsNext(r, n), UNCHANGED <<manager, main>>
  PROVE  HeaderOK'
<1>1. PICK l \in Nat, m \in Nat :
           /\ DOMAIN Rest = 1..l /\ DOMAIN Rest' = 1..m
           /\ m = IF Empty(Script[n]) THEN l + 1 ELSE l + 2
           /\ \A k \in 1..l : Rest'[k] = Rest[k]
           /\ Rest'[l + 1] = HeaderOf(r, n)
           /\ m = l + 2 => Rest'[l + 2] = PayloadOf(r, n)
  BY SentRest DEF SendsNext, IInv
<1>2. Rest = <<>> <=> l = 0
  <2>1. PICK s \in Seq(Piece) : s = Rest
    BY RestTyped DEF IInv
  <2>2. s = <<>> <=> Len(s) = 0
    OBVIOUS
  <2>3. Len(s) = l
    <3>1. DOMAIN s = 1..Len(s) /\ Len(s) \in Nat
      OBVIOUS
    <3>2. PICK k \in Nat : k = Len(s) /\ 1..k = 1..l
      BY <1>1, <2>1, <3>1
    <3>3. k >= 1 => k \in 1..l
      BY <3>2
    <3>4. l >= 1 => l \in 1..k
      BY <3>2
    <3>5. k = l
      BY <3>3, <3>4
    <3> QED
      BY <3>2, <3>5
  <2> QED
    BY <2>1, <2>2, <2>3
<1>3. mode' = mode /\ manager' = manager
  BY DEF mode
<1>4. Rest' # <<>>
  BY <1>1
<1>5. CASE l = 0
  <2>1. Rest'[1] = HeaderOf(r, n)
    BY <1>1, <1>5
  <2>2. Rest'[1].part = "header"
    BY <2>1 DEF HeaderOf
  <2>3. manager.header = NoRecord
    BY <1>2, <1>5 DEF IInv, HeaderOK
  <2> QED
    BY <1>3, <2>2, <2>3 DEF HeaderOK
<1>6. CASE l # 0
  <2>1. Rest'[1] = Rest[1] /\ Rest # <<>>
    BY <1>1, <1>2, <1>6
  <2> QED
    BY <1>3, <1>4, <2>1 DEF HeaderOK, IInv, RecordOf
<1> QED
  BY <1>5, <1>6

LEMMA SendsInv ==
  ASSUME IInv, NEW r, NEW n, SendsNext(r, n), UNCHANGED <<manager, main, request, crashed>>,
         server' \in ServerRecords, server'.ended = server.ended, server.begun <= server'.begun,
         server'.idOf[r] \in Ids, KeepConn \/ Multiplex \/ server'.begun <= 1,
         \A s \in Begun : s # r /\ server'.idOf[s] = server'.idOf[r] => s \in server.ended
  PROVE  IInv'
<1>1. /\ RecordsOK /\ StreamOK /\ r \in Requests /\ n \in 1..Len(Script) /\ UNCHANGED socket
      /\ Begun' = Begun \union {r}
      /\ \A s \in Begun : server'.idOf[s] = IdOf(s)
      /\ \A s \in Requests \ {r} : server'.sent[s] = Sent(s)
      /\ server'.sent[r] = n /\ Sent(r) = n - 1 /\ (r \notin Begun => n = 1)
      /\ \A s \in Begun : s # r /\ server'.idOf[s] = server'.idOf[r] => s < r
  BY DEF SendsNext, Sends, IInv, StreamOK
<1>2. /\ InRest(r, n)'
      /\ \A a, k : InRest(a, k) => InRest(a, k)'
      /\ \A a, k : InRest(a, k)' => InRest(a, k) \/ (a = r /\ k = n)
  BY <1>1, InRestSent DEF SendsNext
<1>3. \A a, k : InRest(a, k) => a \in Begun /\ k \in 1..Len(Script) /\ k <= Sent(a)
  BY <1>1, InRestSent2
<1>4. \A a : Phase(a)' = Phase(a)
  BY DEF Phase
<1>5. /\ Begun \subseteq Requests /\ (\A a \in Requests : a \in Nat /\ a >= 1 /\ Sent(a) \in Nat)
      /\ server.begun \in Nat /\ server'.begun \in Nat /\ n \in Nat /\ n >= 1 /\ mode' = mode
  BY <1>1, Numbers, ScriptFacts DEF mode, ServerRecords
<1>6. BegunOK'
  <2>1. \A a \in Begun' : server'.idOf[a] \in Ids /\ server'.sent[a] >= 1
    BY <1>1, <1>5 DEF IInv, BegunOK
  <2>2. \A a \in Requests \ Begun' : server'.sent[a] = 0 /\ Phase(a) = "none"
    BY <1>1 DEF IInv, BegunOK
  <2>3. \A a, b \in Begun' : a < b /\ server'.idOf[a] = server'.idOf[b] => a \in server.ended
    <3> SUFFICES ASSUME NEW a \in Begun', NEW b \in Begun', a < b, server'.idOf[a] = server'.idOf[b]
                 PROVE  a \in server.ended
      OBVIOUS
    <3>0. a \in Nat /\ b \in Nat /\ r \in Nat
      BY <1>1, <1>5
    <3>1. CASE b = r
      BY <1>1, <3>0, <3>1
    <3>2. CASE b # r /\ a = r
      <4>1. b < r
        BY <1>1, <3>2
      <4> QED
        BY <3>0, <3>2, <4>1
    <3>3. CASE b # r /\ a # r
      BY <1>1, <3>3 DEF IInv, BegunOK
    <3> QED
      BY <3>1, <3>2, <3>3
  <2>4. \A a \in Begun' : Phase(a) # "none" => server'.sent[a] >= 3
    <3> SUFFICES ASSUME NEW a \in Begun', Phase(a) # "none" PROVE server'.sent[a] >= 3
      OBVIOUS
    <3>1. a \in Begun /\ Sent(a) >= 3
      BY <1>1 DEF IInv, BegunOK
    <3> QED
      BY <1>1, <1>5, <3>1
  <2> QED
    BY <1>4, <2>1, <2>2, <2>3, <2>4 DEF BegunOK, IdOf, Sent
<1>7. AnnouncedOK'
  <2> SUFFICES ASSUME NEW a \in Begun', NEW k \in 1..3, Phase(a) # "none", InRest(a, k)'
               PROVE  FALSE
    BY <1>4 DEF AnnouncedOK
  <2>1. a \in Begun /\ Sent(a) >= 3
    BY <1>1 DEF IInv, BegunOK
  <2>2. ~InRest(a, k)
    BY <2>1 DEF IInv, AnnouncedOK
  <2>3. a = r /\ k = n
    BY <1>2, <2>2
  <2> QED
    BY <1>1, <1>5, <2>1, <2>3
<1>8. HeadersOK'
  <2> SUFFICES ASSUME NoLateCleanup'
               PROVE  /\ \A a \in Begun' : Phase(a) = "none" /\ ~InRest(a, 1)' =>
                           manager.headers[server'.idOf[a]] = IF server'.sent[a] >= 2 /\ ~InRest(a, 2)' THEN {a} ELSE {}
                      /\ \A a \in Begun' : Phase(a) # "none" => request[a].headers = {a}
    BY <1>4 DEF HeadersOK, IdOf, Sent
  <2>1. NoLateCleanup
    BY <1>5 DEF NoLateCleanup
  <2>2. ASSUME NEW a \in Begun', Phase(a) = "none", ~InRest(a, 1)'
        PROVE  manager.headers[server'.idOf[a]] = IF server'.sent[a] >= 2 /\ ~InRest(a, 2)' THEN {a} ELSE {}
    <3>1. a \in Begun /\ ~InRest(a, 1) /\ ~(a = r /\ n = 1)
      BY <1>1, <1>2, <2>2
    <3>2. manager.headers[IdOf(a)] = IF Sent(a) >= 2 /\ ~InRest(a, 2) THEN {a} ELSE {}
      BY <2>1, <2>2, <3>1 DEF IInv, HeadersOK
    <3>3. (server'.sent[a] >= 2 /\ ~InRest(a, 2)') <=> (Sent(a) >= 2 /\ ~InRest(a, 2))
      <4>1. CASE a # r
        BY <1>1, <1>2, <1>5, <3>1, <4>1
      <4>2. CASE a = r /\ n = 2
        <5>1. Sent(a) = 1
          BY <1>1, <4>2
        <5> QED
          BY <1>2, <4>2, <5>1
      <4>3. CASE a = r /\ n # 2
        <5>1. Sent(a) >= 2 /\ server'.sent[a] >= 2
          BY <1>1, <1>5, <3>1, <4>3
        <5> QED
          BY <1>2, <4>3, <5>1
      <4> QED
        BY <4>1, <4>2, <4>3
    <3> QED
      BY <1>1, <3>1, <3>2, <3>3
  <2>3. ASSUME NEW a \in Begun', Phase(a) # "none" PROVE request[a].headers = {a}
    <3>1. a \in Begun
      BY <1>1, <2>3 DEF IInv, BegunOK
    <3> QED
      BY <2>1, <2>3, <3>1 DEF IInv, HeadersOK
  <2> QED
    BY <2>2, <2>3
<1>9. StreamsOK'
  BY <1>1, <1>4, <1>5 DEF IInv, StreamsOK, IdOf
<1>10. BodyOK'
  <2> SUFFICES ASSUME NEW a \in Requests
               PROVE  /\ \A k \in DOMAIN request[a].body : request[a].body[k] = a
                      /\ Len(request[a].body) <= BodyRecords /\ Len(request[a].data) <= Len(request[a].body)
                      /\ request[a].body # <<>> => Len(request[a].body) + 3 <= server'.sent[a]
                      /\ \A k \in 4..Len(Script) : InRest(a, k)' => Len(request[a].body) < k - 3
    BY DEF BodyOK, Sent
  <2>1. PICK b \in Seq(Requests) : b = request[a].body
    BY <1>1 DEF RecordsOK, RequestRecords
  <2>2. PICK l \in Nat : l = Len(b) /\ (b = <<>> => l = 0)
    OBVIOUS
  <2>3. /\ \A k \in DOMAIN b : b[k] = a
        /\ l <= BodyRecords /\ Len(request[a].data) <= l
        /\ b # <<>> => l + 3 <= Sent(a)
        /\ \A k \in 4..Len(Script) : InRest(a, k) => l < k - 3
    BY <2>1, <2>2 DEF IInv, BodyOK
  <2>4. Sent(a) <= server'.sent[a] /\ Sent(a) \in Nat /\ server'.sent[a] \in Nat
    <3>1. a = r \/ server'.sent[a] = Sent(a)
      BY <1>1
    <3>2. Sent(a) \in Nat
      BY <1>5
    <3>3. CASE a = r
      BY <1>1, <1>5, <3>2, <3>3
    <3> QED
      BY <3>1, <3>2, <3>3
  <2>5. b # <<>> => l + 3 <= server'.sent[a]
    BY <2>3, <2>4
  <2>6. ASSUME NEW k \in 4..Len(Script), InRest(a, k)' PROVE l < k - 3
    <3>1. CASE InRest(a, k)
      BY <2>3, <3>1
    <3>2. CASE a = r /\ k = n
      <4>1. Sent(a) = k - 1
        BY <1>1, <3>2
      <4> QED
        BY <2>2, <2>3, <4>1
    <3> QED
      BY <1>2, <2>6, <3>1, <3>2
  <2> QED
    BY <2>1, <2>2, <2>3, <2>5, <2>6
<1>11. HeaderOK'
  BY SendsHeader
<1>12. ThreadOK'
  BY <1>1, <1>4, <1>5 DEF IInv, ThreadOK
<1>13. RecordsOK' /\ EndedOK' /\ StreamOK'
  BY <1>1, StreamSent, EndedSame DEF RecordsOK
<1>14. StackOK'
  <2>1. KeepRunning /\ StackOK
    BY DEF KeepRunning, Phase, IInv
  <2> QED
    BY <1>1, <2>1, StackKept
<1>15. ManagerOK'
  BY <1>1, <1>4, <1>5 DEF IInv, ManagerOK
<1> QED
  BY <1>6, <1>7, <1>8, <1>9, <1>10, <1>11, <1>12, <1>13, <1>14, <1>15 DEF IInv, StreamOK

LEMMA SendRecordStep ==
  ASSUME IInv, NEW r \in Requests, SendRecord(r)
  PROVE  IInv'
<1>1. server \in ServerRecords /\ RecordsOK
  BY DEF IInv, RecordsOK
<1>2. PICK n \in 1..Len(Script) : n = Sent(r) + 1 /\ n - 1 = Sent(r)
  <2>1. Sent(r) \in Nat /\ Len(Script) \in Nat /\ Sent(r) + 1 <= Len(Script)
    BY <1>1, Numbers, ScriptFacts DEF SendRecord, Sent
  <2> QED
    BY <2>1
<1>3. r \in Begun /\ r \notin server.ended
  BY DEF SendRecord, Outstanding, Begun
<1>4. server' = [server EXCEPT !.sent[r] = n, !.wire = server.wire \o Pieces(r, n)]
  BY <1>2 DEF SendRecord, Sent
<1>5. server.wire \o Pieces(r, n) \in Seq(Piece)
  BY <1>1, SentTyped
<1>6. /\ server' \in ServerRecords /\ server'.ended = server.ended /\ server'.begun = server.begun /\ server'.idOf = server.idOf
      /\ server'.wire = server.wire \o Pieces(r, n)
      /\ server'.sent[r] = n /\ \A s \in Requests \ {r} : server'.sent[s] = server.sent[s]
  <2>1. n \in 0..Len(Script)
    BY ScriptFacts
  <2> QED
    BY <1>1, <1>4, <1>5, <2>1 DEF ServerRecords
<1>7. UNCHANGED <<socket, manager, main, request, crashed>>
  BY DEF SendRecord
<1>8. \A s \in Begun : s # r /\ server'.idOf[s] = server'.idOf[r] => s < r /\ s \in server.ended
  <2> SUFFICES ASSUME NEW s \in Begun, s # r, IdOf(s) = IdOf(r) PROVE s < r /\ s \in server.ended
    BY <1>6 DEF IdOf
  <2>1. r \in Nat /\ s \in Nat
    BY <1>1, Numbers
  <2>2. ~(r < s)
    BY <1>3 DEF IInv, BegunOK
  <2>3. s < r
    BY <2>1, <2>2
  <2> QED
    BY <1>3, <2>3 DEF IInv, BegunOK
<1>9. SendsNext(r, n)
  BY <1>2, <1>3, <1>6, <1>7, <1>8 DEF SendsNext, Sends, Begun, IdOf, Sent
<1>10. server'.idOf[r] \in Ids
  BY <1>3, <1>6 DEF IInv, BegunOK, IdOf
<1>11. server.begun <= server'.begun /\ (KeepConn \/ Multiplex \/ server'.begun <= 1)
  BY <1>1, <1>6, Numbers DEF IInv, ManagerOK
<1> QED
  BY <1>6, <1>7, <1>8, <1>9, <1>10, <1>11, SendsInv

LEMMA BeginRequestStep ==
  ASSUME IInv, NEW i \in Ids, BeginRequest(i)
  PROVE  IInv'
<1>1. server \in ServerRecords /\ RecordsOK
  BY DEF IInv, RecordsOK
<1>2. PICK r \in Requests : r = server.begun + 1
  BY DEF BeginRequest
<1>3. /\ server' = [server EXCEPT !.begun = r, !.idOf[r] = i, !.sent[r] = 1, !.wire = server.wire \o Pieces(r, 1)]
      /\ r = 1 \/ KeepConn \/ Multiplex
      /\ \A s \in Outstanding : server.idOf[s] # i
  BY <1>2 DEF BeginRequest
<1>4. 1 \in 1..Len(Script) /\ 1 \in 0..Len(Script)
  BY ScriptFacts, ConnectionAssumption
<1>5. server.wire \o Pieces(r, 1) \in Seq(Piece)
  BY <1>1, <1>4, SentTyped
<1>6. r \in 0..MaxRequests
  BY DEF Requests
<1>7. /\ server' \in ServerRecords /\ server'.ended = server.ended /\ server'.begun = r
      /\ server'.wire = server.wire \o Pieces(r, 1)
      /\ server'.sent[r] = 1 /\ \A s \in Requests \ {r} : server'.sent[s] = server.sent[s]
      /\ server'.idOf[r] = i /\ \A s \in Requests \ {r} : server'.idOf[s] = server.idOf[s]
  <2>1. PICK f : f = [server.idOf EXCEPT ![r] = i]
    OBVIOUS
  <2>2. PICK g : g = [server.sent EXCEPT ![r] = 1]
    OBVIOUS
  <2>3. f \in [Requests -> Ids \union {0}] /\ f[r] = i /\ \A s \in Requests \ {r} : f[s] = server.idOf[s]
    BY <1>1, <2>1 DEF ServerRecords
  <2>4. g \in [Requests -> 0..Len(Script)] /\ g[r] = 1 /\ \A s \in Requests \ {r} : g[s] = server.sent[s]
    BY <1>1, <1>4, <2>2 DEF ServerRecords
  <2>5. server' = [server EXCEPT !.begun = r, !.idOf = f, !.sent = g, !.wire = server.wire \o Pieces(r, 1)]
    BY <1>1, <1>3, <2>1, <2>2 DEF ServerRecords
  <2>6. /\ server' \in ServerRecords /\ server'.ended = server.ended /\ server'.begun = r
        /\ server'.wire = server.wire \o Pieces(r, 1) /\ server'.idOf = f /\ server'.sent = g
    BY <1>1, <1>5, <1>6, <2>3, <2>4, <2>5 DEF ServerRecords
  <2> QED
    BY <2>3, <2>4, <2>6
<1>8. UNCHANGED <<socket, manager, main, request, crashed>>
  BY DEF BeginRequest
<1>9. /\ server.begun \in Nat /\ r \in Nat /\ r \notin Begun /\ Begun' = Begun \union {r}
      /\ \A s \in Begun : s < r /\ s # r /\ s \in Requests
  <2>1. server.begun \in Nat /\ Begun \subseteq Requests
    BY <1>1, Numbers
  <2> QED
    BY <1>2, <1>7, <2>1 DEF Begun
<1>10. \A s \in Begun : s # r /\ server'.idOf[s] = server'.idOf[r] => s < r /\ s \in server.ended
  BY <1>3, <1>7, <1>9 DEF Outstanding, Begun
<1>11. Sent(r) = 0
  BY <1>9 DEF IInv, BegunOK
<1>12. SendsNext(r, 1)
  <2>1. Sends(r, 1)
    BY <1>4, <1>7, <1>8 DEF Sends
  <2>2. \A s \in Begun : server'.idOf[s] = IdOf(s)
    BY <1>7, <1>9 DEF IdOf
  <2>3. \A s \in Requests \ {r} : server'.sent[s] = Sent(s)
    BY <1>7 DEF Sent
  <2>4. server'.sent[r] = 1 /\ Sent(r) = 1 - 1
    BY <1>7, <1>11
  <2> QED
    BY <1>9, <1>10, <2>1, <2>2, <2>3, <2>4 DEF SendsNext
<1>13. server.begun <= server'.begun /\ (KeepConn \/ Multiplex \/ server'.begun <= 1)
  BY <1>2, <1>3, <1>7, <1>9
<1> QED
  BY <1>7, <1>8, <1>10, <1>12, <1>13, SendsInv
-----------------------------------------------------------------------------
(* processSocketData reads a record. *)

Parents == {<<"manager", 0>>} \union ({"stream", "flusher"} \X Requests)

\* The n-th record of r is read, with the last that is left of it.
ReadEffect(r, n) ==
  /\ r \in Begun /\ r \in Requests /\ n \in 1..Len(Script) /\ n <= Sent(r)
  /\ InRest(r, n) /\ ~InRest(r, n)'
  /\ \A a, k : InRest(a, k)' => InRest(a, k)
  /\ \A a, k : InRest(a, k) => InRest(a, k)' \/ (a = r /\ k = n)
  /\ \A a \in Begun : \A k : InRest(a, k) /\ IdOf(a) = IdOf(r) => r <= a /\ (a = r => n <= k)
  /\ StreamOK' /\ (Rest' # <<>> => Rest'[1].part = "header")
  /\ UNCHANGED <<server, crashed>>
  /\ socket' \in SocketRecords /\ socket'.out = socket.out /\ socket'.thread = socket.thread

LEMMA NextIs ==
  ASSUME IInv, NextRecord # NoRecord
  PROVE  /\ TopCall = "read" /\ Rest # <<>> /\ 1 \in DOMAIN Rest /\ NextRecord = RecordOf(Rest[1])
         /\ NextLength \in 1..Len(socket.in) /\ WholeRecord(NextLength)
<1>1. RecordsOK
  BY DEF IInv
<1>2. PICK l \in Nat, m \in Nat : l = Len(socket.in) /\ m = Len(Rest) /\ DOMAIN Rest = 1..m /\ l <= m
  BY <1>1, RestTyped
<1>3. \A k \in 1..l : Rest[k] = socket.in[k]
  BY <1>1, <1>2, RestTyped
<1>4. TopCall = "read"
  BY DEF NextRecord
<1>5. Len(socket.in) >= 1
  <2>1. PieceAt(1, "payload") \/ PieceAt(1, "header")
    BY <1>4 DEF NextRecord
  <2> QED
    BY <2>1 DEF PieceAt
<1>6. 1 \in 1..l /\ 1 \in DOMAIN Rest /\ Rest[1] = socket.in[1] /\ Rest # <<>>
  <2>1. 1 \in 1..l /\ 1 \in 1..m /\ m # 0
    BY <1>2, <1>5
  <2> QED
    BY <1>1, <1>2, <1>3, <2>1, RestTyped
<1>7. CASE manager.header # NoRecord
  <2>1. PieceAt(1, "payload") /\ NextRecord = manager.header
    BY <1>4, <1>7 DEF NextRecord
  <2>2. NextLength = 1
    BY <1>7 DEF NextLength
  <2>3. manager.header = RecordOf(Rest[1])
    BY <1>7 DEF IInv, HeaderOK
  <2> QED
    BY <1>2, <1>4, <1>6, <2>1, <2>2, <2>3 DEF WholeRecord, PieceAt
<1>8. CASE manager.header = NoRecord
  <2>1. /\ PieceAt(1, "header") /\ (Empty(socket.in[1].kind) \/ PieceAt(2, "payload"))
        /\ NextRecord = RecordOf(socket.in[1])
    BY <1>4, <1>8 DEF NextRecord
  <2>2. NextLength = IF ~Empty(socket.in[1].kind) THEN 2 ELSE 1
    BY <1>8 DEF NextLength
  <2>3. ~Empty(socket.in[1].kind) => 2 \in 1..l
    BY <1>2, <2>1 DEF PieceAt
  <2> QED
    BY <1>2, <1>4, <1>6, <2>1, <2>2, <2>3 DEF WholeRecord, PieceAt
<1> QED
  BY <1>7, <1>8

LEMMA ConsumeEffect ==
  ASSUME IInv, NextRecord # NoRecord, NEW m, NEW parent \in Parents, Consume(m, parent)
  PROVE  /\ TopCall = "read" /\ ReadEffect(NextRecord.request, NextRecord.nth)
         /\ NextRecord.kind = Script[NextRecord.nth]
         /\ manager' = [m EXCEPT !.header = NoRecord] /\ socket'.parent = parent
<1>1. RecordsOK /\ StreamOK /\ BegunOK /\ socket \in SocketRecords
  BY DEF IInv, StreamOK, RecordsOK
<1>2. PICK d \in 1..Len(socket.in) : d = NextLength /\ WholeRecord(d)
  BY NextIs
<1>3. TopCall = "read" /\ Rest # <<>> /\ 1 \in DOMAIN Rest /\ NextRecord = RecordOf(Rest[1])
  BY NextIs
<1>4. PICK r, n : r = NextRecord.request /\ n = NextRecord.nth
  OBVIOUS
<1>5. Of(Rest[1], r, n) /\ NextRecord.kind = Rest[1].kind
  BY <1>3, <1>4 DEF RecordOf, Of
<1>6. manager' = [m EXCEPT !.header = NoRecord] /\ UNCHANGED <<server, crashed>>
  BY DEF Consume, HeaderAfterwards
<1>7. PICK u \in Seq(Piece) : u = SubSeq(socket.in, d + 1, Len(socket.in))
  <2>1. PICK s \in Seq(Piece) : s = socket.in
    BY <1>1, RestTyped
  <2>2. SubSeq(s, d + 1, Len(s)) \in Seq(Piece)
    BY <1>2, <2>1
  <2> QED
    BY <2>1, <2>2
<1>8. socket' = [socket EXCEPT !.in = u, !.parent = parent]
  BY <1>2, <1>7 DEF Consume
<1>9. /\ socket' \in SocketRecords /\ socket'.in = u /\ socket'.out = socket.out
      /\ socket'.thread = socket.thread /\ socket'.parent = parent
  BY <1>1, <1>7, <1>8 DEF SocketRecords, Parents
<1>10. Reads(d)
  BY <1>2, <1>6, <1>7, <1>9 DEF Reads
<1>11. OneRecord(d) /\ ~InRest(r, n)' /\ (Rest' # <<>> => Rest'[1].part = "header")
  BY <1>1, <1>2, <1>5, <1>10, WholeGone
<1>12. StreamOK'
  BY <1>1, <1>10, <1>11, StreamRead
<1>13. /\ Rest[1].request \in Begun /\ Rest[1].nth \in 1..Len(Script)
       /\ \A a, k : InRest(a, k)' => InRest(a, k)
       /\ \A a, k : InRest(a, k) => InRest(a, k)' \/ (a = Rest[1].request /\ k = Rest[1].nth)
       /\ \A a \in Begun : \A k : InRest(a, k)' /\ IdOf(a) = IdOf(Rest[1].request) =>
            Rest[1].request <= a /\ (a = Rest[1].request => Rest[1].nth <= k)
  BY <1>1, <1>10, <1>11, DroppedRecord
<1>14. Rest[1].request = r /\ Rest[1].nth = n
  BY <1>5 DEF Of
<1>15. InRest(r, n)
  BY <1>3, <1>5 DEF InRest
<1>16. n <= Sent(r) /\ Rest[1].kind = Script[n] /\ r \in Requests /\ r \in Nat /\ n \in Nat
  <2>1. r \in Requests /\ r \in Nat /\ n \in Nat
    BY <1>1, <1>3, <1>14, RestPieces
  <2> QED
    BY <1>1, <1>3, <1>14, <2>1 DEF StreamOK, PiecesOK
<1>17. ASSUME NEW a \in Begun, NEW k, InRest(a, k), IdOf(a) = IdOf(r) PROVE r <= a /\ (a = r => n <= k)
  <2>1. CASE InRest(a, k)'
    BY <1>13, <1>14, <1>17, <2>1
  <2>2. CASE a = r /\ k = n
    BY <1>16, <2>2
  <2> QED
    BY <1>13, <1>14, <1>17, <2>1, <2>2
<1>18. ReadEffect(r, n)
  BY <1>6, <1>9, <1>11, <1>12, <1>13, <1>14, <1>15, <1>16, <1>17 DEF ReadEffect
<1> QED
  BY <1>3, <1>4, <1>5, <1>6, <1>9, <1>16, <1>18

\* Another request with the id of one that is being read has ended, or has not begun to be read.
LEMMA OthersOfId ==
  ASSUME IInv, NEW r, NEW n, ReadEffect(r, n), NEW a \in Begun, a # r, IdOf(a) = IdOf(r)
  PROVE  Phase(a) # "none" \/ (InRest(a, 1) /\ InRest(a, 1)')
<1>1. a \in Nat /\ r \in Nat
  BY Numbers DEF IInv, ReadEffect
<1>2. CASE a < r
  BY <1>2 DEF IInv, ReadEffect, BegunOK, EndedOK
<1>3. CASE r < a
  <2>1. InRest(a, 1)
    BY <1>3 DEF IInv, ReadEffect, NotOvertaken
  <2> QED
    BY <2>1 DEF ReadEffect
<1> QED
  BY <1>1, <1>2, <1>3

\* What reading does not disturb if no request is announced.
LEMMA ReadQuiet ==
  ASSUME IInv, NEW r, NEW n, ReadEffect(r, n), UNCHANGED main, TopCall = "read",
         request' \in [Requests -> RequestRecords], \A a \in Requests : request'[a].phase = request[a].phase,
         manager' \in Manager, manager'.header = NoRecord, manager'.state = manager.state, socket'.parent = socket.parent
  PROVE  RecordsOK' /\ BegunOK' /\ EndedOK' /\ AnnouncedOK' /\ HeaderOK' /\ ThreadOK' /\ StackOK'
<1>1. UNCHANGED <<server, crashed>> /\ socket' \in SocketRecords /\ socket'.out = socket.out /\ socket'.thread = socket.thread
  BY DEF ReadEffect
<1>2. \A a \in Requests : Phase(a)' = Phase(a)
  BY DEF Phase
<1>3. Begun' = Begun /\ Begun \subseteq Requests /\ 1 \in Requests /\ mode' = mode /\ RecordsOK /\ StackOK
  BY <1>1, Numbers DEF Begun, IInv, mode
<1>4. RecordsOK'
  BY <1>1, <1>3 DEF RecordsOK
<1>5. BegunOK'
  BY <1>1, <1>2, <1>3 DEF IInv, BegunOK, IdOf, Sent
<1>6. EndedOK'
  BY <1>1, EndedSame
<1>7. AnnouncedOK'
  BY <1>2, <1>3 DEF IInv, AnnouncedOK, ReadEffect
<1>8. HeaderOK'
  BY DEF HeaderOK, ReadEffect
<1>9. ThreadOK'
  BY <1>1, <1>2, <1>3 DEF IInv, ThreadOK
<1>10. StackOK'
  <2>1. KeepRunning
    BY DEF KeepRunning, Phase
  <2> QED
    BY <1>3, <2>1, StackSame
<1> QED
  BY <1>4, <1>5, <1>6, <1>7, <1>8, <1>9, <1>10
LEMMA ScriptIndex ==
  ASSUME NEW n \in 1..Len(Script)
  PROVE  /\ Script[n] = "begin" => n = 1
         /\ Script[n] = "params" => n = 2
         /\ Script[n] = "paramsEnd" => n = 3
         /\ Script[n] \in {"stdin", "stdinEnd"} => n >= 4
         /\ Script[n] = "stdin" => n <= BodyRecords + 3
<1>1. BodyRecords \in Nat
  BY ConnectionAssumption
<1>2. n \in {1, 2, 3} \/ n \in 4..(BodyRecords + 3) \/ n = BodyRecords + 4
  BY <1>1, ScriptFacts
<1>3. CASE n \in {1, 2, 3}
  BY <1>1, <1>3, ScriptFacts
<1>4. CASE n \in 4..(BodyRecords + 3)
  BY <1>1, <1>4, ScriptFacts
<1>5. CASE n = BodyRecords + 4
  BY <1>1, <1>5, ScriptFacts
<1> QED
  BY <1>2, <1>3, <1>4, <1>5

LEMMA ReadBody ==
  ASSUME IInv, NEW r, NEW n, ReadEffect(r, n),
         \A a \in Requests : request'[a].body = request[a].body /\ request'[a].data = request[a].data
  PROVE  BodyOK'
<1>1. server' = server /\ \A a, k : InRest(a, k)' => InRest(a, k)
  BY DEF ReadEffect
<1> SUFFICES ASSUME NEW a \in Requests
             PROVE  /\ \A k \in DOMAIN request'[a].body : request'[a].body[k] = a
                    /\ Len(request'[a].body) <= BodyRecords /\ Len(request'[a].data) <= Len(request'[a].body)
                    /\ request'[a].body # <<>> => Len(request'[a].body) + 3 <= Sent(a)
                    /\ \A k \in 4..Len(Script) : InRest(a, k)' => Len(request'[a].body) < k - 3
  BY <1>1 DEF BodyOK, Sent
<1>2. PICK b, d : b = request[a].body /\ d = request[a].data /\ request'[a].body = b /\ request'[a].data = d
  OBVIOUS
<1>3. /\ \A k \in DOMAIN b : b[k] = a
      /\ Len(b) <= BodyRecords /\ Len(d) <= Len(b)
      /\ b # <<>> => Len(b) + 3 <= Sent(a)
      /\ \A k \in 4..Len(Script) : InRest(a, k) => Len(b) < k - 3
  BY <1>2 DEF IInv, BodyOK
<1> QED
  BY <1>1, <1>2, <1>3

LEMMA BeginRecordStep ==
  ASSUME IInv, NextRecord # NoRecord, NEW i, i = server.idOf[NextRecord.request], BeginRecord(i)
  PROVE  IInv'
<1>1. NextRecord.kind = "begin" /\ UNCHANGED <<main, request>>
  BY DEF BeginRecord
<1>2. PICK m : m = [manager EXCEPT !.headers[i] = {}, !.streams = WithoutStream(i), !.close[i] = ~KeepConn]
  OBVIOUS
<1>3. Consume(m, socket.parent)
  BY <1>2 DEF BeginRecord
<1>4. PICK r, n : r = NextRecord.request /\ n = NextRecord.nth
  OBVIOUS
<1>5. manager \in Manager /\ socket.parent \in Parents /\ request \in [Requests -> RequestRecords] /\ RecordsOK
  BY DEF IInv, RecordsOK, SocketRecords, Parents
<1>6. TopCall = "read" /\ ReadEffect(r, n) /\ NextRecord.kind = Script[n]
      /\ manager' = [m EXCEPT !.header = NoRecord] /\ socket'.parent = socket.parent
  BY <1>3, <1>4, <1>5, ConsumeEffect
<1>7. n = 1 /\ i = IdOf(r) /\ i \in Ids /\ r \in Begun
  BY <1>1, <1>4, <1>6, ScriptIndex DEF ReadEffect, IInv, BegunOK, IdOf
<1>8. PICK h \in [Ids -> SUBSET Requests], s \in [Ids -> Requests \union {NoRequest}], c \in [Ids -> BOOLEAN] :
        /\ h = [manager.headers EXCEPT ![i] = {}] /\ s = [manager.streams EXCEPT ![i] = NoRequest]
        /\ c = [manager.close EXCEPT ![i] = ~KeepConn]
  BY <1>5 DEF Manager
<1>9. manager' = [manager EXCEPT !.header = NoRecord, !.headers = h, !.streams = s, !.close = c]
  BY <1>2, <1>5, <1>6, <1>8 DEF WithoutStream, Manager
<1>10. /\ manager' \in Manager /\ manager'.header = NoRecord /\ manager'.headers = h /\ manager'.streams = s
       /\ manager'.close = c /\ manager'.state = manager.state
  BY <1>5, <1>9 DEF Manager
<1>11. RecordsOK' /\ BegunOK' /\ EndedOK' /\ AnnouncedOK' /\ HeaderOK' /\ ThreadOK' /\ StackOK'
  BY <1>1, <1>5, <1>6, <1>10, ReadQuiet
<1>12. BodyOK'
  BY <1>1, <1>6, ReadBody
<1>13. /\ Begun' = Begun /\ (\A a : IdOf(a)' = IdOf(a) /\ Sent(a)' = Sent(a) /\ Phase(a)' = Phase(a)) /\ mode' = mode
       /\ server' = server
  BY <1>1, <1>6 DEF ReadEffect, Begun, IdOf, Sent, Phase, mode
<1>14. HeadersOK'
  <2> SUFFICES ASSUME NoLateCleanup, NEW a \in Begun
               PROVE  /\ Phase(a) = "none" /\ ~InRest(a, 1)' =>
                           manager'.headers[IdOf(a)] = IF Sent(a) >= 2 /\ ~InRest(a, 2)' THEN {a} ELSE {}
                      /\ Phase(a) # "none" => request'[a].headers = {a}
    BY <1>13 DEF HeadersOK, NoLateCleanup
  <2>1. Phase(a) # "none" => request'[a].headers = {a}
    BY <1>1 DEF IInv, HeadersOK
  <2>2. ASSUME Phase(a) = "none", ~InRest(a, 1)'
        PROVE  manager'.headers[IdOf(a)] = IF Sent(a) >= 2 /\ ~InRest(a, 2)' THEN {a} ELSE {}
    <3>1. CASE a = r
      <4>1. Sent(r) >= 2 => InRest(r, 2)
        <5>1. 1 \in 1..Len(Script) /\ 2 \in 1..Len(Script)
          BY ScriptFacts, ConnectionAssumption
        <5> QED
          BY <1>6, <1>7, <5>1 DEF IInv, NotOvertaken, ReadEffect
      <4>2. Sent(r) >= 2 => InRest(r, 2)'
        BY <1>6, <1>7, <4>1 DEF ReadEffect
      <4> QED
        BY <1>7, <1>8, <1>10, <3>1, <4>2
    <3>2. CASE a # r
      <4>1. IdOf(a) # i
        BY <1>6, <1>7, <2>2, <3>2, OthersOfId
      <4>2. IdOf(a) \in Ids
        BY DEF IInv, BegunOK
      <4>3. manager'.headers[IdOf(a)] = manager.headers[IdOf(a)]
        BY <1>5, <1>8, <1>10, <4>1, <4>2 DEF Manager
      <4>4. \A k : InRest(a, k)' <=> InRest(a, k)
        BY <1>6, <3>2 DEF ReadEffect
      <4> QED
        BY <2>2, <4>3, <4>4 DEF IInv, HeadersOK
    <3> QED
      BY <3>1, <3>2
  <2> QED
    BY <2>1, <2>2
<1>15. StreamsOK'
  <2> SUFFICES ASSUME NEW j \in Ids, manager.state # "deleted", s[j] # NoRequest
               PROVE  /\ s[j] \in Begun /\ IdOf(s[j]) = j /\ Phase(s[j]) # "none"
                      /\ mode # "threaded" => Phase(s[j]) # "deleted"
    BY <1>10, <1>13 DEF StreamsOK
  <2>1. s[j] = manager.streams[j]
    BY <1>5, <1>8 DEF Manager
  <2> QED
    BY <2>1 DEF IInv, StreamsOK
<1>16. ManagerOK'
  <2>1. KeepConn => \A j \in Ids : ~c[j]
    BY <1>5, <1>8 DEF IInv, ManagerOK, Manager
  <2> QED
    BY <1>1, <1>10, <1>13, <2>1 DEF IInv, ManagerOK
<1> QED
  BY <1>6, <1>11, <1>12, <1>14, <1>15, <1>16 DEF IInv, ReadEffect, StreamOK

LEMMA LoadParametersStep ==
  ASSUME IInv, NextRecord # NoRecord, NEW i, i = server.idOf[NextRecord.request], LoadParameters(i)
  PROVE  IInv'
<1>1. NextRecord.kind = "params" /\ UNCHANGED <<main, request>>
  BY DEF LoadParameters
<1>2. PICK m : m = [manager EXCEPT !.headers[i] = @ \union {NextRecord.request}]
  OBVIOUS
<1>3. Consume(m, socket.parent)
  BY <1>2 DEF LoadParameters
<1>4. PICK r, n : r = NextRecord.request /\ n = NextRecord.nth
  OBVIOUS
<1>5. manager \in Manager /\ socket.parent \in Parents /\ request \in [Requests -> RequestRecords] /\ RecordsOK
  BY DEF IInv, RecordsOK, SocketRecords, Parents
<1>6. TopCall = "read" /\ ReadEffect(r, n) /\ NextRecord.kind = Script[n]
      /\ manager' = [m EXCEPT !.header = NoRecord] /\ socket'.parent = socket.parent
  BY <1>3, <1>4, <1>5, ConsumeEffect
<1>7. n = 2 /\ i = IdOf(r) /\ i \in Ids /\ r \in Begun /\ r \in Requests
  BY <1>1, <1>4, <1>6, ScriptIndex DEF ReadEffect, IInv, BegunOK, IdOf
<1>8. PICK h \in [Ids -> SUBSET Requests] : h = [manager.headers EXCEPT ![i] = @ \union {r}]
  BY <1>5, <1>7 DEF Manager
<1>9. manager' = [manager EXCEPT !.header = NoRecord, !.headers = h]
  BY <1>2, <1>4, <1>5, <1>6, <1>8 DEF Manager
<1>10. /\ manager' \in Manager /\ manager'.header = NoRecord /\ manager'.headers = h /\ manager'.streams = manager.streams
       /\ manager'.close = manager.close /\ manager'.state = manager.state
  BY <1>5, <1>9 DEF Manager
<1>11. RecordsOK' /\ BegunOK' /\ EndedOK' /\ AnnouncedOK' /\ HeaderOK' /\ ThreadOK' /\ StackOK'
  BY <1>1, <1>5, <1>6, <1>10, ReadQuiet
<1>12. BodyOK'
  BY <1>1, <1>6, ReadBody
<1>13. /\ Begun' = Begun /\ (\A a : IdOf(a)' = IdOf(a) /\ Sent(a)' = Sent(a) /\ Phase(a)' = Phase(a)) /\ mode' = mode
       /\ server' = server
  BY <1>1, <1>6 DEF ReadEffect, Begun, IdOf, Sent, Phase, mode
<1>14. HeadersOK'
  <2> SUFFICES ASSUME NoLateCleanup, NEW a \in Begun
               PROVE  /\ Phase(a) = "none" /\ ~InRest(a, 1)' =>
                           manager'.headers[IdOf(a)] = IF Sent(a) >= 2 /\ ~InRest(a, 2)' THEN {a} ELSE {}
                      /\ Phase(a) # "none" => request'[a].headers = {a}
    BY <1>13 DEF HeadersOK, NoLateCleanup
  <2>1. Phase(a) # "none" => request'[a].headers = {a}
    BY <1>1 DEF IInv, HeadersOK
  <2>2. ASSUME Phase(a) = "none", ~InRest(a, 1)'
        PROVE  manager'.headers[IdOf(a)] = IF Sent(a) >= 2 /\ ~InRest(a, 2)' THEN {a} ELSE {}
    <3>1. CASE a = r
      <4>1. InRest(r, 2) /\ ~InRest(r, 2)' /\ ~InRest(r, 1) /\ Sent(r) >= 2
        BY <1>6, <1>7, <2>2, <3>1 DEF ReadEffect
      <4>2. manager.headers[i] = {}
        BY <1>7, <2>2, <3>1, <4>1 DEF IInv, HeadersOK
      <4>3. h[i] = {r}
        BY <1>5, <1>7, <1>8, <4>2 DEF Manager
      <4> QED
        BY <1>7, <1>10, <3>1, <4>1, <4>3
    <3>2. CASE a # r
      <4>1. IdOf(a) # i
        BY <1>6, <1>7, <2>2, <3>2, OthersOfId
      <4>2. IdOf(a) \in Ids
        BY DEF IInv, BegunOK
      <4>3. manager'.headers[IdOf(a)] = manager.headers[IdOf(a)]
        BY <1>5, <1>8, <1>10, <4>1, <4>2 DEF Manager
      <4>4. \A k : InRest(a, k)' <=> InRest(a, k)
        BY <1>6, <3>2 DEF ReadEffect
      <4> QED
        BY <2>2, <4>3, <4>4 DEF IInv, HeadersOK
    <3> QED
      BY <3>1, <3>2
  <2> QED
    BY <2>1, <2>2
<1>15. StreamsOK'
  BY <1>10, <1>13 DEF IInv, StreamsOK
<1>16. ManagerOK'
  BY <1>1, <1>10, <1>13 DEF IInv, ManagerOK
<1> QED
  BY <1>6, <1>11, <1>12, <1>14, <1>15, <1>16 DEF IInv, ReadEffect, StreamOK

LEMMA ReadStandardInputStep ==
  ASSUME IInv, NextRecord # NoRecord, manager.state # "deleted",
         NEW i, i = server.idOf[NextRecord.request], ReadStandardInput(i)
  PROVE  IInv'
<1>1. NextRecord.kind \in {"stdin", "stdinEnd"} /\ ~TouchesDeadStream /\ UNCHANGED main /\ Consume(manager, socket.parent)
  BY DEF ReadStandardInput
<1>2. PICK r, n : r = NextRecord.request /\ n = NextRecord.nth
  OBVIOUS
<1>3. manager \in Manager /\ socket.parent \in Parents /\ request \in [Requests -> RequestRecords] /\ RecordsOK
  BY DEF IInv, RecordsOK, SocketRecords, Parents
<1>4. TopCall = "read" /\ ReadEffect(r, n) /\ NextRecord.kind = Script[n]
      /\ manager' = [manager EXCEPT !.header = NoRecord] /\ socket'.parent = socket.parent
  BY <1>1, <1>2, <1>3, ConsumeEffect
<1>5. /\ manager' \in Manager /\ manager'.header = NoRecord /\ manager'.headers = manager.headers
      /\ manager'.streams = manager.streams /\ manager'.close = manager.close /\ manager'.state = manager.state
  BY <1>3, <1>4 DEF Manager
<1>6. n >= 4 /\ n \in 1..Len(Script) /\ i = IdOf(r) /\ i \in Ids /\ r \in Begun /\ r \in Requests /\ n <= Sent(r)
  BY <1>1, <1>2, <1>4, ScriptIndex DEF ReadEffect, IInv, BegunOK, IdOf
<1>7. manager.streams[i] # NoRequest => manager.streams[i] = r
  <2>1. PICK s : s = manager.streams[i]
    OBVIOUS
  <2> SUFFICES ASSUME s # NoRequest, s # r PROVE FALSE
    BY <2>1
  <2>2. s \in Begun /\ IdOf(s) = i /\ Phase(s) # "none"
    BY <1>6, <2>1 DEF IInv, StreamsOK
  <2>3. Phase(s) # "deleted"
    BY <1>1, <1>2, <1>6, <2>1 DEF TouchesDeadStream, StreamFor, IdOf
  <2>4. s \in Nat /\ r \in Nat
    BY <1>3, <1>6, <2>2, Numbers
  <2>5. ~(s < r)
    BY <1>6, <2>2, <2>3 DEF IInv, BegunOK, EndedOK
  <2>6. r < s
    BY <2>4, <2>5
  <2>7. InRest(s, 1) /\ 1 \in 1..3
    BY <1>4, <1>6, <2>2, <2>6 DEF IInv, NotOvertaken, ReadEffect
  <2> QED
    BY <2>2, <2>7 DEF IInv, AnnouncedOK
<1>8. \/ UNCHANGED request
      \/ NextRecord.kind = "stdin" /\ request' = [request EXCEPT ![r].body = Append(request[r].body, r)]
  BY <1>2, <1>7 DEF ReadStandardInput, StreamFor
<1>9. /\ request' \in [Requests -> RequestRecords]
      /\ \A a \in Requests : request'[a].phase = request[a].phase /\ request'[a].headers = request[a].headers
      /\ BodyOK'
  <2>1. CASE UNCHANGED request
    BY <1>3, <1>4, <2>1, ReadBody
  <2>2. CASE NextRecord.kind = "stdin" /\ request' = [request EXCEPT ![r].body = Append(request[r].body, r)]
    <3>1. PICK b \in Seq(Requests) : b = request[r].body
      BY <1>3, <1>6 DEF RequestRecords
    <3>2. PICK c \in Seq(Requests) : /\ c = Append(b, r) /\ Len(c) = Len(b) + 1 /\ c[Len(b) + 1] = r
                                     /\ \A k \in 1..Len(b) : c[k] = b[k]
      <4>1. /\ Append(b, r) \in Seq(Requests) /\ Len(Append(b, r)) = Len(b) + 1 /\ Append(b, r)[Len(b) + 1] = r
            /\ \A k \in 1..Len(b) : Append(b, r)[k] = b[k]
        BY <1>6
      <4> QED
        BY <4>1, Zenon
    <3>3. PICK l \in Nat : l = Len(b) /\ Len(c) = l + 1 /\ DOMAIN b = 1..l /\ DOMAIN c = 1..(l + 1)
      BY <3>2
    <3>4. PICK q : q = [request[r] EXCEPT !.body = c]
      OBVIOUS
    <3>5. request[r] \in RequestRecords
      BY <1>3, <1>6
    <3>6. q \in RequestRecords /\ q.phase = request[r].phase /\ q.headers = request[r].headers /\ q.body = c /\ q.data = request[r].data
      BY <3>4, <3>5 DEF RequestRecords
    <3>7. request' = [request EXCEPT ![r] = q]
      BY <1>3, <2>2, <3>1, <3>2, <3>4
    <3>8. /\ request' \in [Requests -> RequestRecords] /\ request'[r] = q
          /\ \A a \in Requests : a # r => request'[a] = request[a]
      BY <1>3, <1>6, <3>6, <3>7
    <3>9. /\ \A k \in 1..l : b[k] = r
          /\ l <= BodyRecords /\ Len(request[r].data) <= l
          /\ \A k \in 4..Len(Script) : InRest(r, k) => l < k - 3
      BY <1>6, <3>1, <3>3 DEF IInv, BodyOK
    <3>10. n \in Nat /\ Sent(r) \in Nat /\ Len(Script) \in Nat /\ n \in 4..Len(Script) /\ n <= BodyRecords + 3
      <4>1. Script[n] = "stdin" /\ Len(Script) \in Nat /\ Sent(r) \in Nat
        BY <1>3, <1>4, <1>6, <2>2, ScriptFacts, Numbers
      <4> QED
        BY <1>6, <4>1, ScriptIndex
    <3>11. l < n - 3
      BY <1>4, <3>9, <3>10 DEF ReadEffect
    <3>12. Len(c) <= BodyRecords /\ Len(q.data) <= Len(c) /\ Len(c) + 3 <= Sent(r)
      <4>1. Len(request[r].data) \in Nat
        <5>1. PICK d \in Seq(1..BodyRecords) : d = request[r].data
          BY <3>5 DEF RequestRecords
        <5> QED
          BY <5>1
      <4>2. BodyRecords \in Nat
        BY ConnectionAssumption
      <4> QED
        BY <1>6, <3>3, <3>6, <3>9, <3>10, <3>11, <4>1, <4>2
    <3>13. \A k \in DOMAIN c : c[k] = r
      <4>1. \A k \in 1..(l + 1) : k \in 1..l \/ k = l + 1
        OBVIOUS
      <4> QED
        BY <3>2, <3>3, <3>9, <4>1
    <3>14. ASSUME NEW k \in 4..Len(Script), InRest(r, k)' PROVE Len(c) < k - 3
      <4>1. InRest(r, k) /\ k # n
        BY <1>4, <3>14 DEF ReadEffect
      <4>2. n <= k
        BY <1>4, <4>1 DEF ReadEffect
      <4> QED
        BY <3>3, <3>10, <3>11, <4>1, <4>2
    <3>15. server' = server /\ \A a, k : InRest(a, k)' => InRest(a, k)
      BY <1>4 DEF ReadEffect
    <3>16. ASSUME NEW a \in Requests
           PROVE  /\ \A k \in DOMAIN request'[a].body : request'[a].body[k] = a
                  /\ Len(request'[a].body) <= BodyRecords /\ Len(request'[a].data) <= Len(request'[a].body)
                  /\ request'[a].body # <<>> => Len(request'[a].body) + 3 <= Sent(a)
                  /\ \A k \in 4..Len(Script) : InRest(a, k)' => Len(request'[a].body) < k - 3
      <4>1. CASE a = r
        BY <3>6, <3>8, <3>12, <3>13, <3>14, <4>1
      <4>2. CASE a # r
        <5>1. request'[a] = request[a]
          BY <3>8, <4>2
        <5> QED
          BY <3>15, <5>1 DEF IInv, BodyOK
      <4> QED
        BY <4>1, <4>2
    <3>17. BodyOK'
      BY <3>15, <3>16 DEF BodyOK, Sent
    <3> QED
      BY <3>6, <3>8, <3>17
  <2> QED
    BY <1>8, <2>1, <2>2
<1>10. RecordsOK' /\ BegunOK' /\ EndedOK' /\ AnnouncedOK' /\ HeaderOK' /\ ThreadOK' /\ StackOK'
  BY <1>1, <1>4, <1>5, <1>9, ReadQuiet
<1>11. /\ Begun' = Begun /\ (\A a : IdOf(a)' = IdOf(a) /\ Sent(a)' = Sent(a)) /\ (\A a \in Requests : Phase(a)' = Phase(a))
       /\ mode' = mode /\ server' = server /\ Begun \subseteq Requests /\ 1 \in Requests
  BY <1>1, <1>3, <1>4, <1>9, Numbers DEF ReadEffect, Begun, IdOf, Sent, Phase, mode
<1>12. HeadersOK'
  <2>1. \A a \in Begun, k \in {1, 2} : InRest(a, k)' <=> InRest(a, k)
    <3>1. n # 1 /\ n # 2
      BY <1>6
    <3> QED
      BY <1>4, <3>1 DEF ReadEffect
  <2>2. NoLateCleanup' = NoLateCleanup
    BY <1>11 DEF NoLateCleanup
  <2> QED
    BY <1>5, <1>9, <1>11, <2>1, <2>2 DEF IInv, HeadersOK
<1>13. StreamsOK'
  BY <1>5, <1>11 DEF IInv, StreamsOK
<1>14. ManagerOK'
  <2>1. \A k \in DOMAIN main.events : main.events[k][1] = "cleanup" => main.events[k][2] \in Requests
    BY <1>3, EventFields
  <2> QED
    BY <1>1, <1>5, <1>11, <2>1 DEF IInv, ManagerOK
<1> QED
  BY <1>4, <1>9, <1>10, <1>12, <1>13, <1>14 DEF IInv, ReadEffect, StreamOK

\* A request changes, but for its input.
LEMMA RequestUpdated ==
  ASSUME RecordsOK, NEW r \in Requests, NEW q \in RequestRecords, request' = [request EXCEPT ![r] = q],
         q.body = request[r].body, q.data = request[r].data
  PROVE  /\ request' \in [Requests -> RequestRecords] /\ request'[r] = q
         /\ \A a \in Requests : a # r => request'[a] = request[a]
         /\ \A a \in Requests : request'[a].body = request[a].body /\ request'[a].data = request[a].data
<1>1. request \in [Requests -> RequestRecords]
  BY DEF RecordsOK
<1>2. /\ request' \in [Requests -> RequestRecords] /\ request'[r] = q
      /\ \A a \in Requests : a # r => request'[a] = request[a]
  BY <1>1
<1>3. \A a \in Requests : request'[a].body = request[a].body /\ request'[a].data = request[a].data
  BY <1>2
<1> QED
  BY <1>2, <1>3

LEMMA RespondStep ==
  ASSUME IInv, NextRecord # NoRecord, NEW i, i = server.idOf[NextRecord.request], Respond(i)
  PROVE  IInv'
<1>1. PICK r, n : r = NextRecord.request /\ n = NextRecord.nth
  OBVIOUS
<1>2. PICK m, parent : /\ m = [manager EXCEPT !.streams[i] = r]
                       /\ parent = IF socket.thread = Main THEN <<"stream", r>> ELSE socket.parent
  OBVIOUS
<1>3. NextRecord.kind = "paramsEnd" /\ Consume(m, parent)
  BY <1>1, <1>2 DEF Respond
<1>4. /\ manager \in Manager /\ socket.parent \in Parents /\ request \in [Requests -> RequestRecords]
      /\ RecordsOK /\ main \in MainRecords
  BY DEF IInv, RecordsOK, SocketRecords, Parents
<1>5. r \in Requests
  <2>1. Rest # <<>> /\ 1 \in DOMAIN Rest /\ NextRecord = RecordOf(Rest[1])
    BY NextIs
  <2> QED
    BY <1>1, <1>4, <2>1, RestPieces DEF RecordOf
<1>6. parent \in Parents
  BY <1>2, <1>4, <1>5 DEF Parents
<1>7. TopCall = "read" /\ ReadEffect(r, n) /\ NextRecord.kind = Script[n]
      /\ manager' = [m EXCEPT !.header = NoRecord] /\ socket'.parent = parent
  BY <1>1, <1>3, <1>6, ConsumeEffect
<1>8. n = 3 /\ 3 \in 1..3 /\ i = IdOf(r) /\ i \in Ids /\ r \in Begun /\ n <= Sent(r)
  BY <1>1, <1>3, <1>7, ScriptIndex DEF ReadEffect, IInv, BegunOK, IdOf
<1>9. Phase(r) = "none" /\ ~InRest(r, 1) /\ ~InRest(r, 2)
  <2>1. \A k : InRest(r, k) => 3 <= k
    BY <1>7, <1>8 DEF ReadEffect
  <2>2. InRest(r, 3)
    BY <1>7, <1>8 DEF ReadEffect
  <2> QED
    BY <1>8, <2>1, <2>2 DEF IInv, AnnouncedOK
<1>10. PICK s \in [Ids -> Requests \union {NoRequest}] :
         s = [manager.streams EXCEPT ![i] = r] /\ s[i] = r /\ \A j \in Ids : j # i => s[j] = manager.streams[j]
  <2>1. manager.streams \in [Ids -> Requests \union {NoRequest}]
    BY <1>4 DEF Manager
  <2>2. PICK f \in [Ids -> Requests \union {NoRequest}] : f = manager.streams
    BY <2>1
  <2>3. PICK g : g = [f EXCEPT ![i] = r]
    OBVIOUS
  <2>4. g \in [Ids -> Requests \union {NoRequest}] /\ g[i] = r /\ \A j \in Ids : j # i => g[j] = f[j]
    BY <1>5, <1>8, <2>3
  <2> QED
    BY <2>2, <2>3, <2>4
<1>11. manager' = [manager EXCEPT !.header = NoRecord, !.streams = s]
  BY <1>2, <1>4, <1>7, <1>10 DEF Manager
<1>12. /\ manager' \in Manager /\ manager'.header = NoRecord /\ manager'.headers = manager.headers /\ manager'.streams = s
       /\ manager'.close = manager.close /\ manager'.state = manager.state
  BY <1>4, <1>11 DEF Manager
<1>13. PICK p \in {"queued", "running"} : p = IF mode = "direct" THEN "running" ELSE "queued"
  OBVIOUS
<1>14. manager.headers[i] \in SUBSET Requests
  BY <1>4, <1>8 DEF Manager
<1>15. PICK q : q = [request[r] EXCEPT !.headers = manager.headers[i], !.phase = p]
  OBVIOUS
<1>16. q \in RequestRecords /\ q.headers = manager.headers[i] /\ q.phase = p /\ q.body = request[r].body /\ q.data = request[r].data
  <2>1. request[r] \in RequestRecords
    BY <1>4, <1>5
  <2> QED
    BY <1>13, <1>14, <1>15, <2>1 DEF RequestRecords
<1>17. request' = [request EXCEPT ![r] = q]
  <2>1. request' = [request EXCEPT ![r].headers = manager.headers[i], ![r].phase = p]
    BY <1>1, <1>13 DEF Respond
  <2> QED
    BY <1>4, <1>15, <2>1
<1>18. /\ request' \in [Requests -> RequestRecords] /\ request'[r] = q
       /\ \A a \in Requests : a # r => request'[a] = request[a]
       /\ \A a \in Requests : request'[a].body = request[a].body /\ request'[a].data = request[a].data
  BY <1>4, <1>5, <1>16, <1>17, RequestUpdated
<1>19. main' = [main EXCEPT !.checks = @ + 1, !.stack = IF mode = "direct" THEN <<SlotFrame(r)>> \o @ ELSE @]
  BY <1>1 DEF Respond
<1>20. PICK k \in Seq(Frames) : k = IF mode = "direct" THEN <<SlotFrame(r)>> \o main.stack ELSE main.stack
  <2>1. <<SlotFrame(r)>> \o main.stack \in Seq(Frames)
    BY <1>4, <1>5, FrameFields, TopFrame, PushType
  <2> QED
    BY <1>4, <2>1, TopFrame
<1>21. main' \in MainRecords /\ main'.mode = main.mode /\ main'.events = main.events /\ main'.stack = k
  <2>1. PICK c \in Nat : c = main.checks + 1
    BY <1>4 DEF MainRecords
  <2>2. main' = [main EXCEPT !.checks = c, !.stack = k]
    BY <1>19, <1>20, <2>1
  <2> QED
    BY <1>4, <2>2 DEF MainRecords
<1>22. /\ Begun' = Begun /\ (\A a : IdOf(a)' = IdOf(a) /\ Sent(a)' = Sent(a)) /\ Phase(r)' = p
       /\ (\A a \in Requests : a # r => Phase(a)' = Phase(a)) /\ mode' = mode /\ UNCHANGED <<server, crashed>>
       /\ Begun \subseteq Requests /\ 1 \in Requests
  BY <1>4, <1>7, <1>16, <1>18, <1>21, Numbers DEF ReadEffect, Begun, IdOf, Sent, Phase, mode
<1>23. socket' \in SocketRecords /\ socket'.out = socket.out /\ socket'.thread = socket.thread
  BY <1>7 DEF ReadEffect
<1>24. RecordsOK'
  BY <1>4, <1>12, <1>18, <1>21, <1>22, <1>23 DEF RecordsOK
<1>25. BegunOK'
  <2>1. \A a \in Begun : Phase(a)' # "none" => Sent(a) >= 3
    BY <1>8, <1>22 DEF IInv, BegunOK
  <2> QED
    BY <1>8, <1>22, <2>1 DEF IInv, BegunOK
<1>26. \A a \in Requests : Phase(a) = "deleted" => Phase(a)' = "deleted"
  BY <1>9, <1>22
<1>27. EndedOK'
  <2>1. \A a \in server.ended : a \in Requests
    BY <1>4 DEF RecordsOK, ServerRecords
  <2> QED
    BY <1>4, <1>22, <1>23, <1>26, <2>1, OutputFields DEF IInv, EndedOK
<1>28. AnnouncedOK'
  <2> SUFFICES ASSUME NEW a \in Begun, NEW j \in 1..3, Phase(a)' # "none", InRest(a, j)' PROVE FALSE
    BY <1>22 DEF AnnouncedOK
  <2>1. InRest(a, j)
    BY <1>7 DEF ReadEffect
  <2>2. CASE a = r
    <3>1. 3 <= j /\ j = 3
      BY <1>7, <1>8, <2>1, <2>2 DEF ReadEffect
    <3> QED
      BY <1>7, <1>8, <2>2, <3>1 DEF ReadEffect
  <2>3. CASE a # r
    BY <1>22, <2>1, <2>3 DEF IInv, AnnouncedOK
  <2> QED
    BY <2>2, <2>3
<1>29. HeadersOK'
  <2> SUFFICES ASSUME NoLateCleanup, NEW a \in Begun
               PROVE  /\ Phase(a)' = "none" /\ ~InRest(a, 1)' =>
                           manager.headers[IdOf(a)] = IF Sent(a) >= 2 /\ ~InRest(a, 2)' THEN {a} ELSE {}
                      /\ Phase(a)' # "none" => request'[a].headers = {a}
    BY <1>12, <1>22 DEF HeadersOK, NoLateCleanup
  <2>1. CASE a = r
    <3>1. 2 <= Sent(r)
      BY <1>4, <1>8, <1>22, Numbers
    <3>2. manager.headers[i] = {r}
      BY <1>8, <1>9, <3>1 DEF IInv, HeadersOK
    <3> QED
      BY <1>13, <1>16, <1>18, <1>22, <2>1, <3>2
  <2>2. CASE a # r
    <3>1. \A j : InRest(a, j)' <=> InRest(a, j)
      BY <1>7, <2>2 DEF ReadEffect
    <3>2. Phase(a)' = Phase(a) /\ request'[a].headers = request[a].headers
      BY <1>18, <1>22, <2>2
    <3> QED
      BY <3>1, <3>2 DEF IInv, HeadersOK
  <2> QED
    BY <2>1, <2>2
<1>30. StreamsOK'
  <2> SUFFICES ASSUME NEW j \in Ids, manager.state # "deleted", s[j] # NoRequest
               PROVE  /\ s[j] \in Begun /\ IdOf(s[j]) = j /\ Phase(s[j])' # "none"
                      /\ mode # "threaded" => Phase(s[j])' # "deleted"
    BY <1>12, <1>22 DEF StreamsOK
  <2>1. CASE j = i
    BY <1>8, <1>10, <1>13, <1>22, <2>1
  <2>2. CASE j # i
    <3>1. /\ s[j] \in Begun /\ IdOf(s[j]) = j /\ Phase(s[j]) # "none"
          /\ mode # "threaded" => Phase(s[j]) # "deleted"
      BY <1>10, <2>2 DEF IInv, StreamsOK
    <3>2. s[j] # r
      BY <1>8, <2>2, <3>1
    <3> QED
      BY <1>22, <3>1, <3>2
  <2> QED
    BY <2>1, <2>2
<1>31. BodyOK'
  BY <1>7, <1>18, ReadBody
<1>32. HeaderOK'
  BY <1>7, <1>12 DEF HeaderOK, ReadEffect
<1>33. ThreadOK'
  <2>1. mode # "threaded" => socket'.thread = Main
    BY <1>23 DEF IInv, ThreadOK
  <2>2. ASSUME mode = "threaded", server.begun <= 1
        PROVE  p = "queued" /\ r = 1 /\ socket'.thread = Main /\ socket'.parent = <<"stream", 1>>
    <3>1. r = 1
      BY <1>4, <1>5, <1>8, <2>2, Numbers DEF Begun
    <3> QED
      BY <1>2, <1>7, <1>9, <1>13, <1>23, <2>2, <3>1 DEF IInv, ThreadOK
  <2> QED
    BY <1>22, <2>1, <2>2 DEF ThreadOK
<1>34. StackOK'
  <2>1. KeepRunning /\ StackOK
    <3>1. \A a \in Requests : Phase(a) = "running" => Phase(a)' = "running"
      BY <1>9, <1>22
    <3> QED
      BY <3>1 DEF KeepRunning, Phase, IInv
  <2>2. CASE mode = "direct"
    <3>1. PICK f \in Frames : f = SlotFrame(r) /\ f.call = "slot" /\ f.request = r /\ ~f.signalled
      BY <1>5, FrameFields
    <3>2. main'.stack = <<f>> \o main.stack
      BY <1>20, <1>21, <2>2, <3>1
    <3>3. request'[r].phase = "running" /\ Phase(r) # "running" /\ LookedAt
      BY <1>9, <1>13, <1>16, <1>18, <2>2 DEF LookedAt
    <3> QED
      BY <1>4, <1>21, <2>1, <2>2, <3>1, <3>2, <3>3, StackPushed
  <2>3. CASE mode # "direct"
    BY <1>4, <1>7, <1>20, <1>21, <2>1, <2>3, StackSame
  <2> QED
    BY <2>2, <2>3
<1>35. ManagerOK'
  <2>1. \A j \in DOMAIN main.events : main.events[j][1] = "cleanup" => main.events[j][2] \in Requests
    BY <1>4, EventFields
  <2>2. ASSUME NEW j \in DOMAIN main.events, main.events[j][1] = "cleanup"
        PROVE  mode = "threaded" /\ request'[main.events[j][2]].phase = "deleted"
    <3>1. PICK a \in Requests : a = main.events[j][2]
      BY <2>1, <2>2
    <3>2. mode = "threaded" /\ Phase(a) = "deleted"
      BY <2>2, <3>1 DEF IInv, ManagerOK
    <3>3. request'[a].phase = "deleted"
      BY <1>26, <3>2 DEF Phase
    <3> QED
      BY <3>1, <3>2, <3>3
  <2>3. ~KeepConn /\ ~Multiplex /\ manager.state # "alive" => Phase(1)' = "deleted"
    BY <1>22, <1>26 DEF IInv, ManagerOK
  <2>4. (KeepConn => manager.state = "alive" /\ \A j \in Ids : ~manager.close[j]) /\ (KeepConn \/ Multiplex \/ server.begun <= 1)
    BY DEF IInv, ManagerOK
  <2> QED
    BY <1>12, <1>21, <1>22, <2>2, <2>3, <2>4 DEF ManagerOK, Phase
<1> QED
  BY <1>7, <1>24, <1>25, <1>27, <1>28, <1>29, <1>30, <1>31, <1>32, <1>33, <1>34, <1>35 DEF IInv, ReadEffect, StreamOK

LEMMA HeaderOnlyRest ==
  ASSUME IInv, ProcessHeaderOnly
  PROVE  /\ Reads(1) /\ OneRecord(1) /\ socket' \in SocketRecords /\ socket'.out = socket.out
         /\ socket'.thread = socket.thread /\ socket'.parent = socket.parent
         /\ manager' \in Manager /\ manager'.header = RecordOf(Rest[1]) /\ manager'.header # NoRecord
         /\ manager'.headers = manager.headers /\ manager'.streams = manager.streams
         /\ manager'.close = manager.close /\ manager'.state = manager.state
         /\ Rest' # <<>> /\ Rest'[1].part = "payload" /\ RecordOf(Rest'[1]) = RecordOf(Rest[1])
         /\ \A r, n : InRest(r, n)' <=> InRest(r, n)
<1>1. RecordsOK /\ StackOK /\ BegunOK /\ StreamOK /\ socket \in SocketRecords /\ manager \in Manager
  BY DEF IInv, StreamOK, RecordsOK
<1>2. /\ UNCHANGED <<server, main, request, crashed>> /\ TopCall = "read" /\ PieceAt(1, "header")
      /\ manager.header = NoRecord /\ NextRecord = NoRecord
      /\ manager' = [manager EXCEPT !.header = RecordOf(socket.in[1])] /\ socket' = [socket EXCEPT !.in = Tail(socket.in)]
  BY DEF ProcessHeaderOnly
<1>3. PICK s \in Seq(Piece) : s = socket.in /\ Len(s) >= 1 /\ s[1].part = "header"
  BY <1>1, <1>2, RestTyped DEF PieceAt
<1>4. Tail(s) \in Seq(Piece) /\ Tail(s) = SubSeq(s, 1 + 1, Len(s)) /\ 1 \in 1..Len(s) /\ s[1] \in Piece
  <2>1. s # <<>> /\ Tail(s) \in Seq(Piece) /\ 1 \in 1..Len(s) /\ s[1] \in Piece
    BY <1>3
  <2>2. Tail(s) = SubSeq(s, 2, Len(s))
    <3>1. /\ Len(Tail(s)) = Len(s) - 1 /\ \A k \in 1..(Len(s) - 1) : Tail(s)[k] = s[k + 1]
      BY <2>1, TailType
    <3>2. PICK u \in Seq(Piece) : /\ u = SubSeq(s, 2, Len(s)) /\ Len(u) = Len(s) - 1
                                  /\ \A k \in 1..(Len(s) - 1) : u[k] = s[k + 1]
      <4>1. SubSeq(s, 2, Len(s)) \in Seq(Piece) /\ Len(SubSeq(s, 2, Len(s))) = Len(s) - 1
        BY <1>3
      <4>2. \A k \in 1..(Len(s) - 1) : SubSeq(s, 2, Len(s))[k] = s[k + 1]
        BY <1>3
      <4> QED
        BY <4>1, <4>2
    <3>3. PICK v \in Seq(Piece) : v = Tail(s) /\ Len(v) = Len(s) - 1 /\ \A k \in 1..(Len(s) - 1) : v[k] = s[k + 1]
      BY <2>1, <3>1
    <3>4. Len(u) = Len(v) /\ \A k \in 1..Len(u) : u[k] = v[k]
      BY <3>2, <3>3
    <3>5. u = v
      BY <3>4
    <3> QED
      BY <3>2, <3>3, <3>5
  <2> QED
    BY <2>1, <2>2
<1>5. /\ socket' \in SocketRecords /\ socket'.in = SubSeq(socket.in, 1 + 1, Len(socket.in)) /\ socket'.out = socket.out
      /\ socket'.thread = socket.thread /\ socket'.parent = socket.parent
  BY <1>1, <1>2, <1>3, <1>4 DEF SocketRecords
<1>6. Reads(1) /\ OneRecord(1)
  BY <1>2, <1>3, <1>4, <1>5 DEF Reads, OneRecord
<1>7. RecordOf(s[1]) \in Record /\ RecordOf(s[1]) # NoRecord
  BY <1>4, PieceFields DEF RecordOf, Record, NoRecord, Kinds
<1>8. ~Empty(s[1].kind)
  BY <1>2, <1>3, <1>7 DEF NextRecord
<1>9. /\ manager' \in Manager /\ manager'.header = RecordOf(s[1]) /\ manager'.headers = manager.headers
      /\ manager'.streams = manager.streams /\ manager'.close = manager.close /\ manager'.state = manager.state
  BY <1>1, <1>2, <1>3, <1>7 DEF Manager
<1>10. Rest[1] = s[1] /\ 1 \in DOMAIN Rest
  BY <1>1, <1>3, <1>4, <1>6, RestTyped, DroppedRecord
<1>11. /\ 1 \in DOMAIN Rest' /\ Rest' # <<>> /\ Rest'[1] = Rest[2] /\ Rest[2].part = "payload"
       /\ RecordOf(Rest[2]) = RecordOf(Rest[1]) /\ 2 \in DOMAIN Rest
  <2>1. 1 + 1 \in DOMAIN Rest /\ Rest[1 + 1].part = "payload" /\ RecordOf(Rest[1 + 1]) = RecordOf(Rest[1])
    BY <1>1, <1>3, <1>8, <1>10 DEF StreamOK, PairedOK
  <2>2. 2 \in DOMAIN Rest /\ 2 > 1 /\ 2 - 1 = 1
    BY <2>1
  <2>3. 1 \in DOMAIN Rest' /\ Rest[2] = Rest'[1]
    <3>1. \A k \in DOMAIN Rest : k > 1 => k - 1 \in DOMAIN Rest' /\ Rest[k] = Rest'[k - 1]
      BY <1>1, <1>6, DroppedRest
    <3> QED
      BY <2>2, <3>1
  <2>4. Rest' # <<>>
    BY <2>3
  <2> QED
    BY <2>1, <2>2, <2>3, <2>4
<1>12. \A r, n : InRest(r, n)' <=> InRest(r, n)
  <2>1. PICK a, b : a = Rest[1].request /\ b = Rest[1].nth
    OBVIOUS
  <2>2. /\ \A r, n : InRest(r, n)' => InRest(r, n)
        /\ \A r, n : InRest(r, n) => InRest(r, n)' \/ (r = a /\ n = b)
    BY <1>1, <1>6, <2>1, DroppedRecord
  <2>3. Rest'[1].request = a /\ Rest'[1].nth = b
    BY <1>11, <2>1 DEF RecordOf
  <2>4. InRest(a, b)'
    BY <1>11, <2>3 DEF InRest, Of
  <2> QED
    BY <2>2, <2>4
<1> QED
  BY <1>5, <1>6, <1>7, <1>9, <1>10, <1>11, <1>12

LEMMA ProcessHeaderOnlyStep ==
  ASSUME IInv, ProcessHeaderOnly
  PROVE  IInv'
<1>1. RecordsOK /\ StackOK /\ BegunOK /\ StreamOK
  BY DEF IInv, StreamOK
<1>2. UNCHANGED <<server, main, request, crashed>> /\ TopCall = "read"
  BY DEF ProcessHeaderOnly
<1>3. /\ Reads(1) /\ OneRecord(1) /\ socket' \in SocketRecords /\ socket'.out = socket.out
      /\ socket'.thread = socket.thread /\ socket'.parent = socket.parent
  BY HeaderOnlyRest
<1>9. /\ manager' \in Manager /\ manager'.header = RecordOf(Rest[1]) /\ manager'.header # NoRecord
      /\ manager'.headers = manager.headers /\ manager'.streams = manager.streams
      /\ manager'.close = manager.close /\ manager'.state = manager.state
  BY HeaderOnlyRest
<1>11. Rest' # <<>> /\ Rest'[1].part = "payload" /\ RecordOf(Rest'[1]) = RecordOf(Rest[1])
  BY HeaderOnlyRest
<1>12. \A r, n : InRest(r, n)' <=> InRest(r, n)
  BY HeaderOnlyRest
<1>13. StreamOK'
  BY <1>1, <1>3, StreamRead
<1>14. /\ Begun' = Begun /\ (\A a : IdOf(a)' = IdOf(a) /\ Sent(a)' = Sent(a) /\ Phase(a)' = Phase(a)) /\ mode' = mode
  BY <1>2 DEF Begun, IdOf, Sent, Phase, mode
<1>15. RecordsOK'
  BY <1>1, <1>2, <1>3, <1>9 DEF RecordsOK
<1>16. BegunOK'
  BY <1>2, <1>14 DEF IInv, BegunOK
<1>17. EndedOK'
  BY <1>2, <1>3, EndedSame
<1>18. AnnouncedOK'
  BY <1>12, <1>14 DEF IInv, AnnouncedOK
<1>19. HeadersOK'
  BY <1>2, <1>9, <1>12, <1>14 DEF IInv, HeadersOK, NoLateCleanup
<1>20. StreamsOK'
  BY <1>9, <1>14 DEF IInv, StreamsOK
<1>21. BodyOK'
  BY <1>2, <1>12, <1>14 DEF IInv, BodyOK
<1>22. HeaderOK'
  <2>1. manager'.header # NoRecord /\ manager'.header = RecordOf(Rest'[1])
    BY <1>9, <1>11
  <2> QED
    BY <1>11, <2>1 DEF HeaderOK, RecordOf
<1>23. ThreadOK'
  BY <1>2, <1>3, <1>14 DEF IInv, ThreadOK
<1>24. StackOK'
  <2>1. KeepRunning
    BY <1>2 DEF KeepRunning, Phase
  <2> QED
    BY <1>1, <1>2, <2>1, StackSame
<1>25. ManagerOK'
  BY <1>2, <1>9, <1>14 DEF IInv, ManagerOK
<1> QED
  BY <1>13, <1>15, <1>16, <1>17, <1>18, <1>19, <1>20, <1>21, <1>22, <1>23, <1>24, <1>25 DEF IInv, StreamOK

-----------------------------------------------------------------------------
(* The life of a request. *)

LEMMA RequestBegun ==
  ASSUME IInv, NEW r \in Requests, Phase(r) # "none"
  PROVE  r \in Begun /\ IdOf(r) \in Ids /\ Sent(r) >= 3 /\ (server.begun <= 1 => r = 1)
<1>1. r \in Begun
  BY DEF IInv, BegunOK
<1>2. server.begun <= 1 => r = 1
  BY <1>1, Numbers DEF IInv
<1> QED
  BY <1>1, <1>2 DEF IInv, BegunOK

LEMMA EventsKept ==
  ASSUME IInv, \A a \in Requests : Phase(a) = "deleted" => request'[a].phase = "deleted"
  PROVE  \A j \in DOMAIN main.events : main.events[j][1] = "cleanup" =>
           mode = "threaded" /\ request'[main.events[j][2]].phase = "deleted"
<1> SUFFICES ASSUME NEW j \in DOMAIN main.events, main.events[j][1] = "cleanup"
             PROVE  mode = "threaded" /\ request'[main.events[j][2]].phase = "deleted"
  OBVIOUS
<1>1. PICK a \in Requests : a = main.events[j][2]
  BY EventFields DEF IInv
<1>2. mode = "threaded" /\ Phase(a) = "deleted"
  BY <1>1 DEF IInv, ManagerOK
<1>3. request'[a].phase = "deleted"
  BY <1>2
<1> QED
  BY <1>1, <1>2, <1>3

\* A request goes on, to its thread or to its slot.
LEMMA AdvancedStep ==
  ASSUME IInv, NEW r \in Requests, NEW p \in {"handed", "running"}, Phase(r) \in {"queued", "handed"},
         request' = [request EXCEPT ![r].phase = p], UNCHANGED <<server, manager, crashed>>,
         main' \in MainRecords, main'.mode = main.mode, main'.events = main.events,
         socket' \in SocketRecords, socket'.in = socket.in, socket'.out = socket.out, socket'.parent = socket.parent,
         ThreadOK', StackOK'
  PROVE  IInv'
<1>1. request \in [Requests -> RequestRecords] /\ RecordsOK
  BY DEF IInv, RecordsOK
<1>2. PICK q : q = [request[r] EXCEPT !.phase = p]
  OBVIOUS
<1>3. q \in RequestRecords /\ q.phase = p /\ q.headers = request[r].headers /\ q.body = request[r].body /\ q.data = request[r].data
  <2>1. request[r] \in RequestRecords
    BY <1>1
  <2> QED
    BY <1>2, <2>1 DEF RequestRecords
<1>4. request' = [request EXCEPT ![r] = q]
  BY <1>1, <1>2
<1>5. /\ request' \in [Requests -> RequestRecords] /\ request'[r] = q
      /\ \A a \in Requests : a # r => request'[a] = request[a]
      /\ \A a \in Requests : request'[a].body = request[a].body /\ request'[a].data = request[a].data
  BY <1>1, <1>3, <1>4, RequestUpdated
<1>6. /\ \A a \in Requests : (Phase(a)' = "none" <=> Phase(a) = "none") /\ (Phase(a)' = "deleted" <=> Phase(a) = "deleted")
      /\ \A a \in Requests : request'[a].headers = request[a].headers
  BY <1>3, <1>5 DEF Phase
<1>7. /\ Begun' = Begun /\ (\A a : IdOf(a)' = IdOf(a) /\ Sent(a)' = Sent(a)) /\ mode' = mode /\ Rest' = Rest
      /\ Begun \subseteq Requests /\ 1 \in Requests
  BY <1>1, Numbers DEF Begun, IdOf, Sent, mode, Rest
<1>8. \A a, n : InRest(a, n)' = InRest(a, n)
  BY <1>7, RestSame
<1>9. RecordsOK'
  BY <1>1, <1>5 DEF RecordsOK
<1>10. BegunOK'
  BY <1>6, <1>7 DEF IInv, BegunOK
<1>11. EndedOK'
  <2>1. \A a \in server.ended : a \in Requests
    BY <1>1 DEF RecordsOK, ServerRecords
  <2> QED
    BY <1>1, <1>6, <2>1, OutputFields DEF IInv, EndedOK
<1>12. StreamOK'
  <2>1. PiecesOK(Rest)'
    BY <1>7 DEF IInv, PiecesOK
  <2>2. PairedOK(Rest)'
    BY <1>7 DEF IInv, PairedOK, RecordOf
  <2>3. OrderedOK(Rest)'
    BY <1>7 DEF IInv, OrderedOK
  <2>4. NotOvertaken'
    BY <1>7, <1>8 DEF IInv, NotOvertaken
  <2> QED
    BY <2>1, <2>2, <2>3, <2>4 DEF StreamOK
<1>13. AnnouncedOK'
  BY <1>6, <1>7, <1>8 DEF IInv, AnnouncedOK
<1>14. HeadersOK'
  <2>1. NoLateCleanup' = NoLateCleanup
    BY <1>7 DEF NoLateCleanup
  <2> QED
    BY <1>6, <1>7, <1>8, <2>1 DEF IInv, HeadersOK
<1>15. StreamsOK'
  BY <1>6, <1>7 DEF IInv, StreamsOK
<1>16. BodyOK'
  BY <1>5, <1>7, <1>8 DEF IInv, BodyOK
<1>17. HeaderOK'
  BY <1>7 DEF IInv, HeaderOK, RecordOf
<1>18. ManagerOK'
  <2>1. \A j \in DOMAIN main.events : main.events[j][1] = "cleanup" =>
          mode = "threaded" /\ request'[main.events[j][2]].phase = "deleted"
    BY <1>6, EventsKept DEF Phase
  <2>2. ~KeepConn /\ ~Multiplex /\ manager.state # "alive" => Phase(1)' = "deleted"
    BY <1>6, <1>7 DEF IInv, ManagerOK
  <2>3. (KeepConn => manager.state = "alive" /\ \A j \in Ids : ~manager.close[j]) /\ (KeepConn \/ Multiplex \/ server.begun <= 1)
    BY DEF IInv, ManagerOK
  <2> QED
    BY <1>7, <2>1, <2>2, <2>3 DEF ManagerOK, Phase
<1> QED
  BY <1>9, <1>10, <1>11, <1>12, <1>13, <1>14, <1>15, <1>16, <1>17, <1>18 DEF IInv, StreamOK

LEMMA HandOverStep ==
  ASSUME IInv, NEW r \in Requests, HandOver(r)
  PROVE  IInv'
<1>1. /\ mode = "threaded" /\ Phase(r) = "queued" /\ request' = [request EXCEPT ![r].phase = "handed"]
      /\ socket' = [socket EXCEPT !.thread = MovedTo(r)] /\ UNCHANGED <<server, manager, main, crashed>>
  BY DEF HandOver
<1>2. RecordsOK /\ socket \in SocketRecords /\ main \in MainRecords /\ request \in [Requests -> RequestRecords] /\ 1 \in Requests
  BY Numbers DEF IInv, RecordsOK
<1>3. MovedTo(r) \in {Main} \union Requests
  BY <1>2 DEF MovedTo, SocketRecords
<1>4. /\ socket' \in SocketRecords /\ socket'.in = socket.in /\ socket'.out = socket.out /\ socket'.parent = socket.parent
      /\ socket'.thread = MovedTo(r)
  BY <1>1, <1>2, <1>3 DEF SocketRecords
<1>5. \A a \in Requests : request'[a].phase = IF a = r THEN "handed" ELSE request[a].phase
  BY <1>1, <1>2 DEF RequestRecords
<1>6. server.begun <= 1 => r = 1
  BY <1>1, RequestBegun
<1>7. ThreadOK'
  <2>1. ASSUME server.begun <= 1 PROVE request'[1].phase = "handed" /\ socket'.thread = 1
    BY <1>1, <1>4, <1>5, <1>6, <2>1 DEF IInv, ThreadOK, MovedTo
  <2> QED
    BY <1>1, <2>1 DEF ThreadOK, Phase, mode
<1>8. StackOK'
  <2>1. KeepRunning /\ StackOK
    BY <1>1, <1>5 DEF KeepRunning, Phase, IInv
  <2> QED
    BY <1>1, <1>2, <1>4, <2>1, StackKept
<1> QED
  BY <1>1, <1>2, <1>4, <1>7, <1>8, AdvancedStep

LEMMA RunSlotStep ==
  ASSUME IInv, NEW r \in Requests, RunSlot(r)
  PROVE  IInv'
<1>1. /\ request' = [request EXCEPT ![r].phase = "running"] /\ UNCHANGED <<server, socket, manager, crashed>>
      /\ \/ /\ mode = "blocking" /\ InMainLoop /\ Phase(r) = "queued"
            /\ main' = [main EXCEPT !.stack = <<SlotFrame(r)>> \o main.stack]
         \/ mode = "threaded" /\ Phase(r) = "handed" /\ UNCHANGED main
  BY DEF RunSlot
<1>2. /\ RecordsOK /\ StackOK /\ socket \in SocketRecords /\ main \in MainRecords /\ request \in [Requests -> RequestRecords]
      /\ 1 \in Requests
  BY Numbers DEF IInv, RecordsOK
<1>3. \A a \in Requests : request'[a].phase = IF a = r THEN "running" ELSE request[a].phase
  BY <1>1, <1>2 DEF RequestRecords
<1>4. Phase(r) \in {"queued", "handed"} /\ KeepRunning
  BY <1>1, <1>3 DEF KeepRunning, Phase
<1>5. PICK f \in Frames : f = SlotFrame(r) /\ f.call = "slot" /\ f.request = r /\ ~f.signalled
  BY FrameFields
<1>6. <<f>> \o main.stack \in Seq(Frames)
  BY <1>2, TopFrame, PushType
<1>7. main' \in MainRecords /\ main'.mode = main.mode /\ main'.events = main.events
  BY <1>1, <1>2, <1>5, <1>6 DEF MainRecords
<1>8. server.begun <= 1 => r = 1
  BY <1>4, RequestBegun
<1>9. ThreadOK'
  <2>1. mode # "threaded" => socket.thread = Main
    BY DEF IInv, ThreadOK
  <2>2. ASSUME mode = "threaded", server.begun <= 1 PROVE request'[1].phase = "running" /\ socket.thread = 1
    BY <1>1, <1>3, <1>8, <2>2 DEF IInv, ThreadOK
  <2> QED
    BY <1>1, <1>7, <2>1, <2>2 DEF ThreadOK, Phase, mode
<1>10. StackOK'
  <2>1. CASE mode = "blocking"
    <3>1. TopCall \in {"loop", "slot"} /\ main'.stack = <<f>> \o main.stack
      BY <1>1, <1>2, <1>5, <2>1 DEF InMainLoop, MainRecords
    <3>2. LookedAt
      BY <1>1, <1>2, <2>1, <3>1 DEF LookedAt, StackOK
    <3>3. request'[r].phase = "running" /\ Phase(r) # "running"
      BY <1>3, <1>4
    <3> QED
      BY <1>2, <1>4, <1>5, <1>7, <2>1, <3>1, <3>2, <3>3, StackPushed
  <2>2. CASE mode = "threaded"
    BY <1>1, <1>2, <1>4, <2>2, StackKept
  <2> QED
    BY <1>1, <2>1, <2>2
<1> QED
  BY <1>1, <1>2, <1>4, <1>7, <1>9, <1>10, AdvancedStep

\* cleanupStream.
LEMMA CleanedUpFields ==
  ASSUME RecordsOK, NEW r \in Requests, IdOf(r) \in Ids, NEW c, c = CleanedUp(r)
  PROVE  /\ c \in Manager /\ c.header = manager.header /\ c.close = manager.close
         /\ c.headers[IdOf(r)] = {} /\ \A j \in Ids : j # IdOf(r) => c.headers[j] = manager.headers[j]
         /\ c.streams[IdOf(r)] = NoRequest /\ \A j \in Ids : j # IdOf(r) => c.streams[j] = manager.streams[j]
         /\ c.state \in {manager.state, "doomed"} /\ (~manager.close[IdOf(r)] => c.state = manager.state)
<1>1. manager \in Manager
  BY DEF RecordsOK
<1>2. PICK i \in Ids : i = IdOf(r)
  OBVIOUS
<1>3. PICK h : h = [manager.headers EXCEPT ![i] = {}]
  OBVIOUS
<1>4. h \in [Ids -> SUBSET Requests] /\ h[i] = {} /\ \A j \in Ids : j # i => h[j] = manager.headers[j]
  BY <1>1, <1>3 DEF Manager
<1>5. PICK s : s = [manager.streams EXCEPT ![i] = NoRequest]
  OBVIOUS
<1>6. s \in [Ids -> Requests \union {NoRequest}] /\ s[i] = NoRequest /\ \A j \in Ids : j # i => s[j] = manager.streams[j]
  BY <1>1, <1>5 DEF Manager
<1>7. PICK t : t = IF manager.close[i] THEN "doomed" ELSE manager.state
  OBVIOUS
<1>8. t \in {"alive", "doomed", "deleted"} /\ t \in {manager.state, "doomed"} /\ (~manager.close[i] => t = manager.state)
  BY <1>1, <1>7 DEF Manager
<1>9. c = [manager EXCEPT !.state = t, !.headers = h, !.streams = s]
  BY <1>1, <1>2, <1>3, <1>5, <1>7 DEF CleanedUp, CloseAfter, WithoutStream, IdOf, Manager
<1>10. c \in Manager /\ c.header = manager.header /\ c.close = manager.close /\ c.headers = h /\ c.streams = s /\ c.state = t
  BY <1>1, <1>4, <1>6, <1>8, <1>9 DEF Manager
<1> QED
  BY <1>2, <1>4, <1>6, <1>8, <1>10

\* The manager may have cleaned up after a request that is gone.
Cleaned(r) ==
  /\ manager' \in Manager /\ manager'.close = manager.close
  /\ manager'.header \in {manager.header, NoRecord} /\ (mode # "direct" => manager'.header = manager.header)
  /\ \A j \in Ids : j # IdOf(r) => manager'.headers[j] = manager.headers[j] /\ manager'.streams[j] = manager.streams[j]
  /\ \/ manager'.headers = manager.headers /\ manager'.streams = manager.streams
     \/ manager'.headers[IdOf(r)] = {} /\ manager'.streams[IdOf(r)] = NoRequest
  /\ manager'.state \in {manager.state, "doomed"} /\ (~manager.close[IdOf(r)] => manager'.state = manager.state)
  /\ manager.state = "deleted" => manager'.state = "deleted"
  /\ mode # "threaded" /\ manager'.state # "deleted" => manager'.streams[IdOf(r)] = NoRequest

LEMMA GoneStep ==
  ASSUME IInv, NEW r \in Requests, Phase(r) \in {"running", "deleted"}, Cleaned(r), mode # "threaded" => Phase(r) = "running",
         UNCHANGED <<server, crashed>>, RecordsOK', main'.mode = main.mode, socket'.in = socket.in,
         socket'.thread = socket.thread,
         request'[r].phase = "deleted", request'[r].headers = request[r].headers, request'[r].body = request[r].body,
         request'[r].data = request[r].data, \A a \in Requests : a # r => request'[a] = request[a],
         EndedOK', StackOK',
         \A k \in DOMAIN main'.events :
           (main'.events[k] = Cleanup(r) /\ mode = "threaded") \/ \E j \in DOMAIN main.events : main'.events[k] = main.events[j]
  PROVE  IInv'
<1>1. RecordsOK
  BY DEF IInv
<1>2. r \in Begun /\ IdOf(r) \in Ids /\ Sent(r) >= 3 /\ (server.begun <= 1 => r = 1)
  BY RequestBegun
<1>3. /\ Begun' = Begun /\ (\A a : IdOf(a)' = IdOf(a) /\ Sent(a)' = Sent(a)) /\ mode' = mode /\ Rest' = Rest
      /\ Begun \subseteq Requests /\ 1 \in Requests
  BY <1>1, Numbers DEF Begun, IdOf, Sent, mode, Rest
<1>4. /\ \A a \in Requests : a # r => Phase(a)' = Phase(a)
      /\ Phase(r)' = "deleted" /\ Phase(r) # "none"
      /\ \A a \in Requests : request'[a].headers = request[a].headers /\ request'[a].body = request[a].body
                             /\ request'[a].data = request[a].data
  BY DEF Phase
<1>5. \A a, n : InRest(a, n)' = InRest(a, n)
  BY <1>3, RestSame
<1>6. \A a \in Requests : Phase(a)' = "none" <=> Phase(a) = "none"
  BY <1>4
<1>7. BegunOK'
  BY <1>3, <1>6 DEF IInv, BegunOK
<1>8. StreamOK'
  <2>1. PiecesOK(Rest)'
    BY <1>3 DEF IInv, PiecesOK
  <2>2. PairedOK(Rest)'
    BY <1>3 DEF IInv, PairedOK, RecordOf
  <2>3. OrderedOK(Rest)'
    BY <1>3 DEF IInv, OrderedOK
  <2>4. NotOvertaken'
    BY <1>3, <1>5 DEF IInv, NotOvertaken
  <2> QED
    BY <2>1, <2>2, <2>3, <2>4 DEF StreamOK
<1>9. AnnouncedOK'
  BY <1>3, <1>5, <1>6 DEF IInv, AnnouncedOK
<1>10. HeadersOK'
  <2> SUFFICES ASSUME NoLateCleanup, NEW a \in Begun
               PROVE  /\ Phase(a) = "none" /\ ~InRest(a, 1) =>
                           manager'.headers[IdOf(a)] = IF Sent(a) >= 2 /\ ~InRest(a, 2) THEN {a} ELSE {}
                      /\ Phase(a) # "none" => request[a].headers = {a}
    BY <1>3, <1>4, <1>5, <1>6 DEF HeadersOK, NoLateCleanup
  <2>1. Phase(a) # "none" => request[a].headers = {a}
    BY DEF IInv, HeadersOK
  <2>2. ASSUME Phase(a) = "none", ~InRest(a, 1)
        PROVE  manager'.headers[IdOf(a)] = IF Sent(a) >= 2 /\ ~InRest(a, 2) THEN {a} ELSE {}
    <3>1. a # r /\ a \in Ids \union Requests /\ IdOf(a) \in Ids
      BY <1>3, <1>4, <2>2 DEF IInv, BegunOK
    <3>2. mode # "threaded"
      <4> SUFFICES ASSUME mode = "threaded" PROVE FALSE
        OBVIOUS
      <4>1. server.begun <= 1
        BY DEF NoLateCleanup
      <4>2. a = 1
        <5>1. a \in 1..1
          BY <1>1, <1>3, <4>1, Numbers
        <5> QED
          BY <5>1
      <4> QED
        BY <1>2, <3>1, <4>1, <4>2
    <3>3. IdOf(a) # IdOf(r)
      <4> SUFFICES ASSUME IdOf(a) = IdOf(r) PROVE FALSE
        OBVIOUS
      <4>1. a \in Nat /\ r \in Nat
        BY <1>1, <1>3, Numbers
      <4>2. ~(a < r)
        BY <1>2, <2>2 DEF IInv, BegunOK, EndedOK
      <4>3. r < a
        BY <3>1, <4>1, <4>2
      <4>4. Phase(r) = "deleted"
        BY <1>2, <4>3 DEF IInv, BegunOK, EndedOK
      <4> QED
        BY <3>2, <4>4
    <3>4. manager'.headers[IdOf(a)] = manager.headers[IdOf(a)]
      BY <3>1, <3>3 DEF Cleaned
    <3> QED
      BY <2>2, <3>4 DEF IInv, HeadersOK
  <2> QED
    BY <2>1, <2>2
<1>11. StreamsOK'
  <2> SUFFICES ASSUME NEW j \in Ids, manager'.state # "deleted", manager'.streams[j] # NoRequest
               PROVE  /\ manager'.streams[j] \in Begun /\ IdOf(manager'.streams[j]) = j
                      /\ request'[manager'.streams[j]].phase # "none"
                      /\ mode # "threaded" => request'[manager'.streams[j]].phase # "deleted"
    BY <1>3 DEF StreamsOK, Phase
  <2>1. manager'.streams[j] = manager.streams[j] /\ manager.state # "deleted"
    BY DEF Cleaned
  <2>2. PICK s : s = manager.streams[j] /\ s = manager'.streams[j]
    BY <2>1
  <2>3. s \in Begun /\ IdOf(s) = j /\ Phase(s) # "none" /\ (mode # "threaded" => Phase(s) # "deleted")
    BY <2>1, <2>2 DEF IInv, StreamsOK
  <2>4. CASE s # r
    <3>1. request'[s].phase = Phase(s)
      BY <1>3, <2>3, <2>4 DEF Phase
    <3> QED
      BY <2>2, <2>3, <3>1
  <2>5. CASE s = r
    <3>1. mode = "threaded"
      BY <2>2, <2>3, <2>5 DEF Cleaned
    <3> QED
      BY <2>2, <2>3, <2>5, <3>1
  <2> QED
    BY <2>4, <2>5
<1>12. BodyOK'
  <2> SUFFICES ASSUME NEW a \in Requests
               PROVE  /\ \A k \in DOMAIN request[a].body : request[a].body[k] = a
                      /\ Len(request[a].body) <= BodyRecords /\ Len(request[a].data) <= Len(request[a].body)
                      /\ request[a].body # <<>> => Len(request[a].body) + 3 <= Sent(a)
                      /\ \A k \in 4..Len(Script) : InRest(a, k) => Len(request[a].body) < k - 3
    BY <1>3, <1>4, <1>5, SMTT(20) DEF BodyOK
  <2> QED
    BY DEF IInv, BodyOK
<1>13. HeaderOK'
  BY <1>3 DEF IInv, HeaderOK, Cleaned, RecordOf
<1>14. ThreadOK'
  <2>1. mode # "threaded" => socket.thread = Main
    BY DEF IInv, ThreadOK
  <2>2. server.begun <= 1 => Phase(1)' = "deleted"
    BY <1>2, <1>4
  <2> QED
    BY <1>3, <2>1, <2>2 DEF ThreadOK
<1>15. ManagerOK'
  <2>1. \A a \in Requests : Phase(a) = "deleted" => request'[a].phase = "deleted"
    BY <1>4 DEF Phase
  <2>2. ASSUME NEW k \in DOMAIN main'.events, main'.events[k][1] = "cleanup"
        PROVE  mode = "threaded" /\ request'[main'.events[k][2]].phase = "deleted"
    <3>1. CASE main'.events[k] = Cleanup(r) /\ mode = "threaded"
      BY <3>1 DEF Cleanup
    <3>2. CASE \E j \in DOMAIN main.events : main'.events[k] = main.events[j]
      BY <2>1, <2>2, <3>2, EventsKept
    <3> QED
      BY <3>1, <3>2
  <2>3. KeepConn => manager'.state = "alive" /\ \A j \in Ids : ~manager'.close[j]
    BY <1>2 DEF IInv, ManagerOK, Cleaned
  <2>4. ~KeepConn /\ ~Multiplex => Phase(1)' = "deleted"
    BY <1>2, <1>4 DEF IInv, ManagerOK
  <2>5. KeepConn \/ Multiplex \/ server.begun <= 1
    BY DEF IInv, ManagerOK
  <2> QED
    BY <1>3, <2>2, <2>3, <2>4, <2>5 DEF ManagerOK, Phase
<1> QED
  BY <1>7, <1>8, <1>9, <1>10, <1>11, <1>12, <1>13, <1>14, <1>15 DEF IInv, StreamOK

LEMMA FinishStep ==
  ASSUME IInv, NEW r \in Requests, Finish(r)
  PROVE  IInv'
<1>1. /\ RecordsOK /\ StackOK /\ socket \in SocketRecords /\ main \in MainRecords /\ manager \in Manager
      /\ request \in [Requests -> RequestRecords]
  BY DEF IInv, RecordsOK
<1>2. /\ Phase(r) = "running" /\ (mode # "threaded" => TopCall = "slot" /\ TopSlot = r) /\ UNCHANGED <<server, crashed>>
      /\ request' = [request EXCEPT ![r].phase = "deleted", ![r].flusher = "waiting"]
      /\ socket' = [socket EXCEPT !.out = Append(@, [kind |-> "end", request |-> r]), !.parent = <<"flusher", r>>]
      /\ mode = "threaded" =>
           main' = [main EXCEPT !.events = Append(@, Cleanup(r))] /\ UNCHANGED manager
      /\ mode # "threaded" =>
           /\ main' = [main EXCEPT !.stack = Tail(@)]
           /\ LET m == IF manager.state = "deleted" THEN manager ELSE CleanedUp(r) IN
              manager' = [m EXCEPT !.header = IF mode = "direct" THEN NoRecord ELSE @]
  BY DEF Finish, InSlot
<1>3. IdOf(r) \in Ids
  BY <1>2, RequestBegun
<1>4. PICK x \in Outputs : x = [kind |-> "end", request |-> r] /\ x.request = r
  <2>1. [kind |-> "end", request |-> r] \in Outputs
    BY DEF Outputs
  <2> QED
    BY <2>1
<1>5. PICK o \in Seq(Outputs) : /\ o = Append(socket.out, x)
                                /\ \A k \in DOMAIN o : o[k] = x \/ \E j \in DOMAIN socket.out : o[k] = socket.out[j]
  <2>1. PICK s \in Seq(Outputs) : s = socket.out
    BY <1>1 DEF SocketRecords
  <2>2. Append(s, x) \in Seq(Outputs) /\ \A k \in DOMAIN Append(s, x) : Append(s, x)[k] = x \/ \E j \in DOMAIN s : Append(s, x)[k] = s[j]
    BY AppendElements
  <2> QED
    BY <2>1, <2>2, Zenon
<1>6. socket' = [socket EXCEPT !.out = o, !.parent = <<"flusher", r>>]
  BY <1>2, <1>4, <1>5
<1>7. socket' \in SocketRecords /\ socket'.in = socket.in /\ socket'.thread = socket.thread /\ socket'.out = o
  BY <1>1, <1>6 DEF SocketRecords
<1>8. PICK q : q = [request[r] EXCEPT !.phase = "deleted", !.flusher = "waiting"]
  OBVIOUS
<1>9. q \in RequestRecords /\ q.phase = "deleted" /\ q.headers = request[r].headers /\ q.body = request[r].body /\ q.data = request[r].data
  <2>1. request[r] \in RequestRecords
    BY <1>1
  <2> QED
    BY <1>8, <2>1 DEF RequestRecords
<1>10. request' = [request EXCEPT ![r] = q]
  BY <1>1, <1>2, <1>8
<1>11. request' \in [Requests -> RequestRecords] /\ request'[r] = q /\ \A a \in Requests : a # r => request'[a] = request[a]
  BY <1>1, <1>9, <1>10, RequestUpdated
<1>12. \A a \in Requests : Phase(a) = "deleted" => request'[a].phase = "deleted"
  BY <1>9, <1>11 DEF Phase
<1>13. EndedOK'
  <2>1. \A a \in server.ended : a \in Requests /\ Phase(a) = "deleted"
    BY <1>1 DEF IInv, EndedOK, RecordsOK, ServerRecords
  <2>2. ASSUME NEW k \in DOMAIN o, o[k].kind = "end" PROVE request'[o[k].request].phase = "deleted"
    <3>1. CASE o[k] = x
      BY <1>4, <1>9, <1>11, <3>1
    <3>2. CASE \E j \in DOMAIN socket.out : o[k] = socket.out[j]
      <4>1. PICK j \in DOMAIN socket.out : o[k] = socket.out[j]
        BY <3>2
      <4>2. PICK a \in Requests : a = o[k].request
        BY <1>1, <4>1, OutputFields
      <4>3. Phase(a) = "deleted"
        BY <2>2, <4>1, <4>2 DEF IInv, EndedOK
      <4> QED
        BY <1>12, <4>2, <4>3
    <3> QED
      BY <1>5, <3>1, <3>2
  <2>3. \A a \in server'.ended : request'[a].phase = "deleted"
    BY <1>2, <1>12, <2>1
  <2> QED
    BY <1>7, <2>2, <2>3 DEF EndedOK, Phase
<1>14. /\ main' \in MainRecords /\ main'.mode = main.mode
       /\ \A k \in DOMAIN main'.events : (main'.events[k] = Cleanup(r) /\ mode = "threaded") \/ \E j \in DOMAIN main.events : main'.events[k] = main.events[j]
       /\ main'.stack = IF mode = "threaded" THEN main.stack ELSE Tail(main.stack)
  <2>1. CASE mode = "threaded"
    <3>1. /\ Append(main.events, Cleanup(r)) \in Seq(Events)
          /\ \A k \in DOMAIN Append(main.events, Cleanup(r)) :
               Append(main.events, Cleanup(r))[k] = Cleanup(r) \/ \E j \in DOMAIN main.events : Append(main.events, Cleanup(r))[k] = main.events[j]
      BY <1>1, EventFields, AppendElements
    <3>2. PICK e \in Seq(Events) : /\ e = Append(main.events, Cleanup(r))
                                   /\ \A k \in DOMAIN e : e[k] = Cleanup(r) \/ \E j \in DOMAIN main.events : e[k] = main.events[j]
      BY <3>1, Zenon
    <3>3. main' = [main EXCEPT !.events = e]
      BY <1>2, <2>1, <3>2
    <3>4. main' \in MainRecords /\ main'.mode = main.mode /\ main'.events = e /\ main'.stack = main.stack
      BY <1>1, <3>3 DEF MainRecords
    <3> QED
      BY <2>1, <3>2, <3>4
  <2>2. CASE mode # "threaded"
    <3>1. main.stack # <<>>
      BY <1>2, <2>2 DEF TopCall
    <3>2. PICK s \in Seq(Frames) : s = Tail(main.stack)
      BY <1>1, <3>1, TopFrame, TailType
    <3>3. main' = [main EXCEPT !.stack = s]
      BY <1>2, <2>2, <3>2
    <3> QED
      BY <1>1, <2>2, <3>2, <3>3 DEF MainRecords
  <2> QED
    BY <2>1, <2>2
<1>15. Cleaned(r)
  <2>1. CASE mode = "threaded"
    BY <1>1, <1>2, <2>1 DEF Cleaned
  <2>2. CASE mode # "threaded"
    <3>1. PICK m : m = IF manager.state = "deleted" THEN manager ELSE CleanedUp(r)
      OBVIOUS
    <3>2. PICK h : h = IF mode = "direct" THEN NoRecord ELSE m.header
      OBVIOUS
    <3>3. manager' = [m EXCEPT !.header = h]
      BY <1>2, <2>2, <3>1, <3>2
    <3>4. m \in Manager /\ m.header = manager.header
      BY <1>1, <1>3, <3>1, CleanedUpFields
    <3>5. h \in Record \union {NoRecord} /\ h \in {m.header, NoRecord} /\ (mode # "direct" => h = m.header)
      BY <3>2, <3>4 DEF Manager
    <3>6. /\ manager' \in Manager /\ manager'.header = h /\ manager'.headers = m.headers /\ manager'.streams = m.streams
          /\ manager'.close = m.close /\ manager'.state = m.state
      BY <3>3, <3>4, <3>5 DEF Manager
    <3>7. CASE manager.state = "deleted"
      BY <3>1, <3>4, <3>5, <3>6, <3>7 DEF Cleaned
    <3>8. CASE manager.state # "deleted"
      <4>1. m = CleanedUp(r)
        BY <3>1, <3>8
      <4> QED
        BY <1>1, <1>3, <3>4, <3>5, <3>6, <3>8, <4>1, CleanedUpFields DEF Cleaned
    <3> QED
      BY <3>7, <3>8
  <2> QED
    BY <2>1, <2>2
<1>16. RecordsOK'
  BY <1>1, <1>2, <1>7, <1>11, <1>14, <1>15 DEF RecordsOK, Cleaned
<1>17. StackOK'
  <2>1. CASE mode = "threaded"
    <3>1. \A k \in DOMAIN main.stack : main.stack[k].call # "slot"
      BY <1>1, <2>1 DEF StackOK
    <3>2. main'.stack = main.stack /\ mode' = mode
      BY <1>14, <2>1 DEF mode
    <3> QED
      BY <2>1, <3>1, <3>2 DEF StackOK
  <2>2. CASE mode # "threaded"
    <3>1. main.stack # <<>> /\ main'.stack = Tail(main.stack)
      BY <1>2, <1>14, <2>2 DEF TopCall
    <3>2. LookedAt
      <4>1. TopCall = "slot" /\ (manager'.state # "deleted" => manager.state # "deleted")
        BY <1>2, <1>15, <2>2 DEF Cleaned
      <4> QED
        BY <1>1, <1>7, <4>1 DEF LookedAt, StackOK
    <3>3. 1 \in DOMAIN main.stack /\ main.stack[1].call = "slot" /\ main.stack[1].request = r
      BY <1>1, <1>2, <2>2, <3>1, TopFrame
    <3>4. ASSUME NEW k \in DOMAIN main.stack, k # 1, main.stack[k].call = "slot"
          PROVE  request'[main.stack[k].request].phase = "running"
      <4>1. PICK a : a = main.stack[k].request
        OBVIOUS
      <4>2. a # r
        BY <1>1, <3>3, <3>4, <4>1 DEF StackOK
      <4>3. a \in Requests /\ Phase(a) = "running"
        BY <1>1, <3>4, <4>1, TopFrame, FrameFields DEF StackOK
      <4> QED
        BY <1>11, <4>1, <4>2, <4>3 DEF Phase
    <3> QED
      BY <1>1, <1>14, <3>1, <3>2, <3>4, StackPopped
  <2> QED
    BY <2>1, <2>2
<1> QED
  BY <1>2, <1>7, <1>9, <1>11, <1>13, <1>14, <1>15, <1>16, <1>17, GoneStep

LEMMA QueuedCleanupStep ==
  ASSUME IInv, QueuedCleanup
  PROVE  IInv'
<1>1. /\ RecordsOK /\ StackOK /\ main \in MainRecords /\ manager \in Manager
  BY DEF IInv, RecordsOK
<1>2. /\ main.events # <<>> /\ Head(main.events)[1] = "cleanup" /\ manager.state # "deleted"
      /\ manager' = CleanedUp(Head(main.events)[2]) /\ main' = [main EXCEPT !.events = Tail(main.events)]
      /\ UNCHANGED <<server, socket, request, crashed>>
  BY DEF QueuedCleanup, NextEvent
<1>3. PICK e \in Seq(Events) : /\ e = Tail(main.events)
                               /\ \A k \in DOMAIN e : \E j \in DOMAIN main.events : e[k] = main.events[j]
  <2>1. PICK s \in Seq(Events) : s = main.events
    BY <1>1, EventFields
  <2>2. Tail(s) \in Seq(Events) /\ \A k \in DOMAIN Tail(s) : \E j \in DOMAIN s : Tail(s)[k] = s[j]
    BY <1>2, <2>1, TailElements
  <2> QED
    BY <2>1, <2>2, Zenon
<1>4. 1 \in DOMAIN main.events /\ Head(main.events) = main.events[1]
  BY <1>1, <1>2, EventFields, TailElements
<1>5. PICK r \in Requests : r = Head(main.events)[2] /\ Phase(r) = "deleted" /\ mode = "threaded"
  BY <1>1, <1>2, <1>4, EventFields DEF IInv, ManagerOK
<1>6. IdOf(r) \in Ids
  BY <1>5, RequestBegun
<1>7. Cleaned(r)
  BY <1>1, <1>2, <1>5, <1>6, CleanedUpFields DEF Cleaned
<1>8. main' \in MainRecords /\ main'.mode = main.mode /\ main'.events = e /\ main'.stack = main.stack
  BY <1>1, <1>2, <1>3 DEF MainRecords
<1>9. RecordsOK'
  BY <1>1, <1>2, <1>7, <1>8 DEF RecordsOK, Cleaned
<1>10. EndedOK'
  BY <1>2, EndedSame
<1>11. StackOK'
  <2>1. KeepRunning
    BY <1>2 DEF KeepRunning, Phase
  <2>2. manager.state = "deleted" => manager'.state = "deleted"
    BY <1>2
  <2> QED
    BY <1>1, <1>2, <1>8, <2>1, <2>2, StackKept
<1> QED
  BY <1>2, <1>3, <1>5, <1>7, <1>8, <1>9, <1>10, <1>11, GoneStep DEF Phase

-----------------------------------------------------------------------------
(* The invariant. *)

LEMMA NothingIn ==
  /\ <<>> \in Seq(Piece) /\ <<>> \in Seq(Outputs) /\ <<>> \in Seq(Events) /\ <<>> \in Seq(Frames)
  /\ <<>> \in Seq(Requests) /\ <<>> \in Seq(1..BodyRecords)
  /\ DOMAIN <<>> = {} /\ Len(<<>>) = 0 /\ <<>> \o <<>> = <<>>
OBVIOUS

LEMMA InitIInv ==
  ASSUME Init
  PROVE  IInv
<1>1. PICK how \in Modes : main = [mode |-> how, checks |-> 0, events |-> <<>>, stack |-> <<>>]
  BY DEF Init
<1>2. /\ server.begun = 0 /\ (\A r \in Requests : Sent(r) = 0) /\ server.ended = {} /\ server.wire = <<>>
      /\ socket.in = <<>> /\ socket.out = <<>> /\ socket.thread = Main
      /\ manager.header = NoRecord /\ (\A i \in Ids : manager.streams[i] = NoRequest /\ manager.close[i] = FALSE)
      /\ manager.state = "alive" /\ main.mode = how /\ main.events = <<>> /\ main.stack = <<>>
      /\ \A r \in Requests : request[r].phase = "none" /\ request[r].body = <<>> /\ request[r].data = <<>>
  BY <1>1 DEF Init, Sent
<1>3. 1 \in Requests /\ MaxRequests \in Nat /\ Len(Script) \in Nat /\ BodyRecords \in Nat
  BY ConnectionAssumption, ScriptFacts DEF Requests
<1>4. RecordsOK
  <2>1. server \in ServerRecords
    BY <1>3, NothingIn DEF Init, ServerRecords
  <2>2. socket \in SocketRecords
    BY NothingIn DEF Init, SocketRecords
  <2>3. manager \in Manager
    BY DEF Init, Manager
  <2>4. main \in MainRecords
    BY <1>1, NothingIn DEF MainRecords
  <2>5. request \in [Requests -> RequestRecords]
    BY NothingIn DEF Init, RequestRecords
  <2> QED
    BY <2>1, <2>2, <2>3, <2>4, <2>5 DEF Init, RecordsOK
<1>5. Begun = {} /\ Rest = <<>> /\ DOMAIN Rest = {} /\ \A r, n : ~InRest(r, n)
  BY <1>2, NothingIn DEF Begun, Rest, InRest
<1>6. BegunOK /\ EndedOK /\ AnnouncedOK /\ HeadersOK /\ StreamsOK /\ NotOvertaken
  BY <1>2, <1>5, NothingIn DEF BegunOK, EndedOK, AnnouncedOK, HeadersOK, StreamsOK, NotOvertaken, Phase
<1>7. PiecesOK(Rest) /\ PairedOK(Rest) /\ OrderedOK(Rest)
  BY <1>5 DEF PiecesOK, PairedOK, OrderedOK
<1>8. BodyOK
  BY <1>2, <1>3, <1>5, NothingIn DEF BodyOK
<1>9. HeaderOK
  BY <1>2, <1>5 DEF HeaderOK
<1>10. ThreadOK
  BY <1>2, <1>3 DEF ThreadOK, Phase
<1>11. StackOK /\ ManagerOK
  BY <1>2, NothingIn DEF StackOK, ManagerOK
<1> QED
  BY <1>4, <1>6, <1>7, <1>8, <1>9, <1>10, <1>11 DEF IInv

LEMMA StepIInv ==
  ASSUME IInv, [Next]_vars
  PROVE  IInv'
<1>1. ASSUME NEW i \in Ids, BeginRequest(i) PROVE IInv'
  BY <1>1, BeginRequestStep
<1>2. ASSUME NEW r \in Requests, SendRecord(r) PROVE IInv'
  BY <1>2, SendRecordStep
<1>3. CASE Arrive
  BY <1>3, ArriveStep
<1>4. CASE Transmit
  BY <1>4, TransmitStep
<1>5. CASE CheckTimeout \/ QueuedCheck
  BY <1>5, CheckStep
<1>6. CASE QueuedCleanup
  BY <1>6, QueuedCleanupStep
<1>7. CASE ProcessRecordData
  <2>1. PICK i : i = server.idOf[NextRecord.request]
    OBVIOUS
  <2>2. NextRecord # NoRecord /\ manager.state # "deleted"
    BY <1>7 DEF ProcessRecordData
  <2>3. BeginRecord(i) \/ LoadParameters(i) \/ Respond(i) \/ ReadStandardInput(i)
    BY <1>7, <2>1 DEF ProcessRecordData
  <2>4. CASE BeginRecord(i)
    BY <2>1, <2>2, <2>4, BeginRecordStep
  <2>5. CASE LoadParameters(i)
    BY <2>1, <2>2, <2>5, LoadParametersStep
  <2>6. CASE Respond(i)
    BY <2>1, <2>2, <2>6, RespondStep
  <2>7. CASE ReadStandardInput(i)
    BY <2>1, <2>2, <2>7, ReadStandardInputStep
  <2> QED
    BY <2>3, <2>4, <2>5, <2>6, <2>7
<1>8. CASE ProcessHeaderOnly
  BY <1>8, ProcessHeaderOnlyStep
<1>9. CASE ProcessDone
  BY <1>9, ProcessDoneStep
<1>10. CASE DeferredDelete
  <2>1. PICK doomed : doomed = {r \in Requests : request[r].flusher = "doomed"}
    OBVIOUS
  <2>2. PICK R, b : R = (IF mode = "threaded" THEN {} ELSE doomed) /\ b = (manager.state = "doomed")
    OBVIOUS
  <2>3. DeleteObjects(R, b) /\ R \in SUBSET Requests /\ b \in BOOLEAN /\ (b => manager.state = "doomed")
    BY <1>10, <2>1, <2>2 DEF DeferredDelete
  <2> QED
    BY <2>3, DeleteStep
<1>11. ASSUME NEW r \in Requests, HandOver(r) PROVE IInv'
  BY <1>11, HandOverStep
<1>12. ASSUME NEW r \in Requests, RunSlot(r) PROVE IInv'
  BY <1>12, RunSlotStep
<1>13. ASSUME NEW r \in Requests, WaitForBody(r) \/ LoadBody(r) \/ PollBody(r) \/ EndWait(r) PROVE IInv'
  <2>1. PICK w \in {"no", "yes", "over"} : Loaded(r, w)
    BY <1>13 DEF WaitForBody, LoadBody, PollBody, EndWait
  <2>2. UNCHANGED <<server, socket, manager, main, crashed>>
    BY <1>13 DEF WaitForBody, LoadBody, PollBody, EndWait
  <2> QED
    BY <2>1, <2>2, LoadedStep
<1>14. ASSUME NEW r \in Requests, Write(r) PROVE IInv'
  BY <1>14, WriteStep
<1>15. ASSUME NEW r \in Requests, Finish(r) PROVE IInv'
  BY <1>15, FinishStep
<1>16. ASSUME NEW r \in Requests, DeferredDeleteFlusher(r) PROVE IInv'
  <2>1. DeleteObjects({r}, FALSE) /\ {r} \in SUBSET Requests
    BY <1>16 DEF DeferredDeleteFlusher
  <2> QED
    BY <2>1, DeleteStep
<1>17. CASE Undefined
  BY <1>17, CrashStep DEF Undefined
<1>18. CASE UNCHANGED vars
  BY <1>18, CrashStep DEF vars, IInv, RecordsOK
<1> QED
  BY <1>1, <1>2, <1>3, <1>4, <1>5, <1>6, <1>7, <1>8, <1>9, <1>10, <1>11, <1>12, <1>13, <1>14, <1>15, <1>16, <1>17, <1>18
     DEF Next, ServerStep, NetworkStep, MainStep, RequestStep, Terminated

-----------------------------------------------------------------------------
(* Behind a BlockingResponder, on a connection of its own. *)

LEMMA BlockingKept ==
  ASSUME IInv, BlockingOK, main'.mode = main.mode, crashed' = crashed,
         \A a \in Requests : request[a].flusher = "none" => request'[a].flusher = "none",
         socket'.alive = socket.alive, socket'.parent = socket.parent \/ socket'.parent[1] = "stream",
         request'[1].phase = "deleted" <=> request[1].phase = "deleted", manager'.state = manager.state,
         ~KeepConn /\ (\A a \in Begun : manager.close[IdOf(a)] \/ InRest(a, 1)) =>
           \A a \in Begun' : manager'.close[server'.idOf[a]] \/ InRest(a, 1)',
         manager.state = "deleted" /\ TopCall # "read" => TopCall' # "read"
  PROVE  BlockingOK'
<1> SUFFICES ASSUME mode = "blocking", ~KeepConn, ~Multiplex
             PROVE  /\ ~crashed
                    /\ request'[1].phase # "deleted" => socket'.alive /\ socket'.parent[1] # "flusher" /\ request'[1].flusher = "none"
                    /\ \A a \in Begun' : manager'.close[server'.idOf[a]] \/ InRest(a, 1)'
                    /\ request'[1].phase = "deleted" => manager'.state # "alive"
                    /\ \A a \in Requests \ {1} : request'[a].flusher = "none"
                    /\ manager'.state # "deleted" => socket'.alive
                    /\ manager'.state = "deleted" => TopCall' # "read"
  BY DEF BlockingOK, mode, Phase, IdOf
<1>1. 1 \in Requests
  BY Numbers DEF IInv
<1> QED
  BY <1>1 DEF BlockingOK, Phase

\* Nothing the web server asked for is forgotten, unless it is read.
Remembered ==
  /\ server'.begun = server.begun /\ server'.idOf = server.idOf /\ manager'.close = manager.close
  /\ \A a : InRest(a, 1) => InRest(a, 1)'

LEMMA BlockingStill ==
  ASSUME IInv, BlockingOK, Remembered, main'.mode = main.mode, crashed' = crashed,
         \A a \in Requests : request[a].flusher = "none" => request'[a].flusher = "none",
         socket'.alive = socket.alive, socket'.parent = socket.parent \/ socket'.parent[1] = "stream",
         request'[1].phase = "deleted" <=> request[1].phase = "deleted", manager'.state = manager.state,
         manager.state = "deleted" /\ TopCall # "read" => TopCall' # "read"
  PROVE  BlockingOK'
<1>1. (\A a \in Begun : manager.close[IdOf(a)] \/ InRest(a, 1)) =>
        \A a \in Begun' : manager'.close[server'.idOf[a]] \/ InRest(a, 1)'
  BY DEF Remembered, Begun, IdOf
<1> QED
  BY <1>1, BlockingKept

LEMMA BlockingSends ==
  ASSUME IInv, BlockingOK, (\E i \in Ids : BeginRequest(i)) \/ \E r \in Requests : SendRecord(r), IInv'
  PROVE  BlockingOK'
<1>1. UNCHANGED <<socket, manager, main, request, crashed>>
  BY DEF BeginRequest, SendRecord
<1>2. RecordsOK /\ server \in ServerRecords
  BY DEF IInv, RecordsOK
<1>3. PICK q \in Requests, n \in 1..Len(Script) :
        /\ server'.wire = server.wire \o Pieces(q, n)
        /\ Begun' \subseteq Begun \union {q} /\ (q \notin Begun => n = 1)
        /\ \A a \in Begun : server'.idOf[a] = IdOf(a)
  <2>1. ASSUME NEW i \in Ids, BeginRequest(i)
        PROVE  \E q \in Requests, n \in 1..Len(Script) :
                 /\ server'.wire = server.wire \o Pieces(q, n)
                 /\ Begun' \subseteq Begun \union {q} /\ (q \notin Begun => n = 1)
                 /\ \A a \in Begun : server'.idOf[a] = IdOf(a)
    <3>1. PICK r \in Requests : r = server.begun + 1
      BY <2>1 DEF BeginRequest
    <3>2. server' = [server EXCEPT !.begun = r, !.idOf[r] = i, !.sent[r] = 1, !.wire = server.wire \o Pieces(r, 1)]
      BY <2>1, <3>1 DEF BeginRequest
    <3>3. /\ server'.wire = server.wire \o Pieces(r, 1) /\ server'.begun = r
          /\ server'.idOf = [server.idOf EXCEPT ![r] = i]
      BY <1>2, <3>2 DEF ServerRecords
    <3>4. Begun' \subseteq Begun \union {r} /\ \A a \in Begun : a \in Requests /\ a # r
      BY <1>2, <3>1, <3>3, Numbers DEF Begun
    <3>5. \A a \in Begun : server'.idOf[a] = IdOf(a)
      BY <1>2, <3>3, <3>4 DEF IdOf, ServerRecords
    <3>6. 1 \in 1..Len(Script)
      BY ScriptFacts, ConnectionAssumption
    <3> QED
      BY <3>3, <3>4, <3>5, <3>6
  <2>2. ASSUME NEW r \in Requests, SendRecord(r)
        PROVE  \E q \in Requests, n \in 1..Len(Script) :
                 /\ server'.wire = server.wire \o Pieces(q, n)
                 /\ Begun' \subseteq Begun \union {q} /\ (q \notin Begun => n = 1)
                 /\ \A a \in Begun : server'.idOf[a] = IdOf(a)
    <3>1. PICK n \in 1..Len(Script) : n = server.sent[r] + 1
      <4>1. server.sent[r] \in Nat /\ Len(Script) \in Nat /\ server.sent[r] + 1 <= Len(Script)
        BY <1>2, <2>2, Numbers, ScriptFacts DEF SendRecord, Sent
      <4> QED
        BY <4>1
    <3>2. r \in Begun /\ server' = [server EXCEPT !.sent[r] = n, !.wire = server.wire \o Pieces(r, n)]
      BY <2>2, <3>1 DEF SendRecord, Outstanding, Begun
    <3>3. server'.wire = server.wire \o Pieces(r, n) /\ server'.begun = server.begun /\ server'.idOf = server.idOf
      BY <1>2, <3>2 DEF ServerRecords
    <3> QED
      BY <3>2, <3>3 DEF Begun, IdOf
  <2> QED
    BY <2>1, <2>2
<1>4. Sends(q, n)
  BY <1>1, <1>3 DEF Sends
<1>5. InRest(q, n)' /\ \A a, k : InRest(a, k) => InRest(a, k)'
  BY <1>2, <1>4, InRestSent
<1>6. (\A a \in Begun : manager.close[IdOf(a)] \/ InRest(a, 1)) =>
        \A a \in Begun' : manager'.close[server'.idOf[a]] \/ InRest(a, 1)'
  BY <1>1, <1>3, <1>5
<1>7. TopCall' = TopCall
  BY <1>1 DEF TopCall
<1> QED
  BY <1>1, <1>6, <1>7, BlockingKept

LEMMA TopPushed ==
  ASSUME RecordsOK, NEW f \in Frames, main'.stack = <<f>> \o main.stack
  PROVE  TopCall' = f.call
<1>1. PICK s \in Seq(Frames) : s = main.stack
  BY TopFrame
<1>2. PICK t \in Seq(Frames) : t = <<f>> \o s /\ Len(t) = Len(s) + 1 /\ t[1] = f
  <2>1. /\ <<f>> \o s \in Seq(Frames) /\ Len(<<f>> \o s) = Len(s) + 1
        /\ \A k \in 1..(Len(s) + 1) : (<<f>> \o s)[k] = IF k = 1 THEN f ELSE s[k - 1]
    BY PushType
  <2>2. 1 \in 1..(Len(s) + 1)
    OBVIOUS
  <2> QED
    BY <2>1, <2>2, Zenon
<1>3. t # <<>> /\ Head(t) = f
  BY <1>2
<1> QED
  BY <1>1, <1>2, <1>3 DEF TopCall

LEMMA BlockingArrives ==
  ASSUME IInv, BlockingOK, Arrive
  PROVE  BlockingOK'
<1>1. /\ UNCHANGED <<manager, request, crashed>>
      /\ socket' = [socket EXCEPT !.in = Append(@, Head(server.wire))] /\ server' = [server EXCEPT !.wire = Tail(@)]
      /\ server.wire # <<>>
      /\ manager.state = "deleted" => main' = main
      /\ main' = main \/ (\E k : main' = [main EXCEPT !.stack = k]) \/ (\E k : main' = [main EXCEPT !.events = k])
  BY DEF Arrive
<1>2. RecordsOK /\ main \in MainRecords /\ socket \in SocketRecords /\ server \in ServerRecords
  BY DEF IInv, RecordsOK
<1>3. main'.mode = main.mode /\ socket'.alive = socket.alive /\ socket'.parent = socket.parent
  BY <1>1, <1>2 DEF MainRecords, SocketRecords
<1>4. server'.begun = server.begun /\ server'.idOf = server.idOf
  BY <1>1, <1>2 DEF ServerRecords
<1>5. Rest' = Rest
  <2>1. PICK t \in Seq(Piece), s \in Seq(Piece) : t = server.wire /\ s = socket.in /\ t # <<>>
    BY <1>1, <1>2, RestTyped
  <2>2. socket'.in = Append(s, Head(t)) /\ server'.wire = Tail(t)
    BY <1>1, <1>2, <2>1 DEF SocketRecords, ServerRecords
  <2>3. Append(s, Head(t)) \o Tail(t) = s \o t
    BY <2>1, JoinArrive
  <2> QED
    BY <2>1, <2>2, <2>3 DEF Rest
<1>6. Remembered
  BY <1>1, <1>4, <1>5, RestSame DEF Remembered
<1>7. manager.state = "deleted" /\ TopCall # "read" => TopCall' # "read"
  BY <1>1 DEF TopCall
<1> QED
  BY <1>1, <1>3, <1>6, <1>7, BlockingStill

LEMMA BlockingTransmits ==
  ASSUME IInv, BlockingOK, Transmit
  PROVE  BlockingOK'
<1>1. RecordsOK /\ socket \in SocketRecords /\ server \in ServerRecords /\ 1 \in Requests
  BY Numbers DEF IInv, RecordsOK
<1>2. /\ UNCHANGED <<manager, main, crashed>> /\ socket' = [socket EXCEPT !.out = Tail(@)]
      /\ server' = server \/ (\E E : server' = [server EXCEPT !.ended = E])
  BY DEF Transmit
<1>3. socket'.in = socket.in /\ socket'.alive = socket.alive /\ socket'.parent = socket.parent
  BY <1>1, <1>2 DEF SocketRecords
<1>4. server'.begun = server.begun /\ server'.idOf = server.idOf /\ server'.wire = server.wire
  BY <1>1, <1>2 DEF ServerRecords
<1>5. PICK D : D = {r \in Requests : request[r].flusher = "waiting" /\ socket'.out = <<>>}
  OBVIOUS
<1>6. FlushersChange(D, "doomed")
  BY <1>5 DEF Transmit, FlushersChange
<1>7. \A a \in Requests : request'[a].phase = request[a].phase /\ request'[a].flusher = IF a \in D THEN "doomed" ELSE request[a].flusher
  BY <1>1, <1>6, FlusherFields
<1>8. \A a \in Requests : request[a].flusher = "none" => request'[a].flusher = "none"
  BY <1>5, <1>7
<1>9. Remembered
  <2>1. Rest' = Rest
    BY <1>3, <1>4 DEF Rest
  <2> QED
    BY <1>2, <1>4, <2>1, RestSame DEF Remembered
<1>10. TopCall' = TopCall /\ main'.mode = main.mode
  BY <1>2 DEF TopCall
<1> QED
  BY <1>1, <1>2, <1>3, <1>7, <1>8, <1>9, <1>10, BlockingStill

LEMMA BlockingChecks ==
  ASSUME IInv, BlockingOK, CheckTimeout \/ QueuedCheck
  PROVE  BlockingOK'
<1>1. /\ UNCHANGED <<server, socket, manager, request, crashed>> /\ manager.state # "deleted"
      /\ (\E k, s : main' = [main EXCEPT !.checks = k, !.stack = s]) \/ (\E k, s : main' = [main EXCEPT !.events = k, !.stack = s])
  BY DEF CheckTimeout, QueuedCheck, NextEvent
<1>2. main'.mode = main.mode
  BY <1>1 DEF IInv, RecordsOK, MainRecords
<1>3. Remembered
  BY <1>1, RestSame DEF Remembered, Rest
<1> QED
  BY <1>1, <1>2, <1>3, BlockingStill

\* What becomes of the manager but for m_recordHeader.
ManagerReads(m, i, r) ==
  \/ /\ m = [manager EXCEPT !.headers[i] = {}, !.streams = WithoutStream(i), !.close[i] = ~KeepConn]
     /\ NextRecord.kind = "begin"
  \/ /\ \/ m = [manager EXCEPT !.headers[i] = @ \union {NextRecord.request}]
        \/ m = [manager EXCEPT !.streams[i] = r]
        \/ m = manager
     /\ NextRecord.kind # "begin"

LEMMA BlockingReads ==
  ASSUME IInv, BlockingOK, ProcessRecordData
  PROVE  BlockingOK'
<1>1. /\ RecordsOK /\ socket \in SocketRecords /\ manager \in Manager /\ main \in MainRecords
      /\ request \in [Requests -> RequestRecords] /\ 1 \in Requests
  BY Numbers DEF IInv, RecordsOK
<1>2. NextRecord # NoRecord /\ manager.state # "deleted"
  BY DEF ProcessRecordData
<1>3. PICK r, n : r = NextRecord.request /\ n = NextRecord.nth
  OBVIOUS
<1>4. PICK i : i = server.idOf[r]
  OBVIOUS
<1>5. r \in Requests
  <2>1. Rest # <<>> /\ 1 \in DOMAIN Rest /\ NextRecord = RecordOf(Rest[1])
    BY <1>2, NextIs
  <2> QED
    BY <1>1, <1>3, <2>1, RestPieces DEF RecordOf
<1>6. PICK m, parent : Consume(m, parent) /\ parent \in Parents /\ (parent = socket.parent \/ parent[1] = "stream")
                       /\ ManagerReads(m, i, r)
  <2>1. socket.parent \in Parents /\ <<"stream", r>> \in Parents /\ <<"stream", r>>[1] = "stream"
    BY <1>1, <1>5 DEF Parents, SocketRecords
  <2>2. BeginRecord(i) \/ LoadParameters(i) \/ Respond(i) \/ ReadStandardInput(i)
    BY <1>3, <1>4 DEF ProcessRecordData
  <2>3. CASE BeginRecord(i)
    <3>1. PICK m : m = [manager EXCEPT !.headers[i] = {}, !.streams = WithoutStream(i), !.close[i] = ~KeepConn]
      OBVIOUS
    <3>2. Consume(m, socket.parent) /\ ManagerReads(m, i, r)
      BY <2>3, <3>1 DEF BeginRecord, ManagerReads
    <3> QED
      BY <2>1, <3>2
  <2>4. CASE LoadParameters(i)
    <3>1. PICK m : m = [manager EXCEPT !.headers[i] = @ \union {NextRecord.request}]
      OBVIOUS
    <3>2. Consume(m, socket.parent) /\ ManagerReads(m, i, r)
      BY <2>4, <3>1 DEF LoadParameters, ManagerReads
    <3> QED
      BY <2>1, <3>2
  <2>5. CASE Respond(i)
    <3>1. PICK m : m = [manager EXCEPT !.streams[i] = r]
      OBVIOUS
    <3>2. PICK parent : parent = IF socket.thread = Main THEN <<"stream", r>> ELSE socket.parent
      OBVIOUS
    <3>3. Consume(m, parent) /\ ManagerReads(m, i, r)
      BY <1>3, <2>5, <3>1, <3>2 DEF Respond, ManagerReads
    <3>4. parent \in Parents /\ (parent = socket.parent \/ parent[1] = "stream")
      BY <2>1, <3>2
    <3> QED
      BY <3>3, <3>4
  <2>6. CASE ReadStandardInput(i)
    <3>1. Consume(manager, socket.parent) /\ ManagerReads(manager, i, r)
      BY <2>6 DEF ReadStandardInput, ManagerReads
    <3> QED
      BY <2>1, <3>1
  <2> QED
    BY <2>2, <2>3, <2>4, <2>5, <2>6
<1>7. TopCall = "read" /\ ReadEffect(r, n) /\ NextRecord.kind = Script[n]
      /\ manager' = [m EXCEPT !.header = NoRecord] /\ socket'.parent = parent
  BY <1>2, <1>3, <1>6, ConsumeEffect
<1>8. i = IdOf(r) /\ i \in Ids /\ r \in Begun /\ n \in 1..Len(Script)
  BY <1>4, <1>7 DEF ReadEffect, IInv, BegunOK, IdOf
<1>9. manager'.state = manager.state /\ manager'.close = IF NextRecord.kind = "begin" THEN [manager.close EXCEPT ![i] = ~KeepConn] ELSE manager.close
  BY <1>1, <1>6, <1>7 DEF Manager, ManagerReads
<1>10. socket'.alive = socket.alive
  BY <1>1, <1>6 DEF Consume, SocketRecords
<1>11. /\ main'.mode = main.mode /\ UNCHANGED <<server, crashed>>
       /\ \A a \in Requests : request'[a].flusher = request[a].flusher /\ (request'[a].phase = "deleted" <=> request[a].phase = "deleted")
  <2>1. UNCHANGED <<server, crashed>>
    BY <1>7 DEF ReadEffect
  <2>2. BeginRecord(i) \/ LoadParameters(i) \/ Respond(i) \/ ReadStandardInput(i)
    BY <1>3, <1>4 DEF ProcessRecordData
  <2>3. CASE BeginRecord(i) \/ LoadParameters(i)
    BY <2>1, <2>3 DEF BeginRecord, LoadParameters
  <2>4. CASE Respond(i)
    <3>1. /\ main' = [main EXCEPT !.checks = @ + 1, !.stack = IF mode = "direct" THEN <<SlotFrame(r)>> \o @ ELSE @]
          /\ request' = [request EXCEPT ![r].headers = manager.headers[i],
                                        ![r].phase = IF mode = "direct" THEN "running" ELSE "queued"]
          /\ NextRecord.kind = "paramsEnd"
      BY <1>3, <2>4 DEF Respond
    <3>2. main'.mode = main.mode
      BY <1>1, <3>1 DEF MainRecords
    <3>3. Phase(r) = "none"
      <4>1. Script[n] = "paramsEnd"
        BY <1>7, <3>1
      <4>2. n = 3
        BY <1>8, <4>1, ScriptIndex
      <4>3. InRest(r, 3) /\ 3 \in 1..3
        BY <1>7, <4>2 DEF ReadEffect
      <4> QED
        BY <1>8, <4>3 DEF IInv, AnnouncedOK
    <3>4. PICK p \in {"running", "queued"} : p = IF mode = "direct" THEN "running" ELSE "queued"
      OBVIOUS
    <3>5. PICK q : q = [request[r] EXCEPT !.headers = manager.headers[i], !.phase = p]
      OBVIOUS
    <3>6. request[r] \in RequestRecords
      BY <1>1, <1>5
    <3>7. q.flusher = request[r].flusher /\ q.phase = p
      BY <3>5, <3>6 DEF RequestRecords
    <3>8. request' = [request EXCEPT ![r] = q]
      BY <1>1, <3>1, <3>4, <3>5
    <3>9. request'[r] = q /\ \A a \in Requests : a # r => request'[a] = request[a]
      BY <1>1, <1>5, <3>8
    <3> QED
      BY <2>1, <3>2, <3>3, <3>4, <3>7, <3>9 DEF Phase
  <2>5. CASE ReadStandardInput(i)
    <3>1. UNCHANGED main /\ (request' = request \/ \E s, b : request' = [request EXCEPT ![s].body = b])
      BY <2>5 DEF ReadStandardInput
    <3>2. ASSUME NEW s, NEW b, request' = [request EXCEPT ![s].body = b], NEW a \in Requests
          PROVE  request'[a].flusher = request[a].flusher /\ request'[a].phase = request[a].phase
      <4>1. request[a] \in RequestRecords
        BY <1>1
      <4>2. request'[a] = IF a = s THEN [request[a] EXCEPT !.body = b] ELSE request[a]
        BY <1>1, <3>2
      <4>3. [request[a] EXCEPT !.body = b].flusher = request[a].flusher /\ [request[a] EXCEPT !.body = b].phase = request[a].phase
        BY <4>1 DEF RequestRecords
      <4> QED
        BY <4>2, <4>3
    <3> QED
      BY <2>1, <3>1, <3>2
  <2> QED
    BY <2>2, <2>3, <2>4, <2>5
<1>12. ~KeepConn /\ (\A a \in Begun : manager.close[IdOf(a)] \/ InRest(a, 1)) =>
        \A a \in Begun' : manager'.close[server'.idOf[a]] \/ InRest(a, 1)'
  <2> SUFFICES ASSUME ~KeepConn, \A a \in Begun : manager.close[IdOf(a)] \/ InRest(a, 1), NEW a \in Begun
               PROVE  manager'.close[IdOf(a)] \/ InRest(a, 1)'
    BY <1>11 DEF Begun, IdOf
  <2>1. IdOf(a) \in Ids
    BY DEF IInv, BegunOK
  <2>2. CASE NextRecord.kind = "begin"
    <3>1. CASE IdOf(a) = i
      BY <1>1, <1>8, <1>9, <2>2, <3>1 DEF Manager
    <3>3. CASE IdOf(a) # i
      <4>1. manager'.close[IdOf(a)] = manager.close[IdOf(a)] /\ a # r
        BY <1>1, <1>8, <1>9, <2>1, <2>2, <3>3 DEF Manager
      <4> QED
        BY <1>7, <4>1 DEF ReadEffect
    <3> QED
      BY <3>1, <3>3
  <2>3. CASE NextRecord.kind # "begin"
    <3>1. n # 1
      BY <1>7, <2>3, ScriptFacts
    <3> QED
      BY <1>7, <1>9, <2>3, <3>1 DEF ReadEffect
  <2> QED
    BY <2>2, <2>3
<1> QED
  BY <1>1, <1>2, <1>6, <1>7, <1>9, <1>10, <1>11, <1>12, BlockingKept

LEMMA BlockingHeaderOnly ==
  ASSUME IInv, BlockingOK, ProcessHeaderOnly
  PROVE  BlockingOK'
<1>1. /\ RecordsOK /\ StreamOK /\ socket \in SocketRecords /\ manager \in Manager
      /\ UNCHANGED <<server, main, request, crashed>> /\ manager' = [manager EXCEPT !.header = RecordOf(socket.in[1])]
      /\ socket' = [socket EXCEPT !.in = Tail(@)] /\ PieceAt(1, "header") /\ manager.header = NoRecord /\ TopCall = "read"
      /\ NextRecord = NoRecord
  BY DEF ProcessHeaderOnly, IInv, RecordsOK, StreamOK
<1>2. socket'.alive = socket.alive /\ socket'.parent = socket.parent /\ socket'.in = Tail(socket.in)
  BY <1>1 DEF SocketRecords
<1>3. manager'.close = manager.close /\ manager'.state = manager.state
  BY <1>1 DEF Manager
<1>4. \A a : InRest(a, 1) => InRest(a, 1)'
  BY HeaderOnlyRest
<1>5. Remembered
  BY <1>1, <1>3, <1>4 DEF Remembered
<1>6. TopCall' = TopCall
  BY <1>1 DEF TopCall
<1> QED
  BY <1>1, <1>2, <1>3, <1>5, <1>6, BlockingStill

\* A call returns to a slot, or to the event loop.
LEMMA TopPopped ==
  ASSUME RecordsOK, StackOK, mode = "blocking", main.stack # <<>>, main'.stack = Tail(main.stack)
  PROVE  TopCall' # "read"
<1>1. PICK s \in Seq(Frames) : s = main.stack
  BY TopFrame
<1>2. PICK t \in Seq(Frames) : /\ t = Tail(s) /\ Len(t) = Len(s) - 1 /\ Len(s) > 0
                               /\ \A k \in 1..(Len(s) - 1) : t[k] = s[k + 1]
  <2>1. s # <<>>
    BY <1>1
  <2>2. /\ Tail(s) \in Seq(Frames) /\ Len(Tail(s)) = Len(s) - 1 /\ Len(s) > 0
        /\ \A k \in 1..(Len(s) - 1) : Tail(s)[k] = s[k + 1]
    BY <2>1, TailType
  <2> QED
    BY <2>2, Zenon
<1>3. CASE t = <<>>
  BY <1>1, <1>2, <1>3 DEF TopCall
<1>4. CASE t # <<>>
  <2>1. Head(t) = t[1] /\ 1 \in 1..(Len(s) - 1) /\ 2 \in DOMAIN s
    BY <1>2, <1>4
  <2>2. t[1] = s[2]
    BY <1>2, <2>1
  <2>3. s[2].call = "slot"
    BY <1>1, <2>1 DEF StackOK
  <2> QED
    BY <1>1, <1>2, <1>4, <2>1, <2>2, <2>3 DEF TopCall
<1> QED
  BY <1>3, <1>4

LEMMA BlockingReturns ==
  ASSUME IInv, BlockingOK, ProcessDone
  PROVE  BlockingOK'
<1>1. /\ UNCHANGED <<server, socket, manager, request, crashed>> /\ main' = [main EXCEPT !.stack = Tail(@)]
      /\ TopCall = "read" /\ main \in MainRecords
  BY DEF ProcessDone, IInv, RecordsOK
<1>2. Remembered
  BY <1>1, RestSame DEF Remembered, Rest
<1>3. main'.mode = main.mode
  BY <1>1 DEF MainRecords
<1> QED
  BY <1>1, <1>2, <1>3, BlockingStill

\* What a slot does but return.
LEMMA BlockingSlots ==
  ASSUME IInv, BlockingOK, NEW r \in Requests, RunSlot(r) \/ WaitForBody(r) \/ LoadBody(r) \/ PollBody(r) \/ EndWait(r) \/ Write(r)
  PROVE  BlockingOK'
<1>1. RecordsOK /\ main \in MainRecords /\ socket \in SocketRecords /\ request \in [Requests -> RequestRecords] /\ 1 \in Requests
  BY Numbers DEF IInv, RecordsOK
<1>2. /\ UNCHANGED <<server, manager, crashed>>
      /\ socket' = socket \/ \E o : socket' = [socket EXCEPT !.out = o]
      /\ main' = main \/ main' = [main EXCEPT !.stack = <<SlotFrame(r)>> \o main.stack]
      /\ \/ request' = [request EXCEPT ![r].phase = "running"] /\ Phase(r) \in {"queued", "handed"}
         \/ \E d, w : request' = [request EXCEPT ![r].data = d, ![r].wait = w]
         \/ request' = [request EXCEPT ![r].written = TRUE]
  BY DEF RunSlot, WaitForBody, LoadBody, PollBody, EndWait, Write, Loaded
<1>3. socket'.in = socket.in /\ socket'.alive = socket.alive /\ socket'.parent = socket.parent
  BY <1>1, <1>2 DEF SocketRecords
<1>4. main'.mode = main.mode /\ (main'.stack = main.stack \/ main'.stack = <<SlotFrame(r)>> \o main.stack)
  BY <1>1, <1>2 DEF MainRecords
<1>5. PICK q : /\ request' = [request EXCEPT ![r] = q] /\ q.flusher = request[r].flusher
               /\ q.phase = "deleted" <=> request[r].phase = "deleted"
  <2>1. request[r] \in RequestRecords
    BY <1>1
  <2>2. CASE request' = [request EXCEPT ![r].phase = "running"] /\ Phase(r) \in {"queued", "handed"}
    <3>1. PICK q : q = [request[r] EXCEPT !.phase = "running"]
      OBVIOUS
    <3>2. q.flusher = request[r].flusher /\ q.phase # "deleted" /\ request[r].phase # "deleted"
      BY <2>1, <2>2, <3>1 DEF RequestRecords, Phase
    <3> QED
      BY <1>1, <2>2, <3>1, <3>2
  <2>3. ASSUME NEW d, NEW w, request' = [request EXCEPT ![r].data = d, ![r].wait = w]
        PROVE  \E q : /\ request' = [request EXCEPT ![r] = q] /\ q.flusher = request[r].flusher
                      /\ q.phase = "deleted" <=> request[r].phase = "deleted"
    <3>1. PICK q : q = [request[r] EXCEPT !.data = d, !.wait = w]
      OBVIOUS
    <3>2. q.flusher = request[r].flusher /\ q.phase = request[r].phase
      BY <2>1, <3>1 DEF RequestRecords
    <3> QED
      BY <1>1, <2>3, <3>1, <3>2
  <2>4. CASE request' = [request EXCEPT ![r].written = TRUE]
    <3>1. PICK q : q = [request[r] EXCEPT !.written = TRUE]
      OBVIOUS
    <3>2. q.flusher = request[r].flusher /\ q.phase = request[r].phase
      BY <2>1, <3>1 DEF RequestRecords
    <3> QED
      BY <1>1, <2>4, <3>1, <3>2
  <2> QED
    BY <1>2, <2>2, <2>3, <2>4
<1>6. request'[r] = q /\ \A a \in Requests : a # r => request'[a] = request[a]
  BY <1>1, <1>5
<1>7. Remembered
  <2>1. Rest' = Rest
    BY <1>2, <1>3 DEF Rest
  <2> QED
    BY <1>2, <2>1, RestSame DEF Remembered
<1>8. TopCall # "read" => TopCall' # "read"
  <2>1. main'.stack = main.stack => TopCall' = TopCall
    BY DEF TopCall
  <2>2. main'.stack = <<SlotFrame(r)>> \o main.stack => TopCall' = "slot"
    BY <1>1, FrameFields, TopPushed
  <2> QED
    BY <1>4, <2>1, <2>2
<1>9. /\ \A a \in Requests : request[a].flusher = "none" => request'[a].flusher = "none"
      /\ request'[1].phase = "deleted" <=> request[1].phase = "deleted"
  BY <1>1, <1>5, <1>6
<1> QED
  BY <1>2, <1>3, <1>4, <1>7, <1>8, <1>9, BlockingStill

Alone == mode = "blocking" /\ ~KeepConn /\ ~Multiplex

LEMMA AloneFacts ==
  ASSUME IInv, BlockingOK, Alone
  PROVE  /\ ~crashed /\ 1 \in Requests
         /\ Phase(1) # "deleted" => socket.alive /\ socket.parent[1] # "flusher" /\ request[1].flusher = "none"
         /\ \A a \in Begun : manager.close[IdOf(a)] \/ InRest(a, 1)
         /\ Phase(1) = "deleted" <=> manager.state # "alive"
         /\ \A a \in Requests \ {1} : request[a].flusher = "none"
         /\ manager.state # "deleted" => socket.alive
         /\ manager.state = "deleted" => TopCall # "read"
         /\ \A a \in Requests : Phase(a) # "none" => a = 1
<1>1. \A a \in Requests : Phase(a) # "none" => a = 1
  BY RequestBegun DEF Alone, IInv, ManagerOK
<1>2. Phase(1) = "deleted" <=> manager.state # "alive"
  BY DEF Alone, IInv, ManagerOK, BlockingOK
<1>3. 1 \in Requests
  BY Numbers DEF IInv
<1> QED
  BY <1>1, <1>2, <1>3 DEF Alone, BlockingOK

LEMMA BlockingFinishes ==
  ASSUME IInv, BlockingOK, NEW r \in Requests, Finish(r)
  PROVE  BlockingOK'
<1> SUFFICES ASSUME Alone'
             PROVE  /\ ~crashed'
                    /\ request'[1].phase = "deleted"
                    /\ \A a \in Begun' : manager'.close[server'.idOf[a]] \/ InRest(a, 1)'
                    /\ manager'.state # "alive"
                    /\ \A a \in Requests \ {1} : request'[a].flusher = "none"
                    /\ manager'.state # "deleted" => socket'.alive
                    /\ manager'.state = "deleted" => TopCall' # "read"
  BY DEF BlockingOK, Alone, mode, Phase, IdOf
<1>1. /\ RecordsOK /\ StackOK /\ socket \in SocketRecords /\ main \in MainRecords /\ manager \in Manager
      /\ request \in [Requests -> RequestRecords]
  BY DEF IInv, RecordsOK
<1>2. /\ Phase(r) = "running" /\ UNCHANGED <<server, crashed>>
      /\ request' = [request EXCEPT ![r].phase = "deleted", ![r].flusher = "waiting"]
      /\ socket' = [socket EXCEPT !.out = Append(@, [kind |-> "end", request |-> r]), !.parent = <<"flusher", r>>]
      /\ mode = "threaded" \/ main' = [main EXCEPT !.stack = Tail(main.stack)]
      /\ mode # "threaded" =>
           /\ TopCall = "slot"
           /\ LET m == IF manager.state = "deleted" THEN manager ELSE CleanedUp(r) IN
              manager' = [m EXCEPT !.header = IF mode = "direct" THEN NoRecord ELSE @]
      /\ mode = "threaded" => main' = [main EXCEPT !.events = Append(@, Cleanup(r))]
  BY DEF Finish, InSlot
<1>3. Alone
  <2>1. main'.mode = main.mode
    BY <1>1, <1>2 DEF MainRecords
  <2> QED
    BY <2>1 DEF Alone, mode
<1>4. r = 1 /\ r \in Begun /\ IdOf(r) \in Ids
  BY <1>2, <1>3, RequestBegun, AloneFacts
<1>5. socket'.in = socket.in /\ socket'.alive = socket.alive
  BY <1>1, <1>2 DEF SocketRecords
<1>6. \A a, n : InRest(a, n)' = InRest(a, n)
  <2>1. Rest' = Rest
    BY <1>2, <1>5 DEF Rest
  <2> QED
    BY <2>1, RestSame
<1>7. PICK m : m = IF manager.state = "deleted" THEN manager ELSE CleanedUp(r)
  OBVIOUS
<1>8. manager' = [m EXCEPT !.header = m.header]
  BY <1>2, <1>3, <1>7 DEF Alone
<1>9. m \in Manager /\ m.close = manager.close /\ (manager.state = "deleted" <=> m.state = "deleted") /\ m.state # "alive"
  <2>1. manager.state # "alive" \/ manager.state # "deleted"
    OBVIOUS
  <2>2. CASE manager.state = "deleted"
    BY <1>1, <1>7, <2>2
  <2>3. CASE manager.state # "deleted"
    <3>1. m = CleanedUp(r)
      BY <1>7, <2>3
    <3>2. m \in Manager /\ m.close = manager.close
      BY <1>1, <1>4, <3>1, CleanedUpFields
    <3>3. manager.close[IdOf(r)]
      <4>1. ~InRest(r, 1)
        BY <1>2, <1>4 DEF IInv, AnnouncedOK
      <4> QED
        BY <1>3, <1>4, <4>1, AloneFacts
    <3>4. m.state = "doomed"
      BY <1>1, <3>1, <3>3 DEF CleanedUp, CloseAfter, IdOf, Manager
    <3> QED
      BY <2>3, <3>2, <3>4
  <2> QED
    BY <2>2, <2>3
<1>10. manager'.close = manager.close /\ manager'.state = m.state
  BY <1>8, <1>9 DEF Manager
<1>11. request'[r].phase = "deleted" /\ \A a \in Requests : a # r => request'[a] = request[a]
  <2>1. PICK q : q = [request[r] EXCEPT !.phase = "deleted", !.flusher = "waiting"]
    OBVIOUS
  <2>2. request[r] \in RequestRecords
    BY <1>1
  <2>3. q.phase = "deleted"
    BY <2>1, <2>2 DEF RequestRecords
  <2>4. request' = [request EXCEPT ![r] = q]
    BY <1>1, <1>2, <2>1
  <2> QED
    BY <1>1, <2>3, <2>4
<1>12. TopCall' # "read"
  <2>1. main.stack # <<>> /\ main'.stack = Tail(main.stack)
    BY <1>1, <1>2, <1>3 DEF Alone, TopCall, MainRecords
  <2> QED
    BY <1>1, <1>3, <2>1, TopPopped DEF Alone
<1>13. \A a \in Begun' : manager'.close[server'.idOf[a]] \/ InRest(a, 1)'
  BY <1>2, <1>3, <1>6, <1>10, AloneFacts DEF Begun, IdOf
<1>14. /\ ~crashed /\ (manager.state # "deleted" => socket.alive)
       /\ \A a \in Requests \ {1} : request[a].flusher = "none"
  BY <1>3, AloneFacts
<1> QED
  BY <1>2, <1>4, <1>5, <1>9, <1>10, <1>11, <1>12, <1>13, <1>14

LEMMA BlockingDeletes ==
  ASSUME IInv, BlockingOK, DeferredDelete
  PROVE  BlockingOK'
<1> SUFFICES ASSUME Alone'
             PROVE  /\ ~crashed'
                    /\ request'[1].phase = "deleted"
                    /\ \A a \in Begun' : manager'.close[server'.idOf[a]] \/ InRest(a, 1)'
                    /\ manager'.state = "deleted"
                    /\ \A a \in Requests \ {1} : request'[a].flusher = "none"
                    /\ TopCall' # "read"
  BY DEF BlockingOK, Alone, mode, Phase, IdOf
<1>1. /\ RecordsOK /\ socket \in SocketRecords /\ main \in MainRecords /\ manager \in Manager
      /\ request \in [Requests -> RequestRecords]
  BY DEF IInv, RecordsOK
<1>2. PICK doomed : doomed = {a \in Requests : request[a].flusher = "doomed"}
  OBVIOUS
<1>3. PICK R, b : R = (IF mode = "threaded" THEN {} ELSE doomed) /\ b = (manager.state = "doomed")
  OBVIOUS
<1>4. DeleteObjects(R, b) /\ R \in SUBSET doomed /\ InMainLoop /\ (manager.state = "doomed" \/ doomed # {})
  BY <1>2, <1>3 DEF DeferredDelete
<1>5. UNCHANGED <<server, crashed>> /\ FlushersChange(R, "deleted")
  BY <1>4 DEF DeleteObjects, FlushersChange
<1>6. \A a \in Requests : request'[a].phase = request[a].phase /\ request'[a].flusher = IF a \in R THEN "deleted" ELSE request[a].flusher
  BY <1>1, <1>5, FlusherFields
<1>7. /\ b => manager' = [manager EXCEPT !.state = "deleted"] /\ main' = [main EXCEPT !.checks = 0, !.events = <<>>]
      /\ ~b => UNCHANGED <<manager, main>>
      /\ \E x : socket' = [socket EXCEPT !.alive = x]
  BY <1>4 DEF DeleteObjects
<1>8. /\ main'.mode = main.mode /\ main'.stack = main.stack /\ manager'.close = manager.close /\ socket'.in = socket.in
      /\ manager'.state = IF b THEN "deleted" ELSE manager.state
  BY <1>1, <1>7 DEF MainRecords, Manager, SocketRecords
<1>9. Alone
  BY <1>8 DEF Alone, mode
<1>10. Phase(1) = "deleted" /\ manager.state # "alive" /\ 1 \in Requests /\ 1 \notin Requests \ {1}
  <2>1. CASE manager.state = "doomed"
    BY <1>9, <2>1, AloneFacts
  <2>2. CASE doomed # {}
    <3>1. PICK a \in Requests : request[a].flusher = "doomed"
      BY <1>2, <2>2
    <3>2. a = 1
      BY <1>9, <3>1, AloneFacts
    <3> QED
      BY <1>9, <3>1, <3>2, AloneFacts
  <2> QED
    BY <1>4, <2>1, <2>2
<1>11. manager'.state = "deleted"
  BY <1>1, <1>3, <1>8, <1>10 DEF Manager
<1>12. \A a \in Requests \ {1} : request'[a].flusher = "none"
  <2>1. \A a \in Requests \ {1} : request[a].flusher = "none"
    BY <1>9, AloneFacts
  <2>2. \A a \in Requests \ {1} : a \notin R
    BY <1>2, <1>4, <2>1
  <2> QED
    BY <1>6, <2>1, <2>2
<1>13. TopCall' # "read"
  BY <1>4, <1>8 DEF InMainLoop, TopCall
<1>14. \A a \in Begun' : manager'.close[server'.idOf[a]] \/ InRest(a, 1)'
  <2>1. Rest' = Rest
    BY <1>5, <1>8 DEF Rest
  <2>2. \A a : InRest(a, 1)' = InRest(a, 1)
    BY <2>1, RestSame
  <2> QED
    BY <1>5, <1>8, <1>9, <2>2, AloneFacts DEF Begun, IdOf
<1> QED
  BY <1>5, <1>6, <1>9, <1>10, <1>11, <1>12, <1>13, <1>14, AloneFacts DEF Phase

\* Nothing undefined is done.
LEMMA NothingUndefined ==
  ASSUME IInv, BlockingOK, Alone
  PROVE  ~Undefined
<1>1. RecordsOK
  BY DEF IInv
<1>2. ~(TopCall = "read" /\ (~socket.alive \/ manager.state = "deleted"))
  BY AloneFacts
<1>3. ~(manager.header = NoRecord /\ PieceAt(1, "payload"))
  <2> SUFFICES ASSUME manager.header = NoRecord, PieceAt(1, "payload") PROVE FALSE
    OBVIOUS
  <2>1. Len(socket.in) >= 1 /\ socket.in[1].part = "payload"
    BY DEF PieceAt
  <2>2. PICK i \in Seq(Piece), w \in Seq(Piece) : i = socket.in /\ w = server.wire
    BY <1>1 DEF RecordsOK, SocketRecords, ServerRecords
  <2>3. i \o w # <<>> /\ (i \o w)[1] = i[1]
    <3>1. Len(i) >= 1
      BY <2>1, <2>2
    <3>2. Len(i) \in Nat /\ Len(i \o w) >= 1 /\ i \o w \in Seq(Piece)
      BY <3>1
    <3> QED
      BY <3>1, <3>2
  <2>4. Rest # <<>> /\ Rest[1].part = "payload"
    BY <2>1, <2>2, <2>3 DEF Rest
  <2> QED
    BY <2>4 DEF IInv, HeaderOK, Alone
<1>4. ~TouchesDeadStream
  <2> SUFFICES ASSUME TouchesDeadStream PROVE FALSE
    OBVIOUS
  <2>1. NextRecord.kind \in {"stdin", "stdinEnd"}
    BY DEF TouchesDeadStream
  <2>2. NextRecord # NoRecord
    BY <2>1 DEF NoRecord
  <2>3. TopCall = "read" /\ 1 \in DOMAIN Rest /\ NextRecord = RecordOf(Rest[1])
    BY <2>2, NextIs
  <2>4. PICK i : i = IdOf(NextRecord.request)
    OBVIOUS
  <2>5. i \in Ids
    BY <2>3, <2>4 DEF RecordOf, IInv, PiecesOK, BegunOK
  <2>6. manager.state # "deleted"
    BY <2>3, AloneFacts
  <2>7. manager.streams[i] # NoRequest /\ Phase(manager.streams[i]) = "deleted"
    BY <2>4 DEF TouchesDeadStream, StreamFor, IdOf
  <2> QED
    BY <2>5, <2>6, <2>7 DEF IInv, StreamsOK, Alone
<1>5. \A r \in Requests : InSlot(r) => socket.alive
  <2> SUFFICES ASSUME NEW r \in Requests, Phase(r) = "running" PROVE socket.alive
    BY DEF InSlot
  <2>1. r = 1
    BY AloneFacts
  <2> QED
    BY <2>1, AloneFacts
<1> QED
  BY <1>2, <1>3, <1>4, <1>5 DEF Undefined

LEMMA InitBlocking ==
  ASSUME Init
  PROVE  BlockingOK
<1>1. \E how \in Modes : main = [mode |-> how, checks |-> 0, events |-> <<>>, stack |-> <<>>]
  BY DEF Init
<1>2. /\ ~crashed /\ socket.alive /\ socket.parent[1] = "manager" /\ server.begun = 0 /\ manager.state = "alive"
      /\ \A r \in Requests : request[r].flusher = "none" /\ request[r].phase = "none"
      /\ 1 \in Requests
  BY ConnectionAssumption DEF Init, Requests
<1>3. Begun = {}
  BY <1>2 DEF Begun
<1> QED
  BY <1>2, <1>3 DEF BlockingOK, Phase

LEMMA StepBlocking ==
  ASSUME IInv, BlockingOK, [Next]_vars, IInv'
  PROVE  BlockingOK'
<1>1. CASE ServerStep
  BY <1>1, BlockingSends DEF ServerStep
<1>2. CASE Arrive
  BY <1>2, BlockingArrives
<1>3. CASE Transmit
  BY <1>3, BlockingTransmits
<1>4. CASE CheckTimeout \/ QueuedCheck
  BY <1>4, BlockingChecks
<1>5. CASE QueuedCleanup \/ (\E r \in Requests : HandOver(r) \/ DeferredDeleteFlusher(r))
  <2>1. mode = "threaded"
    <3>1. CASE QueuedCleanup
      <4>1. main.events # <<>> /\ Head(main.events)[1] = "cleanup"
        BY <3>1 DEF QueuedCleanup, NextEvent
      <4>2. 1 \in DOMAIN main.events /\ Head(main.events) = main.events[1]
        BY <4>1, EventFields, TailElements DEF IInv
      <4> QED
        BY <4>1, <4>2 DEF IInv, ManagerOK
    <3>2. CASE \E r \in Requests : HandOver(r) \/ DeferredDeleteFlusher(r)
      BY <3>2 DEF HandOver, DeferredDeleteFlusher
    <3> QED
      BY <1>5, <3>1, <3>2
  <2>2. main'.mode = main.mode
    BY <1>5 DEF QueuedCleanup, HandOver, DeferredDeleteFlusher, DeleteObjects, IInv, RecordsOK, MainRecords
  <2> QED
    BY <2>1, <2>2 DEF BlockingOK, mode
<1>6. CASE ProcessRecordData
  BY <1>6, BlockingReads
<1>7. CASE ProcessHeaderOnly
  BY <1>7, BlockingHeaderOnly
<1>8. CASE ProcessDone
  BY <1>8, BlockingReturns
<1>9. CASE DeferredDelete
  BY <1>9, BlockingDeletes
<1>10. ASSUME NEW r \in Requests, RunSlot(r) \/ WaitForBody(r) \/ LoadBody(r) \/ PollBody(r) \/ EndWait(r) \/ Write(r)
       PROVE  BlockingOK'
  BY <1>10, BlockingSlots
<1>11. ASSUME NEW r \in Requests, Finish(r) PROVE BlockingOK'
  BY <1>11, BlockingFinishes
<1>12. CASE Undefined
  <2>1. UNCHANGED <<server, socket, manager, main, request>> /\ ~Alone
    BY <1>12, NothingUndefined DEF Undefined
  <2> QED
    BY <2>1 DEF BlockingOK, Alone, mode
<1>13. CASE UNCHANGED vars
  <2>1. UNCHANGED <<server, socket, manager, main, request, crashed>>
    BY <1>13 DEF vars
  <2>2. Remembered /\ TopCall' = TopCall
    BY <2>1, RestSame DEF Remembered, Rest, TopCall
  <2> QED
    BY <2>1, <2>2, BlockingStill
<1> QED
  BY <1>1, <1>2, <1>3, <1>4, <1>5, <1>6, <1>7, <1>8, <1>9, <1>10, <1>11, <1>12, <1>13
     DEF Next, NetworkStep, MainStep, RequestStep, Terminated

-----------------------------------------------------------------------------
(* The socket of a single request, whatever the application is connected to. *)

\* A flusher is what is left of a request; before that, the socket of a single one is there.
FlushersOK == \A r \in Requests : request[r].flusher # "none" => Phase(r) = "deleted"
SocketOK == ~KeepConn /\ ~Multiplex => (Phase(1) # "deleted" => socket.alive)

LEMMA InitSocket == Init => FlushersOK /\ SocketOK
BY DEF Init, FlushersOK, SocketOK

\* Nothing but a deletion closes the socket, and a request that is deleted remains so.
LEMMA SocketKept ==
  ASSUME IInv, FlushersOK, SocketOK, socket'.alive = socket.alive,
         \A r \in Requests : Phase(r) = "deleted" => request'[r].phase = "deleted",
         \A r \in Requests : request'[r].flusher # "none" =>
           request[r].flusher # "none" \/ request'[r].phase = "deleted"
  PROVE  FlushersOK' /\ SocketOK'
<1>1. 1 \in Requests
  BY ConnectionAssumption DEF Requests
<1>2. FlushersOK'
  BY DEF FlushersOK, Phase
<1>3. SocketOK'
  BY <1>1 DEF SocketOK, Phase
<1> QED
  BY <1>2, <1>3

\* What is deleted was left by the request, or is the manager after its request.
LEMMA SocketDeleted ==
  ASSUME IInv, FlushersOK, SocketOK, NEW R \in SUBSET Requests, NEW withManager \in BOOLEAN,
         DeleteObjects(R, withManager), \A r \in R : request[r].flusher = "doomed",
         withManager => manager.state = "doomed"
  PROVE  FlushersOK' /\ SocketOK'
<1>1. \A r \in Requests : request'[r].phase = Phase(r) /\ (r \notin R => request'[r].flusher = request[r].flusher)
  BY DEF DeleteObjects, Phase, IInv, RecordsOK, RequestRecords
<1>2. FlushersOK'
  BY <1>1 DEF FlushersOK, Phase
<1>3. 1 \in Requests
  BY ConnectionAssumption DEF Requests
<1>4. ASSUME ~KeepConn, ~Multiplex, Phase(1) # "deleted"
      PROVE  R = {} /\ ~withManager
  <2>1. ~withManager
    BY <1>4 DEF IInv, ManagerOK
  <2>2. ASSUME NEW r \in R PROVE FALSE
    <3>1. r \in Requests /\ Phase(r) = "deleted"
      BY <2>2 DEF FlushersOK
    <3>2. server.begun <= 1
      BY <1>4 DEF IInv, ManagerOK
    <3>3. r = 1
      BY <3>1, <3>2, RequestBegun
    <3> QED
      BY <1>4, <3>1, <3>3
  <2> QED
    BY <2>1, <2>2
<1>5. ASSUME R = {}, ~withManager, socket.alive PROVE socket'.alive
  BY <1>5 DEF DeleteObjects, IInv, RecordsOK, SocketRecords
<1>6. SocketOK'
  BY <1>1, <1>3, <1>4, <1>5 DEF SocketOK, Phase
<1> QED
  BY <1>2, <1>6

LEMMA StepSocket ==
  ASSUME IInv, FlushersOK, SocketOK, [Next]_vars
  PROVE  FlushersOK' /\ SocketOK'
<1>1. /\ \A r \in Requests : request[r] \in RequestRecords
      /\ request \in [Requests -> RequestRecords] /\ socket \in SocketRecords
  BY DEF IInv, RecordsOK
<1>2. CASE UNCHANGED <<socket, request>>
  BY <1>2, SocketKept DEF Phase
<1>3. CASE ServerStep \/ CheckTimeout \/ QueuedCheck \/ QueuedCleanup \/ ProcessDone \/ Undefined \/ UNCHANGED vars
  <2>1. UNCHANGED <<socket, request>>
    BY <1>3 DEF ServerStep, BeginRequest, SendRecord, CheckTimeout, QueuedCheck, QueuedCleanup, ProcessDone,
                Undefined, vars
  <2> QED
    BY <1>2, <2>1
<1>4. CASE Arrive \/ ProcessHeaderOnly
  <2>1. UNCHANGED request /\ socket'.alive = socket.alive
    BY <1>1, <1>4 DEF Arrive, ProcessHeaderOnly, SocketRecords
  <2> QED
    BY <2>1, SocketKept DEF Phase
<1>5. CASE Transmit
  <2>1. socket'.alive = socket.alive
    BY <1>1, <1>5 DEF Transmit, SocketRecords
  <2>2. ASSUME NEW r \in Requests
        PROVE  /\ request'[r].phase = request[r].phase
               /\ request'[r].flusher # "none" => request[r].flusher # "none"
    <3>1. request'[r] = request[r] \/ (request[r].flusher = "waiting" /\ request'[r] = [request[r] EXCEPT !.flusher = "doomed"])
      BY <1>5 DEF Transmit
    <3> QED
      BY <1>1, <3>1 DEF RequestRecords
  <2> QED
    BY <2>1, <2>2, SocketKept DEF Phase
<1>6. CASE ProcessRecordData
  <2>1. PICK i : BeginRecord(i) \/ LoadParameters(i) \/ Respond(i) \/ ReadStandardInput(i)
    BY <1>6 DEF ProcessRecordData
  <2>2. socket'.alive = socket.alive
    BY <1>1, <2>1 DEF BeginRecord, LoadParameters, Respond, ReadStandardInput, Consume, SocketRecords
  <2>3. CASE Respond(i)
    <3>1. PICK a : a = NextRecord.request
      OBVIOUS
    <3>2. ASSUME NEW r \in Requests
          PROVE  request'[r].flusher = request[r].flusher /\ (r # a => request'[r] = request[r])
      BY <1>1, <2>3, <3>1, <3>2 DEF Respond, RequestRecords
    <3>3. Phase(a) = "none"
      <4>1. NextRecord # NoRecord /\ NextRecord.kind = "paramsEnd"
        BY <1>6, <2>3 DEF ProcessRecordData, Respond
      <4>2. 1 \in DOMAIN Rest /\ NextRecord = RecordOf(Rest[1])
        BY <4>1, NextIs
      <4>3. Rest[1].request = a /\ Rest[1].kind = "paramsEnd"
        BY <3>1, <4>1, <4>2 DEF RecordOf
      <4>4. a \in Begun /\ Rest[1].nth \in 1..Len(Script) /\ Script[Rest[1].nth] = "paramsEnd"
        BY <4>2, <4>3, RestPieces DEF IInv, PiecesOK
      <4>5. Rest[1].nth = 3 /\ 3 \in 1..3
        BY <4>4, ScriptIndex
      <4>6. InRest(a, 3)
        BY <4>2, <4>3, <4>5 DEF InRest, Of
      <4> QED
        BY <4>4, <4>5, <4>6 DEF IInv, AnnouncedOK
    <3> QED
      BY <2>2, <3>2, <3>3, SocketKept DEF Phase
  <2>4. CASE ~Respond(i)
    <3>1. \A r \in Requests : request'[r].phase = request[r].phase /\ request'[r].flusher = request[r].flusher
      <4>1. UNCHANGED request \/ \E a, b : request' = [request EXCEPT ![a].body = b]
        BY <2>1, <2>4 DEF BeginRecord, LoadParameters, ReadStandardInput
      <4>2. ASSUME NEW r \in Requests, NEW a, NEW b, request' = [request EXCEPT ![a].body = b]
            PROVE  request'[r].phase = request[r].phase /\ request'[r].flusher = request[r].flusher
        <5>1. PICK q \in RequestRecords : q = request[r]
          BY <1>1
        <5>2. request'[r] = q \/ request'[r] = [q EXCEPT !.body = b]
          BY <1>1, <4>2, <5>1
        <5> QED
          BY <5>1, <5>2 DEF RequestRecords
      <4> QED
        BY <4>1, <4>2
    <3> QED
      BY <2>2, <3>1, SocketKept DEF Phase
  <2> QED
    BY <2>3, <2>4
<1>7. CASE DeferredDelete
  <2>1. PICK doomed \in SUBSET Requests : doomed = {r \in Requests : request[r].flusher = "doomed"}
    OBVIOUS
  <2>2. PICK R \in SUBSET Requests : R = IF mode = "threaded" THEN {} ELSE doomed
    BY <2>1
  <2>3. DeleteObjects(R, manager.state = "doomed")
    BY <1>7, <2>1, <2>2 DEF DeferredDelete
  <2> QED
    BY <2>1, <2>2, <2>3, SocketDeleted
<1>8. ASSUME NEW a \in Requests, DeferredDeleteFlusher(a) PROVE FlushersOK' /\ SocketOK'
  <2>1. {a} \in SUBSET Requests /\ \A r \in {a} : request[r].flusher = "doomed"
    BY <1>8 DEF DeferredDeleteFlusher
  <2>2. DeleteObjects({a}, FALSE)
    BY <1>8 DEF DeferredDeleteFlusher
  <2> QED
    BY <2>1, <2>2, SocketDeleted
<1>9. ASSUME NEW a \in Requests, HandOver(a) \/ RunSlot(a) PROVE FlushersOK' /\ SocketOK'
  <2>1. socket'.alive = socket.alive /\ Phase(a) # "deleted"
    BY <1>1, <1>9 DEF HandOver, RunSlot, SocketRecords
  <2>2. \A r \in Requests : request'[r].flusher = request[r].flusher /\ (r # a => request'[r] = request[r])
    BY <1>1, <1>9 DEF HandOver, RunSlot, RequestRecords
  <2> QED
    BY <2>1, <2>2, SocketKept DEF Phase
<1>10. ASSUME NEW a \in Requests, WaitForBody(a) \/ LoadBody(a) \/ PollBody(a) \/ EndWait(a) \/ Write(a)
       PROVE  FlushersOK' /\ SocketOK'
  <2>1. socket'.alive = socket.alive
    BY <1>1, <1>10 DEF WaitForBody, LoadBody, PollBody, EndWait, Write, SocketRecords
  <2>2. \A r \in Requests : request'[r].flusher = request[r].flusher /\ request'[r].phase = request[r].phase
    <3>1. \/ \E d, wait : request' = [request EXCEPT ![a].data = d, ![a].wait = wait]
          \/ request' = [request EXCEPT ![a].written = TRUE]
      BY <1>10 DEF WaitForBody, LoadBody, PollBody, EndWait, Write, Loaded
    <3>2. ASSUME NEW r \in Requests, NEW d, NEW wait, request' = [request EXCEPT ![a].data = d, ![a].wait = wait]
          PROVE  request'[r].flusher = request[r].flusher /\ request'[r].phase = request[r].phase
      <4>1. PICK q \in RequestRecords : q = request[r]
        BY <1>1
      <4>2. request'[r] = q \/ request'[r] = [q EXCEPT !.data = d, !.wait = wait]
        BY <1>1, <3>2, <4>1
      <4> QED
        BY <4>1, <4>2 DEF RequestRecords
    <3>3. ASSUME NEW r \in Requests, request' = [request EXCEPT ![a].written = TRUE]
          PROVE  request'[r].flusher = request[r].flusher /\ request'[r].phase = request[r].phase
      BY <1>1, <3>3 DEF RequestRecords
    <3>4. CASE \E d, wait : request' = [request EXCEPT ![a].data = d, ![a].wait = wait]
      <4>1. PICK d, wait : request' = [request EXCEPT ![a].data = d, ![a].wait = wait]
        BY <3>4
      <4> QED
        BY <3>2, <4>1
    <3>5. CASE request' = [request EXCEPT ![a].written = TRUE]
      BY <3>3, <3>5
    <3> QED
      BY <3>1, <3>4, <3>5
  <2> QED
    BY <2>1, <2>2, SocketKept DEF Phase
<1>11. ASSUME NEW a \in Requests, Finish(a) PROVE FlushersOK' /\ SocketOK'
  <2>1. socket'.alive = socket.alive
    BY <1>1, <1>11 DEF Finish, SocketRecords
  <2>2. request'[a].phase = "deleted" /\ \A r \in Requests : r # a => request'[r] = request[r]
    BY <1>1, <1>11 DEF Finish, RequestRecords
  <2> QED
    BY <2>1, <2>2, SocketKept DEF Phase
<1> QED
  BY <1>3, <1>4, <1>5, <1>6, <1>7, <1>8, <1>9, <1>10, <1>11
     DEF Next, NetworkStep, MainStep, RequestStep, Terminated

-----------------------------------------------------------------------------
(* The theorems. *)

LEMMA AlwaysIInv == Spec => []IInv
BY InitIInv, StepIInv, PTL DEF Spec

LEMMA AlwaysBlocking == Spec => []BlockingOK
<1>1. Init => IInv /\ BlockingOK
  BY InitIInv, InitBlocking
<1>2. IInv /\ BlockingOK /\ [Next]_vars => IInv' /\ BlockingOK'
  BY StepIInv, StepBlocking
<1> QED
  BY <1>1, <1>2, PTL DEF Spec

\* The members of FastCgiSocketManager, FastCgiStream and SocketFlusher hold what they
\* are declared to hold, however many requests share the connection.
THEOREM TypeCorrect == Spec => []TypeOK
<1>1. IInv => TypeOK
  BY DEF IInv, RecordsOK, TypeOK, ServerRecords, SocketRecords, Outputs, MainRecords, Events,
         RequestRecords
<1> QED
  BY <1>1, AlwaysIInv, PTL

\* Behind a responder, m_recordHeader is set exactly while the payload of that record is
\* what comes next (FastCgiSocketManager.h:84), also when requests overlap or
\* processSocketData() is entered from a nested event loop.
THEOREM RecordHeaderCorrect == Spec => []RecordHeaderIsCurrent
<1>1. IInv => RecordHeaderIsCurrent
  <2> SUFFICES ASSUME IInv, mode # "direct"
               PROVE  manager.header = IF Rest # <<>> /\ Rest[1].part = "payload"
                                       THEN RecordOf(Rest[1]) ELSE NoRecord
    BY DEF RecordHeaderIsCurrent, Rest
  <2> QED
    BY DEF IInv, HeaderOK
<1> QED
  BY <1>1, AlwaysIInv, PTL

LEMMA OneThreadedRequest ==
  ASSUME IInv, "threaded" \in Modes => ~KeepConn /\ ~Multiplex
  PROVE  NoLateCleanup
<1>1. mode \in Modes
  BY DEF IInv, RecordsOK, MainRecords, mode
<1> QED
  BY <1>1 DEF IInv, ManagerOK, NoLateCleanup

\* Whatever the interleaving of the requests of a connection, their records and the event
\* loops, a request has its own parameters and its own standard input
\* (FastCgiSocketManager.cpp:110-138).  With threads, for a connection of its own: on a
\* shared one a late cleanupStream() takes the parameters of the next request with the id.
THEOREM RoutedCorrect ==
  ("threaded" \in Modes => ~KeepConn /\ ~Multiplex) /\ Spec => []RoutedToOwner
<1> SUFFICES ASSUME "threaded" \in Modes => ~KeepConn /\ ~Multiplex
             PROVE  Spec => []RoutedToOwner
  OBVIOUS
<1>1. IInv => RoutedToOwner
  <2> SUFFICES ASSUME IInv, NEW r \in Requests, Phase(r) # "none"
               PROVE  /\ request[r].headers = {r}
                      /\ Len(request[r].body) <= BodyRecords
                      /\ \A k \in 1..Len(request[r].body) : request[r].body[k] = r
    BY DEF RoutedToOwner
  <2>1. request[r].headers = {r}
    BY OneThreadedRequest, RequestBegun DEF IInv, HeadersOK
  <2>2. Len(request[r].body) <= BodyRecords /\ \A k \in DOMAIN request[r].body : request[r].body[k] = r
    BY DEF IInv, BodyOK
  <2>3. request[r].body \in Seq(Requests)
    BY DEF IInv, RecordsOK, RequestRecords
  <2> QED
    BY <2>1, <2>2, <2>3
<1> QED
  BY <1>1, AlwaysIInv, PTL

\* The socket lives in the thread that answers on it (FastCgiStream.cpp:87); with threads,
\* for a connection of its own: on a shared one the socket stays with the first worker.
THEOREM ThreadCorrect ==
  ("threaded" \in Modes => ~KeepConn /\ ~Multiplex) /\ Spec => []SocketInSlotThread
<1> SUFFICES ASSUME "threaded" \in Modes => ~KeepConn /\ ~Multiplex
             PROVE  Spec => []SocketInSlotThread
  OBVIOUS
<1>1. IInv => SocketInSlotThread
  <2> SUFFICES ASSUME IInv, NEW r \in Requests, Phase(r) = "running"
               PROVE  socket.thread = IF mode = "threaded" THEN r ELSE Main
    BY DEF SocketInSlotThread
  <2>1. mode = "threaded" => server.begun <= 1 /\ r = 1
    BY OneThreadedRequest, RequestBegun DEF NoLateCleanup
  <2> QED
    BY <2>1 DEF IInv, ThreadOK
<1> QED
  BY <1>1, AlwaysIInv, PTL

\* While a slot waits for POST data in a nested event loop, whatever has arrived has been
\* looked at or is going to be (Request.cpp, FastCgiStream::bytesAvailable).  On a connection
\* that is not kept but shared, the first request to end takes the manager with it, and the
\* others wait for input that nobody reads.
THEOREM WaitingCorrect == KeepConn \/ ~Multiplex => (Spec => []WaitingIsFed)
<1> SUFFICES ASSUME KeepConn \/ ~Multiplex
             PROVE  Spec => []WaitingIsFed
  OBVIOUS
<1>1. IInv => WaitingIsFed
  <2> SUFFICES ASSUME IInv, mode # "direct", TopCall = "slot", socket.in # <<>>
               PROVE  FALSE
    BY DEF WaitingIsFed
  <2>1. PICK r : r = TopSlot
    OBVIOUS
  <2>2. main.stack \in Seq(Frames) /\ main.stack # <<>> /\ Head(main.stack).call = "slot"
    BY DEF TopCall, IInv, RecordsOK, MainRecords
  <2>3. 1 \in DOMAIN main.stack /\ main.stack[1].call = "slot" /\ main.stack[1].request = r
    BY <2>1, <2>2 DEF TopSlot
  <2>4. mode # "threaded" /\ Phase(r) = "running"
    BY <2>3 DEF IInv, StackOK
  <2>5. main.stack[1] \in Frames
    BY <2>2, <2>3
  <2>6. r \in Requests
    BY <2>3, <2>5 DEF Frames, ReadFrame, SlotFrame
  <2>7. mode = "blocking"
    BY <2>4, ConnectionAssumption DEF mode, IInv, RecordsOK, MainRecords
  <2>8. manager.state = "deleted"
    BY <2>7 DEF IInv, StackOK
  <2>9. ~KeepConn /\ ~Multiplex /\ server.begun <= 1 /\ Phase(1) = "deleted"
    BY <2>8 DEF IInv, ManagerOK
  <2>10. r = 1
    BY <2>4, <2>6, <2>9, RequestBegun
  <2> QED
    BY <2>4, <2>9, <2>10
<1> QED
  BY <1>1, AlwaysIInv, PTL

\* Behind a BlockingResponder, on a connection of its own, a request never makes the process
\* use a deleted socket, manager or stream, nor take payload for a header: not in a nested
\* event loop, not when the web server goes on sending after the end of the request.
THEOREM DefinedCorrect == ~KeepConn /\ ~Multiplex => (Spec => []Defined)
<1> SUFFICES ASSUME ~KeepConn /\ ~Multiplex
             PROVE  Spec => []Defined
  OBVIOUS
<1>1. BlockingOK => Defined
  BY DEF BlockingOK, Defined
<1> QED
  BY <1>1, AlwaysBlocking, PTL
\* On a connection of its own a request keeps its socket until its response has been handed
\* to a flusher (FastCgiSocketManager.h:37), behind any responder, in any thread.
THEOREM SocketCorrect == ~KeepConn /\ ~Multiplex => (Spec => []SocketOutlivesRequests)
<1> SUFFICES ASSUME ~KeepConn /\ ~Multiplex
             PROVE  Spec => []SocketOutlivesRequests
  OBVIOUS
<1>1. Init => FlushersOK /\ SocketOK
  BY InitSocket
<1>2. IInv /\ FlushersOK /\ SocketOK /\ [Next]_vars => FlushersOK' /\ SocketOK'
  BY StepSocket
<1>3. IInv /\ SocketOK => SocketOutlivesRequests
  <2> SUFFICES ASSUME IInv, SocketOK, NEW r \in Requests, Phase(r) \in {"queued", "handed", "running"}
               PROVE  socket.alive
    BY DEF SocketOutlivesRequests
  <2>1. server.begun <= 1
    BY DEF IInv, ManagerOK
  <2>2. r = 1
    BY <2>1, RequestBegun
  <2> QED
    BY <2>2 DEF SocketOK
<1> QED
  BY <1>1, <1>2, <1>3, AlwaysIInv, PTL DEF Spec

\* Where no request goes to another thread, standard input that comes late is never
\* appended to a stream that is gone (FastCgiSocketManager.cpp:136-137): cleanupStream()
\* has forgotten the stream by the time its request is deleted.
THEOREM LateInputCorrect ==
  \/ KeepConn /\ "threaded" \notin Modes
  \/ ~KeepConn /\ ~Multiplex /\ Modes = {"blocking"}
  => (Spec => []LateInputIgnored)
<1> SUFFICES ASSUME \/ KeepConn /\ "threaded" \notin Modes
                    \/ ~KeepConn /\ ~Multiplex /\ Modes = {"blocking"}
             PROVE  Spec => []LateInputIgnored
  OBVIOUS
<1>1. IInv /\ BlockingOK => LateInputIgnored
  <2> SUFFICES ASSUME IInv, BlockingOK, TouchesDeadStream PROVE FALSE
    BY DEF LateInputIgnored
  <2>1. mode \in Modes
    BY DEF IInv, RecordsOK, MainRecords, mode
  <2>2. NextRecord.kind \in {"stdin", "stdinEnd"}
    BY DEF TouchesDeadStream
  <2>3. NextRecord # NoRecord
    BY <2>2 DEF NoRecord
  <2>4. TopCall = "read" /\ 1 \in DOMAIN Rest /\ NextRecord = RecordOf(Rest[1])
    BY <2>3, NextIs
  <2>5. PICK i : i = IdOf(NextRecord.request)
    OBVIOUS
  <2>6. i \in Ids
    BY <2>4, <2>5 DEF RecordOf, IInv, PiecesOK, BegunOK
  <2>7. manager.state # "deleted" /\ mode # "threaded"
    BY <2>1, <2>4 DEF IInv, ManagerOK, BlockingOK
  <2>8. manager.streams[i] # NoRequest /\ Phase(manager.streams[i]) = "deleted"
    BY <2>5 DEF TouchesDeadStream, StreamFor, IdOf
  <2> QED
    BY <2>6, <2>7, <2>8 DEF IInv, StreamsOK
<1> QED
  BY <1>1, AlwaysIInv, AlwaysBlocking, PTL
=============================================================================
