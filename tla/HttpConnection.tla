--------------------------- MODULE HttpConnection ---------------------------
(***************************************************************************)
(* One connection of the built-in HTTP server: the browser, the socket,    *)
(* its HttpRequest, the Request around that, and the SocketFlusher that    *)
(* ends it.  The responder is reduced to when it runs the slot: inside     *)
(* newRequest() (mode "direct") or from the timer of a BlockingResponder   *)
(* ("blocking").                                                           *)
(*                                                                         *)
(* The request is a sequence of pieces, any number of which arrive at once: *)
(* a line is its text and NewLine.  The body may contain NewLine too.      *)
(* Byte arrays whose bytes matter are sequences; the key of a variable is  *)
(* <<name>>, or <<"HTTP_", name>>, the name of a header in upper case.     *)
(***************************************************************************)
EXTENDS Naturals, Sequences, SequencesExt

CONSTANTS Uris,             \* bound: what is requested, sequences of characters
          HeaderLines,      \* bound: names and values of the header lines
          Body,             \* bound: the pieces of the body
          Default,          \* the response headers that every Request starts with, and
          HeaderCalls,      \* bound: names and values that the slot sets or adds,
          MaxHeaders,       \* bound: as long as there are not more than these
          MaxWrites,        \* bound: writes of the slot
          Modes

NewLine == <<"newline">>

ASSUME HttpAssumption ==
  /\ MaxWrites \in Nat /\ MaxHeaders \in Nat
  /\ Modes \subseteq {"direct", "blocking"}
  /\ Uris \subseteq Seq(STRING) /\ HeaderLines \in Seq(STRING \X Seq(STRING)) /\ Body \in Seq(Range(Body))
  /\ Default \in Seq(STRING \X STRING) /\ HeaderCalls \subseteq STRING \X STRING
  /\ \E k \in 1..Len(Default) : \A n \in 1..Len(Default) : Default[n][1] = "STATUS" <=> n = k

VARIABLES
  mode,
  wire,     \* the pieces of the request that have not reached the process
  gone,     \* the browser has closed the connection
  socket,   \* the QTcpSocket: its buffers, what the browser has received, whether it exists
  device,   \* the HttpRequest
  control,  \* "loop": in the event loop; "read": in readSocketData; "slot": in the slot
  timer,    \* the singleShot of readSocketData is pending
  request,  \* the Request, and what its slot has read and written
  flusher   \* "none", "waiting", "doomed" by deleteLater, or "deleted"

vars == <<mode, wire, gone, socket, device, control, timer, request, flusher>>

NoVariables == [name \in {} |-> <<>>]

\* The variable for a header line.
VariableName(name) == IF name \in {"CONTENT_LENGTH", "CONTENT_TYPE"} THEN <<name>> ELSE <<"HTTP_", name>>

\* QMap::insert, for the variables.
WithVariable(map, name, value) ==
  [n \in DOMAIN map \union {name} |-> IF n = name THEN value ELSE map[n]]

\* SelectSeq, for a set, as a recursive function.
Only(seq, set) ==
  LET kept[n \in 0..Len(seq)] ==
        IF n = 0 THEN <<>> ELSE IF seq[n] \in set THEN Append(kept[n - 1], seq[n]) ELSE kept[n - 1]
  IN kept[Len(seq)]
Named(seq, name) == Only(seq, {h \in Range(seq) : h[1] = name})

\* A header map as the sequence in which it is iterated: the newest of one name first.
Inserted(map, header) == <<header>> \o map
Found(map, name) == SelectInSeq(map, LAMBDA h : h[1] = name)
Value(map, name) == map[Found(map, name)][2]
Without(map, name) == Only(map, {h \in Range(map) : h[1] # name})

RequestLine(uri) == <<"POST", uri, "HTTP/1.1">>
Pieces == {NewLine} \union {RequestLine(uri) : uri \in Uris} \union Range(HeaderLines) \union Range(Body)
FileHeaders == <<<<"LENGTH", "n">>, <<"STATUS", "200 OK">>>>
Headers == Range(Default) \union HeaderCalls \union Range(FileHeaders)
Sent == {<<"status", h[2]>> : h \in Headers} \union {<<"header", h>> : h \in Headers}
          \union {<<"blank", 0>>} \union {<<"data", k>> : k \in 0..MaxWrites}

\* HttpRequest::HeaderMap for the variables, which have one value each.
Names == {<<name>> : name \in {"REQUEST_METHOD", "SERVER_PROTOCOL", "REQUEST_URI", "PATH_INFO", "QUERY_STRING"}}
           \union {VariableName(line[1]) : line \in Range(HeaderLines)}
Bytes == {"POST", "HTTP/1.1"} \union (UNION {Range(uri) : uri \in Uris})
           \union (UNION {Range(line[2]) : line \in Range(HeaderLines)})
IsVariables(map) == DOMAIN map \subseteq Names /\ \A name \in DOMAIN map : map[name] \in Seq(Bytes)

\* The members of HttpRequest, and those of Request::Private.
IsDevice(d) ==
  /\ d \in [requestState : {"request", "headers", "body"}, requestHeaders : {d.requestHeaders},
            responseState : {"headers", "body"}, responseHeaders : Seq(Headers),
            headerBuffer : Seq({NewLine} \union Headers), headerBufferPosition : Nat,
            life : {"alive", "doomed", "deleted"}]
  /\ IsVariables(d.requestHeaders)
  /\ d.responseState = "headers" => d.headerBufferPosition <= Len(d.headerBuffer)
IsRequest(r) ==
  /\ r \in [phase : {"none", "queued", "running", "waiting", "adopted", "deleted"},
            postDataMode : {"unknown", "values", "raw"}, serverData : {r.serverData}, data : Seq(Pieces),
            responseHeaders : Seq(Headers), haveSentHeaders : BOOLEAN, writes : 0..MaxWrites]
  /\ r.serverData \in {NoVariables, device.requestHeaders}

HttpTypeOK ==
  /\ mode \in Modes /\ wire \in Seq(Pieces) /\ gone \in BOOLEAN
  /\ socket \in [in : Seq(Pieces), out : Seq(Sent), received : Seq(Sent), alive : BOOLEAN]
  /\ IsDevice(device) /\ IsRequest(request)
  /\ control \in {"loop", "read", "slot"} /\ timer \in BOOLEAN
  /\ flusher \in {"none", "waiting", "doomed", "deleted"}
  /\ device.life = "deleted" <=> flusher # "none"

HttpInit ==
  /\ mode \in Modes
  /\ \E uri \in Uris :
       wire = <<RequestLine(uri), NewLine>>
                \o FlattenSeq([k \in 1..Len(HeaderLines) |-> <<HeaderLines[k], NewLine>>]) \o <<NewLine>> \o Body
  /\ gone = FALSE
  /\ socket = [in |-> <<>>, out |-> <<>>, received |-> <<>>, alive |-> TRUE]
  /\ device = [requestState |-> "request", requestHeaders |-> NoVariables,
               responseState |-> "headers", responseHeaders |-> <<>>,
               headerBuffer |-> <<>>, headerBufferPosition |-> 0, life |-> "alive"]
  /\ control = "loop" /\ timer = FALSE
  /\ request = [phase |-> "none", postDataMode |-> "unknown", serverData |-> NoVariables, data |-> <<>>,
                responseHeaders |-> Default, haveSentHeaders |-> FALSE, writes |-> 0]
  /\ flusher = "none"

-----------------------------------------------------------------------------
(* HttpRequest::readSocketData. *)

\* An event loop has control: the outermost one, or that of loadPostVariables.
InEventLoop == control = "loop" \/ request.phase = "waiting"

\* The slot runs inside readyRead(), which QAbstractSocket does not emit recursively.
Emitting == mode = "direct" /\ control = "slot"

\* The newest byte array after what has been read before, and a variant for mutation.
Loaded_Newest(bytes) == bytes
Loaded(bytes) == request.data \o bytes

\* readyRead() of the HttpRequest and of the Request: a responder that has adopted
\* the request reads what there is.
ReadyRead(bytes) ==
  IF request.phase = "adopted"
  THEN /\ request' = [request EXCEPT !.data = Loaded(bytes)]
       /\ socket' = [socket EXCEPT !.in = <<>>]
  ELSE /\ socket' = [socket EXCEPT !.in = bytes]
       /\ UNCHANGED request

Arrive(n) ==
  LET bytes == socket.in \o SubSeq(wire, 1, n) IN
  /\ InEventLoop /\ socket.alive /\ ~gone
  /\ wire' = SubSeq(wire, n + 1, Len(wire))
  /\ IF device.life # "deleted" /\ ~Emitting /\ device.requestState = "body"
     THEN ReadyRead(bytes) /\ UNCHANGED control
     ELSE /\ socket' = [socket EXCEPT !.in = bytes]
          /\ control' = IF device.requestState = "body" THEN control ELSE "read"
          /\ UNCHANGED request
  /\ UNCHANGED <<mode, gone, device, timer, flusher>>

CheckTimeout ==
  /\ InEventLoop /\ timer
  /\ timer' = FALSE
  /\ IF device.life # "deleted" THEN ReadyRead(socket.in) ELSE UNCHANGED <<socket, request>>
  /\ UNCHANGED <<mode, wire, gone, device, control, flusher>>

CanReadLine == Contains(socket.in, NewLine)
LineEnd == SelectInSeq(socket.in, LAMBDA piece : piece = NewLine)
Line == SubSeq(socket.in, 1, LineEnd - 1)
AfterLine == SubSeq(socket.in, LineEnd + 1, Len(socket.in))

\* What the request line says; without a '?' there is no QUERY_STRING.
Query(uri) == SelectInSeq(uri, LAMBDA byte : byte = "?")
UriVariables(map, uri) ==
  IF Query(uri) = 0 THEN WithVariable(map, <<"PATH_INFO">>, uri)
  ELSE WithVariable(WithVariable(map, <<"PATH_INFO">>, SubSeq(uri, 1, Query(uri) - 1)),
                    <<"QUERY_STRING">>, SubSeq(uri, Query(uri) + 1, Len(uri)))
LineVariables(map, line) ==
  LET method == WithVariable(map, <<"REQUEST_METHOD">>, <<line[1]>>)
      protocol == WithVariable(method, <<"SERVER_PROTOCOL">>, <<line[3]>>)
  IN  UriVariables(WithVariable(protocol, <<"REQUEST_URI">>, line[2]), line[2])

\* After the request line, readSocketData calls itself.
ReadRequestLine ==
  /\ control = "read" /\ device.requestState = "request" /\ CanReadLine
  /\ socket' = [socket EXCEPT !.in = AfterLine]
  /\ device' = [device EXCEPT !.requestHeaders = LineVariables(@, Line[1]), !.requestState = "headers"]
  /\ UNCHANGED <<mode, wire, gone, control, timer, request, flusher>>

ReadHeaderLine ==
  /\ control = "read" /\ device.requestState = "headers" /\ CanReadLine /\ Line # <<>>
  /\ socket' = [socket EXCEPT !.in = AfterLine]
  /\ device' = [device EXCEPT !.requestHeaders = WithVariable(@, VariableName(Line[1][1]), Line[1][2])]
  /\ UNCHANGED <<mode, wire, gone, control, timer, request, flusher>>

ReadNothing ==
  /\ control = "read" /\ ~CanReadLine
  /\ control' = "loop"
  /\ UNCHANGED <<mode, wire, gone, socket, device, timer, request, flusher>>

-----------------------------------------------------------------------------
(* The response: Request::writeData onto HttpRequest::writeData. *)

\* m_headerBufferPosition after a line, and a variant for mutation.
ReadUpTo_Nothing(d, buffer) == d.headerBufferPosition
ReadUpTo(d, buffer) == Len(buffer)

\* A piece is written to d.device: the text of a header, NewLine, or data; d.out is
\* the socket's buffer.
DeviceWrite(d, piece) ==
  LET buffer == Append(d.device.headerBuffer, piece)
      line == SubSeq(buffer, d.device.headerBufferPosition + 1, Len(buffer) - 1)
      status == <<"status", Value(d.device.responseHeaders, "STATUS")>>
      others == Without(d.device.responseHeaders, "STATUS")
  IN  CASE d.device.responseState = "body" -> [d EXCEPT !.out = Append(@, piece)]
        [] d.device.responseState = "headers" /\ piece # NewLine ->
             [d EXCEPT !.device.headerBuffer = buffer]
        [] d.device.responseState = "headers" /\ piece = NewLine /\ line # <<>> ->
             [d EXCEPT !.device.responseHeaders = Inserted(@, Head(line)),
                       !.device.headerBuffer = buffer,
                       !.device.headerBufferPosition = ReadUpTo(d.device, buffer)]
        [] OTHER ->
             [out |-> d.out \o <<status>> \o [k \in 1..Len(others) |-> <<"header", others[k]>>]
                        \o <<<<"blank", 0>>>>,
              device |-> [d.device EXCEPT !.responseState = "body", !.headerBuffer = <<>>,
                                          !.responseHeaders = others]]

DeviceWritten(d, pieces) == FoldLeft(DeviceWrite, d, pieces)
DeviceWrites(pieces) ==
  LET d == DeviceWritten([out |-> socket.out, device |-> device], pieces) IN
  socket' = [socket EXCEPT !.out = d.out] /\ device' = d.device

\* All that one write of the slot sends, the response headers if they come first.
WithHeaders(data) ==
  IF request.haveSentHeaders THEN <<data>>
  ELSE LET headers == request.responseHeaders IN
       FlattenSeq([k \in 1..Len(headers) |-> <<headers[k], NewLine>>]) \o <<NewLine, data>>

\* A slot has control, or a responder that has adopted the request.
MayWrite == request.phase = "running" \/ (request.phase = "adopted" /\ control = "loop")

\* setHeader: the header of that name, or the newest one.  sendCookie calls addHeader.
\* Both assert that no header has been sent.
WithHeader(map, header) ==
  LET k == Found(map, header[1]) IN IF k = 0 THEN Inserted(map, header) ELSE [map EXCEPT ![k] = header]

ChangeHeaders(headers) ==
  /\ MayWrite /\ ~request.haveSentHeaders /\ Len(headers) <= MaxHeaders
  /\ request' = [request EXCEPT !.responseHeaders = headers]
  /\ UNCHANGED <<mode, wire, gone, socket, device, control, timer, flusher>>
SetHeader(header) == ChangeHeaders(WithHeader(request.responseHeaders, header))
AddHeader(header) == header[1] # "STATUS" /\ ChangeHeaders(Inserted(request.responseHeaders, header))

Write ==
  /\ request.writes < MaxWrites /\ MayWrite
  /\ DeviceWrites(WithHeaders(<<"data", request.writes + 1>>))
  /\ request' = [request EXCEPT !.haveSentHeaders = TRUE, !.writes = @ + 1]
  /\ UNCHANGED <<mode, wire, gone, control, timer, flusher>>

-----------------------------------------------------------------------------
(* SocketFlusher. *)

\* deleteIfFlushed may delete, and a variant for mutation.
Flushed_Always(out) == TRUE
Flushed(out) == out = <<>>

\* ~HttpRequest, and a variant for mutation.
DestroyDevice_NoFlusher == device' = [device EXCEPT !.life = "deleted"] /\ UNCHANGED flusher
DestroyDevice ==
  /\ device' = [device EXCEPT !.life = "deleted"]
  /\ flusher' = IF Flushed(socket.out) THEN "doomed" ELSE "waiting"

Transmit ==
  /\ InEventLoop /\ socket.alive /\ ~gone /\ socket.out # <<>>
  /\ socket' = [socket EXCEPT !.out = Tail(@), !.received = Append(@, Head(socket.out))]
  /\ flusher' = IF flusher = "waiting" /\ Flushed(socket'.out) THEN "doomed" ELSE flusher
  /\ UNCHANGED <<mode, wire, gone, device, control, timer, request>>

DeleteFlusher ==
  /\ control = "loop" /\ flusher = "doomed"
  /\ flusher' = "deleted"
  /\ socket' = [socket EXCEPT !.alive = FALSE]
  /\ UNCHANGED <<mode, wire, gone, device, control, timer, request>>

Disconnect ==
  /\ ~gone /\ socket.alive
  /\ gone' = TRUE
  /\ UNCHANGED <<mode, wire, socket, device, control, timer, request, flusher>>

-----------------------------------------------------------------------------
(* The request, from the blank line to its deletion. *)

\* Static content is written at once and the HttpRequest deleted later; the file is
\* one piece of data.
ServeFile ==
  LET filled == [device EXCEPT !.requestState = "body", !.responseHeaders = FileHeaders]
      d == DeviceWritten([out |-> socket.out, device |-> filled], <<NewLine, <<"data", 0>>>>)
  IN  /\ device' = [d.device EXCEPT !.life = "doomed"]
      /\ socket' = [socket EXCEPT !.in = AfterLine, !.out = d.out]
      /\ control' = "loop"
      /\ UNCHANGED <<request, flusher>>

\* addRequest.
Announce ==
  /\ device' = [device EXCEPT !.requestState = "body"]
  /\ socket' = [socket EXCEPT !.in = AfterLine]
  /\ request' = [request EXCEPT !.serverData = device.requestHeaders,
                                !.phase = IF mode = "direct" THEN "running" ELSE "queued"]
  /\ control' = IF mode = "direct" THEN "slot" ELSE "loop"
  /\ UNCHANGED flusher

\* addRequest, when no slot takes the request: it goes, and the HttpRequest with it.
Ignore ==
  /\ device' = [device EXCEPT !.requestState = "body", !.life = "deleted"]
  /\ socket' = [socket EXCEPT !.in = AfterLine]
  /\ request' = [request EXCEPT !.phase = "deleted"]
  /\ flusher' = IF Flushed(socket.out) THEN "doomed" ELSE "waiting"
  /\ control' = "loop"

\* QTimer::singleShot before dispatchRequest, and a variant for mutation.
SingleShot_None == FALSE
SingleShot == TRUE

ReadBlankLine ==
  /\ control = "read" /\ device.requestState = "headers" /\ CanReadLine /\ Line = <<>>
  /\ timer' = SingleShot
  /\ ServeFile \/ Announce \/ Ignore
  /\ UNCHANGED <<mode, wire, gone>>

DeleteLater ==
  /\ control = "loop" /\ device.life = "doomed"
  /\ DestroyDevice
  /\ UNCHANGED <<mode, wire, gone, socket, control, timer, request>>

RunSlot ==
  /\ control = "loop" /\ request.phase = "queued"
  /\ control' = "slot"
  /\ request' = [request EXCEPT !.phase = "running"]
  /\ UNCHANGED <<mode, wire, gone, socket, device, timer, flusher>>

\* loadPostVariables reads what there is, and waits unless that is all, ...
LoadPostVariables ==
  /\ request.phase = "running" /\ request.postDataMode = "unknown"
  /\ request' = [request EXCEPT !.postDataMode = "values", !.data = Loaded(socket.in),
                                !.phase = IF Len(socket.in) < Len(Body) THEN "waiting" ELSE @]
  /\ socket' = [socket EXCEPT !.in = <<>>]
  /\ UNCHANGED <<mode, wire, gone, device, control, timer, flusher>>

\* ... goes on waiting, or ends with CONTENT_LENGTH bytes or after five minutes.
PollPostVariables ==
  /\ request.phase = "waiting"
  /\ \E phase \in {"waiting", "running"} :
       /\ phase = "waiting" => socket.in # <<>> /\ Len(Loaded(socket.in)) < Len(Body)
       /\ request' = [request EXCEPT !.data = Loaded(socket.in), !.phase = phase]
  /\ socket' = [socket EXCEPT !.in = <<>>]
  /\ UNCHANGED <<mode, wire, gone, device, control, timer, flusher>>

\* The slot takes the request over and returns.  It reads what there is first; inside
\* newRequest(), readSocketData is still to come and will tell it.
Adopt ==
  /\ request.phase = "running" /\ request.postDataMode = "unknown"
  /\ control' = "loop"
  /\ \E reads \in {TRUE, mode # "direct"} :
       LET bytes == IF reads THEN socket.in ELSE <<>> IN
       /\ request' = [request EXCEPT !.postDataMode = "raw", !.phase = "adopted",
                                     !.data = Loaded(bytes)]
       /\ socket' = [socket EXCEPT !.in = IF reads THEN <<>> ELSE @]
  /\ UNCHANGED <<mode, wire, gone, device, timer, flusher>>

\* The slot returns, or a responder has read the whole body: the request goes.
Finish ==
  /\ \/ request.phase = "running"
     \/ request.phase = "adopted" /\ control = "loop" /\ request.data = Body
  /\ request' = [request EXCEPT !.phase = "deleted"]
  /\ control' = "loop"
  /\ DestroyDevice
  /\ UNCHANGED <<mode, wire, gone, socket, timer>>

-----------------------------------------------------------------------------
(* What the slot sees of the request. *)

RawValue(name) == IF name \in DOMAIN request.serverData THEN request.serverData[name] ELSE <<>>

\* Request::url: the parts are got by cutting off the end of the URI.
QueryStringOffset == IF Contains(RawValue(<<"REQUEST_URI">>), "?") THEN 1 ELSE 0
QueryStringLength == Len(RawValue(<<"QUERY_STRING">>)) + QueryStringOffset
Chopped(bytes, n) == SubSeq(bytes, 1, Len(bytes) - n)
RootUrl == Chopped(RawValue(<<"REQUEST_URI">>), QueryStringLength + Len(RawValue(<<"PATH_INFO">>)))
LocationUrl == Chopped(RawValue(<<"REQUEST_URI">>), QueryStringLength)
RequestUrl ==
  LocationUrl \o (IF RawValue(<<"QUERY_STRING">>) = <<>> THEN <<>> ELSE <<"?">> \o RawValue(<<"QUERY_STRING">>))

Cookies == LET value == RawValue(<<"HTTP_", "COOKIE">>) IN Only(value, Range(value) \ {";"})

-----------------------------------------------------------------------------
Read == ReadRequestLine \/ ReadHeaderLine \/ ReadBlankLine \/ ReadNothing
Slot == RunSlot \/ PollPostVariables \/ Finish

\* The connection is over, or the browser is gone and nothing is left to do.
Terminated == (~socket.alive \/ gone) /\ UNCHANGED vars

Receive == \E n \in 1..Len(wire) : Arrive(n)

HttpNext ==
  \/ Receive \/ Transmit \/ Disconnect \/ CheckTimeout \/ Read \/ Slot
  \/ LoadPostVariables \/ Adopt \/ Write \/ DeleteLater \/ DeleteFlusher \/ Terminated
  \/ \E header \in HeaderCalls : SetHeader(header) \/ AddHeader(header)

HttpSpec == HttpInit /\ [][HttpNext]_vars

\* A browser that stays sends its request and reads the answer; the event loop runs;
\* a slot returns, from its wait for POST data after five minutes at the latest.
HttpFairSpec ==
  /\ HttpSpec
  /\ WF_vars(Receive) /\ WF_vars(Transmit) /\ WF_vars(CheckTimeout) /\ WF_vars(Read)
  /\ WF_vars(Slot) /\ WF_vars(DeleteLater \/ DeleteFlusher)

-----------------------------------------------------------------------------
(* Properties. *)

\* The last line of a header says what its variable is, and the parts of the URL are
\* those of the URI, but for a '?' with nothing behind it (Request.h:29-34).
HeadersRead ==
  LET uri == RawValue(<<"REQUEST_URI">>) IN
  /\ \A line \in Range(HeaderLines) :
       RawValue(VariableName(line[1])) = Last(Named(HeaderLines, line[1]))[2]
  /\ \A cookie \in Range(Cookies) : \E line \in Range(Named(HeaderLines, "COOKIE")) : cookie \in Range(line[2])
  /\ uri \in Uris /\ RequestUrl \in {uri, Front(uri)} /\ (RequestUrl # uri => Last(uri) = "?")
  /\ RootUrl = <<>> /\ IsPrefix(LocationUrl, uri) /\ "?" \notin Range(LocationUrl)
  /\ LocationUrl = uri \/ uri[Len(LocationUrl) + 1] = "?"

\* However the request is cut, when it is announced the request line and all header lines
\* have been read, and the body is all there, in order: read by the responder, in the socket's
\* buffer, or still to come (HttpRequest.cpp:71-125).
BodyIntact ==
  device.requestState = "body" =>
    /\ device.requestHeaders # NoVariables /\ (request.serverData # NoVariables => HeadersRead)
    /\ request.data \o socket.in \o wire = Body

\* The browser gets the status, every header once, those of one name in the order in
\* which they were added, an empty line, and what the slot wrote, in order
\* (HttpRequest.cpp:164-218).
ResponseAsWritten ==
  LET answer == socket.received \o socket.out
      status == <<"status", Value(request.responseHeaders, "STATUS")>>
      headers == Without(request.responseHeaders, "STATUS")
      n == Len(headers)
  IN  IF request.writes = 0
      THEN answer # <<>> => /\ request.phase = "none"
                            /\ answer = <<<<"status", "200 OK">>, <<"header", <<"LENGTH", "n">>>>,
                                          <<"blank", 0>>, <<"data", 0>>>>
      ELSE /\ Len(answer) = n + 2 + request.writes
           /\ answer[1] = status
           /\ LET out == [k \in 1..n |-> answer[k + 1][2]] IN
              \A h \in Range(headers) : Named(out, h[1]) = Reverse(Named(headers, h[1]))
           /\ answer[n + 2] = <<"blank", 0>>
           /\ \A k \in 1..request.writes : answer[n + 2 + k] = <<"data", k>>

\* A socket is deleted only after its HttpRequest, and not before the browser has got
\* everything (SocketFlusher.cpp:19-29).
DeliveredBeforeClose ==
  ~socket.alive => device.life = "deleted" /\ socket.out = <<>>

\* The request of a browser that stays is read and dispatched, whoever takes it, and the
\* response comes to its end: the socket is closed (HttpRequest.cpp:71-125).
ResponseEnds == <>(~socket.alive \/ gone)
=============================================================================
