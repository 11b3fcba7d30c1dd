----------------------------- MODULE FormUpload -----------------------------
(***************************************************************************)
(* A form on its way from the web server (or a browser) to the application *)
(* and the response on its way back, over each of the transports:          *)
(*   "FCGI"  parameters and body cut into records, an FCGI stream;         *)
(*   "SCGI"  a netstring, then the bytes of the socket through a           *)
(*           ProxyClientIODevice, which does not forward readyRead();      *)
(*   "HTTP"  headers as in HttpConnection, then the bytes of the socket;   *)
(*   "CGI"   the environment, and stdin, read until its end.               *)
(* The slot reads the form with rawValues(PostData), "values", or with a   *)
(* PostDataStreamReader from readyRead(), "stream" (PostStreamExample).    *)
(* Two more uses have the whole body at once: a MimeMultipartStreamReader  *)
(* ("parts"), and a Base64Decoder ("base64").                              *)
(***************************************************************************)
EXTENDS FastCgiRecords, UrlEncodedReader, MimeReader

CONSTANTS Transports,
          Headers,    \* bound: the parameters of the request, name-value pairs
          Begins,     \* bound: what BEGIN_REQUEST records say
          Forms,      \* bound: the forms, sequences of fields
          Documents,  \* bound: the multipart documents, see Document
          Groups,     \* bound: the base64 texts, sequences of decoded groups
          Paddings, WriteSizes, ReadSizes  \* bounds: numbers of bytes

\* No content has the pattern in it that the boundary is found by.
WithoutPattern(content) == \A i \in 1..(Len(content) - 2) : SubSeq(content, i, i + 2) # Pattern

\* A web server sends no null bytes in names and values of parameters and no '=' in names,
\* and lengths of 31 bits; a browser encodes '=' and '&' in names, and '&' in values.
ASSUME FormAssumption ==
  /\ Transports \subseteq {"FCGI", "SCGI", "HTTP", "CGI"}
  /\ Headers \in Seq(Seq(1..(EqualsSign - 1)) \X Seq(1..(Byte - 1)))
  /\ \A k \in 1..Len(Headers) : \A i \in 1..2 : Len(Headers[k][i]) < HighBit * Byte * Byte * Byte
  /\ Begins \subseteq BeginRequestBody
  /\ Forms \subseteq Seq(Seq(Characters \ {"=", "&"}) \X Seq(Characters \ {"&"}))
  /\ Documents \subseteq [boundaryGiven : BOOLEAN, preamble : Seq(Symbols),
                        parts : Seq(Seq(Symbols \ {LineEnd}) \X Seq(Symbols))]
  /\ \A d \in Documents :
       /\ d.parts # <<>> /\ WithoutPattern(d.preamble)
       /\ \A k \in 1..Len(d.parts) : d.parts[k][1] # <<>> /\ WithoutPattern(d.parts[k][2])
  /\ Groups \subseteq Seq({g \in Seq(Symbols) : Len(g) \in 1..3})
  /\ Paddings \subseteq 0..(Byte - 1) /\ WriteSizes \subseteq Nat /\ ReadSizes \subseteq Nat \ {0}

VARIABLES
  link,      \* transport, what the slot does, and what there is to send
  client,    \* parameter bytes and body not sent; whether each cut so far was between
             \* pairs and behind a '&'
  request,   \* its phase, m_closeSocketOnExit, its parameters, the bytes of its body that came in and how many
             \* are read, the calls that read some, a readyRead() to be served, and
             \* what rawValues(PostData) has, and whether it was given up after five minutes
  response,  \* what the slot has written, and the records of it and of its end
  broken     \* an assertion, qFatal, undefined behaviour, or a thread that waits for itself

readerVars == <<source, reader>>
mimeVars == <<device, mime, decoder>>
formVars == <<link, client, request, response, broken>>
vars == <<formVars, readerVars, mimeVars>>

-----------------------------------------------------------------------------
(* What there is to send (external). *)

Field(f) == f[1] \o <<"=">> \o f[2]
Body(form) == FlattenSeq([k \in 1..Len(form) |-> IF k = 1 THEN Field(form[k]) ELSE <<"&">> \o Field(form[k])])
ParameterBytes == FlattenSeq([k \in 1..Len(Headers) |-> EncodedPair(Headers[k])])
PairEnds == {Len(FlattenSeq([k \in 1..j |-> EncodedPair(Headers[k])])) : j \in 0..Len(Headers)}

\* A document: a header that names the boundary, unless the reader is given it, a
\* preamble, parts with headers and content.
Delimiter == <<LineEnd, Dashes, Boundary>>
PartText(part) ==
  Delimiter \o <<LineEnd>> \o FlattenSeq([k \in 1..Len(part[1]) |-> <<part[1][k], LineEnd>>])
    \o <<LineEnd>> \o part[2]
DocumentText(d) ==
  (IF d.boundaryGiven THEN <<LineEnd>> ELSE <<BoundaryHeader, LineEnd, LineEnd>>)
    \o (LET rest == d.preamble \o FlattenSeq([k \in 1..Len(d.parts) |-> PartText(d.parts[k])])
        IN IF d.preamble = <<>> THEN SubSeq(rest, 2, Len(rest)) ELSE rest)
    \o Delimiter \o <<Dashes, LineEnd>>

FormTypeOK ==
  /\ link.transport \in Transports \union {"none"}
  /\ client.params \in Seq(0..(Byte - 1)) /\ client.body \in Seq(Characters)
  /\ request.phase \in {"begin", "params", "announced", "responding", "ended"}
  /\ request.position \in 0..Len(request.arrived)
  /\ broken \/ Len(request.arrived) + Len(client.body) = Len(Body(link.form))
  /\ reader \in Reader /\ mime \in Mime
  /\ decoder.room \in Nat /\ Len(decoder.decoded) < 3
  /\ broken \in BOOLEAN

Idle ==
  /\ client = [params |-> ParameterBytes, body |-> Body(link.form), wholePairs |-> TRUE,
               wholeFields |-> TRUE]
  /\ request = [phase |-> IF link.transport = "FCGI" THEN "begin" ELSE "params", closes |-> FALSE, params |-> {}, arrived |-> <<>>, position |-> 0, reads |-> 0,
                signalled |-> FALSE, data |-> <<>>, gaveUp |-> FALSE]
  /\ response = [written |-> <<>>, records |-> <<>>] /\ broken = FALSE
  /\ source = <<>> /\ ReaderInit

Init ==
  \/ /\ \E t \in Transports, u \in {"values", "stream"}, f \in Forms, b \in Begins :
          link = [transport |-> t, use |-> u, form |-> f, sent |-> IF t = "FCGI" THEN b ELSE <<>>]
     /\ Idle /\ MimeInit(<<>>, FALSE) /\ DecoderInit(<<>>)
  \/ /\ \E d \in Documents :
          /\ link = [transport |-> "none", use |-> "parts", form |-> <<>>, sent |-> d]
          /\ MimeInit(DocumentText(d), d.boundaryGiven)
     /\ Idle /\ DecoderInit(<<>>)
  \/ /\ \E g \in Groups :
          /\ link = [transport |-> "none", use |-> "base64", form |-> <<>>, sent |-> g]
          /\ DecoderInit(g)
     /\ Idle /\ MimeInit(<<>>, FALSE)

-----------------------------------------------------------------------------
(* Parameters and body come in. *)

Over(transport) == link.transport = transport /\ ~broken
Sent == Len(ParameterBytes) - Len(client.params)
Rest(s, n) == SubSeq(s, n + 1, Len(s))

\* The payload that the manager reads is shorter than the record if its length wraps;
\* the next byte is then taken for the version in a header.
Misframed(header) == PayloadLength(header) # header.contentLength + header.paddingLength

SendBegin ==
  LET fails == ~IsKnownRole(Role(link.sent)) \/ Role(link.sent) # Roles.responder IN
  /\ Over("FCGI") /\ request.phase = "begin"
  /\ broken' = fails
  /\ request' = IF fails THEN request ELSE [request EXCEPT !.phase = "params", !.closes = ClosesSocket(link.sent)]
  /\ UNCHANGED <<link, client, response, readerVars, mimeVars>>

SendParameters(n, padding) ==
  LET header == [type |-> "params", contentLength |-> n, paddingLength |-> padding]
      pairs == Parameters(SubSeq(client.params, 1, n))
      fails == Misframed(header) \/ pairs = Overrun
  IN
  /\ Over("FCGI") /\ request.phase = "params" /\ n \in 1..Least(Word - 1, Len(client.params))
  /\ client' = [client EXCEPT !.params = Rest(@, n),
                              !.wholePairs = @ /\ Sent + n \in PairEnds]
  /\ broken' = fails
  /\ request' = IF fails THEN request ELSE [request EXCEPT !.params = @ \union pairs]
  /\ UNCHANGED <<link, response, readerVars, mimeVars>>

\* A record of a type that processRecordData does not deal with: FCGI_ABORT_REQUEST for
\* a browser that has gone.
SendAbort ==
  /\ Over("FCGI") /\ request.phase \notin {"begin", "ended"} /\ "abort" \notin HandledTypes
  /\ broken' = TRUE
  /\ UNCHANGED <<link, client, request, response, readerVars, mimeVars>>

\* Bytes of the body, with the device they come in through.
Arrived(n, phase) ==
  [request EXCEPT !.phase = phase, !.arrived = @ \o SubSeq(client.body, 1, n),
                  !.signalled = request.phase = "responding" /\ link.use = "stream"
                                  /\ link.transport \in {"FCGI", "HTTP"}]
BodyAfter(n) ==
  [client EXCEPT !.body = Rest(@, n),
                 !.wholeFields = @ /\ (n \in {0, Len(client.body)} \/ client.body[n] = "&")]

\* The empty PARAMS record; the end of the HTTP headers, body coming with them or not;
\* the start of a CGI process.
Announce(n) ==
  /\ ~broken /\ request.phase = "params" /\ n <= Len(client.body)
  /\ \/ link.transport = "FCGI" /\ client.params = <<>> /\ n = 0
     \/ link.transport = "HTTP"
     \/ link.transport = "CGI" /\ n = Len(client.body)
  /\ request' = [Arrived(n, "announced") EXCEPT !.params =
       CASE link.transport = "FCGI" -> @
         [] link.transport = "CGI" -> EnvironmentParameters(Environment(Headers))
         [] OTHER -> ToSet(Headers)]
  /\ client' = [BodyAfter(n) EXCEPT !.params = <<>>]
  /\ UNCHANGED <<link, response, broken, readerVars, mimeVars>>

\* ScgiRequest::startResponse, at the first readyRead(): the netstring has to be there.
StartResponse(n) ==
  /\ Over("SCGI") /\ request.phase = "params" /\ n <= Len(client.body)
  /\ \/ /\ request' = [Arrived(n, "announced") EXCEPT !.params = BlobParameters(HeaderBlob(Headers))]
        /\ client' = [BodyAfter(n) EXCEPT !.params = <<>>]
        /\ UNCHANGED broken
     \/ /\ n = 0 /\ Len(Headers) > 0
        /\ \E k \in 1..(Len(client.params) - 1) : client' = [client EXCEPT !.params = Rest(@, k)]
        /\ broken' = TRUE /\ UNCHANGED request
  /\ UNCHANGED <<link, response, readerVars, mimeVars>>

\* Between calls of readNext().  During one the slot writes, and waits for that; what comes
\* in then is to the reader as if it had come in before the call or after it.
Quiet == ~request.signalled /\ (reader.token = "NoToken" \/ Stopped)

\* But over FastCGI the calls from readyRead(), those that go on after Invalid, are made with
\* m_streamMutex: a record that is served in waitForBytesWritten() waits for it for ever.
Locked ==
  link.transport = "FCGI" /\ ~request.signalled /\ ~Quiet /\ reader.lastValid # "NoToken"

SendBody(n, padding) ==
  LET header == [type |-> "stdin", contentLength |-> n, paddingLength |-> padding] IN
  /\ ~broken /\ request.phase \in {"announced", "responding"} /\ (Quiet \/ Locked)
  /\ n \in 1..Len(client.body) /\ (link.transport # "FCGI" => padding = 0)
  /\ client' = BodyAfter(n)
  /\ broken' = (link.transport = "FCGI" /\ (Misframed(header) \/ Locked))
  /\ request' = IF broken' THEN request ELSE Arrived(n, request.phase)
  /\ UNCHANGED <<link, response, readerVars, mimeVars>>

-----------------------------------------------------------------------------
(* The slot. *)

RunSlot ==
  /\ ~broken /\ request.phase = "announced"
  /\ request' = [request EXCEPT !.phase = "responding", !.signalled = (link.use = "stream")]
  /\ UNCHANGED <<link, client, response, broken, readerVars, mimeVars>>

\* device->read: a FastCgiStream copies from the beginning of its buffer.
ReadDevice ==
  LET unread == Len(request.arrived) - request.position IN
  IF link.transport = "FCGI" THEN SubSeq(request.arrived, 1, unread)
  ELSE Rest(request.arrived, request.position)
HasRead == [request EXCEPT !.position = Len(request.arrived),
                           !.reads = IF ReadDevice = <<>> THEN @ ELSE @ + 1]

\* The form is read, as far as the slot can tell.
FormRead ==
  IF link.use = "values" THEN request.gaveUp \/ Len(request.data) = Len(Body(link.form)) ELSE HasEnded

\* loadPostVariables, polling once in five seconds whatever signals there are.
LoadPostVariables ==
  /\ ~broken /\ link.use = "values" /\ request.phase = "responding"
  /\ ~FormRead /\ ReadDevice # <<>>
  /\ request' = [HasRead EXCEPT !.data = @ \o ReadDevice]
  /\ UNCHANGED <<link, client, response, broken, readerVars, mimeVars>>

\* The rest has not come for five minutes: there are no variables then.
GiveUp ==
  /\ ~broken /\ link.use = "values" /\ request.phase = "responding" /\ ~FormRead
  /\ client.body # <<>> /\ ReadDevice = <<>>
  /\ request' = [request EXCEPT !.gaveUp = TRUE, !.data = <<>>]
  /\ UNCHANGED <<link, client, response, broken, readerVars, mimeVars>>

\* Request::atEnd(): no ProxyClientIODevice or CgiRequest says that it has more, they
\* are unbuffered and leave bytesAvailable() to QIODevice.
SeesMore == link.transport \in {"FCGI", "HTTP"}

\* readyRead(), or the end of the slot: PostStreamExample::readNext.
CallReadNext ==
  /\ ~broken /\ request.signalled
  /\ source' = IF SeesMore THEN source \o ReadDevice ELSE source
  /\ request' = [(IF SeesMore THEN HasRead ELSE request) EXCEPT !.signalled = FALSE]
  /\ reader' = Begun
  /\ UNCHANGED <<link, client, response, broken, mimeVars>>

ReadToken ==
  /\ ~broken /\ link.use = "stream" /\ request.phase = "responding" /\ reader.token # "NoToken"
  /\ ReadNext(Len(Body(link.form)))
  /\ UNCHANGED <<formVars, mimeVars>>

\* The slot writes its response, and the request goes: ~FastCgiStream, cleanupStream.  What
\* becomes of the socket then, whatever request.closes is: see FastCgiConnection.
WriteResponse(n) ==
  /\ ~broken /\ request.phase = "responding" /\ FormRead
  /\ response' = [written |-> [k \in 1..n |-> k], records |-> Append(Written([k \in 1..n |-> k]), EndRequest)]
  /\ request' = [request EXCEPT !.phase = "ended", !.signalled = FALSE]
  /\ UNCHANGED <<link, client, broken, readerVars, mimeVars>>

ReadMime ==
  /\ link.use = "parts"
  /\ MimeReadNext \/ ReadContent
  /\ UNCHANGED <<formVars, readerVars, decoder>>

ReadBase64(maxSize) ==
  /\ link.use = "base64"
  /\ DecoderRead(maxSize)
  /\ UNCHANGED <<formVars, readerVars, device, mime>>

Slot == RunSlot \/ LoadPostVariables \/ GiveUp \/ CallReadNext \/ ReadToken \/ \E n \in WriteSizes : WriteResponse(n)

Next ==
  \/ \E n \in 1..Len(client.params), p \in Paddings : SendParameters(n, p)
  \/ \E n \in 0..Len(client.body) : Announce(n) \/ StartResponse(n)
  \/ \E n \in 1..Len(client.body), p \in Paddings : SendBody(n, p)
  \/ SendBegin \/ SendAbort \/ Slot \/ ReadMime \/ \E n \in ReadSizes : ReadBase64(n)

Spec == Init /\ [][Next]_vars

\* The slot runs, and its event loop.
FairSpec == Spec /\ WF_vars(Slot)

-----------------------------------------------------------------------------
(* Properties. *)

\* Either side reads of the other's records what was put into them: the role, the parameters
\* if no pair was cut, however they were dealt out and padded, FCGI_KEEP_CONN, the response and
\* its end; and the parameters of SCGI and CGI.  A record that no quint16 can frame is not covered.
RecordsAsSent ==
  /\ request.phase \notin {"begin", "params"} /\ client.wholePairs => request.params = ToSet(Headers)
  /\ link.transport = "FCGI" =>
       /\ request.phase # "begin" => link.sent.roleB1 = 0 /\ link.sent.roleB0 = Roles.responder
                                      /\ (request.closes <=> link.sent.flags % 2 = 0)
       /\ Received(response.records) = response.written
       /\ request.phase = "ended" =>
            /\ {k \in DOMAIN response.records : response.records[k].header.type = "end"} = {Len(response.records)}
            /\ Last(response.records) = EndRequest

\* The fields that a slot sees are those of the form, in order.  For a stream if it was
\* only cut behind a '&'; over FastCGI, if it was read at once (see PostDataAsSent).
FieldsAsSent ==
  link.transport # "FCGI" \/ request.reads <= 1 =>
    /\ IsPrefix(request.data, Body(link.form))
    /\ client.wholeFields => IsPrefix(reader.fields, link.form)
    /\ client.wholeFields /\ reader.token = "EndData" => reader.fields = link.form

\* The parts of a document are read as they were written, if there is a preamble and
\* each part has a header; and base64 of whole groups is decoded as it was encoded, if
\* it is read in multiples of three bytes.
PartsAsSent ==
  /\ link.use = "parts" =>
       /\ link.sent.preamble # <<>> => IsPrefix(mime.parts, link.sent.parts) /\ mime.token # "Invalid"
       /\ link.sent.preamble # <<>> /\ mime.token = "EndDocument" => mime.parts = link.sent.parts
  /\ link.use = "base64" /\ (\A k \in 1..Len(link.sent) : Len(link.sent[k]) = 3) =>
       decoder.state # "failed" /\ IsPrefix(decoder.read, FlattenSeq(link.sent))

\* A request is answered in the end: its form has come in or is given up, and a stream
\* reader gets to the end of a form however it was cut; but not over SCGI and CGI, where
\* it never reads, nor over FastCGI if it waits for a mutex that it has (Locked).
FormEnds ==
  (request.phase = "responding"
     /\ (link.use = "values" \/ (client.body = <<>> /\ link.transport \in {"FCGI", "HTTP"})))
    ~> (request.phase = "ended" \/ broken)
=============================================================================
