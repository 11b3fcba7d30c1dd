--------------------------- MODULE FastCgiRecords ---------------------------
(***************************************************************************)
(* The FastCGI records: what their classes make of the web server's bytes, *)
(* and of the application's.  A quint8 is in 0..Byte-1 and a quint16 in    *)
(* 0..Word-1; the eight bytes of a header are a record of their fields.    *)
(***************************************************************************)
EXTENDS Integers, Sequences, SequencesExt

CONSTANT Byte  \* bound: 256 in the code

ASSUME ByteAssumption == Byte \in Nat /\ Byte >= 4 /\ Byte % 2 = 0

Word == Byte * Byte
HighBit == Byte \div 2

\* The types that RecordHeader takes, those that processRecordData deals with, and
\* FCGI_Header.
RecordTypes == {"begin", "abort", "end", "params", "stdin", "stdout", "stderr", "data",
                "getValues", "getValuesResult"}
HandledTypes == {"begin", "params", "stdin"}
Header == [type : RecordTypes, contentLength : 0..(Word - 1), paddingLength : 0..(Byte - 1)]

\* BEGIN_REQUEST: the two bytes of its role, and its flags.
Roles == [responder |-> 1, authorizer |-> 2, filter |-> 3]
KeepConnection == 1
BeginRequestBody == [roleB1 : 0..(Byte - 1), roleB0 : 0..(Byte - 1), flags : 0..(Byte - 1)]
Role(body) == body.roleB1 * Byte + body.roleB0
IsKnownRole(role) == Roles.responder <= role /\ role <= Roles.filter
ClosesSocket(body) == body.flags % (2 * KeepConnection) < KeepConnection

\* END_REQUEST.
RequestComplete == 0
EndRequestBody == [appStatus |-> 0, protocolStatus |-> RequestComplete]

\* RecordHeader::payloadLength, a quint16.
PayloadLength(header) == (header.contentLength + header.paddingLength) % Word

\* RecordHeader::create: the header counts the data in two bytes.
Created(type, data) ==
  [header |-> [type |-> type, contentLength |-> Len(data) % Word, paddingLength |-> 0],
   data |-> data]

\* EndRequestRecord::create
EndRequest == [header |-> [type |-> "end", contentLength |-> 8, paddingLength |-> 0], data |-> <<EndRequestBody>>]

-----------------------------------------------------------------------------
(* ParametersRecord *)

\* The length of a name or value that starts at data[i]: in one byte, or four.
LongLength(data, i) ==
  (((data[i] - HighBit) * Byte + data[i + 1]) * Byte + data[i + 2]) * Byte + data[i + 3]
IsLong(data, i) == data[i] >= HighBit
LengthSize(data, i) == IF IsLong(data, i) THEN 4 ELSE 1

\* The length at i, or one that no record holds if its bytes are not all there.
LengthAt(data, i) ==
  IF i > Len(data) \/ i + LengthSize(data, i) > Len(data) + 1 THEN Len(data) + 1
  ELSE IF IsLong(data, i) THEN LongLength(data, i) ELSE data[i]

\* For the pair whose lengths start at data[i]: where its value's length is, where its
\* name is, and where the next pair starts, beyond the data if it is not all there.
ValueLengthAt(data, i) == i + LengthSize(data, i)
NameAt(data, i) ==
  LET v == ValueLengthAt(data, i) IN v + IF v > Len(data) THEN 1 ELSE LengthSize(data, v)
NextAt(data, i) ==
  NameAt(data, i) + LengthAt(data, i) + LengthAt(data, ValueLengthAt(data, i))
PairAt(data, i) ==
  LET value == NameAt(data, i) + LengthAt(data, i) IN
  <<SubSeq(data, NameAt(data, i), value - 1), SubSeq(data, value, NextAt(data, i) - 1)>>

\* The pairs of a record, one after the other.  Overrun: the constructor reads behind the
\* content, which gives it padding or whatever lies there.
Overrun == {"overrun"}
Parameters(data) ==
  LET at[k \in 0..Len(data)] ==
        IF k = 0 THEN 1 ELSE LET i == at[k - 1] IN IF i > Len(data) THEN i ELSE NextAt(data, i)
      starts == {at[k] : k \in 0..Len(data)}
  IN IF \E i \in starts : i > Len(data) + 1 THEN Overrun
     ELSE {PairAt(data, i) : i \in starts \ {Len(data) + 1}}

\* The web server's side (external): lengths of 31 bits.
EncodedLength(n) ==
  LET high == (n \div Byte) \div Byte IN
  IF n < HighBit THEN <<n>>
  ELSE <<HighBit + high \div Byte, high % Byte, (n \div Byte) % Byte, n % Byte>>
EncodedPair(pair) ==
  EncodedLength(Len(pair[1])) \o EncodedLength(Len(pair[2])) \o pair[1] \o pair[2]

-----------------------------------------------------------------------------
(* The other ways that parameters come in. *)

\* QByteArray::split.
SplitAt(bytes, byte) ==
  LET N == Len(bytes)
      ends == {i \in 1..(N + 1) : i > N \/ bytes[i] = byte}
      end[k \in 0..(N + 1)] ==
        IF k = 0 THEN 0 ELSE LET e == end[k - 1] IN IF e > N THEN e ELSE Min({i \in ends : i > e})
  IN [k \in 1..Min({k \in 1..(N + 1) : end[k] > N}) |-> SubSeq(bytes, end[k - 1] + 1, end[k] - 1)]

\* An SCGI header blob: each name and value with a null byte behind it.
Null == 0
HeaderBlob(pairs) ==
  FlattenSeq([k \in 1..Len(pairs) |-> Append(pairs[k][1], Null) \o Append(pairs[k][2], Null)])
BlobParameters(blob) ==
  LET parts == Front(SplitAt(blob, Null)) IN
  {<<parts[2 * k - 1], parts[2 * k]>> : k \in 1..(Len(parts) \div 2)}

\* The environment of a CGI process: name, '=', value, which may have a '=' of its own.
EqualsSign == Byte - 1
Environment(pairs) == {pairs[k][1] \o <<EqualsSign>> \o pairs[k][2] : k \in 1..Len(pairs)}
Variable(entry) ==
  LET parts == SplitAt(entry, EqualsSign)
      value[k \in 2..Len(parts)] ==
        IF k = 2 THEN parts[2] ELSE value[k - 1] \o <<EqualsSign>> \o parts[k]
  IN <<parts[1], value[Len(parts)]>>
EnvironmentParameters(entries) == {Variable(e) : e \in {e \in entries : Len(SplitAt(e, EqualsSign)) > 1}}

-----------------------------------------------------------------------------
(* FastCgiStream::writeData *)

\* The most that goes into one STDOUT record, and a variant for mutation.
MostToWrite_Word == Word
MostToWrite == Word - 1

\* The records that a write of data makes.
Written(data) ==
  [k \in 1..((Len(data) + MostToWrite - 1) \div MostToWrite) |->
     Created("stdout", SubSeq(data, (k - 1) * MostToWrite + 1,
                              IF k * MostToWrite < Len(data) THEN k * MostToWrite ELSE Len(data)))]

\* What the web server reads of a sequence of records (external): the content that
\* each header announces, up to a record of none or the END_REQUEST.
Received(records) ==
  LET content(r) == SubSeq(r.data, 1, r.header.contentLength)
      last == SelectInSeq(records, LAMBDA r : r.header.contentLength = 0 \/ r.header.type = "end")
  IN FlattenSeq([k \in 1..(IF last = 0 THEN Len(records) ELSE last - 1) |-> content(records[k])])
=============================================================================
