-------------------------- MODULE UrlEncodedReader --------------------------
(***************************************************************************)
(* UrlEncodedPostDataStreamReader: an incremental reader of form fields.   *)
(* Each readNext() gives the next token of what its source has to offer at *)
(* the moment; Invalid means that there may be more later.  Characters are *)
(* opaque but for '=' and '&'.                                             *)
(***************************************************************************)
EXTENDS Integers, Sequences, SequencesExt

CONSTANT Characters

ASSUME CharactersAssumption == {"=", "&"} \subseteq Characters

VARIABLES source,  \* the bytes that can be read from the source now
          reader   \* the members of the reader and its PostDataStreamReaderBackend,
                   \* and the fields that it has given, as pairs

\* PostDataStreamReader::TokenType; there is no code that makes a file token.
TokenType == {"Invalid", "NoToken", "StartData", "VariableName", "VariableValue", "EndData"}
Reader == [token : TokenType, lastValid : TokenType, name : Seq(Characters), buffer : Seq(Characters),
           bytesRead : Nat, fields : Seq(Seq(Characters) \X Seq(Characters))]

ReaderInit ==
  reader = [token |-> "NoToken", lastValid |-> "NoToken", name |-> <<>>, buffer |-> <<>>,
            bytesRead |-> 0, fields |-> <<>>]

\* Where s has one of the characters first; 0: nowhere.
Position(s, characters) == SelectInSeq(s, LAMBDA c : c \in characters)

\* readUntil: how many bytes are read from the source, the buffer then, and where the
\* character is in it; 0: nowhere in what there is.
TakenUntil(first, alternatives) ==
  IF Position(reader.buffer, {first}) # 0 THEN 0
  ELSE LET p == Position(source, {first} \union alternatives) IN
       IF p = 0 THEN Len(source) ELSE p
BufferAfter(n) == reader.buffer \o SubSeq(source, 1, n)
Found(first, n, alternatives) ==
  LET p == Position(reader.buffer, {first}) IN
  IF p # 0 THEN p
  ELSE IF n > 0 /\ source[n] \in {first} \union alternatives THEN Len(BufferAfter(n)) ELSE 0

\* The part of the buffer before position p, or all of it; and the rest.
Before(s, p) == IF p = 0 THEN s ELSE SubSeq(s, 1, p - 1)
\* QByteArray::left(): for a position that is not there it is empty.
Left(s, p) == SubSeq(s, 1, p - 1)
From(s, p) == IF p = 0 THEN <<>> ELSE SubSeq(s, p, Len(s))

Take(n) == source' = SubSeq(source, n + 1, Len(source))

\* The token to go on with after Invalid, and a variant for mutation.
Resumed_AfterName == "VariableName"
Resumed == reader.lastValid

\* What readNext() does before it reads: it starts, it goes on after Invalid with the
\* last valid token, or there is nothing more that it knows of; and a variant.
Begun_Once == IF reader.token = "NoToken" THEN [reader EXCEPT !.token = "StartData"] ELSE reader
Begun ==
  CASE reader.token = "NoToken" -> [reader EXCEPT !.token = "StartData"]
    [] reader.token = "Invalid" /\ reader.lastValid # "Invalid" -> [reader EXCEPT !.token = Resumed]
    [] reader.token = "EndData" -> [reader EXCEPT !.token = "Invalid", !.lastValid = "Invalid"]
    [] OTHER -> reader

\* "foo=bar[&...]": up to '=', or '&' for a name without value; what has neither is
\* dropped, and its name is empty.  With nothing to read
\* it is the end of all the data, size bytes of it, or of what has come so far.
ReadName(size) ==
  LET n == TakenUntil("=", {"&"})
      buffer == BufferAfter(n)
      at == Found("=", n, {"&"})
  IN
  /\ reader.token \in {"StartData", "VariableValue"}
  /\ Take(n)
  /\ reader' =
       IF buffer # <<>>
       THEN [reader EXCEPT !.bytesRead = @ + n, !.name = Left(buffer, at),
                           !.buffer = From(buffer, at), !.token = "VariableName"]
       ELSE IF reader.bytesRead = size THEN [reader EXCEPT !.token = "EndData"]
       ELSE [reader EXCEPT !.lastValid = reader.token, !.token = "Invalid"]

GiveValue(value, buffer, n) ==
  reader' = [reader EXCEPT !.bytesRead = @ + n, !.buffer = buffer, !.token = "VariableValue",
                           !.fields = Append(@, <<reader.name, value>>)]

\* "$", "&foo=bar[...]" or "=bar[...]"
ReadValue ==
  /\ reader.token = "VariableName"
  /\ IF reader.buffer = <<>>
     THEN reader' = [reader EXCEPT !.token = "EndData"] /\ UNCHANGED source
     ELSE IF Head(reader.buffer) = "&"
     THEN GiveValue(<<>>, Tail(reader.buffer), 0) /\ UNCHANGED source
     ELSE LET n == TakenUntil("&", {})
              buffer == BufferAfter(n)
              at == Found("&", n, {})
          IN /\ Take(n)
             /\ GiveValue(Tail(Before(buffer, at)), IF at = 0 THEN <<>> ELSE From(buffer, at + 1), n)

ReadNext(size) == ReadName(size) \/ ReadValue

\* After readNext() in PostStreamExample: it calls itself until one of these.
Stopped == reader.token \in {"Invalid", "EndData"}
HasEnded == reader.token = "EndData" \/ (reader.token = "Invalid" /\ reader.lastValid = "Invalid")
=============================================================================
