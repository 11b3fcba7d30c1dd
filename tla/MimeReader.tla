----------------------------- MODULE MimeReader -----------------------------
(***************************************************************************)
(* MimeMultipartStreamReader over a device that holds a whole document,    *)
(* the MimePartIODevice of its current part, and a Base64Decoder.          *)
(*                                                                         *)
(* A document is a sequence of symbols: a line end, "--", the boundary, a  *)
(* header line (of which only the one that names the boundary matters) or  *)
(* a byte of content.  Where lines end with CRLF, "nl" in the pattern of a  *)
(* boundary is its LF (MimePartIODevice_Private.cpp:23), and the content   *)
(* before it keeps the CR.                                                 *)
(***************************************************************************)
EXTENDS Integers, Sequences, SequencesExt

CONSTANTS Symbols,         \* of which documents consist, and what is encoded in base64
          BufferSize,      \* bound: what one readData() is asked for; 16384 in Qt
          BoundaryHeader   \* the header line that names the boundary

LineEnd == "nl"
Dashes == "--"
Boundary == "b"

\* MimePartIODevice's pattern has to fit in its buffer.
Pattern == <<LineEnd, Dashes, Boundary>>
ASSUME BufferAssumption ==
  /\ BufferSize \in Nat /\ BufferSize >= Len(Pattern)
  /\ {LineEnd, Dashes, Boundary, BoundaryHeader} \subseteq Symbols /\ BoundaryHeader # LineEnd

VARIABLES device,   \* the symbols that have not been read
          mime,     \* MimeMultipartStreamReader::Private, its MimePartIODevice, and
                    \* what a caller that reads everything has got: parts
          decoder   \* the Base64Decoder: the groups left of its source, m_decodedBuffer,
                    \* what its caller got, and of the call in progress, its maxSize and
                    \* the room left

MimeToken == {"Invalid", "NoToken", "StartDocument", "DocumentHeader", "IgnoredContent", "EndPart",
              "StartPart", "PartHeader", "PartContent", "EndDocument"}
Mime == [token : MimeToken, boundary : BOOLEAN, atEnd : BOOLEAN, content : Seq(Symbols),
         headers : Seq(Symbols), parts : Seq(Seq(Symbols) \X Seq(Symbols))]

MimeInit(document, boundaryGiven) ==
  /\ device = document
  /\ mime = [token |-> "NoToken", boundary |-> boundaryGiven, atEnd |-> FALSE, content |-> <<>>,
             headers |-> <<>>, parts |-> <<>>]

-----------------------------------------------------------------------------
(* MimePartIODevice *)

Least(a, b) == IF a < b THEN a ELSE b
Peeked == SubSeq(device, 1, Least(BufferSize, Len(device)))
AtBoundary ==
  LET places == {i \in 1..(Len(Peeked) - Len(Pattern) + 1) :
                   SubSeq(Peeked, i, i + Len(Pattern) - 1) = Pattern}
  IN IF places = {} THEN 0 ELSE CHOOSE i \in places : \A j \in places : i <= j

\* The symbols at the end that may begin a boundary, and a variant for mutation.
Chop_None == 0
Chop ==
  LET begins(n) == n <= Len(Peeked) /\ IsSuffix(SubSeq(Pattern, 1, n), Peeked) IN
  IF \E n \in 1..(Len(Pattern) - 1) : begins(n)
  THEN CHOOSE n \in 1..(Len(Pattern) - 1) : begins(n) /\ \A m \in 1..(n - 1) : ~begins(m) ELSE 0

InContent == mime.token \in {"IgnoredContent", "PartContent"}

\* readData: to the boundary, whose line end is skipped, or what cannot be part of it.
ReadContent ==
  LET n == IF AtBoundary # 0 THEN AtBoundary - 1 ELSE Len(Peeked) - Chop IN
  /\ InContent /\ ~mime.atEnd
  /\ AtBoundary # 0 \/ n > 0
  /\ mime' = [mime EXCEPT !.content = @ \o SubSeq(device, 1, n), !.atEnd = AtBoundary # 0]
  /\ device' = SubSeq(device, n + (IF AtBoundary # 0 THEN 2 ELSE 1), Len(device))

\* readAll() has had nothing more.
ContentRead == InContent /\ (mime.atEnd \/ (AtBoundary = 0 /\ Len(Peeked) = Chop))

-----------------------------------------------------------------------------
(* MimeMultipartStreamReader::readNext *)

\* The rest of the line is read with it.
AfterLine(from) ==
  LET end == SelectInSubSeq(device, from, Len(device), LAMBDA s : s = LineEnd) IN
  IF end = 0 THEN <<>> ELSE SubSeq(device, end + 1, Len(device))

\* A reader that was given the boundary begins behind the headers, at the empty line.
StartDocument ==
  /\ mime.token = "NoToken"
  /\ IF mime.boundary
     THEN /\ mime' = [mime EXCEPT !.token = IF device # <<>> /\ Head(device) = LineEnd
                                           THEN "IgnoredContent" ELSE "Invalid"]
          /\ device' = AfterLine(1)
     ELSE mime' = [mime EXCEPT !.token = "StartDocument"] /\ UNCHANGED device

EndContent ==
  /\ ContentRead
  /\ mime' = [mime EXCEPT !.token = "EndPart", !.content = <<>>, !.headers = <<>>,
                          !.parts = IF mime.token = "PartContent"
                                    THEN Append(@, <<mime.headers, mime.content>>) ELSE @]
  /\ UNCHANGED device

ReadBoundary ==
  /\ mime.token = "EndPart"
  /\ IF Len(device) >= 3 /\ SubSeq(device, 1, 2) = <<Dashes, Boundary>>
     THEN /\ mime' = [mime EXCEPT !.token =
                        CASE device[3] = LineEnd -> "StartPart"
                          [] device[3] = Dashes -> "EndDocument"
                          [] OTHER -> "Invalid"]
          /\ device' = AfterLine(3)
     ELSE /\ mime' = [mime EXCEPT !.token = "Invalid"]
          /\ device' = SubSeq(device, 3, Len(device))

InHeaders == mime.token \in {"StartDocument", "DocumentHeader", "StartPart", "PartHeader"}

\* An empty line: content follows.  An assertion fails for a part without headers,
\* and for a document that has named no boundary.
ReadEmptyLine ==
  /\ InHeaders /\ device # <<>> /\ Head(device) = LineEnd
  /\ mime' = [mime EXCEPT !.atEnd = FALSE,
                          !.token = IF mime.token = "StartPart" \/ ~mime.boundary THEN "Invalid"
                                    ELSE IF mime.token = "DocumentHeader" THEN "IgnoredContent"
                                    ELSE "PartContent"]
  /\ device' = Tail(device)

\* The token after a header line.
AfterHeader ==
  IF mime.token \in {"StartDocument", "DocumentHeader"} THEN "DocumentHeader" ELSE "PartHeader"

ReadHeader ==
  /\ InHeaders /\ device # <<>> /\ Head(device) # LineEnd
  /\ mime' = [mime EXCEPT !.token = AfterHeader,
                          !.boundary = @ \/ (AfterHeader = "DocumentHeader" /\ Head(device) = BoundaryHeader),
                          !.headers = IF AfterHeader = "PartHeader" THEN Append(@, Head(device)) ELSE @]
  /\ device' = AfterLine(1)

MimeReadNext == StartDocument \/ EndContent \/ ReadBoundary \/ ReadEmptyLine \/ ReadHeader

-----------------------------------------------------------------------------
(* Base64Decoder: four characters that are not spaces make a group of bytes. *)

DecoderInit(groups) ==
  decoder = [encoded |-> groups, decoded |-> <<>>, read |-> <<>>, size |-> 0, room |-> 0, state |-> "reading"]

\* m_decodedBuffer after n bytes of it were copied, right(3 - n); and a variant.
Remaining_All(buffer, n) == buffer
Remaining(buffer, n) ==
  SubSeq(buffer, (IF Len(buffer) > 3 - n THEN Len(buffer) - (3 - n) ELSE 0) + 1, Len(buffer))

\* readData: what is left over from the last group first, ...
DecoderReadLeft(maxSize) ==
  LET n == Least(maxSize, Len(decoder.decoded)) IN
  /\ decoder.state = "reading" /\ decoder.room = 0
  /\ decoder' =
       IF decoder.encoded = <<>>
       THEN [decoder EXCEPT !.read = @ \o SubSeq(decoder.decoded, 1, n),
                            !.decoded = SubSeq(@, n + 1, Len(@)),
                            !.state = IF decoder.decoded = <<>> THEN "over" ELSE @]
       ELSE [decoder EXCEPT !.read = @ \o SubSeq(decoder.decoded, 1, n),
                            !.decoded = IF @ = <<>> THEN @ ELSE Remaining(@, n),
                            !.size = maxSize, !.room = maxSize - n]

\* ... then group by group while there is room.  The count of bytes to copy is limited
\* by maxSize and not by the room that is left, which memcpy_safe does not accept.
DecoderReadGroup ==
  LET buffer == decoder.decoded \o Head(decoder.encoded)
      n == Least(decoder.size, Len(buffer)) IN
  /\ decoder.state = "reading" /\ decoder.room > 0 /\ decoder.encoded # <<>>
  /\ decoder' =
       IF n > decoder.room THEN [decoder EXCEPT !.state = "failed"]
       ELSE [decoder EXCEPT !.encoded = Tail(@), !.read = @ \o SubSeq(buffer, 1, n),
                            !.decoded = Remaining(buffer, n), !.room = @ - n]

DecoderReturn ==
  /\ decoder.state = "reading" /\ decoder.room > 0 /\ decoder.encoded = <<>>
  /\ decoder' = [decoder EXCEPT !.room = 0]

DecoderRead(maxSize) == DecoderReadLeft(maxSize) \/ DecoderReadGroup \/ DecoderReturn
=============================================================================
