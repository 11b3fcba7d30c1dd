--------------------------- MODULE ServiceDispatch ---------------------------
(***************************************************************************)
(* A PrefixMapper in front of Services, the way an application with more   *)
(* than one page is built: newRequest() is connected to                    *)
(* PrefixMapper::respond, which looks up the service for the first segment *)
(* of the path and queues the request in its own BlockingResponder; the    *)
(* slot of that is Service::respond, which looks up one of the service's   *)
(* methods.  With WithXslt the service is an XsltService, which writes its *)
(* output only when the method is done.                                    *)
(*                                                                         *)
(* A path is the sequence of its segments, each after a '/': "/a/" is      *)
(* <<"a", "">>.  The method of a request may wait in an event loop or      *)
(* adopt the request, as any slot of BlockingResponder.                    *)
(***************************************************************************)
EXTENDS BlockingResponder, SequencesExt

CONSTANTS Paths,     \* bound: the PATH_INFOs that arrive
          Mappings,  \* bound: the sets of names that addMapping() may have set up
          Services,  \* for each of the names the urlMap() of its service
          Numbers,   \* bound: the segments that match "\\d+"
          Encoding,  \* what paths with percent signs decode to
          Scripts,   \* what the methods of the services do to an XsltService, by name
          WithXslt

\* A regular expression between the '/'s of a fragment: "\\d+" and, at the end, ".+",
\* each of them captured.  A null one matches the empty fragment, too.
NullPattern == <<"null">>
Patterns ==
  {p \in Seq({"\\d+", ".+"}) : \A k \in 1..Len(p) - 1 : p[k] = "\\d+"} \union {NullPattern}

ASSUME DispatchAssumption ==
  /\ WithXslt \in BOOLEAN /\ Paths \subseteq Seq(STRING) /\ "" \notin Numbers
  /\ DOMAIN Services \subseteq STRING /\ \A mapping \in Mappings : mapping \subseteq DOMAIN Services
  /\ \A name \in DOMAIN Services :
       Services[name] \in Seq([pattern : Patterns, slot : [name : DOMAIN Scripts, parameters : Nat]])
  /\ \A segments \in DOMAIN Encoding : Encoding[segments] \in Seq(STRING) \ {<<>>}
  /\ "none" \notin DOMAIN Scripts
  /\ \A name \in DOMAIN Scripts :
       Scripts[name] \in Seq({"addXsltFile", "setXsltUrl", "setNoXsltUrl", "write"})

\* True in TLA+, but not known to the provers.
ASSUME EmptySegment == "" \in STRING

VARIABLES names,     \* the keys of PrefixMapper::Private::services
          path,      \* PATH_INFO of each request
          prefix,    \* FASTCGIQT_PREFIXMAPPER_PREFIX,
          suffix,    \* and _SUFFIX of each request; Null: not set, or null
          service,   \* per service object its dispatchingRequest and request
          answer,    \* what ends each request's response: "none", "404", "method"
          called,    \* the method that each request has been given to, with its parameters
          document,  \* XsltService::d for each request: its state is "none", "open" while
                     \* it collects, "written", or "lost" if the request went first
          fatal      \* qFatal() has been called

dispatchVars == <<names, path, prefix, suffix, service, answer, called, document, fatal>>
allVars == <<vars, dispatchVars>>

\* A null QByteArray: it has no part.
Null == <<>>

\* The object whose slot is invoked: the prespawned one, or one for each request.
Objects == IF Persist THEN {0} ELSE Requests
ObjectOf(r) == IF Persist THEN 0 ELSE r

\* The members of an XsltService::Private, but for what does not decide whether there is
\* output; and what is written of them.
Documents ==
  [state : {"none", "open", "written", "lost"}, source : {"NoXslt", "FileXslt", "StringXslt"},
   xml : Nat, position : Nat, output : {"nothing", "xml", "transformed"}]
NoDocument == [state |-> "none", source |-> "NoXslt", xml |-> 0, position |-> 0, output |-> "nothing"]

NewService == [dispatching |-> FALSE, request |-> NoRequest]
NoSlot == [name |-> "none", parameters |-> 0]
NoCall == [slot |-> NoSlot, parameters |-> <<>>, exact |-> FALSE]

DispatchTypeOK ==
  /\ TypeOK
  /\ names \in Mappings /\ path \in [Requests -> Paths]
  /\ prefix \in [Requests -> Seq(STRING)] /\ suffix \in [Requests -> Seq(STRING)]
  /\ service \in [Objects -> [dispatching : BOOLEAN, request : Requests \union {NoRequest}]]
  /\ answer \in [Requests -> {"none", "404", "method"}]
  /\ \A r \in Requests : called[r] # NoCall => called[r].slot.parameters = Len(called[r].parameters)
  /\ document \in [Requests -> Documents]
  /\ fatal \in BOOLEAN

DispatchInit ==
  /\ Init
  /\ names \in Mappings /\ path \in [Requests -> Paths]
  /\ prefix = [r \in Requests |-> Null] /\ suffix = [r \in Requests |-> Null]
  /\ service = [o \in Objects |-> NewService]
  /\ answer = [r \in Requests |-> "none"] /\ called = [r \in Requests |-> NoCall]
  /\ document = [r \in Requests |-> NoDocument]
  /\ fatal = FALSE

-----------------------------------------------------------------------------
(* PrefixMapper. *)

\* PrefixMapper::Private::suffix: a null suffix is taken for one never set.
Suffix(r) == IF suffix[r] = Null THEN path[r] ELSE suffix[r]

\* split('/') of a path; the split of an empty array has one, empty, element.
Parts(p) == IF p = <<>> THEN <<"">> ELSE p

\* The service name for parts of a path, and what is left for the service.  No
\* service of that name: the default one, which gets the first part too.
Known(parts) == Head(parts) \in names
Mapped(parts) == Known(parts) \/ "" \in names
NewPrefix(parts) == IF Known(parts) THEN Head(parts) ELSE ""
Remaining(parts) == IF Known(parts) THEN Tail(parts) ELSE parts

\* The suffix as it is stored, null if no part remains, and a variant for mutation.
StoredSuffix_Whole(parts) == parts
StoredSuffix(parts) == Remaining(parts)

\* PrefixMapper::respond
MapRequest(r) ==
  LET parts == Parts(Suffix(r)) IN
  IF Mapped(parts)
  THEN /\ prefix' = [prefix EXCEPT ![r] = Append(@, NewPrefix(parts))]
       /\ suffix' = [suffix EXCEPT ![r] = StoredSuffix(parts)]
       /\ Respond(r)
       /\ UNCHANGED answer
  ELSE /\ answer' = [answer EXCEPT ![r] = "404"]
       /\ Ignore
       /\ UNCHANGED <<prefix, suffix>>

\* Control is in an event loop; a service that answers 404 has none.
InLoop == ~fatal /\ InEventLoop /\ (stack # <<>> => answer[Head(stack)] # "404")

\* CommunicationInterface::addRequest around it.
MapperRespond ==
  LET r == arrived + 1 IN
  /\ InLoop
  /\ AddRequest /\ MapRequest(r)
  /\ UNCHANGED <<stack, ended, names, path, service, called, document, fatal>>

-----------------------------------------------------------------------------
(* Service: the maps, and the choice of a method. *)

Slot(name, parameters) == [name |-> name, parameters |-> parameters]

Entry(pattern, slot) == [pattern |-> pattern, slot |-> slot]
IndexUrlMap == <<Entry(<<>>, Slot("index", 0))>>
ArticleUrlMap ==
  [k \in 1..4 |-> Entry([d \in 1..k - 1 |-> "\\d+"], Slot("list", k - 1))]
    \o <<Entry(<<"\\d+", "\\d+", "\\d+", ".+">>, Slot("show", 4))>>
ExampleUrlMap == <<Entry(NullPattern, Slot("helloWorld", 0))>>

\* The suffix without its first '/', decoded: "%2F" makes two segments of one.
Decoded(segments) == IF segments \in DOMAIN Encoding THEN Encoding[segments] ELSE segments
Fragment(r) == Decoded(Parts(Suffix(r)))

ExactMatch(pattern, fragment) ==
  LET n == Len(pattern)
      numbers == IF n > 0 /\ pattern[n] = ".+" THEN n - 1 ELSE n IN
  IF pattern \in {NullPattern, <<>>} THEN fragment = <<"">>
  ELSE /\ \A k \in 1..numbers : k <= Len(fragment) /\ fragment[k] \in Numbers
       /\ IF numbers = n THEN Len(fragment) = n
          ELSE Len(fragment) >= n /\ (Len(fragment) = n => fragment[n] # "")

Captured(pattern, fragment) ==
  IF pattern \in {NullPattern, <<>>} THEN <<>>
  ELSE [k \in 1..Len(pattern) |->
         IF pattern[k] = ".+" THEN SubSeq(fragment, k, Len(fragment)) ELSE <<fragment[k]>>]

\* One turn of the loop over the map, and a variant for mutation: the loop ends with the
\* first exact match; the first null expression counts if there is none.
NextCall_Last(found, entry, fragment) ==
  IF ExactMatch(entry.pattern, fragment)
  THEN [slot |-> entry.slot, parameters |-> Captured(entry.pattern, fragment), exact |-> TRUE]
  ELSE IF entry.pattern = NullPattern THEN [NoCall EXCEPT !.slot = entry.slot] ELSE found
NextCall(found, entry, fragment) ==
  IF found.exact THEN found
  ELSE IF ExactMatch(entry.pattern, fragment)
  THEN [slot |-> entry.slot, parameters |-> Captured(entry.pattern, fragment), exact |-> TRUE]
  ELSE IF entry.pattern = NullPattern /\ found.slot = NoSlot THEN [NoCall EXCEPT !.slot = entry.slot] ELSE found

\* The service of a request is that of the last segment of its prefix.
UrlMapFor(r) == Services[Last(prefix[r])]
Search(map, fragment) ==
  LET found[k \in 0..Len(map)] == IF k = 0 THEN NoCall ELSE NextCall(found[k - 1], map[k], fragment)
  IN found[Len(map)]
Chosen(r) == Search(UrlMapFor(r), Fragment(r))
HasMethod(r) == Chosen(r).slot # NoSlot

\* The recursion guard of Service::respond, and the assertions of invokeMethod.
Recursion(o) == service[o].dispatching
CannotInvoke(r) ==
  Len(Chosen(r).parameters) >= 10 \/ Len(Chosen(r).parameters) # Chosen(r).slot.parameters

\* Every slot in the maps takes what its expression captures, as those assertions demand.
Captures(pattern) == IF pattern \in {NullPattern, <<>>} THEN 0 ELSE Len(pattern)
MapsFit ==
  \A name \in DOMAIN Services : \A k \in DOMAIN Services[name] :
    LET entry == Services[name][k] IN entry.slot.parameters = Captures(entry.pattern) /\ Captures(entry.pattern) < 10

\* dispatchingRequest after the method: reset unless that adopted the request.
StillDispatching(r) == parent[r] # "nobody"

-----------------------------------------------------------------------------
(* XsltService. *)

\* The calls a method makes; what it writes to xmlDevice() moves that to its end.
After(d, call) ==
  CASE call = "addXsltFile" -> [d EXCEPT !.source = "StringXslt"]
    [] call = "setXsltUrl" -> [d EXCEPT !.source = "FileXslt"]
    [] call = "setNoXsltUrl" -> [d EXCEPT !.source = "NoXslt"]
    [] call = "write" -> [d EXCEPT !.xml = @ + 1, !.position = @ + 1]
NewDocument == [NoDocument EXCEPT !.state = "open"]
Collected(calls) ==
  LET after[k \in 0..Len(calls)] == IF k = 0 THEN NewDocument ELSE After(after[k - 1], calls[k])
  IN after[Len(calls)]
CallsOf(call) == IF call.slot = NoSlot THEN <<>> ELSE Scripts[call.slot.name]
Opened(r) == Collected(CallsOf(Chosen(r)))

\* ~XsltService::Private writes the output, but a newline, and a variant for mutation.
Output(d) ==
  CASE d.source # "NoXslt" -> "transformed"
    [] d.source = "NoXslt" /\ d.position < d.xml -> "xml"
    [] OTHER -> "nothing"
Closed_Not(r, d) == [document EXCEPT ![r] = d]
Closed(r, d) ==
  [document EXCEPT ![r] = IF WithXslt THEN [d EXCEPT !.state = "written", !.output = Output(d)] ELSE d]

-----------------------------------------------------------------------------
(* Service: a request. *)

\* RequestRunner::run, Service::respond, dispatchUncachedRequest: into the method, or to
\* their end without one.
ServiceRespond ==
  LET r == Head(unhandledRequests)  o == ObjectOf(r) IN
  /\ ~fatal
  /\ RunNext
  /\ fatal' = (Recursion(o) \/ CannotInvoke(r))
  /\ IF fatal' THEN UNCHANGED <<service, answer, called, document>>
     ELSE /\ service' = [service EXCEPT ![o] = [dispatching |-> HasMethod(r), request |-> r]]
          /\ called' = [called EXCEPT ![r] = Chosen(r)]
          /\ IF HasMethod(r)
             THEN /\ document' = IF WithXslt THEN [document EXCEPT ![r] = Opened(r)] ELSE document
                  /\ UNCHANGED answer
             ELSE /\ document' = Closed(r, Opened(r))
                  /\ answer' = [answer EXCEPT ![r] = "404"]
  /\ UNCHANGED <<names, path, prefix, suffix>>

MethodAdopts ==
  /\ ~fatal /\ InSlot /\ answer[Head(stack)] = "none"
  /\ Adopt
  /\ UNCHANGED dispatchVars

\* The method returns, then Service::respond and the runner; the service goes with
\* the request unless it is prespawned.
MethodReturn ==
  LET r == Head(stack)  o == ObjectOf(Head(stack)) IN
  /\ ~fatal /\ SlotReturn
  /\ IF answer[r] = "404" \/ parent[r] # "nobody"
     THEN UNCHANGED <<answer, document>>
     ELSE answer' = [answer EXCEPT ![r] = "method"] /\ document' = Closed(r, document[r])
  /\ service' = [service EXCEPT ![o].dispatching = @ /\ StillDispatching(r)]
  /\ UNCHANGED <<names, path, prefix, suffix, called, fatal>>

\* ~Service of an object made for the request.
Destroyed(o) == IF Persist THEN service ELSE [service EXCEPT ![o].dispatching = FALSE]

\* The service deletes itself and the request it adopted with it: ~XsltService
\* writes before ~QObject deletes the child.  A prespawned one deletes the request.
AnswerLater ==
  /\ InLoop /\ AnswerAdopted
  /\ \E r \in Requests :
       /\ life'[r] # life[r]
       /\ answer' = [answer EXCEPT ![r] = "method"]
       /\ document' = IF WithXslt /\ Persist THEN [document EXCEPT ![r].state = "lost"]
                      ELSE Closed(r, document[r])
       /\ service' = Destroyed(ObjectOf(r))
  /\ UNCHANGED <<names, path, prefix, suffix, called, fatal>>

DispatchFlush == InLoop /\ FlushQueue /\ UNCHANGED dispatchVars
DispatchFlushDone == ~fatal /\ FlushDone /\ UNCHANGED dispatchVars
DispatchShutdown == ~fatal /\ Shutdown /\ UNCHANGED dispatchVars
DispatchTerminated == (ended \/ fatal) /\ UNCHANGED allVars

DispatchStep ==
  ServiceRespond \/ MethodReturn \/ AnswerLater \/ DispatchFlush \/ DispatchFlushDone

DispatchNext ==
  DispatchStep \/ MapperRespond \/ MethodAdopts \/ DispatchShutdown \/ DispatchTerminated

DispatchSpec == DispatchInit /\ [][DispatchNext]_allVars

\* As for BlockingResponder.
DispatchFairSpec == DispatchSpec /\ WF_allVars(DispatchStep)

-----------------------------------------------------------------------------
(* Properties. *)

\* The service that a request is queued for sees the path without the segment that
\* selected it, or all of the path if nothing selected it; but if nothing is left,
\* it sees the whole path again (PrefixMapper_Private.cpp:41-49).
SuffixIsRest ==
  \A r \in Requests : prefix[r] # Null =>
    LET rest == IF Head(prefix[r]) = "" /\ Head(Parts(path[r])) # "" THEN path[r]
                ELSE Tail(Parts(path[r])) IN
    /\ Head(prefix[r]) \in names /\ Head(prefix[r]) \in {"", Head(Parts(path[r]))}
    /\ Parts(Suffix(r)) = IF rest = <<>> THEN Parts(path[r]) ELSE rest

\* Every request that ends while the process runs has been answered, by the mapper, the
\* service or one of its methods: the method of the first expression in the map that
\* matches, with what it captured; else that of the first null one (Service.h:32).
Answered ==
  /\ ~fatal
  /\ \A r \in Requests :
       /\ life[r] = "deleted" => answer[r] # "none" \/ ended
       /\ answer[r] = "method" => called[r] # NoCall
       /\ responder[r] # "none" /\ (answer[r] = "404" \/ called[r] # NoCall) =>
            LET map == UrlMapFor(r)  fragment == Fragment(r)
                matching == {k \in DOMAIN map : ExactMatch(map[k].pattern, fragment)}
                null == {k \in DOMAIN map : map[k].pattern = NullPattern}
                candidates == IF matching # {} THEN matching ELSE null IN
            /\ answer[r] = "404" <=> candidates = {}
            /\ candidates # {} => called[r].slot = map[Min(candidates)].slot
            /\ matching # {} =>
                 FlattenSeq(called[r].parameters) = IF fragment = <<"">> THEN <<>> ELSE fragment

\* The document of an XsltService is closed while its request is there, not left open behind it.
\* What has been collected in it is then written, transformed, if the method has chosen a
\* stylesheet and kept it.  Otherwise all of it is dropped, though the code means to write it as
\* it is: the buffer is read from where the writing of it has ended (XsltService_Private.cpp:96).
OutputWritten ==
  \A r \in Requests :
    WithXslt /\ life[r] = "deleted" /\ responder[r] # "none" =>
      LET calls == CallsOf(called[r])
          choices == {k \in 1..Len(calls) : calls[k] # "write"} IN
      /\ document[r].state = "written"
      /\ document[r].output =
           IF choices # {} /\ calls[Max(choices)] # "setNoXsltUrl" THEN "transformed" ELSE "nothing"

\* Every request that is accepted is answered in the end, unless the process ends.
AllAnswered == \A r \in Requests : life[r] = "alive" ~> answer[r] # "none" \/ ended
=============================================================================
