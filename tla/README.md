# FastCgiQt, specified

FastCgiQt is a C++/Qt 4 library for web applications. A web server (over FastCGI,
SCGI, CGI) or a browser (over the built-in HTTP server) sends it requests; it
gives each one to a slot of an application object, in the main thread or in a
pool of threads, and deletes the request when the slot is done with it, which
ends the response.

## The system

| Part | State it keeps | Operations | Hard because |
|---|---|---|---|
| `RequestQueue`, `RequestRunner` | the queue of runners, a 0 ms single-shot timer; the parent of each request | `respond`, `flushQueue`, `run` | the slots run nested event loops, from which both are entered again; ownership is a parent pointer that the slot may change |
| `BlockingResponder` | nothing of its own | `start` | everything nests in one thread |
| `ThreadedResponder`, `ThreadPool`, `ThreadPool::Worker` | round-robin cursor; per worker a queue, a mutex, an event loop | `start`, `enqueue`, `flushQueue`, destructor | main thread and workers interleave; wakeups are posted calls; objects belong to threads |
| `CommunicationInterface` | nothing | `addRequest`, `start`, `closeIfFinished` | collects requests nobody took |
| `Request` | response headers, POST data mode | `rawValues`, `url`, `setHeader`, `readData`, `writeData` | waits for POST data in a nested event loop, with a timeout |
| `FastCgiSocketManager`, `FastCgiStream`, `SocketFlusher` | the current record header, the streams by request id, who owns the socket | `processSocketData`, `respond`, `cleanupStream`, `deleteIfFlushed` | partial records, re-entry, signals across threads, deferred deletions |
| FastCGI records | none | encoding and decoding | 16-bit lengths, lengths of one or four bytes |
| `SocketServer` (unix, tcp) | the listening socket, the accept lock, a notifier | `listen`, `lockSocket`, `nextPendingConnection` | several processes share one socket |
| `HttpRequest`, `HttpInterface` | request and response state, header buffer | `readSocketData`, `dispatchRequest`, `writeData` | lines arrive in parts, headers are written in parts |
| `ScgiRequest`, `CgiRequest`, `ProxyClientIODevice` | headers | read once | the device says less than the socket behind it |
| `Manager` | the interface in use | constructors, `configure`, `shutdown` | the order in which interfaces are tried; failures to start |
| `PrefixMapper`, `Service`, `XsltService` | mapping, the current request, the recursion guard, output and stylesheet | `respond`, `dispatchUncachedRequest`, `spawn` | responders inside responders |
| `FileCache`, `RequestCache`, `RamCache`, `MemcachedCache` | entries, file dependencies, two locks | `value`, `setValue`, `addDependency`, `removeAssociatedEntries` | shared by all threads, files change at any time |
| POST data readers, `Base64Decoder` | read position, boundary, decoder buffers | `readNext`, `readData` | data arrives in chunks |
| `Database` | a connection and a guard per thread | `addDatabase`, `haveConnection` | two records of the same fact |

Calls go down from the backend: bytes arrive, a backend object builds a
`ClientIODevice`, `CommunicationInterface::addRequest` wraps it in a `Request` and
emits `newRequest`, a responder takes the request, a runner calls the
application's slot. Back up they go by deletion: deleting the request deletes
its device, whose destructor writes the end of the response and hands the socket
to a `SocketFlusher`.

Sources are named relative to the repository; `lib/` is `src/lib/`.

### What makes each part correct

* Request dispatch (`RequestQueue`, both responders): a request is given to
  exactly one call of one slot, in order of arrival within a thread, only ever
  touched by the thread it lives in, deleted exactly once, never left in a queue
  that nobody will look at, and answered in the end.
* FastCGI connection: the byte stream is cut into records whatever arrives when
  and whoever reads it; records reach the request they belong to; nothing
  touches a deleted stream, manager or socket; the end of a request reaches the
  web server, and the connection is then closed if that was asked for.
* HTTP connection: headers are parsed and the body is left alone however the
  bytes are cut; the response is framed as the slot wrote it; output is
  delivered before the socket goes; an asynchronous slot is told of its input.
* Records, transports and POST readers: what one side has put in, the other
  reads, however it was cut into records and chunks, and the slot is told when
  the form is over.
* Services: a path is divided between mapper and service; the method is the one
  of the first expression that matches; every request is answered by someone;
  the document of a service is closed while the request is still there, and what
  was collected in it goes through the stylesheet, if there is one.
* Caches: an entry whose file has changed goes, whatever other threads do
  meanwhile; the store stays within its limit; no two threads wait for each
  other's lock.
* Processes: each listens where its configuration or its environment says, and
  nowhere else; a connection is served by one of them; the application ends when
  its executable is replaced.

## Modules

| Module | Models | State and actions in the code |
|---|---|---|
| `RequestQueue` | creation, queueing and deletion of a request, as action fragments | `life`, `parent`, `responder` are the `Request` object, its `QObject::parent()` and the responder object; `unhandledRequests`, `queueRunner` are the members of that name; `AddRequest`, `Respond`, `Dequeue`, `SpawnResponder`, `AfterSlot` are the bodies of `addRequest`, `respond`, `flushQueue`, `run` |
| `RequestService` | what any responder promises: absent, accepted, responding, answered or refused | abstract; both responders are shown to implement it |
| `BlockingResponder` | one thread: `stack` holds the calls of `flushQueue` in progress, newest first, each with the request whose slot it is in | a nested event loop is the possibility to take any event-loop action while a slot has control |
| `ThreadedResponder` | the main thread's program counter `mainPc` through `flushQueue`, `ThreadPool::start`, `enqueue` and `~ThreadPool`; per worker its queue, mutex, posted calls and a stack of `flushQueue` calls | one step per lock, test, take, post, call and return |
| `FastCgiConnection` | web server, socket, `FastCgiSocketManager`, `FastCgiStream`s, `SocketFlusher`s; the responder only as the moment at which the slot runs (`mode`) | one step per record of `processSocketData`; `main.stack` holds the calls that are in progress in the main thread, `main.events` what other threads have queued for it; `nth` of a piece says which record of its request it is, which the code need not know and the proofs do |
| `HttpConnection` | browser, socket, `HttpRequest`, the `Request` on top with its headers, cookies and URL, `SocketFlusher` | one step per line of `readSocketData`, per write of the slot, per event |
| `ServiceDispatch` | `PrefixMapper`, `Service` and `XsltService`; it extends `BlockingResponder`, each of whose actions it strengthens with what the service does in it | `prefix`, `suffix` are the properties kept on the request; `service` is `Service::Private`; `document` is `XsltService::d`; the URL maps are those of `ServiceExample` and `XsltExample` |
| `FastCgiRecords` | the record classes, the blob of SCGI and the environment of CGI | pure operators over small integers; `Word`, `Byte` stand for 2^16 and 2^8 |
| `UrlEncodedReader` | `UrlEncodedPostDataStreamReader` | one action per token of `readNext`; `reader` is the object, `source` its device |
| `MimeReader` | `MimeMultipartStreamReader`, `MimePartIODevice`, `Base64Decoder` | one action per token, and per `readData` |
| `FormUpload` | composes the last three with the way of a form through each transport, a slot, and the response | `request` has what arrived and what was read, `client` what is still to come; `RunSlot`, `LoadPostVariables`, `CallReadNext`, `WriteResponse` are what a slot does |
| `FileDependentCache` | `FileCache`, `RequestCache`, both backends, `QFileSystemWatcher` | a call is the sequence of steps `thread[t].steps`, one per lock, lookup, change and registration |
| `Processes` | `Manager`, the four interfaces, `SocketServer`, accepting, shutdown, `Database`; several processes | `process[p]` is the `Manager` with its interface; `TryFactory`, `StartZeroConf`, `StartConfigured` are the branches of its constructor; `Activated`, `LockSocket`, `AcceptConnection` the slot of the notifier |
| `SequenceLemmas` | lemmas: queues and stacks index by index, induction over naturals and sequences | |
| `..._proofs` | the theorems about `ThreadedResponder`, `ServiceDispatch` with `BlockingResponder`, `FastCgiConnection`, `HttpConnection`, `FormUpload`, `FileDependentCache` and `Processes` | |
| `MC...` | the instances for TLC | |

What the slot of an application does is nondeterministic: it may run an event
loop at any time (as `loadPostVariables` does), return, or take over the request
with `setParent` and finish it later, as `PostStreamExample` does.

`Processes`, `FormUpload` and the connection modules meet at `newRequest`: what a
connection is inside, from its first byte to the deletion of its socket, is
`FastCgiConnection` and `HttpConnection`; what is transported in it is `FormUpload`;
in `Processes` it is a step that reads it, and one that answers it. In the same way
`FastCgiConnection` reduces a responder to the moment at which the slot runs, and
`ThreadedResponder` a request to the thread it is in.

Definitions called `X_Something` next to a definition `X` are not part of the
model: each is `X` with a plausible mistake, kept to show that a property
notices it.

## Runs

| Run | Module, cfg | Question | Distinct states |
|---|---|---|---|
| `threaded` | `MCThreadedResponder`, ThreadedResponder.cfg | 4 requests, 2 threads: wakeups, ownership, mutex, order, shutdown, refinement of `RequestService`, liveness | 118 637 |
| `services` | `MCServiceDispatch`, ServiceDispatch.cfg | 3 requests for five paths under two mappings, services spawned per request: ownership, refinement of `RequestService` by `BlockingResponder`, division of the path, choice of the method, output, liveness | 52 230 |
| `http` | `MCHttpConnection`, HttpConnection.cfg | one request cut anywhere, with direct and blocking responders | 183 564 |
| `fcgi` | `MCFastCgiConnection`, FastCgiConnection.cfg | one request with two records of input, payloads apart from headers, in all three modes | 46 294 |
| `fcgi_multiplex` | `MCFastCgiConnection`, FastCgi_multiplex.cfg | two overlapping requests on one connection, ids reused | 1 226 142 |
| `forms` | `MCFormUpload`, FormUpload.cfg | three forms over four transports in every cut, and the response; MIME documents of one or two parts; base64 texts | 90 340 |
| `caches` | `MCFileDependentCache`, FileDependentCache.cfg | two workers and the file watcher over both backends, one file that changes twice and two entries that depend on it, two calls | 122 938 |
| `processes` | `MCProcesses`, Processes.cfg | two processes and two connections, for every order of plugins, build, environment and configuration listed there | 113 347 |
| `fcgi_shared` | FastCgi_shared.cfg | violated: see below | |
| `fcgi_late` | FastCgi_late.cfg | violated | |
| `fcgi_reread` | FastCgi_reread.cfg | violated | |
| `processes_shutdown` | `MCProcesses`, Processes_shutdown.cfg | violated | |

The four violated runs each show a disagreement between the code and what it
says of itself:

* `fcgi_shared`: two requests may overlap on one socket (`FastCgiSocketManager.h:37`),
  but the end of the first gives the socket to a flusher that deletes it
  (`FastCgiStream.cpp:68`).
* `fcgi_late`: input for a request that has been dealt with is said to be ignored
  (`FastCgiSocketManager.cpp:136`), but between the deletion of a stream in a
  worker and the queued `cleanupStream` it is appended to the deleted stream.
* `fcgi_reread`: a second read of a stream starts at the beginning of its buffer
  again (`FastCgiStream.cpp:74`), so a form that arrives in two parts is not what
  was sent.
* `processes_shutdown`: when the executable is modified the application is to shut
  down (`Manager_Private.h:47`, `:55`), but `shutdown()` only deletes the interface
  (`Manager_Private.cpp:198`): the process stays, with nothing to listen on.

### Seen while modelling, without a run

Where a property holds only under a condition, the condition is one of these.

Dispatch and services. With a slot that runs inside `newRequest()` and an event
loop inside that, an outer `processRecordData` forgets the header that a nested one
has read, and no `readyRead()` is emitted within the one being served
(`RecordHeaderIsCurrent`, `WaitingIsFed` are about the responders, not about this).
A prespawned service that gets a request while a method of it waits in an event
loop, or has adopted another request, calls `qFatal` (`Service.cpp:108`); `services`
has a service for each request. An `XsltService` without a stylesheet writes only a
line end: its buffer is read from where writing has ended (`XsltService_Private.cpp:96`),
so that what the method wrote is dropped. `OutputWritten` says just that; the code evidently means
to write it.

FastCGI. `FCGI_KEEP_CONN` has no effect, the flusher closes the connection
anyway. Four disagreements appear with more than one request on a connection; each is the
hypothesis of a theorem below, and TLC violates the property without it. With a
`ThreadedResponder`, kept or shared connection: `cleanupStream` of a request is queued for the
main thread and may come when the next one has its id, whose parameters it then clears and
whose stream it forgets (`FastCgiSocketManager.cpp:179`; `RoutedToOwner`); and the
socket cannot follow the second stream to its thread, since `setParent` refuses, against
the assertion of `FastCgiStream.cpp:87` (`SocketInSlotThread`). With a
`BlockingResponder`: on a shared connection that is not kept, the first request to end takes
the manager with it, and the slot that waits for POST data waits for input nobody reads
(`WaitingIsFed`); on a kept or a shared one, the flusher deletes the socket under the
manager or the other request (`Defined`). A role other than
responder, or `FCGI_ABORT_REQUEST`, ends the process. A name-value pair that is
split over two records is misread (`RecordsAsSent` asks for whole pairs), and a record whose
payload length does not fit in a `quint16` misframes what follows it (`broken`).

HTTP. Header names are compared with their case: after `content-type` a second
header `CONTENT-TYPE` may follow; two `STATUS` headers come out reversed; a second
`Cookie` line replaces the first; a '?' with nothing behind it is missing from `url()`.

Forms. A name that is cut at the end of a chunk is taken for a name without a value, and the
form for over; so fields are as sent if the cuts are behind a '&' (`FieldsAsSent`).
`PostStreamExample` never reads anything over SCGI and CGI, whose devices do not say
that there is more, nor emit `readyRead()` (`FormEnds`). Over FastCGI a slot that `readyRead()` calls runs with
`m_streamMutex` (`FastCgiSocketManager.cpp:130`): if the next record comes in while it waits for its
own output, as `PostStreamExample` does for each token, the thread waits for itself (`Locked`; the state is
broken then). SCGI asserts that the netstring comes in
one piece. A MIME reader that is given its boundary expects an empty line first,
takes the first part for the preamble if there is none, and fails for a part
without headers (`PartsAsSent`). A `Base64Decoder` gives some bytes twice for texts
whose length is not a multiple of three, and asserts if it is read in pieces that are
not one.

Caches. `RequestCache` registers a response before it stores it: a change of the file in
between withdraws the registration, and the response then stays through later
changes (`missed` in `StaleIsRemoved`). The constructors of a `CacheEntry` assign members to themselves
(`CacheEntryPrivate.cpp:30`), so what they make is invalid and empty;
`MemcachedCache::value` returns only such entries. `RamCache::value` changes the order
of uses in a `QCache` under a read lock, and `MemcachedCache::value` calls `memcached_get` on
the one connection of all threads under one; either may break it (`broken`). `MemcachedCache::remove` of what is not there is
fatal, and `FileCache::remove` removes twice. An entry that became stale before its
cache watched the file stays, too. The callers in `Service` are
commented out in the source.

Processes. The sockets of children are all told of a connection; with `flock()`,
which excludes nobody who has inherited the descriptor, or `fcntl()`, those that come late wait in
`accept()` or for the lock until the next connection, and what they have accepted before waits too
(`IsStalled`); with a nonblocking socket they get no socket and crash. Port 65536
becomes 0. A CGI process whose standard input is a socket is taken for FastCGI
if that plugin comes first. After `shutdown()` FastCGI and SCGI requests that have
not been announced are lost, and the message handler restored by `~DebugHandler` was
never initialised.

### Bounds

* Responders: two workers and four requests (`MaxRequests`, `ThreadCount`) put two
  requests at each worker, so that one can nest in, overtake or queue behind the
  other at both. Queues, stacks and posted calls need no bound of their own: the
  number of requests limits them.
* FastCGI: `BodyRecords` = 2 is the least with input before, during and after a wait.
  Two requests on a connection are the least that overlap, and an id may be used
  again after the end of the first. The records are a header and a payload that
  arrive separately: finer cuts only repeat "not enough yet".
* HTTP: a body of three pieces with a line end in the middle is the least whose
  parsing as header lines would show; `MaxHeaders`, `MaxWrites` allow a header that is
  set twice and a write behind the one that sends the headers.
* Services: five paths cover a known and an unknown first segment, with nothing,
  something, an empty segment and an encoded '/' behind it; two mappings, with and without a default
  service; three requests nest, queue and adopt.
* Forms: `Byte` = 4 makes `Word` = 16, so that names need lengths of four bytes at two
  characters, and records wrap at 16; the paddings and `WriteSizes` lie on both sides
  of these. The forms have a field without a value and names of two characters, so
  that every state of the reader meets every kind of cut. `BufferSize` = 4 is one more
  than the boundary pattern, so that the pattern is met at every position of a
  buffer and over the end of one. Three groups of base64 are the least with one in
  the middle.
* Caches: two keys of each cache and one file are the least with which an entry can be
  removed for another's sake; `MaxSize` = 4 holds one entry of the first versions and none of the
  last; two changes are the least of which one can withdraw what the other needs;
  `MaxCalls` = 2 puts one call beside or behind another, the watcher's calls come on top.
* Processes: two processes are the least that share, `Word` = 2 puts ports 1, 2 and 3
  below, at and above the width; two connections let one wait while the other is
  served. Each of `MCHosts` differs from the usual one in what it is about.

### Fairness

* Responders: weak fairness of the event loops and threads (Qt's event loop takes
  what is due, the operating system runs the threads) and of the return of slots.
  A slot that never returns keeps its thread for ever in the code too; this is
  an assumption about applications. None for the arrival of requests, adoption
  and shutdown, which need not happen.
* FastCGI: weak fairness of the main thread, each request and the transport. The
  web server need not send anything: a wait for POST data ends by its limit of
  five minutes (`Request_Private.cpp:88`). A peer that stops reading is excluded by
  the fairness of the network's step; then the code keeps the socket for ever.
* HTTP: the browser sends its request and reads the answer or disconnects.
* Forms: weak fairness of what a slot does. The sender need not send.
* Caches: weak fairness of each thread's next step, and of the delivery of
  `fileChanged()`. Locks go to writers before new readers, as in `QReadWriteLock`.
* Processes: weak fairness of the choice of an interface and of accepting; strong
  fairness of announcing, answering and shutting down, because the event loop gets round to
  each of them although calls of `accept()` interrupt it. None for connecting, starting processes, the
  database and a modified executable.

## Proofs

Each theorem holds for every value of the constants that the named assumptions of its
module allow: any number of requests, threads, processes, keys, files, ids, records, header
lines or form fields. An
invariant of the runs is seldom inductive. Each `..._proofs` module begins with the
strengthening `IInv` as a conjunction of named parts, whose conjuncts TLC was run on first;
then come one lemma per action, and the theorems `Spec => []...` at the end.

| Module | Theorems | Under |
|---|---|---|
| `ThreadedResponder_proofs` | `TypeCorrect`, `MutexCorrect`, `WakeupCorrect`, `PlacementCorrect`, `OwnThreadCorrect`, `OrderCorrect`, `FinishedCorrect`, `ServiceImplemented` | `QueueAssumption`, `ThreadAssumption` |
| `ServiceDispatch_proofs`, `BlockingResponder` | `TypeCorrect`, `OwnershipCorrect`, `ServiceImplemented` | `QueueAssumption` |
| `ServiceDispatch_proofs`, `ServiceDispatch` | `DispatchIsResponder`, `DispatchTypeCorrect`, `SuffixCorrect`, `AnsweredCorrect`, `OutputCorrect`, `DispatchOwnershipCorrect`, `DispatchServiceImplemented` | `DispatchAssumption`, `EmptySegment`; `~Persist` for `Answered` and `OutputWritten`, `MapsFit` for `Answered` |
| `FastCgiConnection_proofs` | `TypeCorrect`, `RecordHeaderCorrect`, `RoutedCorrect`, `ThreadCorrect`, `WaitingCorrect`, `DefinedCorrect`, `SocketCorrect`, `LateInputCorrect` | `ConnectionAssumption`, and the condition in the theorem |
| `HttpConnection_proofs` | `HttpTypeCorrect`, `BodyCorrect`, `ResponseCorrect`, `DeliveredCorrect` | `HttpAssumption` |
| `FormUpload_proofs` | `FormTypeCorrect`, `FieldsCorrect`, `RecordsCorrect` | `FormAssumption`, `ByteAssumption`, `CharactersAssumption`, `BufferAssumption` |
| `FileDependentCache_proofs` | `CacheTypeCorrect`, `StaleCorrect` | `SizeAssumption`, `ThreadAssumption` |
| `Processes_proofs` | `TypeCorrect`, `ListensCorrect` | `WordAssumption`, `NoneAssumption`, `HostsAssumption`, `ConfigurationsAssumption` |

**ThreadedResponder.** `TypeOK` needs `Taken`: the request that `ThreadPool::start` works on is
a request from the moment it was dequeued. `MutexHolder` goes by what an action does to a
worker's stack of calls (`StackEffect`: nothing, push, replace, pop). `NoLostWakeup` has a
part per queue, and `InTurn`, which ties the cursor of the round robin to the worker whose
flush is still to be posted. `Placement`, which a run checks, says where a request is at
each moment, and with the types, the mutex and the order of joining it is inductive; from it
follow that no thread reaches a request of another (`OwnThread`), that the requests of a
worker start in order of arrival and that none that has begun is left behind. The same invariant
shows every step to be one of `RequestService`, or a stutter.

**BlockingResponder.** A request is in the queue once, or in one slot, or with a new parent, and
not deleted; all calls of `flushQueue` but the newest wait in a slot (`Suspended`), so that only the
newest can return. That also gives the refinement of `RequestService`.

**ServiceDispatch.** Every execution is one of `BlockingResponder` (`DispatchIsResponder`): its
actions are those of that module, strengthened. So ownership and the refinement hold for
it without being proved again. For the rest, `RequestInv(r)` ties prefix and suffix, the method
called, the answer and the output of a request to one another and to its phase. With one
prespawned service (`Persist`), `Answered` is false, see above, and the document of a request that an
`XsltService` adopts is never closed (`OutputWritten`). `SuffixCorrect` is about one mapper: the path without the
segment that selected the service, or all of it for the default service and where nothing is left. `MapsFit` says that the slots in a URL
map have as many parameters as their expressions capture, and fewer than ten:
`Service.cpp:194` and `:203` assert it of the application; TLC evaluates it for the maps of the
examples (`MCMapsFit`).

**FastCgiConnection.** What makes the records of a request reach it is not in the manager but
in what is still on its way: `Rest`, the bytes in the socket's buffer and on the wire. It is cut
properly (`PairedOK`), in the order of requests and records (`OrderedOK`), and nothing
has been overtaken (`NotOvertaken`): as long as a record of a request is left, so is
whatever the web server sent after it. From that follow what `m_requestHeaders`, `m_streams`
and a stream's buffer hold (`HeadersOK`, `StreamsOK`, `BodyOK`), and that `m_recordHeader` is
set just when payload comes first (`HeaderOK`). The socket's thread, the calls in progress and
the manager's end have a part each. The conditions:
* `RoutedCorrect`, `ThreadCorrect`: if requests go to threads, a connection has one request. Without
  threads they hold for kept and shared connections too. `WaitingCorrect`: the connection is kept
  or not shared. The properties are violated otherwise, see above.
* `DefinedCorrect`: neither kept nor shared, as in the run. The web server may still send
  standard input when the request has been deleted, and the socket is deleted with the
  manager or after it. `BlockingOK` is the additional invariant.
* `SocketCorrect`, `LateInputCorrect`: the parts that hold of what `fcgi_shared` and
  `fcgi_late` violate. A connection of one request keeps its socket, in every mode; and
  without threads no input goes to a deleted stream, on a kept connection, or on one of
  one request behind a `BlockingResponder`.

A web server asks for a connection of its own unless it is configured to keep or share one, so
none of these conditions is empty.

**HttpConnection.** None of the four invariants is inductive alone, and they need each other, so
that there is one `IInv` for all:
* `Stages`: who has control, and which of the objects exist, in each state of the request. The
  `Request` comes with the end of the headers, so nothing reads the body before, and
  `readSocketData` nothing after.
* `Endings`: an `HttpRequest` is deleted just when there is a flusher, the socket just when the
  flusher has gone, and a flusher goes only with nothing left to send. `DeliveredBeforeClose`
  is a part of it; it needs the types, and `Stages` for nothing being written after the deletion.
* `Framing`: what is in the buffer, on the wire or still in the browser is the text of the request
  behind k header lines (`IsRest`), and the variables are those of the request line and of
  these k (`AreRead`), for some k; once the body has begun, what the slot has read and
  what is left are the body together. It says nothing of where the text was cut, which is why it
  holds for every cut, one in the middle of a line included. `BodyIntact` follows.
* `Written`: what the browser has and the socket still holds is a function of the headers of the
  `Request` and of the number of writes (`IsAnswer`); before the first write nothing has been
  sent, and there is one status. After a static file there is that file and nothing else.
  `ResponseAsWritten` follows.

The assumption: the responses that a `Request` is created with have one status, as its constructor
makes them (`HttpAssumption`); the rest gives the types of the request line, header lines and body.
The lines that concern a variable are a filter of a sequence (`Only`), which is written as a
recursive function: of one element more it is what it should be (`OnlyAppend`), and no induction
over the headers is needed beyond that.

**FormUpload.** The text of a form is a sequence of sequences, one behind the other, and so are a document
and the parameters; `FlattenLayout` says where each of them lies in it. `Types` is the type invariant, with
the sum of what is at the client and what has arrived, which an assertion that fails ends. `FieldsAsSent` needs
`Fields`, of three parts:
* `BytesOK`: what has arrived, and what a slot has read, are beginnings of the form, and if it was only cut
  behind a '&' they end where a field does (`FieldEnd`).
* `SlotOK`: what `rawValues()` has, and that `readNext()` is called for new data only while the reader
  is at rest (`Paused`), or the thread has begun to wait for itself (`Locked`).
* `FieldsOK`: a stream reader at rest has consumed all of its source; otherwise it is behind the k fields it has
  given and their '&', or behind the name of the next one, with the '=' of that in its buffer. Behind field
  k the first '=' ends a name (`NextName`), and behind that '=' the first '&' ends a value
  (`NextValue`), because names hold neither and values no '&'; an empty source is the end of the form just
  when k is the number of fields.

For FastCGI a device has to be read from its beginning, so a second read that gives anything ends the claim
(`OnceRead`), see `fcgi_reread`. `FormAssumption` says what a browser and a web server send: names without '='
and '&', values without '&', and nothing of the rest that an encoder would have escaped.

`RecordsAsSent` needs `Records`, of three parts: an FCGI client that never cut a pair has what follows the
first k pairs still to send, and the request has these k (`PairsOK`); only a responder's request gets
behind its BEGIN_REQUEST, with the flag that was sent (`RoleOK`); and before the end of a
request nothing has been written, after it the records of what the slot wrote and their end (`AnswerOK`). The
rest is about what the loops over bytes compute, for any bytes:
* `ParametersRead`: the constructor of a `ParametersRecord` is behind pair k after k turns of its loop, whether a
  length takes one byte or four (`LengthRead`, `PairRead`), and `ChunkRead` is that between two ends of pairs;
* `BlobRead`, `EnvironmentRead`: where no piece holds the separator, `split` gives the pieces back
  (`JoinedPieces`, from `SplitShape` and `SplitOrder`); a CGI value is put together again from those it was split at;
* `ResponseWhole`: the pieces of `writeData` are one behind the other, none is empty or too long for the two
  bytes of `contentLength` (`WrittenPieces`), so that a web server reads each whole and stops at the END_REQUEST.

**FileDependentCache.** `CacheTypeOK` contains sums over the store and a list without
duplicates; it needs what a thread's remaining steps say of the locks it holds (`Locked`, from the
shape of the step sequences, `Paired`). `StaleIsRemoved` needs that a fragment whose file is not
watched is about to be removed (`Withdrawn`) and that what is stale is still a fragment of its
file (`StaleDepends`).

**Processes.** `Undecided` and `Decided` say what a process has tried, keeps and runs with; `PortOK`
where it listens. The assumptions: an interface is linked once, since `Q_IMPORT_PLUGIN` twice for one
plugin does not link; ports are read with `toUInt()` and kept in unsigned integers, so they are naturals; `None` is none of the values it stands beside.

**Induction.** The installed provers cannot use the induction theorems of the library,
whose parameter is an operator. `SequenceLemmas` states them with a set instead
(`SetInduction`, `BoundedInduction`, `AppendInduction`): enough for facts about recursive
functions over `0..n`, such as the cost of a store and the elements that a filter leaves.

**Only model-checked.** All liveness (`EveryRequestAnswered`, `AllAnswered`,
`EndDelivered`, `ClosesConnection`, `ResponseEnds`, `FormEnds`, `CallsReturn` and those of
`Processes`), which is out of the prover's reach. `PartsAsSent` of `FormUpload`: that a document is taken apart as
it was put together depends on where the patterns of the boundary lie in it, for each token of the reader
and each state of its buffer, and a `Base64Decoder`'s groups on how its reads fall; `forms` checks both for its
inputs. Of the properties that runs violate, `PostDataAsSent` and `ModifiedEnds` have no theorem.

## Not modelled

* The buffers inside `QAbstractSocket`: they are sequences that one step changes; the
  race between the main thread that reads a socket and the worker it lives in is
  not modelled.
* Percent-decoding and codecs of GET and POST values, the text of pages and of log
  messages, the dialogues of the configuration (what is answered is an input), memory.
* The request cache inside `Service`: it is commented out in the source.
  `FileDependentCache` has the calls that it would make.
* Queries of a database and its driver; a memcached server but for what it stores
  and drops.
* `EnumHelpers`, `memcpy_safe`, `ScopedCaller` and the plugin macros: they keep no state.
* Over FastCGI, a slot that deletes its request inside `readyRead()`: `cleanupStream` would wait for
  `m_streamMutex` for ever. `PostStreamExample`, which `FormUpload` has, leaves that to the event loop.
* A `PrefixMapper` behind a `PrefixMapper`.
* The CR of a line end in a multipart document: with CRLF it stays at the end of a part's content, since
  the pattern of the boundary begins with the LF (`MimePartIODevice_Private.cpp:23`).
* Examples that write a page from a slot and do nothing else.

## Plan

1. Done: dispatch, both responders, connections, services, records and forms,
   caches, processes.
2. Done: proofs of the responders with their refinement, of services, of a FastCGI
   connection, of the caches, and of the choice of an interface.
3. Done: proofs of an HTTP connection, for any cut of the request and any headers.
4. Done: proofs of the way of a form: its types, its fields for every form and every cut, and the parameters
   and the response over each transport.
5. The parts of a document and the groups of a base64 text, for all of them (`PartsAsSent`).
