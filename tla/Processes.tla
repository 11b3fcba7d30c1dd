----------------------------- MODULE Processes -----------------------------
(***************************************************************************)
(* The processes of one application: how each Manager finds the interface  *)
(* that its settings or its environment ask for, how the interfaces accept *)
(* connections - FastCGI processes from a socket that they share - and     *)
(* what is left of them when the executable is modified.                   *)
(*                                                                         *)
(* What is inside a connection is a step: to be read whole and announced,  *)
(* and to be answered; FastCgiConnection, HttpConnection and FormUpload    *)
(* have the detail.                                                        *)
(***************************************************************************)
EXTENDS Naturals, Sequences, FiniteSets

CONSTANTS Procs, Conns, None,
          Hosts,           \* orders of the static plugins, builds of the library, what
                           \* processes are started with, and what a program configures
          Configurations,  \* backends and ports, as a person answers
          Databases,       \* drivers and names of databases, as a person answers
          Word             \* 2^16

ASSUME WordAssumption == Word \in Nat \ {0}

Factories == {"FastCgiInterface", "ScgiInterface", "CgiInterface", "HttpInterface"}
Types == {"FCGI-UNIX", "FCGI-TCP", "SCGI-TCP", "CGI", "HTTP"}

ASSUME NoneAssumption == None \notin Factories \union Types \union {"unknown"}

\* Q_IMPORT_PLUGIN links an interface once; a port is written to the settings as a number.
ASSUME HostsAssumption ==
  \A h \in Hosts :
    /\ h.order \in Seq(Factories)
    /\ \A i, j \in DOMAIN h.order : h.order[i] = h.order[j] => i = j
    /\ h.program # None => h.program.type \in Types \union {"unknown"} /\ h.program.port \in Nat
ASSUME ConfigurationsAssumption == \A answer \in Configurations : answer.port \in Nat

VARIABLES
  host,     \* the order, build, environment, the settings file, and the
            \* configuration in the program
  process,  \* how far each has come, its interfaces, where it listens
  conn      \* connections: where they are in the process that has them

vars == <<host, process, conn>>

\* Where a connection waits: the socket inherited from the web server, a TCP port, the
\* port the system chose for p, the standard input of p.
Addresses == {<<"unix", 0>>} \union ({"tcp"} \X (0..Word-1)) \union ({"auto", "stdin"} \X Procs)
Nowhere == <<>>

\* The database of a thread, here of the only one: the DatabaseGuard in its local storage, and
\* the connection that QtSql knows by its name, with the settings it was made from.
NoDatabase == [guard |-> FALSE, state |-> "none", settings |-> None]

New == [phase |-> "none", next |-> 1, candidate |-> None, interface |-> None, live |-> {},
        backend |-> None, address |-> Nowhere, accept |-> "idle", modified |-> FALSE,
        handler |-> "default", database |-> NoDatabase]
NoConn == [phase |-> "none", address |-> Nowhere, process |-> None]

ProcessTypeOK ==
  /\ host.settings.type \in Types \union {None, "unknown"} /\ host.settings.port \in Nat
  /\ \A p \in Procs :
       /\ process[p].phase \in {"none", "choosing", "running", "ended", "aborted"}
       /\ process[p].live \subseteq Factories
       /\ process[p].live \subseteq {process[p].candidate, process[p].interface}
       /\ process[p].address = Nowhere \/ process[p].address \in Addresses
       /\ process[p].accept \in {"idle", "locking", "accepting"}
       /\ process[p].handler \in {"default", "syslog", "undefined"}
       /\ process[p].database.state \in {"none", "open", "closed", "gone"}
       \* asserted by haveConnection()
       /\ process[p].database.guard <=> process[p].database.state # "none"
       /\ process[p].database.guard => process[p].database.settings = host.settings.database
  /\ \A c \in Conns :
       /\ conn[c].phase \in {"none", "pending", "accepted", "announced", "done", "closed", "lost"}
       /\ conn[c].phase \in {"accepted", "announced", "done", "lost"} => conn[c].process \in Procs

Init ==
  /\ \E h \in Hosts :
       host = [order |-> h.order, build |-> h.build, environment |-> h.environment, program |-> h.program,
               settings |-> [type |-> None, port |-> 0, database |-> None]]
  /\ process = [p \in Procs |-> New]
  /\ conn = [c \in Conns |-> NoConn]

-----------------------------------------------------------------------------
(* The interfaces: their backends, what they need, and how each starts. *)

SupportedSocketTypes == IF host.build.unix THEN {"UnixSocket", "TcpSocket"} ELSE {"TcpSocket"}
FcgiBackends == {IF type = "UnixSocket" THEN "FCGI-UNIX" ELSE "FCGI-TCP" : type \in SupportedSocketTypes}

Backends(factory) ==
  CASE factory = "FastCgiInterface" -> FcgiBackends
    [] factory = "ScgiInterface" -> {"SCGI-TCP"}
    [] factory = "CgiInterface" -> {"CGI"}
    [] factory = "HttpInterface" -> {"HTTP"}

RequiresConfiguration(factory) == factory # "HttpInterface"

\* getpeername() of descriptor 0 says of a connected socket, too, that it is active.
ActiveSocketTypes ==
  IF host.build.unix /\ host.environment.stdin \in {"listening", "connected"} THEN {"UnixSocket"} ELSE {}

FcgiDetected == IF "UnixSocket" \in ActiveSocketTypes THEN {"FCGI-UNIX"} ELSE {}
CgiDetected == IF host.environment.cgi THEN {"CGI"} ELSE {}
DetectedBackends(factory) ==
  CASE factory = "FastCgiInterface" -> FcgiDetected
    [] factory = "CgiInterface" -> CgiDetected
    [] OTHER -> {}

\* What a person may answer to --configure-httpd.
AsksPort(type) == type \in {"FCGI-TCP", "SCGI-TCP", "HTTP"}
FcgiAccepts(type, port) == type = "FCGI-UNIX" \/ (type = "FCGI-TCP" /\ port # 0)
ScgiAccepts(type, port) == type = "SCGI-TCP" /\ port # 0
HttpAccepts(type, port) == type = "HTTP" /\ port # 0
CgiAccepts(type) == type = "CGI"

\* A quint16 of the settings; and a variant for mutation.
LoadedPort_Wide == host.settings.port
LoadedPort == host.settings.port % Word

\* The outcomes of start(): after false the manager calls exit(1).
Listening(address) == [phase |-> "running", address |-> address]
Failed == [phase |-> "ended", address |-> Nowhere]
Fatal == [phase |-> "aborted", address |-> Nowhere]

Bound(port, otherwise) ==
  IF \A p \in Procs : process[p].address # <<"tcp", port>> THEN Listening(<<"tcp", port>>) ELSE otherwise

\* SocketServer::listen(), for each of its types.
ListenUnix(p) ==
  CASE ActiveSocketTypes = {} -> Failed
    [] host.environment.stdin = "listening" -> Listening(<<"unix", 0>>)
    [] OTHER -> Listening(<<"stdin", p>>)
ListenTcp(port) == IF port = 0 THEN Failed ELSE Bound(port, Failed)

StartFcgi(p, backend) == IF backend = "FCGI-UNIX" THEN ListenUnix(p) ELSE ListenTcp(LoadedPort)
StartScgi == IF LoadedPort = 0 THEN Failed ELSE Bound(LoadedPort, Fatal)
StartHttp(p) == IF LoadedPort = 0 THEN Listening(<<"auto", p>>) ELSE Bound(LoadedPort, Fatal)
StartCgi(p) == Listening(<<"stdin", p>>)

Started(p, factory, backend) ==
  CASE factory = "FastCgiInterface" -> StartFcgi(p, backend)
    [] factory = "ScgiInterface" -> StartScgi
    [] factory = "HttpInterface" -> StartHttp(p)
    [] factory = "CgiInterface" -> StartCgi(p)

Handler(backend) == IF backend = "FCGI-UNIX" /\ host.build.syslog THEN "syslog" ELSE "default"

-----------------------------------------------------------------------------
(* Manager: the settings, and the choice of an interface. *)

Accepts(type, port) ==
  FcgiAccepts(type, port) \/ ScgiAccepts(type, port) \/ HttpAccepts(type, port) \/ CgiAccepts(type)
IsKnown(type) == \E factory \in Factories : type \in Backends(factory)

\* --configure-httpd.  Nothing of an answer that is refused has been written.  An
\* application that brings its own configuration would write over it.
ConfigureHttpd(type, port) ==
  /\ host.program = None /\ host.settings.type = None /\ \A p \in Procs : process[p].phase = "none"
  /\ IsKnown(type) /\ Accepts(type, port)
  /\ host' = [host EXCEPT !.settings.type = type, !.settings.port = IF AsksPort(type) THEN port ELSE @]
  /\ UNCHANGED <<process, conn>>

\* --configure-database; here only for an application that has one.
DatabaseSettings(answer) == [answer EXCEPT !.driver = IF @ = "" THEN "QMYSQL" ELSE @]
ConfigureDatabase(answer) ==
  /\ host.build.sql /\ host.settings.database = None /\ \A p \in Procs : process[p].phase = "none"
  /\ host' = [host EXCEPT !.settings.database = DatabaseSettings(answer)]
  /\ UNCHANGED <<process, conn>>

\* --configure asks for both; the process that asks is gone then.
Configure ==
  \/ \E answer \in Configurations : ConfigureHttpd(answer.type, answer.port)
  \/ \E answer \in Databases : ConfigureDatabase(answer)

\* The constructors of Manager; the second writes its configuration without a look.
SettingsOf(program) ==
  IF program = None THEN host.settings
  ELSE [host.settings EXCEPT !.type = program.type, !.port = program.port]

\* A web server that starts a CGI program has a request for it.
Spawn(p) ==
  /\ process[p].phase = "none"
  /\ process' = [process EXCEPT ![p].phase = "choosing"]
  /\ host' = [host EXCEPT !.settings = SettingsOf(host.program)]
  /\ IF host.environment.cgi
     THEN \E c \in Conns : /\ conn[c].phase = "none"
                           /\ conn' = [conn EXCEPT ![c] = [phase |-> "pending", address |-> <<"stdin", p>>, process |-> None]]
     ELSE UNCHANGED conn

Stops(p, phase) ==
  process' = [process EXCEPT ![p] = [New EXCEPT !.phase = phase]]

\* start() of the interface that p has made up its mind for; live are those not deleted.
Start(p, factory, backend, live) ==
  LET started == Started(p, factory, backend) IN
  IF started.phase # "running" THEN Stops(p, started.phase)
  ELSE process' = [process EXCEPT ![p] = [@ EXCEPT
         !.phase = "running", !.interface = factory, !.backend = backend, !.candidate = None,
         !.live = live, !.address = started.address, !.handler = Handler(backend)]]

IsChoosing(p) == process[p].phase = "choosing"
Untried(p) == process[p].next <= Len(host.order)
TriedFactory(p) == host.order[process[p].next]

\* A backend that the environment asks for is taken at once, one that needs no
\* configuration is kept for later; and a variant for mutation.
TryFactory_Eager(p) ==
  LET factory == TriedFactory(p)
      created == process[p].live \union {factory}
      backends == IF RequiresConfiguration(factory) THEN DetectedBackends(factory) ELSE Backends(factory) IN
  /\ IsChoosing(p) /\ host.settings.type = None /\ Untried(p)
  /\ IF backends # {} THEN \E b \in backends : Start(p, factory, b, created \ {process[p].candidate})
     ELSE process' = [process EXCEPT ![p].next = @ + 1, ![p].live = created \ {factory}]
  /\ UNCHANGED <<host, conn>>

TryFactory(p) ==
  LET factory == TriedFactory(p)
      created == process[p].live \union {factory}
      detected == DetectedBackends(factory)
      kept == created \ {process[p].candidate} IN
  /\ IsChoosing(p) /\ host.settings.type = None /\ Untried(p)
  /\ CASE detected # {} -> \E backend \in detected : Start(p, factory, backend, kept)
       [] detected = {} /\ ~RequiresConfiguration(factory) ->
            process' = [process EXCEPT ![p].next = @ + 1, ![p].candidate = factory, ![p].live = kept]
       [] OTHER ->
            process' = [process EXCEPT ![p].next = @ + 1, ![p].live = created \ {factory}]
  /\ UNCHANGED <<host, conn>>

StartZeroConf(p) ==
  LET factory == process[p].candidate IN
  /\ IsChoosing(p) /\ host.settings.type = None /\ ~Untried(p)
  /\ IF factory = None THEN Stops(p, "ended")
     ELSE \E backend \in Backends(factory) : Start(p, factory, backend, process[p].live)
  /\ UNCHANGED <<host, conn>>

StartConfigured(p) ==
  LET type == host.settings.type
      having == {factory \in Factories : type \in Backends(factory)} IN
  /\ IsChoosing(p) /\ type # None
  /\ IF having = {} THEN Stops(p, "ended")
     ELSE \E factory \in having : Start(p, factory, type, {factory})
  /\ UNCHANGED <<host, conn>>

-----------------------------------------------------------------------------
(* Connections. *)

IsRunning(p) == process[p].phase = "running"
Waiting(address) == {c \in Conns : conn[c].phase = "pending" /\ conn[c].address = address}
Moved(c, phase, p) == [conn EXCEPT ![c].phase = phase, ![c].process = p]

\* The main thread is at its event loop.
IsAtLoop(p) == IsRunning(p) /\ process[p].accept = "idle"

\* External: the web server, or a browser, connects.
Connect(c) ==
  /\ conn[c].phase = "none"
  /\ \E p \in Procs :
       /\ IsRunning(p) /\ process[p].address # Nowhere /\ process[p].address[1] # "stdin"
       /\ conn' = [conn EXCEPT ![c] = [phase |-> "pending", address |-> process[p].address, process |-> None]]
  /\ UNCHANGED <<host, process>>

UsesNotifier(p) == process[p].interface = "FastCgiInterface" /\ host.build.unix
IsReadable(p) == process[p].address[1] = "stdin" \/ Waiting(process[p].address) # {}

\* acceptNewConnection() is called in every process that shares the socket.
Activated(p) ==
  /\ IsAtLoop(p) /\ UsesNotifier(p) /\ IsReadable(p)
  /\ process' = [process EXCEPT ![p].accept = "locking"]
  /\ UNCHANGED <<host, conn>>

\* flock() keeps nobody out who has the description from the same parent.
LockSocket(p) ==
  /\ process[p].accept = "locking"
  /\ host.build.lock = "fcntl" =>
       ~\E q \in Procs : process[q].accept = "accepting" /\ process[q].address = process[p].address
  /\ process' = [process EXCEPT ![p].accept = "accepting"]
  /\ UNCHANGED <<host, conn>>

\* accept() and releaseSocket().  Without a connection, a blocking socket holds the process
\* there; another gives the FastCgiSocketManager no socket, which it does not survive; and
\* one that does not listen at all gives it an unusable one.
Released(p) == [process EXCEPT ![p].accept = "idle"]
AcceptConnection(p) ==
  LET address == process[p].address IN
  /\ process[p].accept = "accepting"
  /\ \/ /\ address[1] # "stdin" /\ \E c \in Waiting(address) : conn' = Moved(c, "accepted", p)
        /\ process' = Released(p)
     \/ /\ address[1] = "unix" /\ Waiting(address) = {} /\ ~host.build.blocking
        /\ Stops(p, "aborted") /\ UNCHANGED conn
     \/ /\ address[1] = "stdin"
        /\ process' = Released(p) /\ UNCHANGED conn
  /\ UNCHANGED host

\* Where QTcpServer listens it has the connection ready.
AcceptQt(p, factory) ==
  /\ IsAtLoop(p) /\ process[p].interface = factory
  /\ \E c \in Waiting(process[p].address) : conn' = Moved(c, "accepted", p)
  /\ UNCHANGED <<host, process>>
SpawnRequest(p) == AcceptQt(p, "ScgiInterface")
StartResponse(p) == AcceptQt(p, "HttpInterface")
AcceptNewConnection(p) == ~host.build.unix /\ AcceptQt(p, "FastCgiInterface")

\* init() of the CGI interface.
CgiInit(p) ==
  /\ IsAtLoop(p) /\ process[p].backend = "CGI"
  /\ \E c \in Waiting(process[p].address) : conn' = Moved(c, "announced", p)
  /\ UNCHANGED <<host, process>>

\* A request has been read: newRequest(), if there is still somebody to hear it.
Announce(c) ==
  LET p == conn[c].process IN
  /\ conn[c].phase = "accepted" /\ IsAtLoop(p)
  /\ conn' = Moved(c, IF process[p].interface = None THEN "lost" ELSE "announced", p)
  /\ UNCHANGED <<host, process>>

\* and variants for mutation.
IsFinished_Always(p) == TRUE
IsFinished(p) == process[p].interface = "CgiInterface" \/ (UsesNotifier(p) /\ process[p].address = Nowhere)

\* The request is deleted, with all that it has written: closeIfFinished().  What the
\* message handler does once it is undefined, if anybody logs, is not defined either.
Answer(c) ==
  LET p == conn[c].process IN
  /\ conn[c].phase = "announced" /\ IsAtLoop(p)
  /\ conn' = Moved(c, "done", p)
  /\ \/ IF process[p].interface # None /\ IsFinished(p) THEN Stops(p, "ended") ELSE UNCHANGED process
     \/ process[p].handler = "undefined" /\ Stops(p, "aborted")
  /\ UNCHANGED host

-----------------------------------------------------------------------------
(* Database: what a slot may do that needs one. *)

InSlot(p) == IsAtLoop(p) /\ \E c \in Conns : conn[c].phase = "announced" /\ conn[c].process = p

\* haveConnection(): database() opens a connection that was closed; then it is tried.
StillThere(p) == process[p].database.state \in {"open", "closed"}
RemoveConnection(p) == process' = [process EXCEPT ![p].database = NoDatabase]
HaveConnection(p) ==
  /\ InSlot(p) /\ process[p].database.state # "none"
  /\ \/ StillThere(p) /\ process' = [process EXCEPT ![p].database.state = "open"]
     \/ RemoveConnection(p)
  /\ UNCHANGED <<host, conn>>

NewConnection == [guard |-> TRUE, state |-> "open", settings |-> host.settings.database]

\* addDatabase(): qFatal() without a name in the settings, or if there is no such database.
\* A guard that is there already stays.
AddDatabase(p) ==
  LET configured == host.settings.database # None /\ host.settings.database.name # "" IN
  /\ host.build.sql /\ InSlot(p)
  /\ \/ configured /\ process' = [process EXCEPT ![p].database = NewConnection]
     \/ Stops(p, "aborted")
  /\ UNCHANGED <<host, conn>>

\* The slot closes the connection, or the database server does.
CloseDatabase(p) ==
  /\ IsRunning(p) /\ process[p].database.state = "open"
  /\ \E state \in {"closed", "gone"} : process' = [process EXCEPT ![p].database.state = state]
  /\ UNCHANGED <<host, conn>>

-----------------------------------------------------------------------------
(* The executable is modified; a server is stopped. *)

ModifyExecutable ==
  /\ \A p \in Procs : ~process[p].modified
  /\ \E p \in Procs : IsRunning(p)
  /\ process' = [p \in Procs |-> [process[p] EXCEPT !.modified = IsRunning(p)]]
  /\ UNCHANGED <<host, conn>>

\* What is left of a process when its interface is deleted, and of its connections: the
\* sockets of its own, and HTTP requests that are not announced yet, are closed.
Uninstalled(handler) == IF handler = "syslog" THEN "undefined" ELSE handler
Deleted(p) ==
  [process[p] EXCEPT !.interface = None, !.live = {}, !.address = Nowhere, !.handler = Uninstalled(@)]
IsClosed(c, p) ==
  \/ conn[c].phase = "pending" /\ conn[c].address = process[p].address /\ conn[c].address[1] # "unix"
  \/ conn[c].phase = "accepted" /\ conn[c].process = p /\ process[p].interface = "HttpInterface"
ClosedBy(p) == [c \in Conns |-> IF IsClosed(c, p) THEN [conn[c] EXCEPT !.phase = "closed"] ELSE conn[c]]

Shutdown(p) ==
  /\ IsAtLoop(p) /\ process[p].modified /\ process[p].interface # None
  /\ process' = [process EXCEPT ![p] = Deleted(p)]
  /\ conn' = ClosedBy(p)
  /\ UNCHANGED host

\* An application that embeds a server deletes its Manager, and may make another.  Its
\* slot answers a request at once.
StopServer(p) ==
  /\ IsAtLoop(p) /\ host.program # None /\ process[p].backend = "HTTP"
  /\ \A c \in Conns : conn[c].process = p => conn[c].phase # "announced"
  /\ process' = [process EXCEPT ![p] = New]
  /\ conn' = ClosedBy(p)
  /\ UNCHANGED host

Choose(p) == TryFactory(p) \/ StartZeroConf(p) \/ StartConfigured(p)
Accept(p) == Activated(p) \/ LockSocket(p) \/ AcceptConnection(p) \/ SpawnRequest(p) \/ StartResponse(p)
             \/ AcceptNewConnection(p) \/ CgiInit(p)

Next ==
  \/ Configure
  \/ \E p \in Procs : Spawn(p) \/ Choose(p) \/ Accept(p) \/ HaveConnection(p) \/ AddDatabase(p) \/ CloseDatabase(p)
                     \/ Shutdown(p) \/ StopServer(p)
  \/ \E c \in Conns : Connect(c) \/ Announce(c) \/ Answer(c)
  \/ ModifyExecutable

Spec == Init /\ [][Next]_vars

\* A process that can go on does; its event loop gets round to everything.
FairSpec ==
  /\ Spec
  /\ \A p \in Procs : WF_vars(Choose(p)) /\ WF_vars(Accept(p)) /\ SF_vars(Shutdown(p))
  /\ \A c \in Conns : SF_vars(Announce(c)) /\ SF_vars(Answer(c))

-----------------------------------------------------------------------------
(* Properties. *)

\* The backend of the settings; without, the first that the environment asks for; without
\* that, HTTP.
Told ==
  LET detecting == {i \in DOMAIN host.order : DetectedBackends(host.order[i]) # {}} IN
  CASE host.settings.type # None -> {host.settings.type}
    [] host.settings.type = None /\ detecting # {} ->
         DetectedBackends(host.order[CHOOSE i \in detecting : \A j \in detecting : i <= j])
    [] OTHER -> {"HTTP"}

\* A process serves through one interface, the one that its settings or its environment
\* ask for, wherever the linker has put it (CommunicationInterface.h:48), at the port of
\* the settings, which is its own.
ListensAsTold ==
  \A p \in Procs : process[p].interface # None =>
    /\ process[p].backend \in Told /\ process[p].live = {process[p].interface}
    /\ process[p].address[1] = "tcp" =>
         /\ host.settings.port < Word => process[p].address[2] = host.settings.port
         /\ \A q \in Procs \ {p} : process[q].address # process[p].address

Hears(address) ==
  \E p \in Procs : process[p].address = address /\ ~(address[1] = "stdin" /\ UsesNotifier(p))

\* p waits in accept(), or for the lock, for a connection that another process has taken.
IsStalled(p) == process[p].accept # "idle" /\ Waiting(process[p].address) = {}

\* Nobody listens any more, or the process that has the request was shut down, has crashed
\* or is stuck.
IsForsaken(c) ==
  \/ conn[c].phase \in {"pending", "closed"} /\ ~Hears(conn[c].address)
  \/ \E p \in Procs : conn[c].process = p /\
        (process[p].phase = "aborted" \/ (IsRunning(p) /\ process[p].interface = None) \/ IsStalled(p))

\* A connection that waits for the application is answered, by whichever of its processes,
\* unless it is forsaken.
RequestsServed == \A c \in Conns : conn[c].phase = "pending" ~> conn[c].phase = "done" \/ IsForsaken(c)

\* When the executable is modified the application shuts down (Manager_Private.h:47, :55).
ModifiedEnds ==
  \A p \in Procs : process[p].modified ~> process[p].phase \in {"ended", "aborted"}
=============================================================================
