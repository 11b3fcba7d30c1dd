---------------------------- MODULE MCProcesses ----------------------------
(* Small instances of Processes for TLC: two orders of the plugins, builds that differ  *)
(* in one thing each where processes share a socket, ports below, at and above the      *)
(* width of a port.                                                                     *)
EXTENDS Processes

All == <<"FastCgiInterface", "HttpInterface", "ScgiInterface", "CgiInterface">>
WithoutHttp == <<"CgiInterface", "FastCgiInterface">>

Build(unix, lock, blocking, syslog) ==
  [unix |-> unix, lock |-> lock, blocking |-> blocking, syslog |-> syslog, sql |-> FALSE]
Usual == Build(TRUE, "flock", TRUE, TRUE)
TcpOnly == Build(FALSE, "flock", TRUE, FALSE)
WithDatabase == [TcpOnly EXCEPT !.sql = TRUE]
Builds == {Usual, TcpOnly, Build(TRUE, "fcntl", TRUE, FALSE), Build(TRUE, "flock", FALSE, FALSE)}

Environment(stdin, cgi) == [stdin |-> stdin, cgi |-> cgi]
FromServer == Environment("listening", FALSE)
FromShell == Environment("other", FALSE)

Configuration(type, port) == [type |-> type, port |-> port]
MCConfigurations ==
  {Configuration("FCGI-UNIX", 0), Configuration("FCGI-TCP", 1), Configuration("FCGI-TCP", Word),
   Configuration("SCGI-TCP", 0), Configuration("SCGI-TCP", 1), Configuration("HTTP", 1),
   Configuration("HTTP", Word + 1), Configuration("CGI", 0), Configuration("unknown", 1)}

\* A database with a default driver, and none.
MCDatabases == {[driver |-> "", name |-> "data"], [driver |-> "QSQLITE", name |-> ""]}

Host(order, build, environment, program) ==
  [order |-> order, build |-> build, environment |-> environment, program |-> program]
MCHosts ==
  {Host(order, build, FromServer, None) : order \in {All, WithoutHttp}, build \in Builds}
  \union {Host(order, Usual, Environment(stdin, TRUE), None) : order \in {All, WithoutHttp}, stdin \in {"other", "connected"}}
  \union {Host(order, build, FromShell, None) : order \in {All, WithoutHttp}, build \in {Usual, TcpOnly}}
  \union {Host(All, build, FromShell, program) : build \in {Usual, TcpOnly}, program \in MCConfigurations}
  \union {Host(<<"HttpInterface">>, WithDatabase, FromShell, None)}

ShutdownHosts == {Host(All, Usual, FromShell, program) : program \in MCConfigurations}
=============================================================================
