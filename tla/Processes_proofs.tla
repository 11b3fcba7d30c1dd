------------------------- MODULE Processes_proofs -------------------------
(***************************************************************************)
(* The proofs of ProcessTypeOK and ListensAsTold of Processes.             *)
(***************************************************************************)
EXTENDS Processes, TLAPS

Phases == {"none", "choosing", "running", "ended", "aborted"}

DatabaseAnswers == {None} \union {DatabaseSettings(answer) : answer \in Databases}

HostRecords ==
  [order : Seq(Factories), build : {h.build : h \in Hosts}, environment : {h.environment : h \in Hosts},
   program : {h.program : h \in Hosts},
   settings : [type : Types \union {None, "unknown"}, port : Nat, database : DatabaseAnswers]]

DatabaseRecords ==
  [guard : BOOLEAN, state : {"none", "open", "closed", "gone"}, settings : DatabaseAnswers]

ProcessRecords ==
  [phase : Phases, next : Nat, candidate : Factories \union {None}, interface : Factories \union {None},
   live : SUBSET Factories, backend : Types \union {None}, address : Addresses \union {Nowhere},
   accept : {"idle", "locking", "accepting"}, modified : BOOLEAN,
   handler : {"default", "syslog", "undefined"}, database : DatabaseRecords]

ConnRecords ==
  [phase : {"none", "pending", "accepted", "announced", "done", "closed", "lost"},
   address : Addresses \union {Nowhere}, process : Procs \union {None}]

RecordsOK ==
  /\ host \in HostRecords /\ process \in [Procs -> ProcessRecords] /\ conn \in [Conns -> ConnRecords]

\* What was linked and what the program configures is fixed; each plugin is there once.
HostOK ==
  /\ \A i, j \in DOMAIN host.order : host.order[i] = host.order[j] => i = j
  /\ host.program # None => host.program.type \in Types \union {"unknown"} /\ host.program.port \in Nat

\* Once a process has been started the settings are those that the program brings.
ProgramWritten ==
  (host.program # None /\ \E p \in Procs : process[p].phase # "none") =>
    host.settings.type = host.program.type /\ host.settings.port = host.program.port

\* Before it runs, a process has no interface but the one kept for later, which the
\* environment does not ask for, as none of those that it has tried.
Undecided(r) ==
  /\ r.interface = None /\ r.address = Nowhere
  /\ r.live = {r.candidate} \ {None}
  /\ r.next >= 1 /\ r.next <= Len(host.order) + 1
  /\ \A i \in DOMAIN host.order : i < r.next => DetectedBackends(host.order[i]) = {}
  /\ r.candidate # None =>
       r.candidate = "HttpInterface" /\ \E i \in DOMAIN host.order : i < r.next /\ host.order[i] = r.candidate

\* When it runs, it has one, or has shut down.
Decided(r) ==
  \/ r.interface = None /\ r.live = {} /\ r.address = Nowhere
  \/ r.interface # None /\ r.live = {r.interface} /\ r.backend \in Told /\ r.address # Nowhere

\* Only a process that runs accepts connections, and has one to a database, which it made
\* from the settings.
Guarded(r) ==
  /\ r.phase # "running" => r.database = NoDatabase /\ r.accept = "idle"
  /\ r.database.guard <=> r.database.state # "none"
  /\ r.database.guard => r.database.settings = host.settings.database

Fits(r) ==
  /\ r.phase # "running" => Undecided(r)
  /\ r.phase = "running" => Decided(r)
  /\ Guarded(r)
ProcessesOK == \A p \in Procs : Fits(process[p])

\* Where a process listens on a TCP port, it is the port of the settings, and its alone.
PortOK ==
  \A p \in Procs : process[p].address # Nowhere /\ process[p].address[1] = "tcp" =>
    /\ process[p].address[2] = host.settings.port % Word
    /\ \A q \in Procs \ {p} : process[q].address # process[p].address

TakenOK ==
  \A c \in Conns : conn[c].phase \in {"accepted", "announced", "done", "lost"} => conn[c].process \in Procs

IInv ==
  /\ RecordsOK /\ HostOK /\ ProgramWritten /\ ProcessesOK /\ PortOK /\ TakenOK

-----------------------------------------------------------------------------
(* What the environment asks for does not change. *)

LEMMA DetectedSame ==
  ASSUME host'.build = host.build, host'.environment = host.environment
  PROVE  \A f : DetectedBackends(f)' = DetectedBackends(f)
  BY DEF DetectedBackends, FcgiDetected, CgiDetected, ActiveSocketTypes

LEMMA ToldSame ==
  ASSUME host'.build = host.build, host'.environment = host.environment, host'.order = host.order,
         host'.settings.type = host.settings.type
  PROVE  Told' = Told
<1> DEFINE detecting == {i \in DOMAIN host.order : DetectedBackends(host.order[i]) # {}}
<1>1. \A f : DetectedBackends(f)' = DetectedBackends(f)
  BY DetectedSame
<1>2. detecting' = detecting
  BY <1>1
<1>3. \A i \in detecting : DetectedBackends(host.order[i])' = DetectedBackends(host.order[i])
  BY <1>1
<1>4. (CHOOSE i \in detecting : \A j \in detecting : i <= j)' = (CHOOSE i \in detecting : \A j \in detecting : i <= j)
  BY <1>2
<1> QED
  BY <1>1, <1>2, <1>4 DEF Told

\* The first plugin that the environment asks for.
LEMMA ToldFirst ==
  ASSUME host.settings.type = None, NEW n \in DOMAIN host.order, DOMAIN host.order \subseteq Nat,
         DetectedBackends(host.order[n]) # {},
         \A i \in DOMAIN host.order : i < n => DetectedBackends(host.order[i]) = {}
  PROVE  Told = DetectedBackends(host.order[n])
<1> DEFINE detecting == {i \in DOMAIN host.order : DetectedBackends(host.order[i]) # {}}
<1>1. n \in detecting /\ \A j \in detecting : n <= j
  OBVIOUS
<1>2. \A i \in detecting : (\A j \in detecting : i <= j) => i = n
  BY <1>1
<1> HIDE DEF detecting
<1>3. (CHOOSE i \in detecting : \A j \in detecting : i <= j) = n
  BY <1>1, <1>2
<1> QED
  BY <1>1, <1>3 DEF Told, detecting

LEMMA ToldHttp ==
  ASSUME host.settings.type = None, \A i \in DOMAIN host.order : DetectedBackends(host.order[i]) = {}
  PROVE  Told = {"HTTP"}
  BY DEF Told

-----------------------------------------------------------------------------
(* A step of one process. *)

\* Where p listens after its step: where it did, nowhere, or where nobody else does.
ListensFreely(p, address) ==
  \/ address = process[p].address \/ address = Nowhere \/ address[1] # "tcp"
  \/ address = <<"tcp", host.settings.port % Word>> /\ \A q \in Procs : process[q].address # address

LEMMA ProcessStep ==
  ASSUME IInv, NEW p \in Procs, NEW r \in ProcessRecords, Fits(r), UNCHANGED host,
         ListensFreely(p, r.address), r.phase = "none" \/ process[p].phase # "none",
         process' = [process EXCEPT ![p] = r]
  PROVE  /\ process' \in [Procs -> ProcessRecords] /\ ProgramWritten' /\ ProcessesOK' /\ PortOK'
<1>1. process' \in [Procs -> ProcessRecords]
  BY DEF IInv, RecordsOK
<1>2. process'[p] = r /\ \A q \in Procs \ {p} : process'[q] = process[q]
  BY DEF IInv, RecordsOK
<1>3. ProgramWritten'
  BY <1>2 DEF IInv, ProgramWritten
<1>4. (\A f : DetectedBackends(f)' = DetectedBackends(f)) /\ Told' = Told
  BY DetectedSame, ToldSame
<1>5. ASSUME NEW q \in Procs PROVE Fits(process[q])'
  <2> PICK s : s = process'[q]
    OBVIOUS
  <2>1. Fits(s)
    BY <1>2 DEF IInv, ProcessesOK
  <2>2. Undecided(s) => Undecided(process[q])'
    BY <1>4 DEF Undecided
  <2>3. Decided(s) => Decided(process[q])'
    BY <1>4 DEF Decided
  <2>4. Guarded(s) => Guarded(process[q])'
    BY DEF Guarded
  <2> QED
    BY <2>1, <2>2, <2>3, <2>4 DEF Fits
<1>6. PortOK'
  <2> SUFFICES ASSUME NEW q \in Procs, process'[q].address # Nowhere, process'[q].address[1] = "tcp"
               PROVE  /\ process'[q].address[2] = host.settings.port % Word
                      /\ \A o \in Procs \ {q} : process'[o].address # process'[q].address
    BY DEF PortOK
  <2>1. PortOK
    BY DEF IInv
  <2>2. CASE q = p
    BY <2>1, <2>2, <1>2 DEF PortOK, ListensFreely
  <2>3. CASE q # p
    BY <2>1, <2>3, <1>2 DEF PortOK, ListensFreely
  <2> QED
    BY <2>2, <2>3
<1> QED
  BY <1>1, <1>3, <1>5, <1>6 DEF ProcessesOK

LEMMA LocalStep ==
  ASSUME IInv, NEW p \in Procs, NEW r \in ProcessRecords, Fits(r), UNCHANGED host,
         ListensFreely(p, r.address), r.phase = "none" \/ process[p].phase # "none",
         process' = [process EXCEPT ![p] = r], conn' \in [Conns -> ConnRecords], TakenOK'
  PROVE  IInv'
<1>1. process' \in [Procs -> ProcessRecords] /\ ProgramWritten' /\ ProcessesOK' /\ PortOK'
  BY ProcessStep
<1>2. HostOK' /\ host' \in HostRecords
  BY DEF IInv, HostOK, RecordsOK
<1> QED
  BY <1>1, <1>2 DEF IInv, RecordsOK

\* A step that only moves a connection.
LEMMA ConnStep ==
  ASSUME IInv, UNCHANGED <<host, process>>, conn' \in [Conns -> ConnRecords], TakenOK'
  PROVE  IInv'
<1>1. HostOK' /\ ProgramWritten' /\ PortOK'
  BY DEF IInv, HostOK, ProgramWritten, PortOK
<1>2. (\A f : DetectedBackends(f)' = DetectedBackends(f)) /\ Told' = Told
  BY DetectedSame, ToldSame
<1>3. ASSUME NEW q \in Procs PROVE Fits(process[q])'
  <2>1. Fits(process[q])
    BY DEF IInv, ProcessesOK
  <2>2. Undecided(process[q]) => Undecided(process[q])'
    BY <1>2 DEF Undecided
  <2>3. Decided(process[q]) => Decided(process[q])'
    BY <1>2 DEF Decided
  <2>4. Guarded(process[q]) => Guarded(process[q])'
    BY DEF Guarded
  <2> QED
    BY <2>1, <2>2, <2>3, <2>4 DEF Fits
<1> QED
  BY <1>1, <1>3 DEF IInv, RecordsOK, ProcessesOK

LEMMA MovedOK ==
  ASSUME IInv, NEW c \in Conns, NEW p \in Procs, NEW phase \in {"accepted", "announced", "done", "lost"},
         conn' = Moved(c, phase, p)
  PROVE  conn' \in [Conns -> ConnRecords] /\ TakenOK'
<1> DEFINE r == [conn[c] EXCEPT !.phase = phase, !.process = p]
<1>1. conn' = [conn EXCEPT ![c] = r]
  BY DEF Moved, IInv, RecordsOK
<1>2. conn[c] \in ConnRecords
  BY DEF IInv, RecordsOK
<1>3. r \in ConnRecords /\ r.process = p /\ r.phase = phase
  BY <1>2 DEF ConnRecords
<1> HIDE DEF r
<1>4. conn' \in [Conns -> ConnRecords]
  BY <1>1, <1>3 DEF IInv, RecordsOK
<1>5. conn'[c] = r /\ \A d \in Conns \ {c} : conn'[d] = conn[d]
  BY <1>1 DEF IInv, RecordsOK
<1> QED
  BY <1>3, <1>4, <1>5 DEF IInv, TakenOK

LEMMA UnmovedOK ==
  ASSUME IInv, UNCHANGED conn
  PROVE  conn' \in [Conns -> ConnRecords] /\ TakenOK'
  BY DEF IInv, RecordsOK, TakenOK

-----------------------------------------------------------------------------
(* A process ends; an interface starts. *)

LEMMA NewFits ==
  /\ New \in ProcessRecords
  /\ HostOK /\ host \in HostRecords => Fits(New)
<1>1. NoDatabase \in DatabaseRecords
  BY DEF NoDatabase, DatabaseRecords, DatabaseAnswers
<1>2. New \in ProcessRecords
  BY <1>1 DEF New, ProcessRecords, Phases
<1>3. ASSUME host \in HostRecords PROVE Fits(New)
  <2>1. host.order \in Seq(Factories)
    BY <1>3 DEF HostRecords
  <2>2. Undecided(New)
    BY <2>1 DEF Undecided, New
  <2>3. Guarded(New)
    BY DEF Guarded, New, NoDatabase
  <2> QED
    BY <2>2, <2>3 DEF Fits, New
<1> QED
  BY <1>2, <1>3

LEMMA StopsStep ==
  ASSUME IInv, NEW p \in Procs, NEW phase \in {"ended", "aborted"}, process[p].phase # "none",
         Stops(p, phase), UNCHANGED host, conn' \in [Conns -> ConnRecords], TakenOK'
  PROVE  IInv'
<1>1. PICK r : r = [New EXCEPT !.phase = phase]
  OBVIOUS
<1>2. New \in ProcessRecords /\ Fits(New)
  BY NewFits DEF IInv, RecordsOK
<1>3. /\ r \in ProcessRecords /\ r.phase = phase /\ r.interface = New.interface /\ r.address = New.address
      /\ r.live = New.live /\ r.candidate = New.candidate /\ r.next = New.next /\ r.database = New.database
      /\ r.accept = New.accept
  BY <1>1, <1>2 DEF ProcessRecords, Phases
<1>4. Fits(r)
  <2>1. Undecided(New) /\ Guarded(New) /\ New.phase = "none"
    BY <1>2 DEF Fits, New
  <2>2. Undecided(r)
    BY <2>1, <1>3 DEF Undecided
  <2>3. Guarded(r)
    BY <2>1, <1>3 DEF Guarded
  <2> QED
    BY <2>2, <2>3, <1>3 DEF Fits
<1>5. ListensFreely(p, r.address)
  BY <1>3 DEF ListensFreely, New
<1>6. process' = [process EXCEPT ![p] = r]
  BY <1>1 DEF Stops
<1> QED
  BY <1>3, <1>4, <1>5, <1>6, LocalStep

LEMMA AddressSomewhere == Nowhere \notin Addresses
  BY DEF Nowhere, Addresses

\* Where start() listens when it returns true.
LEMMA StartedListens ==
  ASSUME RecordsOK, NEW p \in Procs, NEW factory \in Factories, NEW backend
  PROVE  /\ Started(p, factory, backend).phase \in {"running", "ended", "aborted"}
         /\ Started(p, factory, backend).phase = "running" =>
              /\ Started(p, factory, backend).address \in Addresses
              /\ ListensFreely(p, Started(p, factory, backend).address)
<1> DEFINE Good(started) ==
      /\ started.phase \in {"running", "ended", "aborted"}
      /\ started.phase = "running" => started.address \in Addresses /\ ListensFreely(p, started.address)
<1>1. LoadedPort \in 0..Word-1 /\ LoadedPort = host.settings.port % Word
  BY WordAssumption DEF LoadedPort, RecordsOK, HostRecords
<1>2. Good(Failed) /\ Good(Fatal)
  BY DEF Failed, Fatal
<1>3. ASSUME NEW otherwise \in {Failed, Fatal} PROVE Good(Bound(LoadedPort, otherwise))
  BY <1>1, <1>2 DEF Bound, Listening, Addresses, ListensFreely
<1>4. Good(Listening(<<"unix", 0>>)) /\ Good(Listening(<<"stdin", p>>)) /\ Good(Listening(<<"auto", p>>))
  BY DEF Listening, Addresses, ListensFreely
<1> HIDE DEF Good
<1>5. Good(StartFcgi(p, backend))
  BY <1>2, <1>3, <1>4 DEF StartFcgi, ListenUnix, ListenTcp
<1>6. Good(StartScgi)
  BY <1>2, <1>3 DEF StartScgi
<1>7. Good(StartHttp(p))
  BY <1>3, <1>4 DEF StartHttp
<1>8. Good(StartCgi(p))
  BY <1>4 DEF StartCgi
<1>9. Good(Started(p, factory, backend))
  BY <1>5, <1>6, <1>7, <1>8 DEF Started, Factories
<1> QED
  BY <1>9 DEF Good

LEMMA StartStep ==
  ASSUME IInv, NEW p \in Procs, NEW factory \in Factories, NEW backend \in Types, backend \in Told,
         process[p].phase = "choosing", Start(p, factory, backend, {factory}), UNCHANGED <<host, conn>>
  PROVE  IInv'
<1>1. PICK started : started = Started(p, factory, backend)
  OBVIOUS
<1>2. /\ started.phase \in {"running", "ended", "aborted"}
      /\ started.phase = "running" => started.address \in Addresses /\ ListensFreely(p, started.address)
  BY <1>1, StartedListens DEF IInv
<1>3. conn' \in [Conns -> ConnRecords] /\ TakenOK'
  BY UnmovedOK
<1>4. CASE started.phase # "running"
  BY <1>1, <1>2, <1>3, <1>4, StopsStep DEF Start
<1>5. CASE started.phase = "running"
  <2>1. PICK r : r = [process[p] EXCEPT
           !.phase = "running", !.interface = factory, !.backend = backend, !.candidate = None,
           !.live = {factory}, !.address = started.address, !.handler = Handler(backend)]
    OBVIOUS
  <2>2. process' = [process EXCEPT ![p] = r]
    BY <1>1, <1>5, <2>1 DEF Start
  <2>3. process[p] \in ProcessRecords /\ Fits(process[p])
    BY DEF IInv, RecordsOK, ProcessesOK
  <2>4. /\ r \in ProcessRecords /\ r.phase = "running" /\ r.interface = factory /\ r.backend = backend
        /\ r.live = {factory} /\ r.address = started.address /\ r.database = process[p].database
    BY <1>2, <1>5, <2>1, <2>3 DEF ProcessRecords, Handler, Phases
  <2>5. Fits(r)
    <3>1. Decided(r)
      BY <1>2, <1>5, <2>4, NoneAssumption, AddressSomewhere DEF Decided
    <3>2. Guarded(r)
      BY <2>3, <2>4 DEF Guarded, Fits
    <3> QED
      BY <2>4, <3>1, <3>2 DEF Fits
  <2> QED
    BY <1>2, <1>3, <1>5, <2>2, <2>4, <2>5, LocalStep
<1> QED
  BY <1>4, <1>5

-----------------------------------------------------------------------------
(* The steps of a process that chooses. *)

LEMMA OrderTyped ==
  ASSUME RecordsOK
  PROVE  /\ Len(host.order) \in Nat /\ DOMAIN host.order = 1..Len(host.order)
         /\ \A i \in DOMAIN host.order : host.order[i] \in Factories
  BY DEF RecordsOK, HostRecords

LEMMA DetectedTyped ==
  /\ \A f \in Factories : DetectedBackends(f) \subseteq Types
  /\ DetectedBackends("HttpInterface") = {}
  BY DEF DetectedBackends, FcgiDetected, CgiDetected, Types, Factories

LEMMA TryFactoryStep ==
  ASSUME IInv, NEW p \in Procs, TryFactory(p)
  PROVE  IInv'
<1> DEFINE factory == TriedFactory(p)
           detected == DetectedBackends(factory)
           n == process[p].next
<1>1. process[p] \in ProcessRecords /\ Undecided(process[p]) /\ Guarded(process[p]) /\ process[p].phase = "choosing"
  BY DEF IInv, RecordsOK, ProcessesOK, Fits, TryFactory, IsChoosing
<1>2. /\ n \in DOMAIN host.order /\ n \in Nat /\ DOMAIN host.order \subseteq Nat /\ factory \in Factories
      /\ factory = host.order[n] /\ n + 1 <= Len(host.order) + 1
  BY <1>1, OrderTyped DEF IInv, TryFactory, Untried, TriedFactory, Undecided, ProcessRecords
<1>3. \A i \in DOMAIN host.order : i < n => DetectedBackends(host.order[i]) = {}
  BY <1>1 DEF Undecided
<1>4. process[p].live = {process[p].candidate} \ {None} /\ process[p].candidate \in Factories \union {None}
  BY <1>1 DEF Undecided, ProcessRecords
<1>5. conn' \in [Conns -> ConnRecords] /\ TakenOK' /\ UNCHANGED <<host, conn>>
  BY UnmovedOK DEF TryFactory
<1>6. process[p].candidate # factory /\ factory # None
  <2>1. SUFFICES ASSUME process[p].candidate # None PROVE process[p].candidate # factory
    BY <1>2, NoneAssumption
  <2>2. PICK i \in DOMAIN host.order : i < n /\ host.order[i] = process[p].candidate
    BY <1>1, <2>1 DEF Undecided
  <2> QED
    BY <1>2, <2>2 DEF IInv, HostOK
<1>10. \A i \in DOMAIN host.order : i < n + 1 => i < n \/ host.order[i] = factory
  BY <1>2
<1>7. CASE detected # {}
  <2>1. PICK backend \in detected : Start(p, factory, backend, (process[p].live \union {factory}) \ {process[p].candidate})
    BY <1>7 DEF TryFactory
  <2>2. (process[p].live \union {factory}) \ {process[p].candidate} = {factory}
    BY <1>4, <1>6
  <2>3. backend \in Types /\ backend \in Told
    BY <1>2, <1>3, <1>7, DetectedTyped, ToldFirst DEF TryFactory
  <2>4. Start(p, factory, backend, {factory})
    BY <2>1, <2>2, Zenon
  <2> QED
    BY <1>1, <1>2, <1>5, <2>3, <2>4, StartStep
<1>8. CASE detected = {} /\ ~RequiresConfiguration(factory)
  <2>1. PICK r : r = [process[p] EXCEPT !.next = n + 1, !.candidate = factory, !.live = {factory}]
    OBVIOUS
  <2>3. (process[p].live \union {factory}) \ {process[p].candidate} = {factory}
    BY <1>4, <1>6
  <2>2. process' = [process EXCEPT ![p] = r]
    BY <1>8, <2>1, <2>3 DEF TryFactory, IInv, RecordsOK
  <2>9. n + 1 \in Nat
    BY <1>2
  <2>4. /\ r \in ProcessRecords /\ r.phase = "choosing" /\ r.next = n + 1 /\ r.candidate = factory
        /\ r.live = {factory} /\ r.interface = process[p].interface /\ r.address = process[p].address
        /\ r.database = process[p].database /\ r.accept = process[p].accept
    <3>1. PICK m : m = n + 1
      OBVIOUS
    <3>2. m \in Nat /\ r = [process[p] EXCEPT !.next = m, !.candidate = factory, !.live = {factory}]
      BY <2>1, <2>9, <3>1
    <3> HIDE DEF factory
    <3> QED
      BY <1>1, <1>2, <3>1, <3>2 DEF ProcessRecords
  <2>5. Undecided(r)
    <3>1. factory = "HttpInterface"
      BY <1>8 DEF RequiresConfiguration
    <3>2. \A i \in DOMAIN host.order : i < n + 1 => DetectedBackends(host.order[i]) = {}
      BY <1>2, <1>3, <1>8, <1>10
    <3>3. n < n + 1 /\ n + 1 >= 1
      BY <1>2
    <3>4. factory # None /\ {factory} = {factory} \ {None}
      BY <1>6
    <3>5. r.interface = None /\ r.address = Nowhere
      BY <1>1, <2>4 DEF Undecided
    <3> QED
      BY <1>2, <2>4, <3>1, <3>2, <3>3, <3>4, <3>5 DEF Undecided
  <2>6. Guarded(r)
    BY <1>1, <2>4 DEF Guarded
  <2>7. Fits(r)
    BY <2>4, <2>5, <2>6 DEF Fits
  <2>8. ListensFreely(p, r.address)
    BY <2>4 DEF ListensFreely
  <2> QED
    BY <1>1, <1>5, <2>2, <2>4, <2>7, <2>8, LocalStep
<1>9. CASE detected = {} /\ RequiresConfiguration(factory)
  <2>1. PICK r : r = [process[p] EXCEPT !.next = n + 1, !.live = process[p].live]
    OBVIOUS
  <2>3. (process[p].live \union {factory}) \ {factory} = process[p].live
    BY <1>4, <1>6
  <2>2. process' = [process EXCEPT ![p] = r]
    BY <1>9, <2>1, <2>3 DEF TryFactory, IInv, RecordsOK
  <2>9. n + 1 \in Nat
    BY <1>2
  <2>4. /\ r \in ProcessRecords /\ r.phase = "choosing" /\ r.next = n + 1 /\ r.candidate = process[p].candidate
        /\ r.live = process[p].live /\ r.interface = process[p].interface /\ r.address = process[p].address
        /\ r.database = process[p].database /\ r.accept = process[p].accept
    <3>1. PICK m : m = n + 1
      OBVIOUS
    <3>2. m \in Nat /\ r = [process[p] EXCEPT !.next = m, !.live = process[p].live]
      BY <2>1, <2>9, <3>1
    <3> QED
      BY <1>1, <3>1, <3>2 DEF ProcessRecords
  <2>5. Undecided(r)
    <3>1. \A i \in DOMAIN host.order : i < n + 1 => DetectedBackends(host.order[i]) = {}
      BY <1>2, <1>3, <1>9, <1>10
    <3>2. \A i \in DOMAIN host.order : i < n => i < n + 1
      BY <1>2
    <3>3. n + 1 >= 1
      BY <1>2
    <3> QED
      BY <1>1, <1>2, <2>4, <3>1, <3>2, <3>3 DEF Undecided
  <2>6. Guarded(r)
    BY <1>1, <2>4 DEF Guarded
  <2>7. Fits(r)
    BY <2>4, <2>5, <2>6 DEF Fits
  <2>8. ListensFreely(p, r.address)
    BY <2>4 DEF ListensFreely
  <2> QED
    BY <1>1, <1>5, <2>2, <2>4, <2>7, <2>8, LocalStep
<1> QED
  BY <1>7, <1>8, <1>9

LEMMA StartZeroConfStep ==
  ASSUME IInv, NEW p \in Procs, StartZeroConf(p)
  PROVE  IInv'
<1>1. process[p] \in ProcessRecords /\ Undecided(process[p]) /\ process[p].phase = "choosing"
  BY DEF IInv, RecordsOK, ProcessesOK, Fits, StartZeroConf, IsChoosing
<1>2. conn' \in [Conns -> ConnRecords] /\ TakenOK' /\ UNCHANGED <<host, conn>>
  BY UnmovedOK DEF StartZeroConf
<1>3. CASE process[p].candidate = None
  <2>1. Stops(p, "ended")
    BY <1>3 DEF StartZeroConf
  <2> QED
    BY <1>1, <1>2, <2>1, StopsStep
<1>4. CASE process[p].candidate # None
  <2>1. process[p].candidate = "HttpInterface" /\ process[p].live = {"HttpInterface"}
    BY <1>1, <1>4 DEF Undecided
  <2>2. Start(p, "HttpInterface", "HTTP", {"HttpInterface"})
    BY <2>1, <1>4, SMT DEF StartZeroConf, Backends
  <2>3. \A i \in DOMAIN host.order : DetectedBackends(host.order[i]) = {}
    <3>1. \A i \in DOMAIN host.order : i < process[p].next
      BY <1>1, OrderTyped DEF IInv, StartZeroConf, Untried, ProcessRecords
    <3> QED
      BY <1>1, <3>1 DEF Undecided
  <2>4. Told = {"HTTP"}
    BY <2>3, ToldHttp DEF StartZeroConf
  <2>5. "HttpInterface" \in Factories /\ "HTTP" \in Types
    BY DEF Factories, Types
  <2> QED
    BY <1>1, <1>2, <2>2, <2>4, <2>5, StartStep
<1> QED
  BY <1>3, <1>4

LEMMA StartConfiguredStep ==
  ASSUME IInv, NEW p \in Procs, StartConfigured(p)
  PROVE  IInv'
<1> DEFINE type == host.settings.type
           having == {factory \in Factories : type \in Backends(factory)}
<1>1. process[p].phase = "choosing" /\ type # None
  BY DEF StartConfigured, IsChoosing
<1>2. conn' \in [Conns -> ConnRecords] /\ TakenOK' /\ UNCHANGED <<host, conn>>
  BY UnmovedOK DEF StartConfigured
<1>3. CASE having = {}
  <2>1. Stops(p, "ended")
    BY <1>3 DEF StartConfigured
  <2> QED
    BY <1>1, <1>2, <2>1, StopsStep
<1>4. CASE having # {}
  <2>1. PICK factory \in having : Start(p, factory, type, {factory})
    BY <1>4 DEF StartConfigured
  <2>2. type \in Types
    BY DEF Backends, FcgiBackends, SupportedSocketTypes, Types, Factories
  <2>3. type \in Told
    BY <1>1 DEF Told
  <2> QED
    BY <1>1, <1>2, <2>1, <2>2, <2>3, StartStep
<1> QED
  BY <1>3, <1>4

LEMMA ChooseStep ==
  ASSUME IInv, NEW p \in Procs, Choose(p)
  PROVE  IInv'
  BY TryFactoryStep, StartZeroConfStep, StartConfiguredStep DEF Choose

-----------------------------------------------------------------------------
(* Steps that leave a process what it is, but for one thing. *)

\* The part of a process that decides whether it fits.
SameServer(r, s) ==
  /\ r.phase = s.phase /\ r.next = s.next /\ r.candidate = s.candidate /\ r.interface = s.interface
  /\ r.live = s.live /\ r.backend = s.backend /\ r.address = s.address

LEMMA SameServerFits ==
  ASSUME NEW r, NEW s, SameServer(r, s), Fits(s), Guarded(r)
  PROVE  Fits(r)
<1>1. Undecided(s) => Undecided(r)
  BY DEF SameServer, Undecided
<1>2. Decided(s) => Decided(r)
  BY DEF SameServer, Decided
<1> QED
  BY <1>1, <1>2 DEF SameServer, Fits

LEMMA SameServerStep ==
  ASSUME IInv, NEW p \in Procs, NEW r \in ProcessRecords, SameServer(r, process[p]), Guarded(r),
         process[p].phase # "none", process' = [process EXCEPT ![p] = r], UNCHANGED host,
         conn' \in [Conns -> ConnRecords], TakenOK'
  PROVE  IInv'
<1>1. Fits(r)
  BY SameServerFits DEF IInv, ProcessesOK
<1>2. ListensFreely(p, r.address)
  BY DEF SameServer, ListensFreely
<1> QED
  BY <1>1, <1>2, LocalStep

LEMMA AcceptSetStep ==
  ASSUME IInv, NEW p \in Procs, NEW accept \in {"idle", "locking", "accepting"}, process[p].phase = "running",
         process' = [process EXCEPT ![p].accept = accept], UNCHANGED host,
         conn' \in [Conns -> ConnRecords], TakenOK'
  PROVE  IInv'
<1>1. PICK r : r = [process[p] EXCEPT !.accept = accept]
  OBVIOUS
<1>2. process' = [process EXCEPT ![p] = r]
  BY <1>1 DEF IInv, RecordsOK
<1>3. process[p] \in ProcessRecords /\ Guarded(process[p])
  BY DEF IInv, RecordsOK, ProcessesOK, Fits
<1>4. r \in ProcessRecords /\ SameServer(r, process[p]) /\ r.database = process[p].database
  BY <1>1, <1>3 DEF ProcessRecords, SameServer
<1>5. Guarded(r)
  BY <1>3, <1>4 DEF Guarded, SameServer
<1> QED
  BY <1>2, <1>4, <1>5, SameServerStep

LEMMA DatabaseStep ==
  ASSUME IInv, NEW p \in Procs, NEW database \in DatabaseRecords, process[p].phase = "running",
         database.guard <=> database.state # "none",
         database.guard => database.settings = host.settings.database,
         process' = [process EXCEPT ![p].database = database], UNCHANGED <<host, conn>>
  PROVE  IInv'
<1>1. PICK r : r = [process[p] EXCEPT !.database = database]
  OBVIOUS
<1>2. process' = [process EXCEPT ![p] = r]
  BY <1>1 DEF IInv, RecordsOK
<1>3. process[p] \in ProcessRecords
  BY DEF IInv, RecordsOK
<1>4. r \in ProcessRecords /\ SameServer(r, process[p]) /\ r.database = database
  BY <1>1, <1>3 DEF ProcessRecords, SameServer
<1>5. Guarded(r)
  BY <1>4 DEF Guarded, SameServer
<1> QED
  BY <1>2, <1>4, <1>5, SameServerStep, UnmovedOK

-----------------------------------------------------------------------------
(* Connections. *)

LEMMA ConnectStep ==
  ASSUME IInv, NEW c \in Conns, Connect(c)
  PROVE  IInv'
<1>1. PICK p \in Procs :
        /\ process[p].address # Nowhere
        /\ conn' = [conn EXCEPT ![c] = [phase |-> "pending", address |-> process[p].address, process |-> None]]
  BY DEF Connect
<1>2. process[p].address \in Addresses
  BY <1>1 DEF IInv, RecordsOK, ProcessRecords
<1>3. PICK r \in ConnRecords : r.phase = "pending" /\ conn' = [conn EXCEPT ![c] = r]
  BY <1>1, <1>2 DEF ConnRecords
<1>4. conn' \in [Conns -> ConnRecords] /\ TakenOK'
  BY <1>3 DEF IInv, RecordsOK, TakenOK
<1> QED
  BY <1>4, ConnStep DEF Connect

LEMMA ActivatedStep ==
  ASSUME IInv, NEW p \in Procs, Activated(p)
  PROVE  IInv'
  BY AcceptSetStep, UnmovedOK DEF Activated, IsAtLoop, IsRunning

\* A process that is in acceptNewConnection() runs.
LEMMA AcceptingRuns ==
  ASSUME IInv, NEW p \in Procs, process[p].accept # "idle"
  PROVE  process[p].phase = "running"
  BY DEF IInv, ProcessesOK, Fits, Guarded

LEMMA LockSocketStep ==
  ASSUME IInv, NEW p \in Procs, LockSocket(p)
  PROVE  IInv'
<1>1. process[p].phase = "running"
  BY AcceptingRuns DEF LockSocket
<1> QED
  BY <1>1, AcceptSetStep, UnmovedOK DEF LockSocket

LEMMA AcceptConnectionStep ==
  ASSUME IInv, NEW p \in Procs, AcceptConnection(p)
  PROVE  IInv'
<1> DEFINE address == process[p].address
<1>1. process[p].phase = "running" /\ UNCHANGED host
  BY AcceptingRuns DEF AcceptConnection
<1>2. CASE (\E c \in Waiting(address) : conn' = Moved(c, "accepted", p)) /\ process' = Released(p)
  <2>1. PICK c \in Conns : conn' = Moved(c, "accepted", p)
    BY <1>2 DEF Waiting
  <2>2. conn' \in [Conns -> ConnRecords] /\ TakenOK'
    BY <2>1, MovedOK
  <2> QED
    BY <1>1, <1>2, <2>2, AcceptSetStep DEF Released
<1>3. CASE Stops(p, "aborted") /\ UNCHANGED conn
  BY <1>1, <1>3, StopsStep, UnmovedOK
<1>4. CASE process' = Released(p) /\ UNCHANGED conn
  BY <1>1, <1>4, AcceptSetStep, UnmovedOK DEF Released
<1> QED
  BY <1>2, <1>3, <1>4 DEF AcceptConnection

\* A step that takes a waiting connection, or announces its request.
LEMMA MovedStep ==
  ASSUME IInv, NEW p \in Procs, NEW c \in Conns, NEW phase \in {"accepted", "announced", "done", "lost"},
         conn' = Moved(c, phase, p), UNCHANGED <<host, process>>
  PROVE  IInv'
  BY MovedOK, ConnStep

LEMMA AcceptStep ==
  ASSUME IInv, NEW p \in Procs, Accept(p)
  PROVE  IInv'
<1>1. CASE \E factory \in Factories : AcceptQt(p, factory)
  BY <1>1, MovedStep DEF AcceptQt, Waiting
<1>2. CASE CgiInit(p)
  BY <1>2, MovedStep DEF CgiInit, Waiting
<1>3. SpawnRequest(p) \/ StartResponse(p) \/ AcceptNewConnection(p) => \E factory \in Factories : AcceptQt(p, factory)
  BY DEF SpawnRequest, StartResponse, AcceptNewConnection, Factories
<1> QED
  BY <1>1, <1>2, <1>3, ActivatedStep, LockSocketStep, AcceptConnectionStep DEF Accept

LEMMA AnnounceStep ==
  ASSUME IInv, NEW c \in Conns, Announce(c)
  PROVE  IInv'
<1>1. PICK p \in Procs : p = conn[c].process
  BY DEF Announce, IInv, TakenOK
<1>2. PICK phase \in {"lost", "announced"} : conn' = Moved(c, phase, p)
  BY <1>1 DEF Announce
<1> QED
  BY <1>2, MovedStep DEF Announce

LEMMA AnswerStep ==
  ASSUME IInv, NEW c \in Conns, Answer(c)
  PROVE  IInv'
<1>1. PICK p \in Procs : p = conn[c].process
  BY DEF Answer, IInv, TakenOK
<1>2. conn' = Moved(c, "done", p) /\ process[p].phase = "running" /\ UNCHANGED host
  BY <1>1 DEF Answer, IsAtLoop, IsRunning
<1>3. conn' \in [Conns -> ConnRecords] /\ TakenOK'
  BY <1>2, MovedOK
<1>4. CASE UNCHANGED process
  BY <1>2, <1>4, MovedStep
<1>5. CASE \E phase \in {"ended", "aborted"} : Stops(p, phase)
  BY <1>2, <1>3, <1>5, StopsStep
<1> QED
  BY <1>1, <1>4, <1>5 DEF Answer

-----------------------------------------------------------------------------
(* Databases. *)

LEMMA HaveConnectionStep ==
  ASSUME IInv, NEW p \in Procs, HaveConnection(p)
  PROVE  IInv'
<1>1. /\ process[p].phase = "running" /\ process[p] \in ProcessRecords /\ Guarded(process[p])
      /\ UNCHANGED <<host, conn>> /\ process[p].database \in DatabaseRecords
  BY DEF HaveConnection, InSlot, IsAtLoop, IsRunning, IInv, RecordsOK, ProcessesOK, Fits, ProcessRecords
<1>2. CASE process' = [process EXCEPT ![p].database.state = "open"]
  <2>1. PICK database : database = [process[p].database EXCEPT !.state = "open"]
    OBVIOUS
  <2>2. /\ database \in DatabaseRecords /\ database.guard = process[p].database.guard /\ database.state = "open"
        /\ database.settings = process[p].database.settings
    BY <1>1, <2>1 DEF DatabaseRecords
  <2>3. process' = [process EXCEPT ![p].database = database]
    BY <1>1, <1>2, <2>1 DEF IInv, RecordsOK, ProcessRecords
  <2>4. /\ database.guard <=> database.state # "none"
        /\ database.guard => database.settings = host.settings.database
    BY <1>1, <2>2 DEF Guarded, HaveConnection
  <2> QED
    BY <1>1, <2>2, <2>3, <2>4, DatabaseStep
<1>3. CASE RemoveConnection(p)
  BY <1>1, <1>3, DatabaseStep DEF RemoveConnection, NoDatabase, DatabaseRecords, DatabaseAnswers
<1> QED
  BY <1>2, <1>3 DEF HaveConnection

LEMMA AddDatabaseStep ==
  ASSUME IInv, NEW p \in Procs, AddDatabase(p)
  PROVE  IInv'
<1>1. process[p].phase = "running" /\ UNCHANGED <<host, conn>>
  BY DEF AddDatabase, InSlot, IsAtLoop, IsRunning
<1>2. CASE process' = [process EXCEPT ![p].database = NewConnection]
  BY <1>1, <1>2, DatabaseStep DEF NewConnection, DatabaseRecords, IInv, RecordsOK, HostRecords
<1>3. CASE Stops(p, "aborted")
  BY <1>1, <1>3, StopsStep, UnmovedOK
<1> QED
  BY <1>2, <1>3 DEF AddDatabase

LEMMA CloseDatabaseStep ==
  ASSUME IInv, NEW p \in Procs, CloseDatabase(p)
  PROVE  IInv'
<1>1. /\ process[p].phase = "running" /\ process[p] \in ProcessRecords /\ Guarded(process[p])
      /\ UNCHANGED <<host, conn>> /\ process[p].database \in DatabaseRecords
  BY DEF CloseDatabase, IsRunning, IInv, RecordsOK, ProcessesOK, Fits, ProcessRecords
<1>2. PICK state \in {"closed", "gone"} : process' = [process EXCEPT ![p].database.state = state]
  BY DEF CloseDatabase
<1>3. PICK database : database = [process[p].database EXCEPT !.state = state]
  OBVIOUS
<1>4. /\ database \in DatabaseRecords /\ database.guard = process[p].database.guard /\ database.state = state
      /\ database.settings = process[p].database.settings
  BY <1>1, <1>3 DEF DatabaseRecords
<1>5. process' = [process EXCEPT ![p].database = database]
  BY <1>1, <1>2, <1>3 DEF IInv, RecordsOK, ProcessRecords
<1>6. /\ database.guard <=> database.state # "none"
      /\ database.guard => database.settings = host.settings.database
  BY <1>1, <1>4 DEF Guarded, CloseDatabase
<1> QED
  BY <1>1, <1>4, <1>5, <1>6, DatabaseStep

-----------------------------------------------------------------------------
(* The executable is modified, a server is stopped. *)

LEMMA ClosedOK ==
  ASSUME IInv, NEW p \in Procs, conn' = ClosedBy(p)
  PROVE  conn' \in [Conns -> ConnRecords] /\ TakenOK'
<1>1. ASSUME NEW c \in Conns
      PROVE  /\ conn'[c] \in ConnRecords /\ conn'[c].process = conn[c].process
             /\ conn'[c].phase = conn[c].phase \/ conn'[c].phase = "closed"
  <2>1. conn[c] \in ConnRecords
    BY DEF IInv, RecordsOK
  <2>2. conn'[c] = conn[c] \/ conn'[c] = [conn[c] EXCEPT !.phase = "closed"]
    BY DEF ClosedBy
  <2> QED
    BY <2>1, <2>2 DEF ConnRecords
<1>2. conn' \in [Conns -> ConnRecords]
  BY <1>1 DEF ClosedBy
<1> QED
  BY <1>1, <1>2 DEF IInv, TakenOK

LEMMA ShutdownStep ==
  ASSUME IInv, NEW p \in Procs, Shutdown(p)
  PROVE  IInv'
<1>1. process[p].phase = "running" /\ UNCHANGED host
  BY DEF Shutdown, IsAtLoop, IsRunning
<1>2. conn' \in [Conns -> ConnRecords] /\ TakenOK'
  BY ClosedOK DEF Shutdown
<1>3. PICK r : r = Deleted(p)
  OBVIOUS
<1>4. process[p] \in ProcessRecords /\ Guarded(process[p])
  BY DEF IInv, RecordsOK, ProcessesOK, Fits
<1>5. /\ r \in ProcessRecords /\ r.phase = "running" /\ r.interface = None /\ r.live = {} /\ r.address = Nowhere
      /\ r.database = process[p].database
  BY <1>1, <1>3, <1>4 DEF Deleted, ProcessRecords, Uninstalled
<1>6. Fits(r)
  BY <1>1, <1>4, <1>5 DEF Fits, Decided, Guarded
<1>7. process' = [process EXCEPT ![p] = r]
  BY <1>3 DEF Shutdown
<1>8. ListensFreely(p, r.address)
  BY <1>5 DEF ListensFreely
<1> QED
  BY <1>1, <1>2, <1>5, <1>6, <1>7, <1>8, LocalStep

LEMMA StopServerStep ==
  ASSUME IInv, NEW p \in Procs, StopServer(p)
  PROVE  IInv'
<1>1. process' = [process EXCEPT ![p] = New] /\ UNCHANGED host
  BY DEF StopServer
<1>2. conn' \in [Conns -> ConnRecords] /\ TakenOK'
  BY ClosedOK DEF StopServer
<1>3. New \in ProcessRecords /\ Fits(New)
  BY NewFits DEF IInv, RecordsOK
<1>4. ListensFreely(p, New.address) /\ New.phase = "none"
  BY DEF ListensFreely, New
<1> QED
  BY <1>1, <1>2, <1>3, <1>4, LocalStep

LEMMA ModifyExecutableStep ==
  ASSUME IInv, ModifyExecutable
  PROVE  IInv'
<1>1. UNCHANGED <<host, conn>>
  BY DEF ModifyExecutable
<1>2. ASSUME NEW p \in Procs
      PROVE  /\ process'[p] \in ProcessRecords /\ SameServer(process'[p], process[p])
             /\ process'[p].database = process[p].database /\ process'[p].accept = process[p].accept
  <2>1. process[p] \in ProcessRecords
    BY DEF IInv, RecordsOK
  <2>2. process'[p] = [process[p] EXCEPT !.modified = IsRunning(p)]
    BY DEF ModifyExecutable
  <2>3. IsRunning(p) \in BOOLEAN
    BY DEF IsRunning
  <2> QED
    BY <2>1, <2>2, <2>3 DEF ProcessRecords, SameServer
<1>3. process' \in [Procs -> ProcessRecords]
  BY <1>2 DEF ModifyExecutable
<1>4. PortOK' /\ ProgramWritten'
  <2>1. \A p \in Procs : process'[p].address = process[p].address /\ process'[p].phase = process[p].phase
    BY <1>2 DEF SameServer
  <2> QED
    BY <1>1, <2>1 DEF IInv, PortOK, ProgramWritten
<1>5. (\A f : DetectedBackends(f)' = DetectedBackends(f)) /\ Told' = Told
  BY <1>1, DetectedSame, ToldSame
<1>6. ASSUME NEW p \in Procs PROVE Fits(process[p])'
  <2> PICK s : s = process'[p]
    OBVIOUS
  <2>1. Fits(process[p]) /\ Guarded(process[p])
    BY DEF IInv, ProcessesOK, Fits
  <2>2. Guarded(s)
    BY <1>2, <2>1 DEF Guarded, SameServer
  <2>3. Fits(s)
    BY <1>2, <2>1, <2>2, SameServerFits
  <2>4. Undecided(s) => Undecided(process[p])'
    BY <1>1, <1>5 DEF Undecided
  <2>5. Decided(s) => Decided(process[p])'
    BY <1>1, <1>5 DEF Decided
  <2>6. Guarded(s) => Guarded(process[p])'
    BY <1>1 DEF Guarded
  <2> QED
    BY <2>3, <2>4, <2>5, <2>6 DEF Fits
<1>7. HostOK' /\ host' \in HostRecords /\ conn' \in [Conns -> ConnRecords] /\ TakenOK'
  BY <1>1, UnmovedOK DEF IInv, HostOK, RecordsOK
<1> QED
  BY <1>3, <1>4, <1>6, <1>7 DEF IInv, RecordsOK, ProcessesOK

-----------------------------------------------------------------------------
(* The settings. *)

\* What a change of the settings leaves: what was linked, where the processes were started.
SameHost ==
  /\ host' \in HostRecords /\ host'.order = host.order /\ host'.build = host.build
  /\ host'.environment = host.environment /\ host'.program = host.program

\* Before any process runs the settings may change.
LEMMA SettingsStep ==
  ASSUME IInv, SameHost, \A p \in Procs : process[p].phase = "none", UNCHANGED <<process, conn>>
  PROVE  IInv'
<1>1. HostOK' /\ ProgramWritten'
  BY DEF SameHost, IInv, HostOK, ProgramWritten
<1>2. \A f : DetectedBackends(f)' = DetectedBackends(f)
  BY DetectedSame DEF SameHost
<1>3. ASSUME NEW p \in Procs PROVE Fits(process[p])' /\ process[p].address = Nowhere
  <2>1. Undecided(process[p]) /\ Guarded(process[p])
    BY DEF IInv, ProcessesOK, Fits
  <2>2. Undecided(process[p])' /\ process[p].address = Nowhere
    BY <1>2, <2>1 DEF Undecided, SameHost
  <2>3. Guarded(process[p])'
    BY <2>1 DEF Guarded, NoDatabase
  <2> QED
    BY <2>2, <2>3 DEF Fits
<1>4. PortOK'
  BY <1>3 DEF PortOK
<1>5. RecordsOK' /\ TakenOK'
  BY UnmovedOK DEF SameHost, IInv, RecordsOK
<1> QED
  BY <1>1, <1>3, <1>4, <1>5 DEF IInv, ProcessesOK

LEMMA ConfigureStep ==
  ASSUME IInv, Configure
  PROVE  IInv'
<1> DEFINE settings == host.settings
<1>1. /\ host \in HostRecords /\ settings \in [type : Types \union {None, "unknown"}, port : Nat, database : DatabaseAnswers]
  BY DEF IInv, RecordsOK, HostRecords
<1>2. ASSUME NEW answer \in Configurations, ConfigureHttpd(answer.type, answer.port) PROVE IInv'
  <2>1. PICK port \in Nat : host' = [host EXCEPT !.settings.type = answer.type, !.settings.port = port]
    BY <1>1, <1>2, ConfigurationsAssumption DEF ConfigureHttpd, HostRecords
  <2>2. answer.type \in Types
    BY <1>2 DEF ConfigureHttpd, IsKnown, Backends, FcgiBackends, SupportedSocketTypes, Types, Factories
  <2>3. PICK new : new = [settings EXCEPT !.type = answer.type, !.port = port]
    OBVIOUS
  <2>4. new \in [type : Types \union {None, "unknown"}, port : Nat, database : DatabaseAnswers]
    BY <1>1, <2>2, <2>3
  <2>5. host' = [host EXCEPT !.settings = new]
    BY <1>1, <2>1, <2>3 DEF HostRecords
  <2>6. SameHost
    BY <1>1, <2>4, <2>5 DEF SameHost, HostRecords
  <2> QED
    BY <1>2, <2>6, SettingsStep DEF ConfigureHttpd
<1>3. ASSUME NEW answer \in Databases, ConfigureDatabase(answer) PROVE IInv'
  <2>1. PICK new : new = [settings EXCEPT !.database = DatabaseSettings(answer)]
    OBVIOUS
  <2>2. new \in [type : Types \union {None, "unknown"}, port : Nat, database : DatabaseAnswers]
    BY <1>1, <2>1 DEF DatabaseAnswers
  <2>3. host' = [host EXCEPT !.settings = new]
    BY <1>1, <1>3, <2>1 DEF HostRecords, ConfigureDatabase
  <2>4. SameHost
    BY <1>1, <2>2, <2>3 DEF SameHost, HostRecords
  <2> QED
    BY <1>3, <2>4, SettingsStep DEF ConfigureDatabase
<1> QED
  BY <1>2, <1>3 DEF Configure

\* The second constructor of Manager writes what is there already, if a process runs.
LEMMA SpawnWrites ==
  ASSUME IInv, NEW p \in Procs, Spawn(p)
  PROVE  /\ SameHost /\ host'.settings.database = host.settings.database
         /\ host.program # None => host'.settings.type = host.program.type /\ host'.settings.port = host.program.port
         /\ (\E q \in Procs : process[q].phase # "none") =>
              host'.settings.type = host.settings.type /\ host'.settings.port = host.settings.port
<1> DEFINE settings == host.settings
<1>1. /\ host \in HostRecords /\ settings \in [type : Types \union {None, "unknown"}, port : Nat, database : DatabaseAnswers]
  BY DEF IInv, RecordsOK, HostRecords
<1>2. PICK new : new = SettingsOf(host.program)
  OBVIOUS
<1>3. host' = [host EXCEPT !.settings = new]
  BY <1>2 DEF Spawn
<1>4. /\ new \in [type : Types \union {None, "unknown"}, port : Nat, database : DatabaseAnswers]
      /\ new.database = settings.database
      /\ host.program = None => new = settings
      /\ host.program # None => new.type = host.program.type /\ new.port = host.program.port
  <2>1. CASE host.program = None
    BY <1>1, <1>2, <2>1 DEF SettingsOf
  <2>2. CASE host.program # None
    <3>1. host.program.type \in Types \union {"unknown"} /\ host.program.port \in Nat
      BY <2>2 DEF IInv, HostOK
    <3>2. new = [settings EXCEPT !.type = host.program.type, !.port = host.program.port]
      BY <1>2, <2>2 DEF SettingsOf
    <3> QED
      BY <1>1, <2>2, <3>1, <3>2
  <2> QED
    BY <2>1, <2>2
<1>5. host'.settings = new /\ SameHost
  BY <1>1, <1>3, <1>4 DEF SameHost, HostRecords
<1> QED
  BY <1>4, <1>5 DEF IInv, ProgramWritten

LEMMA SpawnStep ==
  ASSUME IInv, NEW p \in Procs, Spawn(p)
  PROVE  IInv'
<1> DEFINE started == \E q \in Procs : process[q].phase # "none"
<1>1. /\ SameHost /\ host'.settings.database = host.settings.database
      /\ host.program # None => host'.settings.type = host.program.type /\ host'.settings.port = host.program.port
      /\ started => host'.settings.type = host.settings.type /\ host'.settings.port = host.settings.port
  BY SpawnWrites
<1>2. /\ process[p] \in ProcessRecords /\ process[p].phase = "none"
      /\ process' = [process EXCEPT ![p].phase = "choosing"]
  BY DEF Spawn, IInv, RecordsOK
<1>3. PICK r : r = [process[p] EXCEPT !.phase = "choosing"]
  OBVIOUS
<1>4. /\ r \in ProcessRecords /\ r.phase = "choosing" /\ r.next = process[p].next
      /\ r.candidate = process[p].candidate /\ r.interface = process[p].interface /\ r.live = process[p].live
      /\ r.address = process[p].address /\ r.accept = process[p].accept /\ r.database = process[p].database
  BY <1>2, <1>3 DEF ProcessRecords, Phases
<1>5. process' \in [Procs -> ProcessRecords] /\ process'[p] = r /\ \A q \in Procs \ {p} : process'[q] = process[q]
  BY <1>2, <1>3, <1>4 DEF IInv, RecordsOK
<1>6. HostOK' /\ ProgramWritten'
  BY <1>1 DEF SameHost, IInv, HostOK, ProgramWritten
<1>7. (\A f : DetectedBackends(f)' = DetectedBackends(f)) /\ (started => Told' = Told)
  BY <1>1, DetectedSame, ToldSame DEF SameHost
<1>8. Undecided(r) /\ Guarded(r)
  <2>1. Undecided(process[p]) /\ Guarded(process[p])
    BY <1>2 DEF IInv, ProcessesOK, Fits
  <2>2. Undecided(r)
    BY <1>4, <2>1 DEF Undecided
  <2>3. Guarded(r)
    BY <1>2, <1>4, <2>1 DEF Guarded
  <2> QED
    BY <2>2, <2>3
<1>9. ASSUME NEW q \in Procs PROVE Fits(process[q])'
  <2> PICK s : s = process'[q]
    OBVIOUS
  <2>1. Fits(s) /\ (s.phase = "running" => started)
    BY <1>4, <1>5, <1>8 DEF IInv, ProcessesOK, Fits
  <2>2. Undecided(s) => Undecided(process[q])'
    BY <1>1, <1>7 DEF Undecided, SameHost
  <2>3. started /\ Decided(s) => Decided(process[q])'
    BY <1>7 DEF Decided
  <2>4. Guarded(s) => Guarded(process[q])'
    BY <1>1 DEF Guarded
  <2> QED
    BY <2>1, <2>2, <2>3, <2>4 DEF Fits
<1>10. PortOK'
  <2>1. \A q \in Procs : process'[q].address = process[q].address
    BY <1>4, <1>5
  <2>2. \A q \in Procs : process[q].address # Nowhere => started
    BY DEF IInv, ProcessesOK, Fits, Undecided
  <2> QED
    BY <1>1, <2>1, <2>2 DEF IInv, PortOK
<1>11. conn' \in [Conns -> ConnRecords] /\ TakenOK'
  <2>1. CASE UNCHANGED conn
    BY <2>1, UnmovedOK
  <2>2. CASE \E c \in Conns : conn' = [conn EXCEPT ![c] = [phase |-> "pending", address |-> <<"stdin", p>>, process |-> None]]
    <3>1. PICK c \in Conns : conn' = [conn EXCEPT ![c] = [phase |-> "pending", address |-> <<"stdin", p>>, process |-> None]]
      BY <2>2
    <3>2. PICK d \in ConnRecords : d.phase = "pending" /\ conn' = [conn EXCEPT ![c] = d]
      BY <3>1 DEF ConnRecords, Addresses
    <3> QED
      BY <3>2 DEF IInv, RecordsOK, TakenOK
  <2> QED
    BY <2>1, <2>2 DEF Spawn
<1> QED
  BY <1>1, <1>5, <1>6, <1>9, <1>10, <1>11 DEF SameHost, IInv, RecordsOK, ProcessesOK

-----------------------------------------------------------------------------
(* The inductive invariant. *)

LEMMA InitIInv ==
  ASSUME Init
  PROVE  IInv
<1>1. PICK h \in Hosts :
        host = [order |-> h.order, build |-> h.build, environment |-> h.environment, program |-> h.program,
                settings |-> [type |-> None, port |-> 0, database |-> None]]
  BY DEF Init
<1>2. host \in HostRecords /\ HostOK
  BY <1>1, HostsAssumption DEF HostRecords, HostOK, DatabaseAnswers
<1>3. \A p \in Procs : process[p] = New
  BY DEF Init
<1>4. New \in ProcessRecords /\ Fits(New) /\ New.address = Nowhere /\ New.phase = "none"
  BY <1>2, NewFits DEF New
<1>5. process \in [Procs -> ProcessRecords] /\ ProcessesOK /\ PortOK /\ ProgramWritten
  BY <1>3, <1>4 DEF Init, ProcessesOK, PortOK, ProgramWritten
<1>6. conn \in [Conns -> ConnRecords] /\ TakenOK
  BY DEF Init, NoConn, ConnRecords, TakenOK
<1> QED
  BY <1>2, <1>5, <1>6 DEF IInv, RecordsOK

LEMMA NextIInv ==
  ASSUME IInv, [Next]_vars
  PROVE  IInv'
<1>1. CASE Configure
  BY <1>1, ConfigureStep
<1>2. ASSUME NEW p \in Procs, Spawn(p) PROVE IInv'
  BY <1>2, SpawnStep
<1>3. ASSUME NEW p \in Procs, Choose(p) PROVE IInv'
  BY <1>3, ChooseStep
<1>4. ASSUME NEW p \in Procs, Accept(p) PROVE IInv'
  BY <1>4, AcceptStep
<1>5. ASSUME NEW p \in Procs, HaveConnection(p) \/ AddDatabase(p) \/ CloseDatabase(p) PROVE IInv'
  BY <1>5, HaveConnectionStep, AddDatabaseStep, CloseDatabaseStep
<1>6. ASSUME NEW p \in Procs, Shutdown(p) \/ StopServer(p) PROVE IInv'
  BY <1>6, ShutdownStep, StopServerStep
<1>7. ASSUME NEW c \in Conns, Connect(c) \/ Announce(c) \/ Answer(c) PROVE IInv'
  BY <1>7, ConnectStep, AnnounceStep, AnswerStep
<1>8. CASE ModifyExecutable
  BY <1>8, ModifyExecutableStep
<1>9. CASE UNCHANGED vars
  BY <1>9, ConnStep, UnmovedOK DEF vars
<1> QED
  BY <1>1, <1>2, <1>3, <1>4, <1>5, <1>6, <1>7, <1>8, <1>9 DEF Next

LEMMA AlwaysIInv == Spec => []IInv
<1>1. Init => IInv
  BY InitIInv
<1>2. IInv /\ [Next]_vars => IInv'
  BY NextIInv
<1> QED
  BY <1>1, <1>2, PTL DEF Spec

LEMMA SmallModulo == \A n \in Nat, m \in Nat \ {0} : n < m => n % m = n
  BY SMT

\* Every process is in one of the states that Manager, the interfaces and Database know:
\* no interface lives but the one it keeps or serves with, and haveConnection() never finds
\* a guard without its connection, or with other settings than the host's.
THEOREM TypeCorrect == Spec => []ProcessTypeOK
<1>1. IInv => ProcessTypeOK
  <2> SUFFICES ASSUME IInv PROVE ProcessTypeOK
    OBVIOUS
  <2>1. host.settings.type \in Types \union {None, "unknown"} /\ host.settings.port \in Nat
    BY DEF IInv, RecordsOK, HostRecords
  <2>2. ASSUME NEW p \in Procs
        PROVE  /\ process[p].phase \in {"none", "choosing", "running", "ended", "aborted"}
               /\ process[p].live \subseteq Factories
               /\ process[p].live \subseteq {process[p].candidate, process[p].interface}
               /\ process[p].address = Nowhere \/ process[p].address \in Addresses
               /\ process[p].accept \in {"idle", "locking", "accepting"}
               /\ process[p].handler \in {"default", "syslog", "undefined"}
               /\ process[p].database.state \in {"none", "open", "closed", "gone"}
               /\ process[p].database.guard <=> process[p].database.state # "none"
               /\ process[p].database.guard => process[p].database.settings = host.settings.database
    <3>1. process[p] \in ProcessRecords /\ Fits(process[p])
      BY DEF IInv, RecordsOK, ProcessesOK
    <3>2. process[p].live \subseteq {process[p].candidate, process[p].interface}
      BY <3>1 DEF Fits, Undecided, Decided
    <3> QED
      BY <3>1, <3>2 DEF ProcessRecords, DatabaseRecords, Phases, Fits, Guarded
  <2>3. ASSUME NEW c \in Conns
        PROVE  /\ conn[c].phase \in {"none", "pending", "accepted", "announced", "done", "closed", "lost"}
               /\ conn[c].phase \in {"accepted", "announced", "done", "lost"} => conn[c].process \in Procs
    BY DEF IInv, RecordsOK, ConnRecords, TakenOK
  <2> QED
    BY <2>1, <2>2, <2>3 DEF ProcessTypeOK
<1> QED
  BY <1>1, AlwaysIInv, PTL

\* Whatever the order of the plugins, the environment, the settings and what becomes of
\* other processes, a process serves through the one interface that it was told to
\* (CommunicationInterface.h:48), at the port of the settings, which is its own.
THEOREM ListensCorrect == Spec => []ListensAsTold
<1>1. IInv => ListensAsTold
  <2> SUFFICES ASSUME IInv, NEW p \in Procs, process[p].interface # None
               PROVE  /\ process[p].backend \in Told /\ process[p].live = {process[p].interface}
                      /\ process[p].address[1] = "tcp" =>
                           /\ host.settings.port < Word => process[p].address[2] = host.settings.port
                           /\ \A q \in Procs \ {p} : process[q].address # process[p].address
    BY DEF ListensAsTold
  <2>1. process[p].phase = "running"
    BY DEF IInv, ProcessesOK, Fits, Undecided
  <2>2. process[p].backend \in Told /\ process[p].live = {process[p].interface} /\ process[p].address # Nowhere
    BY <2>1 DEF IInv, ProcessesOK, Fits, Decided
  <2>3. host.settings.port \in Nat /\ (host.settings.port < Word => host.settings.port % Word = host.settings.port)
    BY WordAssumption, SmallModulo DEF IInv, RecordsOK, HostRecords
  <2>4. process[p].address # Nowhere /\ process[p].address[1] = "tcp" =>
          /\ process[p].address[2] = host.settings.port % Word
          /\ \A q \in Procs \ {p} : process[q].address # process[p].address
    BY DEF IInv, PortOK
  <2> QED
    BY <2>2, <2>3, <2>4
<1> QED
  BY <1>1, AlwaysIInv, PTL
=============================================================================
