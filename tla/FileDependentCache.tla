------------------------- MODULE FileDependentCache -------------------------
(***************************************************************************)
(* The two caches of a process, FileCache and RequestCache, over one       *)
(* backend, as the threads of services use them.  What a call does to the  *)
(* locks, to the backend and to the watcher are steps of it, in the order  *)
(* of the code; between two of them any other thread may run.              *)
(*                                                                         *)
(* The watcher's mutex belongs to one cache; the read-write lock, of the   *)
(* backend, is shared by both, as is all that a RamCache holds.            *)
(***************************************************************************)
EXTENDS Integers, Sequences, FiniteSets, SequencesExt, FiniteSetsExt

CONSTANTS Workers, Main,  \* the threads; fileChanged() is delivered to Main
          Files, Keys,    \* the keys of the FileCache, and of the RequestCache
          None,
          Backends,       \* "RamCache", "MemcachedCache"
          MaxSize,        \* of a RamCache
          Size,           \* of each version of a file
          MaxChanges, MaxCalls  \* bounds: changes of a file, calls of all workers

ASSUME SizeAssumption == MaxSize \in Nat /\ MaxChanges \in Nat /\ Size \in [0..MaxChanges -> Nat]
ASSUME ThreadAssumption == None \notin Workers \union {Main}

Threads == Workers \union {Main}
Caches == {"FileCache", "RequestCache"}
Entries == ({"FileCache"} \X Files) \union ({"RequestCache"} \X Keys)

VARIABLES
  backend,  \* its kind, what it stores, and the keys by their last use, latest first
  locks,    \* who holds the mutex of each cache, and the read-write lock
  watch,    \* for each cache: m_watcher's files, those with a change that is not yet
            \* delivered, and m_filesToFragments
  version,  \* of each file
  thread,   \* the steps left of a thread's call, its key, file and entry
  calls,    \* that the workers have made
  broken,   \* qFatal(), or threads in a list of uses, or in a connection, at the same time
  missed    \* the entries that were older than their file when they were stored, or
            \* became so while the cache did not have them depend on it (not in the code)

vars == <<backend, locks, watch, version, thread, calls, broken, missed>>

\* A CacheEntry.  Its constructors assign their members to themselves, which leaves it
\* invalid and without data; only a subclass, which has the setters, makes a valid one.
Entry == [file : Files, version : 0..MaxChanges, valid : BOOLEAN]
NewEntry(f, valid) == [file |-> f, version |-> version[f], valid |-> valid]
Cost(entry) == IF entry.valid THEN Size[entry.version] ELSE 0

Stored == DOMAIN backend.store
TotalCost(store, list) ==
  LET total[n \in 0..Len(list)] == IF n = 0 THEN 0 ELSE total[n - 1] + Cost(store[list[n]])
  IN total[Len(list)]

CacheTypeOK ==
  /\ backend.kind \in Backends /\ Stored \subseteq Entries
  /\ \A k \in Stored : backend.store[k] \in Entry
  /\ backend.kind = "RamCache" =>
       /\ ToSet(backend.recent) = Stored /\ IsInjective(backend.recent)
       /\ TotalCost(backend.store, backend.recent) <= MaxSize
  /\ locks.writer # None => locks.readers = {}
  /\ \A c \in Caches : locks.mutex[c] \in Threads \union {None}
  /\ missed \subseteq Entries /\ broken \in BOOLEAN

Idle == [steps |-> <<>>, key |-> None, file |-> None, entry |-> None]

\* loadSettings() of the factories; without a setting it is the RamCache.
Loads(kind, setting) == setting = kind \/ (setting = None /\ kind = "RamCache")

Init ==
  /\ \E kind \in Backends, setting \in Backends \union {None} :
       Loads(kind, setting) /\ backend = [kind |-> kind, store |-> <<>>, recent |-> <<>>]
  /\ locks = [mutex |-> [c \in Caches |-> None], readers |-> {}, writer |-> None]
  /\ watch = [c \in Caches |-> [files |-> {}, changed |-> {}, fragments |-> {}]]
  /\ version = [f \in Files |-> 0]
  /\ thread = [t \in Threads |-> Idle] /\ calls = 0
  /\ broken = FALSE /\ missed = {}

-----------------------------------------------------------------------------
(* The calls, as the steps that they take. *)

ValueSteps == <<"lockRead", "lookup", "relink">>

\* FileCache::setValue, and a variant for mutation.
SetValueSteps_Locked == <<"lockWrite", "lockMutex", "register", "insert">>
SetValueSteps == <<"lockWrite", "insert", "lockMutex", "register">>

RemoveAssociatedSteps == <<"lockMutex", "unwatch", "lockWrite", "removeAssociated">>
RemoveSteps == RemoveAssociatedSteps \o <<"lockWrite", "remove">>

\* A response: addDependency() of the RequestCache, then its setValue().
StoreResponseSteps == <<"lockMutex", "register", "readFile", "lockWrite", "insert">>

CacheOf(t) == thread[t].key[1]
IsNext(t, step) == thread[t].steps # <<>> /\ Head(thread[t].steps) = step
At(t, step) == ~broken /\ IsNext(t, step)
IsIdle(t) == ~broken /\ thread[t].steps = <<>>

Start(t, steps, key, file, entry) ==
  /\ IsIdle(t)
  /\ thread' = [thread EXCEPT ![t] = [steps |-> steps, key |-> key, file |-> file, entry |-> entry]]

\* The next n steps of t are done.
Done(t, n) ==
  LET call == thread[t] rest == SubSeq(call.steps, n + 1, Len(call.steps)) IN
  thread' = [thread EXCEPT ![t] = IF Len(call.steps) = n THEN Idle ELSE [call EXCEPT !.steps = rest]]

GetValue(t) ==
  /\ \E k \in Entries : Start(t, ValueSteps, k, None, None)
  /\ UNCHANGED <<backend, locks, watch, version, broken, missed>>

\* A file is read, and stored under its own name.
SetValue(t) ==
  /\ \E f \in Files, valid \in BOOLEAN :
       Start(t, SetValueSteps, <<"FileCache", f>>, f, NewEntry(f, valid))
  /\ UNCHANGED <<backend, locks, watch, version, broken, missed>>

StoreResponse(t) ==
  /\ \E k \in Keys, f \in Files : Start(t, StoreResponseSteps, <<"RequestCache", k>>, f, None)
  /\ UNCHANGED <<backend, locks, watch, version, broken, missed>>

RemoveFile(t) ==
  /\ \E f \in Files : Start(t, RemoveSteps, <<"FileCache", f>>, f, None)
  /\ UNCHANGED <<backend, locks, watch, version, broken, missed>>

\* fileChanged(), unless the file is no longer watched.
FileChanged(c, f) ==
  /\ f \in watch[c].changed /\ IsIdle(Main)
  /\ watch' = [watch EXCEPT ![c].changed = @ \ {f}]
  /\ IF f \in watch[c].files THEN Start(Main, RemoveAssociatedSteps, <<c, None>>, f, None)
     ELSE UNCHANGED thread
  /\ UNCHANGED <<backend, locks, version, calls, broken, missed>>

-----------------------------------------------------------------------------
(* The locks.  A reader lets waiting writers go first. *)

LockMutex(t) ==
  /\ At(t, "lockMutex") /\ locks.mutex[CacheOf(t)] \in {None, t}
  /\ locks' = [locks EXCEPT !.mutex[CacheOf(t)] = t]
  /\ Done(t, 1)
  /\ UNCHANGED <<backend, watch, version, broken, missed>>

LockRead(t) ==
  /\ At(t, "lockRead") /\ locks.writer = None /\ \A u \in Threads : ~At(u, "lockWrite")
  /\ locks' = [locks EXCEPT !.readers = @ \union {t}]
  /\ Done(t, 1)
  /\ UNCHANGED <<backend, watch, version, broken, missed>>

LockWrite(t) ==
  /\ At(t, "lockWrite") /\ locks.writer = None /\ locks.readers = {}
  /\ locks' = [locks EXCEPT !.writer = t]
  /\ Done(t, 1)
  /\ UNCHANGED <<backend, watch, version, broken, missed>>

-----------------------------------------------------------------------------
(* RamCache and MemcachedCache. *)

\* QCache::trim() for an entry of that cost.
Kept(recent, cost) ==
  LET fits(n) == TotalCost(backend.store, SubSeq(recent, 1, n)) + cost <= MaxSize
  IN SubSeq(recent, 1, Max({n \in 0..Len(recent) : fits(n)}))

\* The list without those keys, in its order.
Leaving(list, keys) ==
  LET left[n \in 0..Len(list)] ==
        IF n = 0 THEN <<>> ELSE IF list[n] \in keys THEN left[n - 1] ELSE Append(left[n - 1], list[n])
  IN left[Len(list)]

Only(keys) == [k \in keys \intersect Stored |-> backend.store[k]]
Without(keys) ==
  [backend EXCEPT !.store = Only(Stored \ keys), !.recent = Leaving(@, keys)]

\* What the store is told that an entry costs; and a variant for mutation, the default
\* of QCache::insert().
InsertCost_Default(entry) == 1
InsertCost(entry) == Cost(entry)

With(key, entry) ==
  LET others == Leaving(backend.recent, {key})
      kept == IF backend.kind = "RamCache" THEN Kept(others, InsertCost(entry)) ELSE <<>>
      keys == IF backend.kind = "RamCache" THEN ToSet(kept) ELSE Stored
  IN
  IF backend.kind = "RamCache" /\ InsertCost(entry) > MaxSize THEN Without({key})
  ELSE [backend EXCEPT !.store = [k \in keys \union {key} |-> IF k = key THEN entry ELSE backend.store[k]],
                       !.recent = IF backend.kind = "RamCache" THEN <<key>> \o kept ELSE @]

\* QCache::object() has to move an entry to the front of the list of uses.
Relinks(key) ==
  backend.kind = "RamCache" /\ key \in Stored /\ key # Head(backend.recent)

\* All threads have the one connection of libmemcached: two in memcached_get() may break it.
ShareConnection(t) == backend.kind = "MemcachedCache" /\ \E u \in Threads \ {t} : At(u, "lookup")

\* Until here the lock lets several readers in; two in the list break it.
Lookup(t) ==
  /\ At(t, "lookup")
  /\ IF Relinks(thread[t].key)
     THEN /\ Done(t, 1) /\ UNCHANGED locks
          /\ broken' = (\E u \in Threads : At(u, "relink"))
     ELSE /\ Done(t, 2) /\ locks' = [locks EXCEPT !.readers = @ \ {t}]
          /\ broken' \in {FALSE, ShareConnection(t)}
  /\ UNCHANGED <<backend, watch, version, missed>>

Relink(t) ==
  /\ At(t, "relink")
  /\ backend' = [backend EXCEPT !.recent = <<thread[t].key>> \o Leaving(@, {thread[t].key})]
  /\ locks' = [locks EXCEPT !.readers = @ \ {t}]
  /\ Done(t, 1)
  /\ UNCHANGED <<watch, version, broken, missed>>

ReadFile(t) ==
  /\ At(t, "readFile")
  /\ thread' = [thread EXCEPT ![t].steps = Tail(@), ![t].entry = NewEntry(thread[t].file, TRUE)]
  /\ UNCHANGED <<backend, locks, watch, version, broken, missed>>

Insert(t) ==
  LET entry == thread[t].entry IN
  /\ At(t, "insert")
  /\ backend' = With(thread[t].key, entry)
  /\ locks' = [locks EXCEPT !.writer = None]
  /\ missed' = IF entry.version = version[entry.file] THEN missed \ {thread[t].key}
               ELSE missed \union {thread[t].key}
  /\ Done(t, 1)
  /\ UNCHANGED <<watch, version, broken>>

\* memcached_delete() of what is not there is a fatal error.
Erase(keys) ==
  /\ backend' = Without(keys)
  /\ broken' = (backend.kind = "MemcachedCache" /\ ~(keys \subseteq Stored))
  /\ locks' = [locks EXCEPT !.writer = None]

RemoveKey(t) ==
  /\ At(t, "remove")
  /\ Erase({thread[t].key})
  /\ Done(t, 1)
  /\ UNCHANGED <<watch, version, missed>>

-----------------------------------------------------------------------------
(* FileDependentCache. *)

\* addDependency(), with the mutex.
Register(t) ==
  LET file == thread[t].file IN
  /\ At(t, "register")
  /\ watch' = [watch EXCEPT ![CacheOf(t)].files = @ \union {file},
                            ![CacheOf(t)].fragments = @ \union {<<file, thread[t].key>>}]
  /\ locks' = [locks EXCEPT !.mutex[CacheOf(t)] = None]
  /\ Done(t, 1)
  /\ UNCHANGED <<backend, version, broken, missed>>

Unwatch(t) ==
  /\ At(t, "unwatch")
  /\ watch' = [watch EXCEPT ![CacheOf(t)].files = @ \ {thread[t].file}]
  /\ Done(t, 1)
  /\ UNCHANGED <<backend, locks, version, broken, missed>>

\* m_filesToFragments.values(path), and a variant for mutation: keys(path).
Associated_Keys(c, file) == {k \in Entries : <<k[2], <<c, file>>>> \in watch[c].fragments}
Associated(c, file) == {k \in Entries : <<file, k>> \in watch[c].fragments}

RemoveAssociated(t) ==
  LET c == CacheOf(t) file == thread[t].file IN
  /\ At(t, "removeAssociated")
  /\ backend' = Without(Associated(c, file))
  /\ broken' = (backend.kind = "MemcachedCache" /\ ~(Associated(c, file) \subseteq Stored))
  /\ watch' = [watch EXCEPT ![c].fragments = {fragment \in @ : fragment[1] # file}]
  /\ locks' = [locks EXCEPT !.writer = None, !.mutex[c] = None]
  /\ Done(t, 1)
  /\ UNCHANGED <<version, missed>>

-----------------------------------------------------------------------------
(* External: a file is written to; memcached drops an entry. *)

DependsOn(k, f) == f \in watch[k[1]].files /\ <<f, k>> \in watch[k[1]].fragments

ChangeFile(f) ==
  /\ ~broken /\ version[f] < MaxChanges
  /\ version' = [version EXCEPT ![f] = @ + 1]
  /\ watch' = [c \in Caches |-> [watch[c] EXCEPT !.changed = IF f \in watch[c].files THEN @ \union {f} ELSE @]]
  /\ missed' = missed \union {k \in Stored : backend.store[k].file = f /\ ~DependsOn(k, f)}
  /\ UNCHANGED <<backend, locks, thread, calls, broken>>

Evict(key) ==
  /\ ~broken /\ backend.kind = "MemcachedCache" /\ key \in Stored
  /\ backend' = Without({key})
  /\ UNCHANGED <<locks, watch, version, thread, calls, broken, missed>>

Begin(t) ==
  /\ calls < MaxCalls /\ calls' = calls + 1
  /\ GetValue(t) \/ SetValue(t) \/ StoreResponse(t) \/ RemoveFile(t)
Step(t) ==
  /\ \/ LockMutex(t) \/ LockRead(t) \/ LockWrite(t) \/ Lookup(t) \/ Relink(t) \/ ReadFile(t)
     \/ Insert(t) \/ RemoveKey(t) \/ Register(t) \/ Unwatch(t) \/ RemoveAssociated(t)
  /\ UNCHANGED calls

Next ==
  \/ \E t \in Workers : Begin(t)
  \/ \E t \in Threads : Step(t)
  \/ \E c \in Caches, f \in Files : FileChanged(c, f)
  \/ \E f \in Files : ChangeFile(f)
  \/ \E key \in Entries : Evict(key)

Spec == Init /\ [][Next]_vars

\* Each thread runs, and gets a lock that stays free for it; so does the event loop.
FairSpec ==
  /\ Spec
  /\ \A t \in Threads : WF_vars(Step(t))
  /\ WF_vars(\E c \in Caches, f \in Files : FileChanged(c, f))

-----------------------------------------------------------------------------
(* Properties. *)

\* t is about to remove what depends on the file, with the mutex of the cache or on its
\* way to it.
Removing(t, c, file) ==
  "removeAssociated" \in ToSet(thread[t].steps) /\ CacheOf(t) = c /\ thread[t].file = file

\* An entry that is older than its file is going to be removed, whatever other threads
\* store, remove and register meanwhile (FileDependentCache.h:33); but not if the file
\* changed before addDependency(), or after another change that has withdrawn it.
StaleIsRemoved ==
  \A k \in Stored \ missed :
    LET entry == backend.store[k] IN
    entry.version # version[entry.file] /\ ~broken =>
      entry.file \in watch[k[1]].changed \/ \E t \in Threads : Removing(t, k[1], entry.file)

\* Every call comes back: mutex and read-write lock are not waited for in a circle.
CallsReturn ==
  \A t \in Threads : thread[t].steps # <<>> ~> thread[t].steps = <<>> \/ broken
=============================================================================
