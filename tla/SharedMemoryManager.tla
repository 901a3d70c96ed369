------------------------- MODULE SharedMemoryManager -------------------------
(***************************************************************************)
(* The shared memory manager (core/common/src/shared_memory_manager.cpp)   *)
(* inside one process: managers, each a map from names to mappings guarded *)
(* by a mutex, the threads that call them, and what they work on: the      *)
(* descriptor table and the address space of the process, which its other  *)
(* parts use too, and the shared memory objects, which other processes     *)
(* resize when they register the same key.                                 *)
(*                                                                         *)
(* A closed descriptor number is given to the next file that is opened, and *)
(* the manager keeps the numbers of descriptors it has closed.             *)
(*                                                                         *)
(* The API has uses that no promise survives; `misuse' (history) remembers *)
(* them, and the properties say which ones they exclude.                   *)
(*                                                                         *)
(* Not modelled: IsLocked (a try_lock and unlock for the log), failures of *)
(* ftruncate, removal of objects, and sums of sizes that overflow.         *)
(***************************************************************************)
EXTENDS Naturals, FiniteSets

CONSTANTS
    Threads, Managers, Names, Keys,
    Original,       \* the manager there is at first; the others are copies
    Fds,            \* the descriptor numbers the process may have open
    Addresses,      \* the places of its address space a mapping may take
    Sizes,          \* byte sizes that are registered
    Offsets,        \* offsets that are registered or asked for
    OtherSize,      \* size of the files of other parts of the process
    MaxCalls,       \* bound: calls of the API
    MaxOthers,      \* bound: files opened by others, resizes by other processes
    None            \* no record, no thread

\* What is mapped somewhere; an entry of shared_memory_map_; what a getter returns.
Mapping == [file : Keys \cup {"other"}, offset : Offsets, size : Sizes]

Info == [key : Keys, offset : Offsets, size : Sizes, fd : Fds, addr : Addresses]

Handle == [m : Managers, name : Names, addr : Addresses, offset : Nat, size : Sizes,
           locked : BOOLEAN, gone : BOOLEAN]

ASSUME ManagerAssumption ==
    /\ Original \in Managers
    /\ Fds \subseteq Nat /\ IsFiniteSet(Fds)
    /\ Sizes \subseteq Nat \ {0} /\ Offsets \subseteq Nat
    /\ OtherSize \in Nat /\ MaxCalls \in Nat /\ MaxOthers \in Nat
    /\ None \notin Threads /\ None \notin Managers /\ None \notin Names
    /\ None \notin Mapping /\ None \notin Info /\ None \notin Handle
    /\ "other" \notin Keys /\ "closed" \notin Keys

VARIABLES
    \* the system: the size of the object of a key, 0 if there is none
    objectSize,
    \* the process: what each descriptor number is open on, the numbers its other
    \* parts hold, what is mapped where
    fds, foreign, maps,
    \* the managers: shared_memory_map_, the holder of mu_, which ones exist
    shared_memory_map_, mu_, alive,
    \* the threads: the call each one is in, what its last call has given it
    call, handle,
    \* history, and the two bounds
    misuse, calls, others

system == <<objectSize, others>>
process == <<fds, foreign, maps>>
managers == <<shared_memory_map_, mu_, alive>>
threads == <<call, handle>>
vars == <<objectSize, fds, foreign, maps, shared_memory_map_, mu_, alive,
          call, handle, misuse, calls, others>>

Idle == [op |-> "none", step |-> "idle"]

Init ==
    /\ objectSize = [k \in Keys |-> 0]
    /\ fds = [d \in Fds |-> "closed"] /\ foreign = {}
    /\ maps = [a \in Addresses |-> None]
    /\ shared_memory_map_ = [m \in Managers |-> [n \in Names |-> None]]
    /\ mu_ = [m \in Managers |-> None]
    /\ alive = {Original}
    /\ call = [t \in Threads |-> Idle]
    /\ handle = [t \in Threads |-> None]
    /\ misuse = {} /\ calls = 0 /\ others = 0

-----------------------------------------------------------------------------
(* Files, mappings and the lock.                                           *)

ClosedFds == {d \in Fds : fds[d] = "closed"}

\* open and shm_open return the lowest closed number.
LowestClosed(d) == d \in ClosedFds /\ \A e \in ClosedFds : d <= e

FileSize(d) == IF fds[d] = "other" THEN OtherSize ELSE objectSize[fds[d]]

Registered(m) == {n \in Names : shared_memory_map_[m][n] # None}

\* The names under which a manager has the key already.
SameKey(m, key) == {n \in Registered(m) : shared_memory_map_[m][n].key = key}

\* SharedLockGuard: a call that finds mu_ free takes it.
Locks(t, m) == mu_[m] = None /\ mu_' = [mu_ EXCEPT ![m] = t]

\* The guard's destructor, also on the way of an exception.
Unlocks(m) == mu_' = [mu_ EXCEPT ![m] = None]

Returns(t) == call' = [call EXCEPT ![t] = Idle]

GoesTo(t, step) == call' = [call EXCEPT ![t].step = step]

\* mutant: an exception leaves the mutex locked
Throws_KeepsLock(t) == Returns(t) /\ UNCHANGED mu_

\* An exception leaves the call.
Throws(t) == Returns(t) /\ Unlocks(call[t].m)

\* A client calls the manager; nothing of the last call is used any more.
Call(t, request) ==
    /\ call[t] = Idle /\ calls < MaxCalls
    /\ request.m \in alive
    /\ call' = [call EXCEPT ![t] = request]
    /\ handle' = [handle EXCEPT ![t] = None]
    /\ calls' = calls + 1
    /\ UNCHANGED <<system, process, managers, misuse>>

-----------------------------------------------------------------------------
(* RegisterSystemSharedMemory.                                             *)

CallRegister(t) ==
    \E m \in Managers, n \in Names, k \in Keys, o \in Offsets, s \in Sizes :
        Call(t, [op |-> "register", step |-> "lock", m |-> m, name |-> n, key |-> k,
                 offset |-> o, size |-> s, fd |-> 0, addr |-> None])

\* With the lock: a name that is taken is refused; a key the manager has already
\* gives its old descriptor number; else the object is opened and resized.
OpenSharedMemoryRegion(t) ==
    LET c == call[t] IN
    /\ c.op = "register" /\ c.step = "lock"
    /\ \/ /\ mu_[c.m] = None
          /\ \/ c.name \in Registered(c.m)                          \* throw
             \/ SameKey(c.m, c.key) = {} /\ ClosedFds = {}          \* throw
          /\ Returns(t)
          /\ UNCHANGED <<objectSize, fds, mu_, misuse>>
       \/ /\ Locks(t, c.m)
          /\ c.name \notin Registered(c.m)
          /\ \E n \in SameKey(c.m, c.key) :
                call' = [call EXCEPT ![t].step = "check",
                                     ![t].fd = shared_memory_map_[c.m][n].fd]
          /\ misuse' = misuse \cup {"alias"}
          /\ UNCHANGED <<objectSize, fds>>
       \/ /\ Locks(t, c.m)
          /\ c.name \notin Registered(c.m)
          /\ SameKey(c.m, c.key) = {}
          /\ \E d \in Fds :
                /\ LowestClosed(d)
                /\ call' = [call EXCEPT ![t].step = "check", ![t].fd = d]
                /\ fds' = [fds EXCEPT ![d] = c.key]
          /\ objectSize' = [objectSize EXCEPT ![c.key] = c.size]     \* ftruncate
          /\ UNCHANGED misuse
    /\ UNCHANGED <<foreign, maps, shared_memory_map_, alive, handle, calls, others>>

\* fstat, and the bounds of the object.  A throw leaves a new descriptor open.
CheckSharedMemoryRegionSize(t) ==
    LET c == call[t] IN
    /\ c.op = "register" /\ c.step = "check"
    /\ IF fds[c.fd] = "closed" \/ c.offset + c.size > FileSize(c.fd)
       THEN Throws(t)
       ELSE GoesTo(t, "map") /\ UNCHANGED mu_
    /\ UNCHANGED <<system, process, shared_memory_map_, alive, handle, misuse, calls>>

\* mmap: anywhere; it fails on a closed descriptor, without room, and perhaps on
\* somebody else's file.
MapSharedMemory(t) ==
    LET c == call[t] IN
    /\ c.op = "register" /\ c.step = "map"
    /\ \/ /\ \/ fds[c.fd] \in {"closed", "other"}
             \/ \A a \in Addresses : maps[a] # None
          /\ Throws(t)
          /\ UNCHANGED maps
       \/ /\ fds[c.fd] # "closed"
          /\ \E a \in Addresses :
                /\ maps[a] = None
                /\ maps' = [maps EXCEPT ![a] = [file |-> fds[c.fd], offset |-> c.offset,
                                                size |-> c.size]]
                /\ call' = [call EXCEPT ![t].step = "close", ![t].addr = a]
          /\ UNCHANGED mu_
    /\ UNCHANGED <<system, fds, foreign, shared_memory_map_, alive, handle, misuse,
                   calls>>

\* close, which throws if the number is not open, and the new entry.
CloseSharedMemoryRegion(t) ==
    LET c == call[t] IN
    /\ c.op = "register" /\ c.step = "close"
    /\ \/ /\ fds[c.fd] = "closed"
          /\ UNCHANGED <<fds, shared_memory_map_>>
       \/ /\ fds[c.fd] # "closed"
          /\ fds' = [fds EXCEPT ![c.fd] = "closed"]
          /\ shared_memory_map_' = [shared_memory_map_ EXCEPT ![c.m][c.name] =
                 IF @ # None THEN @
                 ELSE [key |-> c.key, offset |-> c.offset, size |-> c.size,
                       fd |-> c.fd, addr |-> c.addr]]
    /\ Unlocks(c.m) /\ Returns(t)
    /\ UNCHANGED <<system, foreign, maps, alive, handle, misuse, calls>>

Register(t) == OpenSharedMemoryRegion(t) \/ CheckSharedMemoryRegionSize(t)
               \/ MapSharedMemory(t) \/ CloseSharedMemoryRegion(t)

-----------------------------------------------------------------------------
(* GetMemoryInfo and GetMemoryMap.                                         *)

\* mutant: only the beginning of the range is tested
OutOfBounds_BeginOnly(info, offset, size) == offset > info.offset + info.size

\* The range asked for ends behind what the entry says.
OutOfBounds(info, offset, size) == offset + size > info.offset + info.size

\* What is found for a name and a range: nothing, or where it is.
Found(m, n, offset, size) ==
    LET info == shared_memory_map_[m][n] IN
    IF info = None \/ OutOfBounds(info, offset, size)
    THEN None                                                       \* throw
    ELSE [m |-> m, name |-> n, addr |-> info.addr, offset |-> offset, size |-> size,
          locked |-> TRUE, gone |-> FALSE]

\* GetMemoryInfo: the lock is taken and released in one step, as nothing else can
\* be seen of it.
GetMemoryInfo(t) ==
    \E m \in alive, n \in Names, o \in Offsets, s \in Sizes :
        /\ call[t] = Idle /\ calls < MaxCalls
        /\ mu_[m] = None
        /\ handle' = [handle EXCEPT ![t] = Found(m, n, o, s)]
        /\ calls' = calls + 1
        /\ UNCHANGED <<system, process, managers, call, misuse>>

\* GetMemoryMap takes no lock.  What the pointer leads to is the whole entry.
GetMemoryMap(t) ==
    \E m \in alive, n \in Names :
        LET info == shared_memory_map_[m][n] IN
        /\ call[t] = Idle /\ calls < MaxCalls
        /\ info # None
        /\ handle' = [handle EXCEPT ![t] =
               [m |-> m, name |-> n, addr |-> info.addr, offset |-> 0,
                size |-> info.size, locked |-> FALSE, gone |-> FALSE]]
        /\ calls' = calls + 1
        /\ UNCHANGED <<system, process, managers, call, misuse>>

-----------------------------------------------------------------------------
(* Unregister, UnregisterAll, the destructor.                              *)

CallUnregister(t) ==
    \E m \in Managers, n \in Names :
        Call(t, [op |-> "unregister", step |-> "lock", m |-> m, name |-> n,
                 left |-> {}, destroy |-> FALSE])

\* UnregisterAll, by a client or by the destructor, which nothing may race with.
CallUnregisterAll(t) ==
    \E m \in Managers, destroy \in BOOLEAN :
        /\ destroy => \A u \in Threads : call[u] # Idle => call[u].m # m
        /\ Call(t, [op |-> "unregister", step |-> "lock", m |-> m, name |-> None,
                    left |-> {}, destroy |-> destroy])

LockToUnregister(t) ==
    LET c == call[t] IN
    /\ c.op = "unregister" /\ c.step = "lock"
    /\ c.name \in Registered(c.m) \cup {None}
    /\ Locks(t, c.m)
    /\ call' = [call EXCEPT ![t].step = "unmap",
                            ![t].left = IF c.name = None THEN Registered(c.m) ELSE {c.name}]
    /\ UNCHANGED <<system, process, shared_memory_map_, alive, handle, misuse, calls>>

\* Unregister of a name that is not there erases the end of the map, which no
\* process survives: all it holds goes back to the system.
UnregisterUnknown(t) ==
    LET c == call[t] IN
    /\ c.op = "unregister" /\ c.step = "lock"
    /\ c.name \notin Registered(c.m) \cup {None}
    /\ mu_[c.m] = None
    /\ fds' = [d \in Fds |-> "closed"] /\ foreign' = {}
    /\ maps' = [a \in Addresses |-> None]
    /\ shared_memory_map_' = [m \in Managers |-> [n \in Names |-> None]]
    /\ mu_' = [m \in Managers |-> None]
    /\ alive' = {}
    /\ call' = [u \in Threads |-> Idle] /\ handle' = [u \in Threads |-> None]
    /\ UNCHANGED <<system, misuse, calls>>

\* munmap of an address: no error when nothing is mapped there.
UnmapSharedMemory(addr) == maps' = [maps EXCEPT ![addr] = None]

\* mutant: the descriptor in the entry is closed, too
UnregisterHelper_Closes(t) ==
    LET c == call[t] IN
    /\ c.op = "unregister" /\ c.step = "unmap"
    /\ \E n \in c.left \cap Registered(c.m) :
        /\ UnmapSharedMemory(shared_memory_map_[c.m][n].addr)
        /\ fds' = [fds EXCEPT ![shared_memory_map_[c.m][n].fd] = "closed"]
        /\ call' = [call EXCEPT ![t].step = "erase", ![t].name = n, ![t].left = @ \ {n}]
    /\ UNCHANGED <<system, foreign, managers, handle, misuse, calls>>

\* UnregisterHelper for one of the names: unmap ...
UnregisterHelper(t) ==
    LET c == call[t] IN
    /\ c.op = "unregister" /\ c.step = "unmap"
    /\ \E n \in c.left \cap Registered(c.m) :
        /\ UnmapSharedMemory(shared_memory_map_[c.m][n].addr)
        /\ call' = [call EXCEPT ![t].step = "erase", ![t].name = n, ![t].left = @ \ {n}]
    /\ UNCHANGED <<system, fds, foreign, managers, handle, misuse, calls>>

\* mutant: the entry stays
EraseEntry_Forgotten(t) ==
    /\ call[t].op = "unregister" /\ call[t].step = "erase"
    /\ call' = [call EXCEPT ![t].step = "unmap", ![t].left = {}, ![t].name = None]
    /\ UNCHANGED <<system, process, managers, handle, misuse, calls>>

\* ... and erase.
EraseEntry(t) ==
    LET c == call[t] IN
    /\ c.op = "unregister" /\ c.step = "erase"
    /\ shared_memory_map_' = [shared_memory_map_ EXCEPT ![c.m][c.name] = None]
    /\ handle' = [u \in Threads |->
           IF handle[u] # None /\ handle[u].m = c.m /\ handle[u].name = c.name
           THEN [handle[u] EXCEPT !.gone = TRUE] ELSE handle[u]]
    /\ GoesTo(t, "unmap")
    /\ UNCHANGED <<system, process, mu_, alive, misuse, calls>>

\* No name is left: the call returns, and the destructor ends the manager.
UnregisterDone(t) ==
    LET c == call[t] IN
    /\ c.op = "unregister" /\ c.step = "unmap"
    /\ c.left \cap Registered(c.m) = {}
    /\ Unlocks(c.m) /\ Returns(t)
    /\ alive' = IF c.destroy THEN alive \ {c.m} ELSE alive
    /\ UNCHANGED <<system, process, shared_memory_map_, handle, misuse, calls>>

Unregister(t) == LockToUnregister(t) \/ UnregisterUnknown(t) \/ UnregisterHelper(t)
                 \/ EraseEntry(t) \/ UnregisterDone(t)

-----------------------------------------------------------------------------
(* Copies, and the mutex laid open.                                        *)

\* The copying constructor takes no lock and copies the entries, not what they
\* stand for.
CopyManager(t) ==
    \E from \in alive, to \in Managers \ alive :
        /\ call[t] = Idle /\ calls < MaxCalls
        /\ shared_memory_map_' = [shared_memory_map_ EXCEPT ![to] = shared_memory_map_[from]]
        /\ alive' = alive \cup {to}
        /\ misuse' = misuse \cup {"copy"}
        /\ calls' = calls + 1
        /\ UNCHANGED <<system, process, mu_, threads>>

\* UnlockMu unlocks whoever holds the mutex.
UnlockMu(t) ==
    \E m \in alive :
        /\ call[t] = Idle /\ calls < MaxCalls
        /\ mu_[m] # None
        /\ Unlocks(m)
        /\ misuse' = misuse \cup {"unlock"}
        /\ calls' = calls + 1
        /\ UNCHANGED <<system, process, shared_memory_map_, alive, threads>>

-----------------------------------------------------------------------------
(* The other parts of the process, and other processes.                    *)

\* A log file, a socket, a camera ...
OtherOpens ==
    /\ others < MaxOthers
    /\ \E d \in Fds :
        /\ LowestClosed(d)
        /\ fds' = [fds EXCEPT ![d] = "other"]
        /\ foreign' = foreign \cup {d}
    /\ others' = others + 1
    /\ UNCHANGED <<objectSize, maps, managers, threads, misuse, calls>>

\* ... is closed by its number, whatever that is open on by now.
OtherCloses ==
    /\ \E d \in foreign :
        /\ fds' = [fds EXCEPT ![d] = "closed"]
        /\ foreign' = foreign \ {d}
    /\ UNCHANGED <<system, maps, managers, threads, misuse, calls>>

\* Another process registers the key, and resizes its object.
OtherProcessRegisters ==
    /\ others < MaxOthers
    /\ \E k \in Keys, s \in Sizes :
        /\ misuse' = IF objectSize[k] \in {0, s} THEN misuse ELSE misuse \cup {"resize"}
        /\ objectSize' = [objectSize EXCEPT ![k] = s]
    /\ others' = others + 1
    /\ UNCHANGED <<process, managers, threads, calls>>

-----------------------------------------------------------------------------
Step(t) == Register(t) \/ Unregister(t)

Next ==
    \/ \E t \in Threads :
        \/ CallRegister(t) \/ CallUnregister(t) \/ CallUnregisterAll(t)
        \/ GetMemoryInfo(t) \/ GetMemoryMap(t) \/ CopyManager(t) \/ UnlockMu(t)
        \/ Step(t)
    \/ OtherOpens \/ OtherCloses \/ OtherProcessRegisters

Spec == Init /\ [][Next]_vars

\* The threads of the process run; nobody has to call.
FairSpec == Spec /\ \A t \in Threads : WF_vars(Step(t))

-----------------------------------------------------------------------------
(* Properties.                                                             *)

TypeOK ==
    /\ objectSize \in [Keys -> Nat]
    /\ fds \in [Fds -> Keys \cup {"other", "closed"}]
    /\ foreign \subseteq Fds
    /\ maps \in [Addresses -> Mapping \cup {None}]
    /\ shared_memory_map_ \in [Managers -> [Names -> Info \cup {None}]]
    /\ mu_ \in [Managers -> Threads \cup {None}]
    /\ alive \subseteq Managers
    /\ \A t \in Threads : call[t].op \in {"none", "register", "unregister"}
    /\ handle \in [Threads -> Handle \cup {None}]
    /\ misuse \subseteq {"alias", "copy", "unlock", "resize"}
    /\ calls \in 0 .. MaxCalls /\ others \in 0 .. MaxOthers

\* The entry of n is being removed: unmapped, perhaps not yet erased.
Leaving(m, n) ==
    \E t \in Threads : /\ call[t].op = "unregister" /\ call[t].step = "erase"
                       /\ call[t].m = m /\ call[t].name = n

\* Every entry of a manager is a live mapping of its own key, however the threads'
\* calls interleave and whatever else the process opens and closes: unless the
\* manager had the key already (its descriptor is closed by then, the FIXME of
\* RegisterSystemSharedMemory), was copied, or had its mutex opened.
EntriesLive ==
    misuse \subseteq {"resize"} =>
        \A m \in alive : \A n \in Registered(m) :
            LET info == shared_memory_map_[m][n] IN
            \/ Leaving(m, n)
            \/ maps[info.addr] = [file |-> info.key, offset |-> info.offset,
                                  size |-> info.size]

\* The entry of n will unmap what is at address a.
Owns(m, n, a) ==
    /\ n \in Registered(m) /\ ~Leaving(m, n)
    /\ shared_memory_map_[m][n].addr = a

Owners(a) == {o \in Managers \X Names : Owns(o[1], o[2], a)}

\* A mapping has one owner: the entry that will unmap it, or the call that is
\* about to make the entry.  None is leaked, none is unmapped twice.
MappingsOwned ==
    misuse \subseteq {"resize"} =>
        \A a \in Addresses : maps[a] # None =>
            \/ Cardinality(Owners(a)) = 1
            \/ \E t \in Threads : /\ call[t].op = "register" /\ call[t].step = "close"
                                  /\ call[t].addr = a

\* Entries and mappings correspond, one to one.
EntriesOwnMappings == EntriesLive /\ MappingsOwned

\* The manager never closes a descriptor of another part of the process, although
\* it keeps the numbers of closed ones: unless it uses one for a key it had.
DescriptorsKept ==
    "alias" \notin misuse => \A d \in foreign : fds[d] = "other"

\* What GetMemoryInfo has handed out can be used as long as the entry stays: it is
\* inside the mapping, and the mapping inside the object, although the bounds are
\* compared with offset_ + byte_size_ and mappings begin at offset_.
HandlesUsable ==
    misuse = {} =>
        \A t \in Threads :
            LET h == handle[t] IN
            h # None /\ h.locked /\ ~h.gone /\ ~Leaving(h.m, h.name) =>
                /\ maps[h.addr] # None
                /\ h.offset + h.size <= maps[h.addr].size
                /\ maps[h.addr].file \in Keys
                /\ maps[h.addr].offset + maps[h.addr].size
                       <= objectSize[maps[h.addr].file]

\* A call comes to its end, also by an exception: no path leaves mu_ locked.
CallsReturn == \A t \in Threads : call[t] # Idle ~> call[t] = Idle
=============================================================================
