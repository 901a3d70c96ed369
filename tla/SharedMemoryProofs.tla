------------------------- MODULE SharedMemoryProofs -------------------------
(***************************************************************************)
(* Theorems about SharedMemoryManager: for any number of threads, names,   *)
(* keys, sizes and calls, and whatever the rest of the process opens and   *)
(* closes, every entry is a live mapping of its own key, every mapping has *)
(* one owner, no foreign descriptor is closed, and what GetMemoryInfo      *)
(* hands out can be used.                                                  *)
(***************************************************************************)
EXTENDS SharedMemoryManager, FiniteSetTheorems, TLAPS

RegisterCall ==
    [op : {"register"}, step : {"lock", "check", "map", "close"}, m : Managers,
     name : Names, key : Keys, offset : Offsets, size : Sizes, fd : Nat,
     addr : Addresses \cup {None}]

UnregisterCall ==
    [op : {"unregister"}, step : {"lock", "unmap", "erase"}, m : Managers,
     name : Names \cup {None}, left : SUBSET Names, destroy : BOOLEAN]

\* What a call has found out by its step.
WellFormed(c) ==
    /\ c.step \in {"check", "map", "close"} => c.fd \in Fds
    /\ c.step = "close" => c.addr \in Addresses
    /\ c.step = "erase" => c.name \in Names

\* The calls the threads are in.
IndCall ==
    /\ call \in [Threads -> {Idle} \cup RegisterCall \cup UnregisterCall]
    /\ \A t \in Threads : WellFormed(call[t])

Registering(t) == call[t].op = "register" /\ call[t].step # "lock"
Unregistering(t) == call[t].op = "unregister" /\ call[t].step # "lock"

\* Unless a known key was registered again, every call has a descriptor of its own,
\* open on the object of its key.
IndDescriptors ==
    "alias" \notin misuse =>
        /\ \A t \in Threads : Registering(t) =>
               call[t].fd \in Fds /\ fds[call[t].fd] = call[t].key
        /\ \A t, u \in Threads : Registering(t) /\ Registering(u) /\ t # u =>
               call[t].fd # call[u].fd
        /\ \A d \in foreign : fds[d] = "other"

\* The call has the lock.
Inside(t) == Registering(t) \/ Unregistering(t)

Safe == misuse \subseteq {"resize"}

\* Without copies there is one manager, and its mutex keeps the calls apart.
IndMutex ==
    /\ alive \subseteq {Original}
    /\ \A m \in Managers \ {Original}, n \in Names : shared_memory_map_[m][n] = None
    /\ \A t \in Threads : call[t].op # "none" => call[t].m = Original
    /\ \A t \in Threads : Inside(t) => mu_[Original] = t

\* The call is about to make an entry of its mapping.
Mapped(t) == call[t].op = "register" /\ call[t].step = "close"

\* The names that will unmap what their entries say.
Holding == {n \in Registered(Original) : ~Leaving(Original, n)}

Entry(n) == shared_memory_map_[Original][n]

IndEntries ==
    /\ \A t \in Threads : Registering(t) => Entry(call[t].name) = None
    /\ \A t \in Threads : Mapped(t) =>
           /\ call[t].addr \in Addresses
           /\ maps[call[t].addr] = [file |-> call[t].key, offset |-> call[t].offset,
                                    size |-> call[t].size]
           /\ \A n \in Holding : Entry(n).addr # call[t].addr
    /\ \A n \in Holding :
           maps[Entry(n).addr] = [file |-> Entry(n).key, offset |-> Entry(n).offset,
                                  size |-> Entry(n).size]
    /\ \A n, o \in Holding : n # o => Entry(n).addr # Entry(o).addr
    /\ \A a \in Addresses : maps[a] # None =>
           \/ \E n \in Holding : Entry(n).addr = a
           \/ \E t \in Threads : Mapped(t) /\ call[t].addr = a

\* Without a resize by others, entries begin at the beginning of their object and are
\* as long as it; a handle stays within its entry.
IndBounds ==
    /\ \A t \in Threads : Registering(t) =>
           /\ objectSize[call[t].key] = call[t].size
           /\ call[t].step \in {"map", "close"} => call[t].offset = 0
    /\ \A n \in Registered(Original) :
           Entry(n).offset = 0 /\ objectSize[Entry(n).key] = Entry(n).size
    /\ \A t \in Threads :
           handle[t] # None /\ handle[t].locked /\ ~handle[t].gone =>
               /\ handle[t].m = Original
               /\ handle[t].name \in Registered(Original)
               /\ handle[t].addr = Entry(handle[t].name).addr
               /\ handle[t].offset + handle[t].size <= Entry(handle[t].name).size

IndSafe == Safe => IndMutex /\ IndEntries

IndUsable == misuse = {} => IndBounds

-----------------------------------------------------------------------------
(* Calls and types.                                                        *)

LEMMA CallKinds ==
    ASSUME IndCall, NEW t \in Threads
    PROVE  /\ call[t].op = "none" => call[t] = Idle
           /\ call[t].op = "register" => call[t] \in RegisterCall
           /\ call[t].op = "unregister" => call[t] \in UnregisterCall
           /\ call[t].op \in {"none", "register", "unregister"}
BY DEF IndCall, Idle, RegisterCall, UnregisterCall

\* How a call changes: it begins, goes on to another step, or returns.
LEMMA CallReplaced ==
    ASSUME IndCall, NEW t \in Threads, NEW r \in {Idle} \cup RegisterCall \cup UnregisterCall,
           WellFormed(r),
           call' = [call EXCEPT ![t] = r]
    PROVE  /\ IndCall'
           /\ call'[t] = r /\ \A u \in Threads \ {t} : call'[u] = call[u]
BY DEF IndCall

LEMMA CallReturns ==
    ASSUME IndCall, NEW t \in Threads, Returns(t)
    PROVE  IndCall' /\ call'[t] = Idle /\ \A u \in Threads \ {t} : call'[u] = call[u]
<1>1. WellFormed(Idle)
    BY DEF Idle, WellFormed
<1> QED
    BY <1>1, CallReplaced DEF Returns

LEMMA CallNext ==
    ASSUME IndCall, TypeOK, [Next]_vars
    PROVE  IndCall'
<1> USE DEF IndCall, RegisterCall, UnregisterCall, WellFormed
<1>1. ASSUME NEW t \in Threads, CallRegister(t) PROVE IndCall'
    <2>1. PICK m \in Managers, n \in Names, k \in Keys, o \in Offsets, s \in Sizes :
            Call(t, [op |-> "register", step |-> "lock", m |-> m, name |-> n, key |-> k,
                     offset |-> o, size |-> s, fd |-> 0, addr |-> None])
        BY <1>1, Zenon DEF CallRegister
    <2> DEFINE r == [op |-> "register", step |-> "lock", m |-> m, name |-> n, key |-> k,
                     offset |-> o, size |-> s, fd |-> 0, addr |-> None]
    <2>2. r \in RegisterCall /\ WellFormed(r)
        OBVIOUS
    <2>3. call' = [call EXCEPT ![t] = r]
        BY <2>1 DEF Call
    <2> QED
        BY <2>2, <2>3, CallReplaced
<1>2. ASSUME NEW t \in Threads, CallUnregister(t) PROVE IndCall'
    <2>1. PICK m \in Managers, n \in Names :
            call' = [call EXCEPT ![t] =
                [op |-> "unregister", step |-> "lock", m |-> m, name |-> n,
                 left |-> {}, destroy |-> FALSE]]
        BY <1>2 DEF CallUnregister, Call
    <2> DEFINE r == [op |-> "unregister", step |-> "lock", m |-> m, name |-> n,
                     left |-> {}, destroy |-> FALSE]
    <2>2. r \in UnregisterCall /\ WellFormed(r)
        OBVIOUS
    <2> QED
        BY <2>1, <2>2, CallReplaced
<1>3. ASSUME NEW t \in Threads, CallUnregisterAll(t) PROVE IndCall'
    <2>1. PICK m \in Managers, destroy \in BOOLEAN :
            call' = [call EXCEPT ![t] =
                [op |-> "unregister", step |-> "lock", m |-> m, name |-> None,
                 left |-> {}, destroy |-> destroy]]
        BY <1>3 DEF CallUnregisterAll, Call
    <2> DEFINE r == [op |-> "unregister", step |-> "lock", m |-> m, name |-> None,
                     left |-> {}, destroy |-> destroy]
    <2>2. r \in UnregisterCall /\ WellFormed(r)
        OBVIOUS
    <2> QED
        BY <2>1, <2>2, CallReplaced
<1>4. ASSUME NEW t \in Threads, OpenSharedMemoryRegion(t) PROVE IndCall'
    <2>1. call[t] \in RegisterCall
        BY <1>4, CallKinds DEF OpenSharedMemoryRegion
    <2>2. CASE Returns(t)
        BY <2>2, CallReturns
    <2>3. CASE \E d \in Fds : call' = [call EXCEPT ![t].step = "check", ![t].fd = d]
        <3>1. PICK d \in Fds : call' = [call EXCEPT ![t].step = "check", ![t].fd = d]
            BY <2>3
        <3>2. d \in Nat
            BY ManagerAssumption
        <3> QED
            BY <2>1, <3>1, <3>2
    <2>4. CASE \E n \in SameKey(call[t].m, call[t].key) :
                 call' = [call EXCEPT ![t].step = "check",
                              ![t].fd = shared_memory_map_[call[t].m][n].fd]
        <3>1. PICK n \in SameKey(call[t].m, call[t].key) :
                 call' = [call EXCEPT ![t].step = "check",
                              ![t].fd = shared_memory_map_[call[t].m][n].fd]
            BY <2>4
        <3>2. shared_memory_map_[call[t].m][n].fd \in Fds /\ Fds \subseteq Nat
            BY <2>1, <3>1, ManagerAssumption DEF SameKey, Registered, TypeOK, Info
        <3> QED
            BY <2>1, <3>1, <3>2
    <2> QED
        BY <1>4, <2>2, <2>3, <2>4 DEF OpenSharedMemoryRegion
<1>5. ASSUME NEW t \in Threads, CheckSharedMemoryRegionSize(t) PROVE IndCall'
    <2>1. call[t] \in RegisterCall
        BY <1>5, CallKinds DEF CheckSharedMemoryRegionSize
    <2>2. CASE Returns(t)
        BY <2>2, CallReturns
    <2>3. CASE GoesTo(t, "map")
        <3>1. call[t].fd \in Fds /\ call' = [call EXCEPT ![t].step = "map"]
            BY <1>5, <2>3 DEF GoesTo, CheckSharedMemoryRegionSize
        <3> DEFINE r == [call[t] EXCEPT !.step = "map"]
        <3>2. r \in RegisterCall /\ WellFormed(r) /\ call' = [call EXCEPT ![t] = r]
            BY <2>1, <3>1
        <3> QED
            BY <3>2, CallReplaced
    <2> QED
        BY <1>5, <2>2, <2>3 DEF CheckSharedMemoryRegionSize, Throws
<1>6. ASSUME NEW t \in Threads, MapSharedMemory(t) PROVE IndCall'
    <2>1. call[t] \in RegisterCall
        BY <1>6, CallKinds DEF MapSharedMemory
    <2>2. CASE Returns(t)
        BY <2>2, CallReturns
    <2>3. CASE \E a \in Addresses : call' = [call EXCEPT ![t].step = "close", ![t].addr = a]
        <3>1. PICK a \in Addresses : call' = [call EXCEPT ![t].step = "close", ![t].addr = a]
            BY <2>3
        <3>2. call[t].fd \in Fds
            BY <1>6 DEF MapSharedMemory
        <3> DEFINE r == [call[t] EXCEPT !.step = "close", !.addr = a]
        <3>3. r \in RegisterCall /\ WellFormed(r) /\ call' = [call EXCEPT ![t] = r]
            BY <2>1, <3>1, <3>2
        <3> QED
            BY <3>3, CallReplaced
    <2> QED
        BY <1>6, <2>2, <2>3 DEF MapSharedMemory, Throws
<1>7. ASSUME NEW t \in Threads, CloseSharedMemoryRegion(t) \/ UnregisterDone(t) PROVE IndCall'
    BY <1>7, CallReturns DEF CloseSharedMemoryRegion, UnregisterDone
<1>8. ASSUME NEW t \in Threads, LockToUnregister(t) PROVE IndCall'
    <2>1. call[t] \in UnregisterCall
        BY <1>8, CallKinds DEF LockToUnregister
    <2>2. PICK left \in SUBSET Names :
            call' = [call EXCEPT ![t].step = "unmap", ![t].left = left]
        BY <1>8, <2>1 DEF LockToUnregister, Registered
    <2> QED
        BY <2>1, <2>2
<1>9. ASSUME NEW t \in Threads, UnregisterUnknown(t) PROVE IndCall'
    BY <1>9 DEF UnregisterUnknown, Idle
<1>10. ASSUME NEW t \in Threads, UnregisterHelper(t) PROVE IndCall'
    <2>1. call[t] \in UnregisterCall
        BY <1>10, CallKinds DEF UnregisterHelper
    <2>2. PICK n \in Names : call' = [call EXCEPT ![t].step = "erase", ![t].name = n,
                                                  ![t].left = @ \ {n}]
        BY <1>10 DEF UnregisterHelper, Registered
    <2> QED
        BY <2>1, <2>2
<1>11. ASSUME NEW t \in Threads, EraseEntry(t) PROVE IndCall'
    <2>1. call[t] \in UnregisterCall /\ call' = [call EXCEPT ![t].step = "unmap"]
        BY <1>11, CallKinds DEF EraseEntry, GoesTo
    <2> QED
        BY <2>1
<1>12. CASE UNCHANGED call
    BY <1>12
<1> QED
    BY <1>1, <1>2, <1>3, <1>4, <1>5, <1>6, <1>7, <1>8, <1>9, <1>10, <1>11, <1>12
    DEF Next, vars, Step, Register, Unregister, GetMemoryInfo, GetMemoryMap, CopyManager,
        UnlockMu, OtherOpens, OtherCloses, OtherProcessRegisters, threads

LEMMA TypeInit == Init => TypeOK /\ IndCall
<1> SUFFICES ASSUME Init PROVE TypeOK /\ IndCall
    OBVIOUS
<1>1. IndCall
    BY DEF Init, IndCall, Idle, WellFormed
<1>2. \A t \in Threads : call[t].op = "none"
    BY DEF Init, Idle
<1>3. /\ objectSize \in [Keys -> Nat] /\ fds \in [Fds -> Keys \cup {"other", "closed"}]
      /\ maps \in [Addresses -> Mapping \cup {None}]
      /\ shared_memory_map_ \in [Managers -> [Names -> Info \cup {None}]]
      /\ mu_ \in [Managers -> Threads \cup {None}]
      /\ handle \in [Threads -> Handle \cup {None}]
    BY DEF Init
<1>4. foreign = {} /\ alive \subseteq Managers /\ misuse = {} /\ calls = 0 /\ others = 0
    BY ManagerAssumption DEF Init
<1> QED
    BY <1>1, <1>2, <1>3, <1>4, ManagerAssumption DEF TypeOK

\* What GetMemoryInfo finds lies within an entry of that name.
LEMMA FoundType ==
    ASSUME TypeOK, NEW m \in Managers, NEW n \in Names, NEW o \in Offsets, NEW s \in Sizes
    PROVE  /\ Found(m, n, o, s) \in Handle \cup {None}
           /\ Found(m, n, o, s) # None =>
                  /\ n \in Registered(m)
                  /\ Found(m, n, o, s).m = m /\ Found(m, n, o, s).name = n
                  /\ Found(m, n, o, s).addr = shared_memory_map_[m][n].addr
                  /\ Found(m, n, o, s).offset + Found(m, n, o, s).size
                         <= shared_memory_map_[m][n].offset + shared_memory_map_[m][n].size
<1> DEFINE info == shared_memory_map_[m][n]
<1>1. CASE info = None \/ OutOfBounds(info, o, s)
    BY <1>1 DEF Found
<1>2. CASE info # None /\ ~OutOfBounds(info, o, s)
    <2>1. Found(m, n, o, s) = [m |-> m, name |-> n, addr |-> info.addr, offset |-> o,
                               size |-> s, locked |-> TRUE, gone |-> FALSE]
        BY <1>2 DEF Found
    <2>2. info \in Info
        BY <1>2 DEF TypeOK
    <2>3. info.offset \in Nat /\ info.size \in Nat /\ o \in Nat /\ s \in Nat
        BY <2>2, ManagerAssumption DEF Info
    <2>4. o + s <= info.offset + info.size
        BY <1>2, <2>3 DEF OutOfBounds
    <2>5. Found(m, n, o, s) \in Handle
        BY <2>1, <2>2, <2>3 DEF Handle, Info
    <2>6. n \in Registered(m)
        BY <1>2 DEF Registered
    <2> QED
        BY <2>1, <2>4, <2>5, <2>6
<1> QED
    BY <1>1, <1>2

LEMMA Finds ==
    ASSUME NEW t \in Threads, GetMemoryInfo(t)
    PROVE  \E m \in alive, n \in Names, o \in Offsets, s \in Sizes :
               handle' = [handle EXCEPT ![t] = Found(m, n, o, s)]
BY Zenon DEF GetMemoryInfo

LEMMA TypeNext ==
    ASSUME TypeOK, IndCall, [Next]_vars
    PROVE  TypeOK'
<1>0. \A t \in Threads : call'[t].op \in {"none", "register", "unregister"}
    <2>1. IndCall'
        BY CallNext
    <2> QED
        BY <2>1 DEF IndCall, Idle, RegisterCall, UnregisterCall
<1> USE <1>0 DEF TypeOK, system, process, managers, threads
<1>1. ASSUME NEW t \in Threads, CallRegister(t) \/ CallUnregister(t) \/ CallUnregisterAll(t)
      PROVE  TypeOK'
    <2>1. PICK r : Call(t, r)
        BY <1>1, Zenon DEF CallRegister, CallUnregister, CallUnregisterAll
    <2>2. calls' \in 0 .. MaxCalls
        BY <2>1, ManagerAssumption DEF Call
    <2>3. handle' \in [Threads -> Handle \cup {None}]
        BY <2>1 DEF Call
    <2> QED
        BY <2>1, <2>2, <2>3 DEF Call
<1>2. ASSUME NEW t \in Threads, OpenSharedMemoryRegion(t) PROVE TypeOK'
    <2>1. call[t] \in RegisterCall
        BY <1>2, CallKinds DEF OpenSharedMemoryRegion
    <2>2. /\ call[t].key \in Keys /\ call[t].m \in Managers /\ call[t].size \in Nat
        BY <2>1, ManagerAssumption DEF RegisterCall
    <2>3. fds' \in [Fds -> Keys \cup {"other", "closed"}] /\ objectSize' \in [Keys -> Nat]
        BY <1>2, <2>2 DEF OpenSharedMemoryRegion
    <2>4. mu_' \in [Managers -> Threads \cup {None}] /\ misuse' \subseteq {"alias", "copy", "unlock", "resize"}
        BY <1>2, <2>2 DEF OpenSharedMemoryRegion, Locks
    <2> QED
        BY <1>2, <2>3, <2>4 DEF OpenSharedMemoryRegion
<1>3. ASSUME NEW t \in Threads, CheckSharedMemoryRegionSize(t) PROVE TypeOK'
    BY <1>3 DEF CheckSharedMemoryRegionSize, Throws, Unlocks
<1>4. ASSUME NEW t \in Threads, MapSharedMemory(t) PROVE TypeOK'
    <2>1. call[t] \in RegisterCall /\ call[t].fd \in Fds
        BY <1>4, CallKinds DEF MapSharedMemory, IndCall, WellFormed
    <2>2. maps' \in [Addresses -> Mapping \cup {None}]
        <3>1. CASE UNCHANGED maps
            BY <3>1
        <3>2. CASE \E a \in Addresses :
                maps' = [maps EXCEPT ![a] = [file |-> fds[call[t].fd], offset |-> call[t].offset,
                                             size |-> call[t].size]]
                /\ fds[call[t].fd] # "closed"
            <4>1. [file |-> fds[call[t].fd], offset |-> call[t].offset, size |-> call[t].size]
                     \in Mapping
                BY <2>1, <3>2 DEF RegisterCall, Mapping
            <4> QED
                BY <3>2, <4>1
        <3> QED
            BY <1>4, <3>1, <3>2 DEF MapSharedMemory
    <2> QED
        BY <1>4, <2>2 DEF MapSharedMemory, Throws, Unlocks
<1>5. ASSUME NEW t \in Threads, CloseSharedMemoryRegion(t) PROVE TypeOK'
    <2>1. call[t] \in RegisterCall /\ call[t].fd \in Fds /\ call[t].addr \in Addresses
        BY <1>5, CallKinds DEF CloseSharedMemoryRegion, IndCall, WellFormed
    <2>2. [key |-> call[t].key, offset |-> call[t].offset, size |-> call[t].size,
           fd |-> call[t].fd, addr |-> call[t].addr] \in Info
        BY <2>1 DEF RegisterCall, Info
    <2>3. shared_memory_map_' \in [Managers -> [Names -> Info \cup {None}]]
        <3>1. CASE UNCHANGED shared_memory_map_
            BY <3>1
        <3> DEFINE old == shared_memory_map_[call[t].m][call[t].name]
                   x == IF old # None THEN old
                        ELSE [key |-> call[t].key, offset |-> call[t].offset,
                              size |-> call[t].size, fd |-> call[t].fd, addr |-> call[t].addr]
        <3>2. call[t].m \in Managers /\ call[t].name \in Names
            BY <2>1 DEF RegisterCall
        <3>3. x \in Info \cup {None}
            BY <2>2, <3>2
        <3>4. CASE shared_memory_map_' = [shared_memory_map_ EXCEPT ![call[t].m][call[t].name] = x]
            <4> HIDE DEF x
            <4> QED
                BY <3>3, <3>4
        <3> QED
            BY <1>5, <3>1, <3>4 DEF CloseSharedMemoryRegion
    <2>4. fds' \in [Fds -> Keys \cup {"other", "closed"}]
        BY <1>5 DEF CloseSharedMemoryRegion
    <2> QED
        BY <1>5, <2>3, <2>4 DEF CloseSharedMemoryRegion, Unlocks
<1>6. ASSUME NEW t \in Threads, GetMemoryInfo(t) \/ GetMemoryMap(t) PROVE TypeOK'
    <2>1. calls' \in 0 .. MaxCalls
        BY <1>6, ManagerAssumption DEF GetMemoryInfo, GetMemoryMap
    <2>2. handle' \in [Threads -> Handle \cup {None}]
        <3>1. CASE GetMemoryInfo(t)
            <4>1. PICK m \in alive, n \in Names, o \in Offsets, s \in Sizes :
                    handle' = [handle EXCEPT ![t] = Found(m, n, o, s)]
                BY <3>1, Finds
            <4>2. Found(m, n, o, s) \in Handle \cup {None}
                BY FoundType
            <4> QED
                BY <4>1, <4>2
        <3>2. CASE GetMemoryMap(t)
            <4>1. PICK m \in alive, n \in Names :
                    /\ shared_memory_map_[m][n] # None
                    /\ handle' = [handle EXCEPT ![t] =
                        [m |-> m, name |-> n, addr |-> shared_memory_map_[m][n].addr, offset |-> 0,
                         size |-> shared_memory_map_[m][n].size, locked |-> FALSE, gone |-> FALSE]]
                BY <3>2 DEF GetMemoryMap
            <4>2. [m |-> m, name |-> n, addr |-> shared_memory_map_[m][n].addr, offset |-> 0,
                   size |-> shared_memory_map_[m][n].size, locked |-> FALSE, gone |-> FALSE] \in Handle
                BY <4>1 DEF Info, Handle
            <4> QED
                BY <4>1, <4>2
        <3> QED
            BY <1>6, <3>1, <3>2
    <2> QED
        BY <1>6, <2>1, <2>2 DEF GetMemoryInfo, GetMemoryMap
<1>7. ASSUME NEW t \in Threads, LockToUnregister(t) PROVE TypeOK'
    BY <1>7 DEF LockToUnregister, Locks
<1>8. ASSUME NEW t \in Threads, UnregisterUnknown(t) PROVE TypeOK'
    BY <1>8 DEF UnregisterUnknown
<1>9. ASSUME NEW t \in Threads, UnregisterHelper(t) PROVE TypeOK'
    <2>1. \E a : maps' = [maps EXCEPT ![a] = None]
        BY <1>9 DEF UnregisterHelper, UnmapSharedMemory
    <2> QED
        BY <1>9, <2>1 DEF UnregisterHelper
<1>10. ASSUME NEW t \in Threads, EraseEntry(t) PROVE TypeOK'
    <2>1. shared_memory_map_' \in [Managers -> [Names -> Info \cup {None}]]
        BY <1>10 DEF EraseEntry
    <2>2. ASSUME NEW u \in Threads, handle[u] # None
          PROVE  [handle[u] EXCEPT !.gone = TRUE] \in Handle
        BY ZenonT(60), <2>2 DEF Handle
    <2>3. handle' \in [Threads -> Handle \cup {None}]
        BY <1>10, <2>2 DEF EraseEntry
    <2> QED
        BY <1>10, <2>1, <2>3 DEF EraseEntry
<1>11. ASSUME NEW t \in Threads, UnregisterDone(t) PROVE TypeOK'
    BY <1>11 DEF UnregisterDone, Unlocks
<1>12. ASSUME NEW t \in Threads, CopyManager(t) PROVE TypeOK'
    <2>1. calls' \in 0 .. MaxCalls
        BY <1>12, ManagerAssumption DEF CopyManager
    <2> QED
        BY <1>12, <2>1 DEF CopyManager
<1>13. ASSUME NEW t \in Threads, UnlockMu(t) PROVE TypeOK'
    <2>1. calls' \in 0 .. MaxCalls
        BY <1>13, ManagerAssumption DEF UnlockMu
    <2> QED
        BY <1>13, <2>1 DEF UnlockMu, Unlocks
<1>14. CASE OtherOpens
    <2>1. others' \in 0 .. MaxOthers
        BY <1>14, ManagerAssumption DEF OtherOpens
    <2> QED
        BY <1>14, <2>1 DEF OtherOpens
<1>15. CASE OtherCloses
    BY <1>15 DEF OtherCloses
<1>16. CASE OtherProcessRegisters
    <2>1. others' \in 0 .. MaxOthers
        BY <1>16, ManagerAssumption DEF OtherProcessRegisters
    <2> QED
        BY <1>16, <2>1, ManagerAssumption DEF OtherProcessRegisters
<1>17. CASE UNCHANGED vars
    BY <1>17 DEF vars
<1> QED
    BY <1>1, <1>2, <1>3, <1>4, <1>5, <1>6, <1>7, <1>8, <1>9, <1>10, <1>11, <1>12, <1>13,
       <1>14, <1>15, <1>16, <1>17 DEF Next, Step, Register, Unregister

\* Every variable keeps its type and every call is one of the API's, at its steps.
THEOREM SharedMemoryTypeCorrect == Spec => [](TypeOK /\ IndCall)
<1>1. Init => TypeOK /\ IndCall
    BY TypeInit
<1>2. TypeOK /\ IndCall /\ [Next]_vars => (TypeOK /\ IndCall)'
    BY TypeNext, CallNext
<1> QED
    BY <1>1, <1>2, PTL DEF Spec

-----------------------------------------------------------------------------
(* Descriptors.                                                            *)

\* History is not forgotten.
LEMMA MisuseStays == [Next]_vars => misuse \subseteq misuse'
<1> SUFFICES ASSUME [Next]_vars PROVE misuse \subseteq misuse'
    OBVIOUS
<1> USE DEF system, process, managers, threads
<1>1. ASSUME NEW t \in Threads, CallRegister(t) \/ CallUnregister(t) \/ CallUnregisterAll(t)
      PROVE  misuse \subseteq misuse'
    <2>1. PICK r : Call(t, r)
        BY <1>1, Zenon DEF CallRegister, CallUnregister, CallUnregisterAll
    <2> QED
        BY <2>1 DEF Call
<1>2. ASSUME NEW t \in Threads, Register(t) PROVE misuse \subseteq misuse'
    BY <1>2 DEF Register, OpenSharedMemoryRegion, CheckSharedMemoryRegionSize,
                MapSharedMemory, CloseSharedMemoryRegion
<1>3. ASSUME NEW t \in Threads, Unregister(t) PROVE misuse \subseteq misuse'
    BY <1>3 DEF Unregister, LockToUnregister, UnregisterUnknown, UnregisterHelper,
                EraseEntry, UnregisterDone
<1>4. ASSUME NEW t \in Threads, GetMemoryInfo(t) \/ GetMemoryMap(t) \/ CopyManager(t)
                                \/ UnlockMu(t)
      PROVE  misuse \subseteq misuse'
    BY <1>4 DEF GetMemoryInfo, GetMemoryMap, CopyManager, UnlockMu
<1>5. CASE OtherOpens \/ OtherCloses \/ OtherProcessRegisters
    BY <1>5 DEF OtherOpens, OtherCloses, OtherProcessRegisters
<1>6. CASE UNCHANGED vars
    BY <1>6 DEF vars
<1> QED
    BY <1>1, <1>2, <1>3, <1>4, <1>5, <1>6 DEF Next, Step

\* A call starts without the lock.
LEMMA CallBegins ==
    ASSUME NEW t \in Threads, CallRegister(t) \/ CallUnregister(t) \/ CallUnregisterAll(t)
    PROVE  \E r : /\ Call(t, r)
                  /\ r.step = "lock" /\ r.m \in alive
                  /\ r \in RegisterCall \cup UnregisterCall
<1>1. CASE CallRegister(t)
    <2>1. PICK m \in Managers, n \in Names, k \in Keys, o \in Offsets, s \in Sizes :
            Call(t, [op |-> "register", step |-> "lock", m |-> m, name |-> n, key |-> k,
                     offset |-> o, size |-> s, fd |-> 0, addr |-> None])
        BY <1>1, Zenon DEF CallRegister
    <2> DEFINE r == [op |-> "register", step |-> "lock", m |-> m, name |-> n, key |-> k,
                     offset |-> o, size |-> s, fd |-> 0, addr |-> None]
    <2>2. r \in RegisterCall /\ r.step = "lock"
        BY DEF RegisterCall
    <2>3. r.m \in alive
        BY <2>1 DEF Call
    <2> HIDE DEF r
    <2>4. Call(t, r)
        BY <2>1, Zenon DEF r
    <2> QED
        BY <2>2, <2>3, <2>4
<1>2. CASE CallUnregister(t)
    <2>1. PICK m \in Managers, n \in Names :
            Call(t, [op |-> "unregister", step |-> "lock", m |-> m, name |-> n,
                     left |-> {}, destroy |-> FALSE])
        BY <1>2, Zenon DEF CallUnregister
    <2> DEFINE r == [op |-> "unregister", step |-> "lock", m |-> m, name |-> n,
                     left |-> {}, destroy |-> FALSE]
    <2>2. r \in UnregisterCall /\ r.step = "lock"
        BY DEF UnregisterCall
    <2>3. r.m \in alive
        BY <2>1 DEF Call
    <2> HIDE DEF r
    <2>4. Call(t, r)
        BY <2>1, Zenon DEF r
    <2> QED
        BY <2>2, <2>3, <2>4
<1>3. CASE CallUnregisterAll(t)
    <2>1. PICK m \in Managers, destroy \in BOOLEAN :
            Call(t, [op |-> "unregister", step |-> "lock", m |-> m, name |-> None,
                     left |-> {}, destroy |-> destroy])
        BY <1>3, Zenon DEF CallUnregisterAll
    <2> DEFINE r == [op |-> "unregister", step |-> "lock", m |-> m, name |-> None,
                     left |-> {}, destroy |-> destroy]
    <2>2. r \in UnregisterCall /\ r.step = "lock"
        BY DEF UnregisterCall
    <2>3. r.m \in alive
        BY <2>1 DEF Call
    <2> HIDE DEF r
    <2>4. Call(t, r)
        BY <2>1, Zenon DEF r
    <2> QED
        BY <2>2, <2>3, <2>4
<1> QED
    BY <1>1, <1>2, <1>3

\* A step that gives no call a new descriptor.
LEMMA RegisteringStays ==
    ASSUME IndCall, NEW t \in Threads, NEW r, call' = [call EXCEPT ![t] = r],
           \/ r.op # "register" \/ r.step = "lock"
           \/ Registering(t) /\ r.fd = call[t].fd /\ r.key = call[t].key
    PROVE  \A u \in Threads : Registering(u)' =>
               Registering(u) /\ call'[u].fd = call[u].fd /\ call'[u].key = call[u].key
BY DEF IndCall, Registering

\* A step of a call to unregister concerns no other call.
LEMMA UnregisterStays ==
    ASSUME IndCall, NEW t \in Threads, call[t] \in UnregisterCall,
           LockToUnregister(t) \/ UnregisterHelper(t) \/ EraseEntry(t) \/ UnregisterDone(t)
    PROVE  /\ call'[t].op # "register"
           /\ \/ call'[t] = Idle
              \/ call'[t].op = "unregister" /\ call'[t].m = call[t].m
           /\ \A u \in Threads \ {t} : call'[u] = call[u]
<1> USE DEF UnregisterCall, IndCall
<1>1. CASE LockToUnregister(t)
    <2>1. PICK left : call' = [call EXCEPT ![t].step = "unmap", ![t].left = left]
        BY <1>1 DEF LockToUnregister
    <2> QED
        BY <2>1
<1>2. CASE UnregisterHelper(t)
    <2>1. PICK n : call' = [call EXCEPT ![t].step = "erase", ![t].name = n,
                                        ![t].left = @ \ {n}]
        BY <1>2 DEF UnregisterHelper
    <2> QED
        BY <2>1
<1>3. CASE EraseEntry(t)
    BY <1>3 DEF EraseEntry, GoesTo
<1>4. CASE UnregisterDone(t)
    <2>1. Returns(t)
        BY <1>4 DEF UnregisterDone
    <2>2. call'[t] = Idle /\ \A u \in Threads \ {t} : call'[u] = call[u]
        BY <2>1, CallReturns
    <2>3. Idle.op # "register"
        BY DEF Idle
    <2> QED
        BY <2>2, <2>3
<1> QED
    BY <1>1, <1>2, <1>3, <1>4

LEMMA DescriptorsStay ==
    ASSUME IndDescriptors, "alias" \notin misuse, UNCHANGED fds, foreign' \subseteq foreign,
           \A u \in Threads : Registering(u)' =>
               Registering(u) /\ call'[u].fd = call[u].fd /\ call'[u].key = call[u].key
    PROVE  IndDescriptors'
BY DEF IndDescriptors

LEMMA DescriptorsNext ==
    ASSUME TypeOK, IndCall, IndDescriptors, [Next]_vars
    PROVE  IndDescriptors'
<1> SUFFICES ASSUME "alias" \notin misuse' PROVE IndDescriptors'
    BY DEF IndDescriptors
<1>0. "alias" \notin misuse
    BY MisuseStays
<1> USE <1>0 DEF system, process, managers, threads
<1>1. ASSUME NEW t \in Threads, CallRegister(t) \/ CallUnregister(t) \/ CallUnregisterAll(t)
      PROVE  IndDescriptors'
    <2>1. PICK r : Call(t, r) /\ (r.op # "register" \/ r.step = "lock")
        BY <1>1, CallBegins
    <2>2. UNCHANGED <<fds, foreign>> /\ call' = [call EXCEPT ![t] = r]
        BY <2>1 DEF Call
    <2> QED
        BY <2>1, <2>2, RegisteringStays, DescriptorsStay
<1>2. ASSUME NEW t \in Threads, OpenSharedMemoryRegion(t) PROVE IndDescriptors'
    <2>1. call[t] \in RegisterCall
        BY <1>2, CallKinds DEF OpenSharedMemoryRegion
    <2>2. CASE Returns(t) /\ UNCHANGED fds
        <3>1. UNCHANGED foreign
            BY <1>2 DEF OpenSharedMemoryRegion
        <3> QED
            BY <2>2, <3>1, RegisteringStays, DescriptorsStay DEF Returns, Idle
    <2>3. CASE \E d \in Fds :
                 /\ LowestClosed(d)
                 /\ call' = [call EXCEPT ![t].step = "check", ![t].fd = d]
                 /\ fds' = [fds EXCEPT ![d] = call[t].key]
        <3>1. PICK d \in Fds :
                 /\ LowestClosed(d)
                 /\ call' = [call EXCEPT ![t].step = "check", ![t].fd = d]
                 /\ fds' = [fds EXCEPT ![d] = call[t].key]
            BY <2>3
        <3>2. fds[d] = "closed" /\ call[t].key \in Keys
            BY <2>1, <3>1 DEF LowestClosed, ClosedFds, RegisterCall
        <3>3. /\ call'[t].fd = d /\ call'[t].key = call[t].key
              /\ \A u \in Threads \ {t} : call'[u] = call[u]
            BY <2>1, <3>1 DEF IndCall, RegisterCall
        <3>4. fds'[d] = call[t].key /\ \A e \in Fds \ {d} : fds'[e] = fds[e]
            BY <3>1 DEF TypeOK
        <3>5. ASSUME NEW u \in Threads \ {t}, Registering(u)
              PROVE  call[u].fd \in Fds \ {d} /\ fds[call[u].fd] = call[u].key
            <4>1. call[u] \in RegisterCall
                BY <3>5, CallKinds DEF Registering
            <4> QED
                BY <3>2, <3>5, <4>1, ManagerAssumption DEF IndDescriptors, RegisterCall
        <3>6. UNCHANGED foreign
            BY <1>2 DEF OpenSharedMemoryRegion
        <3>7. \A e \in foreign : e \in Fds \ {d} /\ fds[e] = "other"
            BY <3>2 DEF IndDescriptors, TypeOK
        <3>8. \A u \in Threads \ {t} : Registering(u)' => Registering(u)
            BY <3>3 DEF Registering
        <3> QED
            BY <3>3, <3>4, <3>5, <3>6, <3>7, <3>8 DEF IndDescriptors
    <2> QED
        BY <1>2, <2>2, <2>3 DEF OpenSharedMemoryRegion
<1>3. ASSUME NEW t \in Threads, CheckSharedMemoryRegionSize(t) PROVE IndDescriptors'
    <2>1. call[t] \in RegisterCall /\ Registering(t) /\ UNCHANGED <<fds, foreign>>
        BY <1>3, CallKinds DEF CheckSharedMemoryRegionSize, Registering
    <2>2. PICK r : /\ call' = [call EXCEPT ![t] = r]
                   /\ r = Idle \/ r = [call[t] EXCEPT !.step = "map"]
        BY <1>3 DEF CheckSharedMemoryRegionSize, Throws, Returns, GoesTo
    <2>3. r.op # "register" \/ (r.fd = call[t].fd /\ r.key = call[t].key)
        BY <2>1, <2>2 DEF RegisterCall, Idle
    <2> QED
        BY <2>1, <2>2, <2>3, RegisteringStays, DescriptorsStay
<1>4. ASSUME NEW t \in Threads, MapSharedMemory(t) PROVE IndDescriptors'
    <2>1. call[t] \in RegisterCall /\ Registering(t) /\ UNCHANGED <<fds, foreign>>
        BY <1>4, CallKinds DEF MapSharedMemory, Registering
    <2>2. PICK r : /\ call' = [call EXCEPT ![t] = r]
                   /\ r = Idle \/ \E a : r = [call[t] EXCEPT !.step = "close", !.addr = a]
        <3>1. CASE Returns(t)
            BY <3>1 DEF Returns
        <3>2. CASE \E a : call' = [call EXCEPT ![t].step = "close", ![t].addr = a]
            <4>1. PICK a : call' = [call EXCEPT ![t].step = "close", ![t].addr = a]
                BY <3>2
            <4>2. call' = [call EXCEPT ![t] = [call[t] EXCEPT !.step = "close", !.addr = a]]
                BY <4>1 DEF IndCall
            <4> QED
                BY <4>2
        <3> QED
            BY <1>4, <3>1, <3>2 DEF MapSharedMemory, Throws
    <2>3. CASE r = Idle
        BY <2>1, <2>2, <2>3, RegisteringStays, DescriptorsStay DEF Idle
    <2>4. CASE \E a : r = [call[t] EXCEPT !.step = "close", !.addr = a]
        <3>1. r.fd = call[t].fd /\ r.key = call[t].key
            BY <2>1, <2>4 DEF RegisterCall
        <3> QED
            BY <2>1, <2>2, <3>1, RegisteringStays, DescriptorsStay
    <2> QED
        BY <2>2, <2>3, <2>4
<1>5. ASSUME NEW t \in Threads, CloseSharedMemoryRegion(t) PROVE IndDescriptors'
    <2>1. call[t] \in RegisterCall /\ Registering(t) /\ UNCHANGED foreign /\ Returns(t)
        BY <1>5, CallKinds DEF CloseSharedMemoryRegion, Registering
    <2>2. call'[t] = Idle /\ \A u \in Threads \ {t} : call'[u] = call[u]
        BY <2>1, CallReturns
    <2>3. \A u \in Threads : Registering(u)' =>
              u # t /\ Registering(u) /\ call'[u].fd = call[u].fd /\ call'[u].key = call[u].key
        BY <2>2 DEF Registering, Idle
    <2>4. fds' = [fds EXCEPT ![call[t].fd] = "closed"] \/ UNCHANGED fds
        BY <1>5 DEF CloseSharedMemoryRegion
    <2>5. \A e \in Fds \ {call[t].fd} : fds'[e] = fds[e]
        BY <2>4 DEF TypeOK
    <2>6. fds[call[t].fd] \in Keys
        BY <2>1 DEF IndDescriptors, RegisterCall
    <2>7. \A d \in foreign : d \in Fds /\ fds[d] = "other" /\ d # call[t].fd
        BY <2>6, ManagerAssumption DEF IndDescriptors, TypeOK
    <2>8. \A u \in Threads \ {t} : Registering(u) =>
              call[u].fd \in Fds \ {call[t].fd} /\ fds[call[u].fd] = call[u].key
        BY <2>1 DEF IndDescriptors
    <2> QED
        BY <2>1, <2>3, <2>5, <2>7, <2>8 DEF IndDescriptors
<1>6. ASSUME NEW t \in Threads,
             LockToUnregister(t) \/ UnregisterHelper(t) \/ EraseEntry(t) \/ UnregisterDone(t)
      PROVE  IndDescriptors'
    <2>1. call[t] \in UnregisterCall /\ UNCHANGED <<fds, foreign>>
        BY <1>6, CallKinds DEF LockToUnregister, UnregisterHelper, EraseEntry, UnregisterDone
    <2>2. call'[t].op # "register" /\ \A u \in Threads \ {t} : call'[u] = call[u]
        BY <1>6, <2>1, UnregisterStays
    <2>3. \A u \in Threads : Registering(u)' =>
               Registering(u) /\ call'[u].fd = call[u].fd /\ call'[u].key = call[u].key
        BY <2>2 DEF Registering
    <2> QED
        BY <2>1, <2>3, DescriptorsStay
<1>7. ASSUME NEW t \in Threads, UnregisterUnknown(t) PROVE IndDescriptors'
    BY <1>7 DEF UnregisterUnknown, Idle, IndDescriptors, Registering
<1>8. ASSUME UNCHANGED <<fds, foreign, call>> PROVE IndDescriptors'
    BY <1>8, DescriptorsStay DEF Registering
<1>9. CASE OtherOpens
    <2>1. PICK d \in Fds : /\ LowestClosed(d)
                           /\ fds' = [fds EXCEPT ![d] = "other"]
                           /\ foreign' = foreign \cup {d}
        BY <1>9 DEF OtherOpens
    <2>2. UNCHANGED call /\ fds[d] = "closed"
        BY <1>9, <2>1 DEF OtherOpens, LowestClosed, ClosedFds
    <2>3. fds'[d] = "other" /\ \A e \in Fds \ {d} : fds'[e] = fds[e]
        BY <2>1 DEF TypeOK
    <2>4. \A u \in Threads : Registering(u) => call[u].fd \in Fds \ {d}
        BY <2>2, CallKinds, ManagerAssumption DEF IndDescriptors, Registering, RegisterCall
    <2>5. foreign \subseteq Fds
        BY DEF TypeOK
    <2> QED
        BY <2>1, <2>2, <2>3, <2>4, <2>5 DEF IndDescriptors, Registering
<1>10. CASE OtherCloses
    <2>1. PICK d \in foreign : /\ fds' = [fds EXCEPT ![d] = "closed"]
                               /\ foreign' = foreign \ {d}
        BY <1>10 DEF OtherCloses
    <2>2. UNCHANGED call /\ fds[d] = "other" /\ foreign \subseteq Fds
        BY <1>10 DEF OtherCloses, TypeOK, IndDescriptors
    <2>3. \A e \in Fds \ {d} : fds'[e] = fds[e]
        BY <2>1 DEF TypeOK
    <2>4. \A u \in Threads : Registering(u) => call[u].fd \in Fds \ {d}
        BY <2>2, CallKinds, ManagerAssumption DEF IndDescriptors, Registering, RegisterCall
    <2> QED
        BY <2>1, <2>2, <2>3, <2>4 DEF IndDescriptors, Registering
<1> QED
    BY <1>1, <1>2, <1>3, <1>4, <1>5, <1>6, <1>7, <1>8, <1>9, <1>10
    DEF Next, Step, Register, Unregister, vars, GetMemoryInfo, GetMemoryMap, CopyManager,
        UnlockMu, OtherProcessRegisters

\* The manager closes no descriptor of another part of the process, unless it had
\* the key already.
THEOREM DescriptorsAreKept == Spec => []DescriptorsKept
<1>1. Init => IndDescriptors
    BY DEF Init, IndDescriptors, Idle, Registering
<1>2. (TypeOK /\ IndCall) /\ IndDescriptors /\ [Next]_vars => IndDescriptors'
    BY DescriptorsNext
<1>3. IndDescriptors => DescriptorsKept
    BY DEF IndDescriptors, DescriptorsKept
<1> QED
    BY <1>1, <1>2, <1>3, SharedMemoryTypeCorrect, PTL DEF Spec

-----------------------------------------------------------------------------
(* The mutex.                                                              *)

LEMMA SafeStays == [Next]_vars /\ Safe' => Safe
BY MisuseStays DEF Safe

\* A thread that has the lock is the only one.
LEMMA Alone ==
    ASSUME IndMutex, NEW t \in Threads, Inside(t), NEW u \in Threads \ {t}
    PROVE  ~Inside(u)
BY DEF IndMutex

LEMMA MutexNext ==
    ASSUME TypeOK, IndCall, IndMutex, [Next]_vars, Safe'
    PROVE  IndMutex'
<1> USE DEF system, process, managers, threads
<1>1. ASSUME NEW t \in Threads, CallRegister(t) \/ CallUnregister(t) \/ CallUnregisterAll(t)
      PROVE  IndMutex'
    <2>1. PICK r : Call(t, r) /\ r.step = "lock" /\ r.m \in alive
        BY <1>1, CallBegins
    <2>2. call'[t] = r /\ \A u \in Threads \ {t} : call'[u] = call[u]
        BY <2>1 DEF Call, IndCall
    <2>3. r.m = Original /\ UNCHANGED managers
        BY <2>1 DEF Call, IndMutex
    <2> QED
        BY <2>1, <2>2, <2>3 DEF IndMutex, Inside, Registering, Unregistering
<1>2. ASSUME NEW t \in Threads, OpenSharedMemoryRegion(t) PROVE IndMutex'
    <2>1. call[t] \in RegisterCall /\ call[t].m = Original
        BY <1>2, CallKinds DEF OpenSharedMemoryRegion, IndMutex, RegisterCall
    <2>2. UNCHANGED <<shared_memory_map_, alive>>
        BY <1>2 DEF OpenSharedMemoryRegion
    <2>3. CASE Returns(t) /\ UNCHANGED mu_
        <3>1. call'[t] = Idle /\ \A u \in Threads \ {t} : call'[u] = call[u]
            BY <2>3, CallReturns
        <3> QED
            BY <2>2, <2>3, <3>1 DEF IndMutex, Inside, Registering, Unregistering, Idle
    <2>4. CASE /\ Locks(t, Original)
               /\ \E d : call' = [call EXCEPT ![t].step = "check", ![t].fd = d]
        <3>1. call'[t].m = Original /\ \A u \in Threads \ {t} : call'[u] = call[u]
            BY <2>1, <2>4 DEF IndCall, RegisterCall
        <3>2. mu_[Original] = None /\ mu_'[Original] = t
            BY <2>4, ManagerAssumption DEF Locks, TypeOK
        <3>3. \A u \in Threads : ~Inside(u)
            BY <3>2, ManagerAssumption DEF IndMutex
        <3> QED
            BY <2>2, <3>1, <3>2, <3>3 DEF IndMutex, Inside, Registering, Unregistering
    <2> QED
        BY <1>2, <2>1, <2>3, <2>4 DEF OpenSharedMemoryRegion
<1>3. ASSUME NEW t \in Threads,
             CheckSharedMemoryRegionSize(t) \/ MapSharedMemory(t) \/ CloseSharedMemoryRegion(t)
      PROVE  IndMutex'
    <2>1. call[t] \in RegisterCall /\ Inside(t) /\ call[t].m = Original
        BY <1>3, CallKinds DEF CheckSharedMemoryRegionSize, MapSharedMemory,
                               CloseSharedMemoryRegion, Inside, Registering, IndMutex
    <2>2. \A m \in Managers \ {Original}, n \in Names : shared_memory_map_'[m][n] = None
        BY <1>3, <2>1, ManagerAssumption
        DEF CheckSharedMemoryRegionSize, MapSharedMemory, CloseSharedMemoryRegion,
            IndMutex, TypeOK
    <2>3. CASE Returns(t)
        <3>1. call'[t] = Idle /\ \A u \in Threads \ {t} : call'[u] = call[u]
            BY <2>3, CallReturns
        <3>2. \A u \in Threads \ {t} : ~Inside(u)
            BY <2>1, Alone
        <3>3. UNCHANGED alive
            BY <1>3 DEF CheckSharedMemoryRegionSize, MapSharedMemory, CloseSharedMemoryRegion
        <3> QED
            BY <2>2, <3>1, <3>2, <3>3 DEF IndMutex, Inside, Registering, Unregistering, Idle
    <2>4. CASE UNCHANGED <<mu_, alive>> /\ \E x, a : call' = [call EXCEPT ![t].step = x, ![t].addr = a]
        <3>1. call'[t].m = Original /\ \A u \in Threads \ {t} : call'[u] = call[u]
            BY <2>1, <2>4 DEF IndCall, RegisterCall
        <3> QED
            BY <2>1, <2>2, <2>4, <3>1 DEF IndMutex, Inside, Registering, Unregistering
    <2>5. CASE UNCHANGED <<mu_, alive>> /\ \E x : call' = [call EXCEPT ![t].step = x]
        <3>1. call'[t].m = Original /\ \A u \in Threads \ {t} : call'[u] = call[u]
            BY <2>1, <2>5 DEF IndCall, RegisterCall
        <3> QED
            BY <2>1, <2>2, <2>5, <3>1 DEF IndMutex, Inside, Registering, Unregistering
    <2> QED
        BY <1>3, <2>3, <2>4, <2>5 DEF CheckSharedMemoryRegionSize, MapSharedMemory,
                                      CloseSharedMemoryRegion, Throws, GoesTo
<1>4. ASSUME NEW t \in Threads, LockToUnregister(t) PROVE IndMutex'
    <2>1. call[t] \in UnregisterCall /\ call[t].m = Original
        BY <1>4, CallKinds DEF LockToUnregister, IndMutex, UnregisterCall
    <2>2. /\ call'[t] = Idle \/ (call'[t].op = "unregister" /\ call'[t].m = call[t].m)
          /\ \A u \in Threads \ {t} : call'[u] = call[u]
        BY <1>4, <2>1, UnregisterStays
    <2>3. mu_[Original] = None /\ mu_'[Original] = t
        BY <1>4, <2>1, ManagerAssumption DEF LockToUnregister, Locks, TypeOK
    <2>4. \A u \in Threads : ~Inside(u)
        BY <2>3, ManagerAssumption DEF IndMutex
    <2>5. UNCHANGED <<shared_memory_map_, alive>>
        BY <1>4 DEF LockToUnregister
    <2> QED
        BY <2>1, <2>2, <2>3, <2>4, <2>5 DEF IndMutex, Inside, Registering, Unregistering, Idle
<1>5. ASSUME NEW t \in Threads, UnregisterHelper(t) \/ EraseEntry(t) \/ UnregisterDone(t)
      PROVE  IndMutex'
    <2>1. call[t] \in UnregisterCall /\ Inside(t) /\ call[t].m = Original
        BY <1>5, CallKinds DEF UnregisterHelper, EraseEntry, UnregisterDone, Inside,
                               Unregistering, IndMutex
    <2>2. /\ call'[t] = Idle \/ (call'[t].op = "unregister" /\ call'[t].m = call[t].m)
          /\ \A u \in Threads \ {t} : call'[u] = call[u]
        BY <1>5, <2>1, UnregisterStays
    <2>3. \A u \in Threads \ {t} : ~Inside(u)
        BY <2>1, Alone
    <2>4. \A m \in Managers \ {Original}, n \in Names : shared_memory_map_'[m][n] = None
        <3>1. CASE EraseEntry(t)
            BY <2>1, <3>1 DEF EraseEntry, IndMutex, TypeOK
        <3>2. CASE UNCHANGED shared_memory_map_
            BY <3>2 DEF IndMutex
        <3> QED
            BY <1>5, <3>1, <3>2 DEF UnregisterHelper, UnregisterDone
    <2>5. alive' \subseteq alive
        BY <1>5 DEF UnregisterHelper, EraseEntry, UnregisterDone
    <2>6. call'[t] = Idle \/ UNCHANGED mu_
        <3>1. CASE UnregisterDone(t)
            BY <3>1, CallReturns DEF UnregisterDone
        <3> QED
            BY <1>5, <3>1 DEF UnregisterHelper, EraseEntry
    <2> QED
        BY <2>1, <2>2, <2>3, <2>4, <2>5, <2>6
        DEF IndMutex, Inside, Registering, Unregistering, Idle
<1>6. ASSUME NEW t \in Threads, UnregisterUnknown(t) PROVE IndMutex'
    BY <1>6 DEF UnregisterUnknown, IndMutex, Inside, Registering, Unregistering, Idle
<1>7. CASE UNCHANGED <<managers, call>>
    BY <1>7 DEF IndMutex, Inside, Registering, Unregistering
<1>8. ASSUME NEW t \in Threads, CopyManager(t) \/ UnlockMu(t) PROVE FALSE
    BY <1>8 DEF CopyManager, UnlockMu, Safe
<1> QED
    BY <1>1, <1>2, <1>3, <1>4, <1>5, <1>6, <1>7, <1>8
    DEF Next, Step, Register, Unregister, vars, GetMemoryInfo, GetMemoryMap, OtherOpens,
        OtherCloses, OtherProcessRegisters

-----------------------------------------------------------------------------
(* Entries and mappings.                                                   *)

\* A step that keeps the entries and the mappings, and in which no call comes to its
\* own mapping or leaves one of them behind.
LEMMA EntriesStay ==
    ASSUME IndEntries, UNCHANGED <<maps, shared_memory_map_>>,
           \A u \in Threads : Registering(u)' =>
               \/ Entry(call'[u].name) = None
               \/ Registering(u) /\ call'[u].name = call[u].name,
           \A u \in Threads : Mapped(u)' <=> Mapped(u),
           \A u \in Threads : Mapped(u) => call'[u] = call[u],
           \A n \in Names : Leaving(Original, n)' <=> Leaving(Original, n)
    PROVE  IndEntries'
<1>1. Holding' = Holding /\ \A n \in Names : Entry(n)' = Entry(n)
    BY DEF Holding, Registered, Entry
<1>2. \A u \in Threads : Registering(u)' => shared_memory_map_'[Original][call'[u].name] = None
    BY DEF IndEntries, Entry
<1> QED
    BY <1>1, <1>2 DEF IndEntries, Entry

\* A step of one call that is not at its mapping, or at an entry it has unmapped.
LEMMA LeavingStays ==
    ASSUME NEW t \in Threads, \A u \in Threads \ {t} : call'[u] = call[u],
           ~(call[t].op = "unregister" /\ call[t].step = "erase"),
           ~(call'[t].op = "unregister" /\ call'[t].step = "erase"),
           NEW m, NEW n
    PROVE  Leaving(m, n)' <=> Leaving(m, n)
BY DEF Leaving

LEMMA EntriesNext ==
    ASSUME TypeOK, IndCall, IndDescriptors, IndMutex, IndEntries, [Next]_vars, Safe'
    PROVE  IndEntries'
<1> USE DEF system, process, managers, threads
<1>0. "alias" \notin misuse'
    BY DEF Safe
<1>1. ASSUME NEW t \in Threads, CallRegister(t) \/ CallUnregister(t) \/ CallUnregisterAll(t)
      PROVE  IndEntries'
    <2>1. PICK r : Call(t, r) /\ r.step = "lock"
        BY <1>1, CallBegins
    <2>2. /\ call'[t] = r /\ \A u \in Threads \ {t} : call'[u] = call[u]
          /\ call[t] = Idle /\ UNCHANGED <<maps, shared_memory_map_>>
        BY <2>1 DEF Call, IndCall
    <2>3. \A n \in Names : Leaving(Original, n)' <=> Leaving(Original, n)
        BY <2>1, <2>2, LeavingStays DEF Idle
    <2> QED
        BY <2>1, <2>2, <2>3, EntriesStay DEF Registering, Mapped, Idle
<1>2. ASSUME NEW t \in Threads, OpenSharedMemoryRegion(t) PROVE IndEntries'
    <2>1. /\ call[t] \in RegisterCall /\ call[t].m = Original /\ call[t].step = "lock"
          /\ UNCHANGED <<maps, shared_memory_map_>>
        BY <1>2, CallKinds DEF OpenSharedMemoryRegion, IndMutex, RegisterCall
    <2>2. CASE Returns(t)
        <3>1. call'[t] = Idle /\ \A u \in Threads \ {t} : call'[u] = call[u]
            BY <2>2, CallReturns
        <3>2. \A n \in Names : Leaving(Original, n)' <=> Leaving(Original, n)
            BY <2>1, <3>1, LeavingStays DEF Idle
        <3> QED
            BY <2>1, <3>1, <3>2, EntriesStay DEF Registering, Mapped, Idle
    <2>3. CASE /\ call[t].name \notin Registered(Original)
               /\ \E d : call' = [call EXCEPT ![t].step = "check", ![t].fd = d]
        <3>1. /\ call'[t].step = "check" /\ call'[t].op = "register"
              /\ call'[t].name = call[t].name
              /\ \A u \in Threads \ {t} : call'[u] = call[u]
            BY <2>1, <2>3 DEF IndCall, RegisterCall
        <3>2. \A n \in Names : Leaving(Original, n)' <=> Leaving(Original, n)
            BY <2>1, <3>1, LeavingStays
        <3>3. Entry(call'[t].name) = None
            BY <2>1, <2>3, <3>1 DEF Registered, Entry, RegisterCall
        <3> QED
            BY <2>1, <3>1, <3>2, <3>3, EntriesStay DEF Registering, Mapped
    <2> QED
        BY <1>2, <2>1, <2>2, <2>3 DEF OpenSharedMemoryRegion
<1>3. ASSUME NEW t \in Threads, CheckSharedMemoryRegionSize(t) PROVE IndEntries'
    <2>1. /\ call[t] \in RegisterCall /\ call[t].step = "check"
          /\ UNCHANGED <<maps, shared_memory_map_>>
        BY <1>3, CallKinds DEF CheckSharedMemoryRegionSize
    <2>2. /\ \/ call'[t] = Idle
             \/ /\ call'[t].op = "register" /\ call'[t].step = "map"
                /\ call'[t].name = call[t].name
          /\ \A u \in Threads \ {t} : call'[u] = call[u]
        BY <1>3, <2>1 DEF CheckSharedMemoryRegionSize, Throws, Returns, GoesTo, IndCall,
                          RegisterCall
    <2>3. \A n \in Names : Leaving(Original, n)' <=> Leaving(Original, n)
        BY <2>1, <2>2, LeavingStays DEF Idle, RegisterCall
    <2> QED
        BY <2>1, <2>2, <2>3, EntriesStay DEF Registering, Mapped, Idle, RegisterCall
<1>4. ASSUME NEW t \in Threads, MapSharedMemory(t) PROVE IndEntries'
    <2>1. /\ call[t] \in RegisterCall /\ call[t].step = "map" /\ Inside(t) /\ Registering(t)
          /\ UNCHANGED shared_memory_map_
        BY <1>4, CallKinds DEF MapSharedMemory, Inside, Registering
    <2>2. CASE Throws(t) /\ UNCHANGED maps
        <3>1. call'[t] = Idle /\ \A u \in Threads \ {t} : call'[u] = call[u]
            BY <2>2, CallReturns DEF Throws
        <3>2. \A n \in Names : Leaving(Original, n)' <=> Leaving(Original, n)
            BY <2>1, <3>1, LeavingStays DEF Idle, RegisterCall
        <3> QED
            BY <2>1, <2>2, <3>1, <3>2, EntriesStay DEF Registering, Mapped, Idle
    <2>3. CASE \E a \in Addresses :
                /\ maps[a] = None
                /\ maps' = [maps EXCEPT ![a] = [file |-> fds[call[t].fd], offset |-> call[t].offset,
                                                size |-> call[t].size]]
                /\ call' = [call EXCEPT ![t].step = "close", ![t].addr = a]
        <3>1. PICK a \in Addresses :
                /\ maps[a] = None
                /\ maps' = [maps EXCEPT ![a] = [file |-> fds[call[t].fd], offset |-> call[t].offset,
                                                size |-> call[t].size]]
                /\ call' = [call EXCEPT ![t].step = "close", ![t].addr = a]
            BY <2>3
        <3> DEFINE x == [file |-> call[t].key, offset |-> call[t].offset, size |-> call[t].size]
        <3>2. x \in Mapping /\ x # None
            BY <2>1, ManagerAssumption DEF RegisterCall, Mapping
        <3>3. fds[call[t].fd] = call[t].key
            BY <1>0, <2>1, MisuseStays DEF IndDescriptors
        <3>4. maps'[a] = x /\ \A b \in Addresses \ {a} : maps'[b] = maps[b]
            BY <3>1, <3>3 DEF TypeOK
        <3>5. /\ call'[t] = [call[t] EXCEPT !.step = "close", !.addr = a]
              /\ \A u \in Threads \ {t} : call'[u] = call[u]
            BY <3>1 DEF IndCall
        <3>6. /\ call'[t].op = "register" /\ call'[t].step = "close" /\ call'[t].addr = a
              /\ call'[t].name = call[t].name
              /\ x = [file |-> call'[t].key, offset |-> call'[t].offset, size |-> call'[t].size]
            BY <2>1, <3>5 DEF RegisterCall
        <3>7. \A n \in Names : Leaving(Original, n)' <=> Leaving(Original, n)
            BY <2>1, <3>5, <3>6, LeavingStays DEF RegisterCall
        <3>8. Holding' = Holding /\ \A n \in Names : Entry(n)' = Entry(n)
            BY <2>1, <3>7 DEF Holding, Registered, Entry
        <3>9. \A n \in Holding : Entry(n).addr \in Addresses \ {a}
            <4>1. ASSUME NEW n \in Holding PROVE Entry(n) \in Info /\ maps[Entry(n).addr] # None
                <5>1. Entry(n) \in Info
                    BY ManagerAssumption DEF Holding, Registered, Entry, TypeOK
                <5>2. [file |-> Entry(n).key, offset |-> Entry(n).offset, size |-> Entry(n).size]
                         \in Mapping
                    BY <5>1 DEF Info, Mapping
                <5> QED
                    BY <5>1, <5>2, ManagerAssumption DEF IndEntries
            <4> QED
                BY <3>1, <4>1 DEF Info
        <3>10. \A u \in Threads \ {t} : ~Registering(u) /\ ~Mapped(u)
            BY <2>1, Alone DEF Inside, Registering, Mapped
        <3>11. ~Mapped(t) /\ Mapped(t)' /\ \A u \in Threads \ {t} : ~Registering(u)' /\ ~Mapped(u)'
            BY <2>1, <3>5, <3>6, <3>10 DEF Mapped, Registering
        <3>12. \A u \in Threads : Registering(u)' => shared_memory_map_'[Original][call'[u].name] = None
            BY <2>1, <3>6, <3>11 DEF IndEntries, Entry
        <3>13. \A u \in Threads : Mapped(u)' =>
                   /\ call'[u].addr \in Addresses
                   /\ maps'[call'[u].addr] = [file |-> call'[u].key, offset |-> call'[u].offset,
                                              size |-> call'[u].size]
                   /\ \A n \in Holding' : Entry(n)'.addr # call'[u].addr
            BY <3>4, <3>6, <3>8, <3>9, <3>11 DEF Holding, Registered
        <3>14. \A n \in Holding : /\ Entry(n)' = Entry(n)
                                  /\ maps'[Entry(n).addr] = maps[Entry(n).addr]
            BY <3>4, <3>8, <3>9 DEF Holding, Registered
        <3>15. \A b \in Addresses : maps'[b] # None =>
                   \/ \E n \in Holding' : Entry(n)'.addr = b
                   \/ \E u \in Threads : Mapped(u)' /\ call'[u].addr = b
            <4>1. ASSUME NEW b \in Addresses \ {a}, maps[b] # None
                  PROVE  \E n \in Holding : Entry(n).addr = b
                BY <3>10, <3>11, <4>1 DEF IndEntries
            <4> QED
                BY <3>4, <3>6, <3>8, <3>11, <3>14, <4>1
        <3>16. \A n \in Holding' :
                  maps'[Entry(n)'.addr] = [file |-> Entry(n)'.key, offset |-> Entry(n)'.offset,
                                           size |-> Entry(n)'.size]
            BY <3>8, <3>14 DEF IndEntries
        <3>17. \A n, o \in Holding' : n # o => Entry(n)'.addr # Entry(o)'.addr
            BY <3>8, <3>14 DEF IndEntries
        <3>18. \A u \in Threads : Registering(u)' => Entry(call[u].name)' = None
            BY <3>12 DEF Entry
        <3> QED
            BY <3>13, <3>15, <3>16, <3>17, <3>18 DEF IndEntries
    <2> QED
        BY <1>4, <2>2, <2>3 DEF MapSharedMemory
<1>5. ASSUME NEW t \in Threads, CloseSharedMemoryRegion(t) PROVE IndEntries'
    <2>1. /\ call[t] \in RegisterCall /\ call[t].step = "close" /\ Inside(t) /\ Registering(t)
          /\ Mapped(t) /\ call[t].m = Original /\ UNCHANGED maps /\ Returns(t)
        BY <1>5, CallKinds DEF CloseSharedMemoryRegion, Inside, Registering, Mapped, IndMutex,
                               RegisterCall
    <2>2. fds[call[t].fd] = call[t].key /\ call[t].key # "closed" /\ call[t].fd \in Fds
        BY <1>0, <2>1, MisuseStays, ManagerAssumption DEF IndDescriptors, RegisterCall
    <2>0. PICK e \in Names : e = call[t].name
        BY <2>1 DEF RegisterCall
    <2> DEFINE info == [key |-> call[t].key, offset |-> call[t].offset, size |-> call[t].size,
                        fd |-> call[t].fd, addr |-> call[t].addr]
    <2>3. Entry(e) = None
        BY <2>0, <2>1 DEF IndEntries
    <2>4. info \in Info /\ info # None
        <3>1. call[t].addr \in Addresses
            BY <2>1 DEF IndEntries
        <3>2. info \in Info
            BY <2>1, <2>2, <3>1 DEF RegisterCall, Info
        <3> QED
            BY <3>2, ManagerAssumption
    <2>5. shared_memory_map_' = [shared_memory_map_ EXCEPT ![Original][e] = info]
        BY <1>5, <2>0, <2>1, <2>2, <2>3 DEF CloseSharedMemoryRegion, Entry
    <2> HIDE DEF info
    <2>6. Entry(e)' = info /\ \A n \in Names \ {e} : Entry(n)' = Entry(n)
        BY <2>3, <2>5, ManagerAssumption DEF Entry, TypeOK
    <2>7. call'[t] = Idle /\ \A u \in Threads \ {t} : call'[u] = call[u]
        BY <2>1, CallReturns
    <2>8. \A u \in Threads \ {t} : ~Inside(u)
        BY <2>1, Alone
    <2>9. \A n : ~Leaving(Original, n) /\ ~Leaving(Original, n)'
        BY <2>1, <2>7, <2>8 DEF Leaving, Inside, Unregistering, Idle, RegisterCall
    <2>10. \A u \in Threads : ~Registering(u)' /\ ~Mapped(u)'
        BY <2>7, <2>8 DEF Registering, Mapped, Inside, Idle
    <2>11. Holding' = Holding \cup {e} /\ e \notin Holding /\ Holding \subseteq Names
        BY <2>3, <2>4, <2>6, <2>9 DEF Holding, Registered, Entry
    <2>12. /\ info.addr = call[t].addr
           /\ maps[info.addr] = [file |-> info.key, offset |-> info.offset, size |-> info.size]
           /\ \A n \in Holding : Entry(n).addr # info.addr
        BY <2>1 DEF IndEntries, info
    <2>13. \A n \in Holding' :
              maps'[Entry(n)'.addr] = [file |-> Entry(n)'.key, offset |-> Entry(n)'.offset,
                                       size |-> Entry(n)'.size]
        BY <2>1, <2>6, <2>11, <2>12 DEF IndEntries
    <2>14. \A n, o \in Holding' : n # o => Entry(n)'.addr # Entry(o)'.addr
        BY <2>6, <2>11, <2>12 DEF IndEntries
    <2>15. \A a \in Addresses : maps'[a] # None => \E n \in Holding' : Entry(n)'.addr = a
        <3>1. ASSUME NEW a \in Addresses, maps[a] # None
              PROVE  (\E n \in Holding : Entry(n).addr = a) \/ call[t].addr = a
            BY <2>8, <3>1 DEF IndEntries, Mapped, Inside, Registering
        <3> QED
            BY <2>1, <2>6, <2>11, <2>12, <3>1
    <2> QED
        BY <2>10, <2>13, <2>14, <2>15 DEF IndEntries
<1>6. ASSUME NEW t \in Threads, LockToUnregister(t) \/ UnregisterDone(t) PROVE IndEntries'
    <2>1. /\ call[t] \in UnregisterCall /\ call[t].step # "erase"
          /\ UNCHANGED <<maps, shared_memory_map_>>
        BY <1>6, CallKinds DEF LockToUnregister, UnregisterDone
    <2>2. /\ call'[t].op # "register" /\ \A u \in Threads \ {t} : call'[u] = call[u]
        BY <1>6, <2>1, UnregisterStays
    <2>3. ~(call'[t].op = "unregister" /\ call'[t].step = "erase")
        BY <1>6, <2>1 DEF LockToUnregister, UnregisterDone, Returns, IndCall, UnregisterCall, Idle
    <2>4. \A n \in Names : Leaving(Original, n)' <=> Leaving(Original, n)
        BY <2>1, <2>2, <2>3, LeavingStays
    <2> QED
        BY <2>1, <2>2, <2>4, EntriesStay DEF Registering, Mapped, UnregisterCall
<1>7. ASSUME NEW t \in Threads, UnregisterHelper(t) PROVE IndEntries'
    <2>1. /\ call[t] \in UnregisterCall /\ call[t].step = "unmap" /\ Inside(t)
          /\ call[t].m = Original /\ UNCHANGED shared_memory_map_
        BY <1>7, CallKinds DEF UnregisterHelper, Inside, Unregistering, IndMutex, UnregisterCall
    <2>2. PICK e \in Registered(Original) :
            /\ maps' = [maps EXCEPT ![Entry(e).addr] = None]
            /\ call' = [call EXCEPT ![t].step = "erase", ![t].name = e, ![t].left = @ \ {e}]
        BY <1>7, <2>1 DEF UnregisterHelper, UnmapSharedMemory, Entry
    <2>3. /\ call'[t].op = "unregister" /\ call'[t].step = "erase" /\ call'[t].name = e
          /\ call'[t].m = Original
          /\ \A u \in Threads \ {t} : call'[u] = call[u]
        BY <2>1, <2>2 DEF IndCall, UnregisterCall
    <2>4. \A u \in Threads \ {t} : ~Inside(u)
        BY <2>1, Alone
    <2>5. \A n : ~Leaving(Original, n) /\ (Leaving(Original, n)' <=> n = e)
        BY <2>1, <2>3, <2>4 DEF Leaving, Inside, Unregistering
    <2>6. \A u \in Threads : ~Registering(u)' /\ ~Mapped(u)' /\ ~Mapped(u)
        BY <2>1, <2>3, <2>4 DEF Registering, Mapped, Inside, UnregisterCall
    <2>7. /\ \A n \in Names : Entry(n)' = Entry(n)
          /\ Holding' = Holding \ {e} /\ e \in Holding /\ Holding \subseteq Names
        BY <2>1, <2>5 DEF Holding, Registered, Entry
    <2>8. \A n \in Holding : Entry(n).addr \in Addresses
        <3>1. ASSUME NEW n \in Holding PROVE Entry(n) \in Info
            BY ManagerAssumption DEF Holding, Registered, Entry, TypeOK
        <3> QED
            BY <3>1 DEF Info
    <2>9. maps'[Entry(e).addr] = None /\ \A a \in Addresses \ {Entry(e).addr} : maps'[a] = maps[a]
        BY <2>2, <2>7, <2>8 DEF TypeOK
    <2>10. \A n \in Holding' : Entry(n).addr # Entry(e).addr
        BY <2>7 DEF IndEntries
    <2>11. \A n \in Holding' :
              maps'[Entry(n).addr] = [file |-> Entry(n).key, offset |-> Entry(n).offset,
                                      size |-> Entry(n).size]
        BY <2>7, <2>8, <2>9, <2>10 DEF IndEntries
    <2>12. \A a \in Addresses : maps'[a] # None => \E n \in Holding' : Entry(n).addr = a
        BY <2>6, <2>7, <2>9 DEF IndEntries
    <2> QED
        BY <2>6, <2>7, <2>11, <2>12 DEF IndEntries
<1>8. ASSUME NEW t \in Threads, EraseEntry(t) PROVE IndEntries'
    <2>1. /\ call[t] \in UnregisterCall /\ call[t].step = "erase" /\ Inside(t)
          /\ call[t].m = Original /\ UNCHANGED maps
        BY <1>8, CallKinds DEF EraseEntry, Inside, Unregistering, IndMutex, UnregisterCall
    <2>0. PICK e \in Names : e = call[t].name
        BY <2>1 DEF IndCall, WellFormed
    <2>2. call[t].op = "unregister"
        BY <2>1 DEF UnregisterCall
    <2>3. Entry(e)' = None /\ \A n \in Names \ {e} : Entry(n)' = Entry(n)
        BY <1>8, <2>0, <2>1, ManagerAssumption DEF EraseEntry, Entry, TypeOK
    <2>4. /\ call'[t].op = "unregister" /\ call'[t].step = "unmap"
          /\ \A u \in Threads \ {t} : call'[u] = call[u]
        BY <1>8, <2>1 DEF EraseEntry, GoesTo, IndCall, UnregisterCall
    <2>5. \A u \in Threads \ {t} : ~Inside(u)
        BY <2>1, Alone
    <2>6. \A n : ~Leaving(Original, n)' /\ (Leaving(Original, n) <=> n = e)
        BY <2>0, <2>1, <2>2, <2>4, <2>5 DEF Leaving, Inside, Unregistering
    <2>7. \A u \in Threads : ~Registering(u)' /\ ~Mapped(u)' /\ ~Mapped(u)
        BY <2>1, <2>2, <2>4, <2>5 DEF Registering, Mapped, Inside
    <2>8. Holding' = Holding /\ \A n \in Holding : Entry(n)' = Entry(n)
        BY <2>3, <2>6 DEF Holding, Registered, Entry
    <2> QED
        BY <2>1, <2>7, <2>8 DEF IndEntries
<1>9. ASSUME NEW t \in Threads, UnregisterUnknown(t) PROVE IndEntries'
    <2>1. \A u \in Threads : call'[u] = Idle
        BY <1>9 DEF UnregisterUnknown
    <2>2. \A u \in Threads : ~Registering(u)' /\ ~Mapped(u)'
        BY <2>1 DEF Registering, Mapped, Idle
    <2>3. \A n \in Names : Entry(n)' = None
        BY <1>9, ManagerAssumption DEF UnregisterUnknown, Entry
    <2>4. Holding' = {}
        BY <2>3 DEF Holding, Registered, Entry
    <2>5. \A a \in Addresses : maps'[a] = None
        BY <1>9 DEF UnregisterUnknown
    <2> QED
        BY <2>2, <2>4, <2>5 DEF IndEntries
<1>10. CASE UNCHANGED <<maps, shared_memory_map_, call>>
    BY <1>10, EntriesStay DEF Registering, Mapped, Leaving, IndEntries
<1>11. ASSUME NEW t \in Threads, CopyManager(t) PROVE FALSE
    BY <1>11 DEF CopyManager, Safe
<1> QED
    BY <1>1, <1>2, <1>3, <1>4, <1>5, <1>6, <1>7, <1>8, <1>9, <1>10, <1>11
    DEF Next, Step, Register, Unregister, vars, GetMemoryInfo, GetMemoryMap, UnlockMu,
        OtherOpens, OtherCloses, OtherProcessRegisters

-----------------------------------------------------------------------------
(* Bounds and handles.                                                     *)

\* The handle is one that may still be used.
Valid(h) == h # None /\ h.locked /\ ~h.gone

\* A step that keeps entries and objects, and gives no handle that may be used.
LEMMA BoundsStay ==
    ASSUME IndBounds, UNCHANGED <<objectSize, shared_memory_map_>>,
           \A u \in Threads : Registering(u)' =>
               /\ Registering(u) /\ call'[u].key = call[u].key /\ call'[u].size = call[u].size
               /\ call'[u].offset = call[u].offset
               /\ call'[u].step \in {"map", "close"} =>
                      call[u].offset = 0 \/ call[u].step \in {"map", "close"},
           \A u \in Threads : handle'[u] = handle[u] \/ ~Valid(handle'[u])
    PROVE  IndBounds'
<1>1. /\ \A n \in Names : Entry(n)' = Entry(n)
      /\ Registered(Original)' = Registered(Original)
    BY DEF Registered, Entry
<1>2. \A u \in Threads : Registering(u)' =>
           /\ objectSize'[call'[u].key] = call'[u].size
           /\ call'[u].step \in {"map", "close"} => call'[u].offset = 0
    BY DEF IndBounds
<1>3. \A n \in Registered(Original)' :
           Entry(n)'.offset = 0 /\ objectSize'[Entry(n)'.key] = Entry(n)'.size
    BY <1>1 DEF IndBounds, Registered
<1>4. \A u \in Threads : Valid(handle'[u]) =>
           /\ handle'[u].m = Original
           /\ handle'[u].name \in Registered(Original)'
           /\ handle'[u].addr = shared_memory_map_'[Original][handle'[u].name].addr
           /\ handle'[u].offset + handle'[u].size
                  <= shared_memory_map_'[Original][handle'[u].name].size
    BY <1>1 DEF IndBounds, Valid, Entry
<1> QED
    BY <1>2, <1>3, <1>4 DEF IndBounds, Valid, Entry

LEMMA BoundsNext ==
    ASSUME TypeOK, IndCall, IndDescriptors, IndMutex, IndEntries, IndBounds, [Next]_vars,
           misuse' = {}
    PROVE  IndBounds'
<1> USE DEF system, process, managers, threads
<1>0. misuse = {}
    BY MisuseStays
<1>1. ASSUME NEW t \in Threads, CallRegister(t) \/ CallUnregister(t) \/ CallUnregisterAll(t)
      PROVE  IndBounds'
    <2>1. PICK r : Call(t, r) /\ r.step = "lock"
        BY <1>1, CallBegins
    <2>2. /\ call'[t] = r /\ \A u \in Threads \ {t} : call'[u] = call[u]
          /\ UNCHANGED <<objectSize, shared_memory_map_>>
        BY <2>1 DEF Call, IndCall
    <2>3. handle'[t] = None /\ \A u \in Threads \ {t} : handle'[u] = handle[u]
        BY <2>1 DEF Call, TypeOK
    <2> QED
        BY <2>1, <2>2, <2>3, BoundsStay DEF Registering, Valid
<1>2. ASSUME NEW t \in Threads, OpenSharedMemoryRegion(t) PROVE IndBounds'
    <2>1. /\ call[t] \in RegisterCall /\ call[t].m = Original
          /\ UNCHANGED <<shared_memory_map_, handle>>
        BY <1>2, CallKinds DEF OpenSharedMemoryRegion, IndMutex, RegisterCall
    <2>2. CASE Returns(t) /\ UNCHANGED objectSize
        <3>1. call'[t] = Idle /\ \A u \in Threads \ {t} : call'[u] = call[u]
            BY <2>2, CallReturns
        <3> QED
            BY <2>1, <2>2, <3>1, BoundsStay DEF Registering, Idle
    <2>3. CASE /\ Locks(t, Original) /\ SameKey(Original, call[t].key) = {}
               /\ \E d : call' = [call EXCEPT ![t].step = "check", ![t].fd = d]
               /\ objectSize' = [objectSize EXCEPT ![call[t].key] = call[t].size]
        <3>1. PICK k \in Keys : k = call[t].key
            BY <2>1 DEF RegisterCall
        <3>2. /\ call'[t].step = "check" /\ call'[t].key = k /\ call'[t].size = call[t].size
              /\ \A u \in Threads \ {t} : call'[u] = call[u]
            BY <2>1, <2>3, <3>1 DEF IndCall, RegisterCall
        <3>3. objectSize'[k] = call[t].size /\ \A l \in Keys \ {k} : objectSize'[l] = objectSize[l]
            BY <2>3, <3>1 DEF TypeOK
        <3>4. \A u \in Threads : ~Inside(u)
            BY <2>3, ManagerAssumption DEF IndMutex, Locks
        <3>5. \A u \in Threads \ {t} : ~Registering(u)'
            BY <3>2, <3>4 DEF Registering, Inside
        <3>6. /\ \A n \in Names : Entry(n)' = Entry(n)
              /\ Registered(Original)' = Registered(Original)
            BY <2>1 DEF Registered, Entry
        <3>7. \A n \in Registered(Original) : Entry(n).key \in Keys \ {k}
            BY <2>3, <3>1, ManagerAssumption DEF SameKey, Registered, Entry, TypeOK, Info
        <3>8. \A n \in Registered(Original)' :
                 Entry(n)'.offset = 0 /\ objectSize'[Entry(n)'.key] = Entry(n)'.size
            BY <3>3, <3>6, <3>7 DEF IndBounds, Registered
        <3>9. \A u \in Threads : Registering(u)' =>
                 /\ objectSize'[call'[u].key] = call'[u].size
                 /\ call'[u].step \in {"map", "close"} => call'[u].offset = 0
            BY <3>2, <3>3, <3>5
        <3> QED
            BY <2>1, <3>6, <3>8, <3>9 DEF IndBounds, Entry
    <2>4. "alias" \notin misuse'
        OBVIOUS
    <2> QED
        BY <1>2, <2>1, <2>2, <2>3, <2>4 DEF OpenSharedMemoryRegion
<1>3. ASSUME NEW t \in Threads, CheckSharedMemoryRegionSize(t) PROVE IndBounds'
    <2>1. /\ call[t] \in RegisterCall /\ call[t].step = "check" /\ Registering(t)
          /\ UNCHANGED <<objectSize, shared_memory_map_, handle>>
        BY <1>3, CallKinds DEF CheckSharedMemoryRegionSize, Registering
    <2>2. CASE Throws(t)
        <3>1. call'[t] = Idle /\ \A u \in Threads \ {t} : call'[u] = call[u]
            BY <2>2, CallReturns DEF Throws
        <3> QED
            BY <2>1, <3>1, BoundsStay DEF Registering, Idle
    <2>3. CASE /\ GoesTo(t, "map") /\ ~(call[t].offset + call[t].size > FileSize(call[t].fd))
        <3>1. fds[call[t].fd] = call[t].key /\ call[t].key # "other"
            BY <1>0, <2>1, ManagerAssumption DEF IndDescriptors, RegisterCall
        <3>2. FileSize(call[t].fd) = call[t].size
            BY <2>1, <3>1 DEF FileSize, IndBounds
        <3>3. call[t].offset \in Nat /\ call[t].size \in Nat
            BY <2>1, ManagerAssumption DEF RegisterCall
        <3>4. call[t].offset = 0
            BY <2>3, <3>2, <3>3
        <3>5. /\ call'[t].key = call[t].key /\ call'[t].size = call[t].size
              /\ call'[t].offset = call[t].offset
              /\ \A u \in Threads \ {t} : call'[u] = call[u]
            BY <2>1, <2>3 DEF GoesTo, IndCall, RegisterCall
        <3> QED
            BY <2>1, <3>4, <3>5, BoundsStay DEF Registering
    <2> QED
        BY <1>3, <2>2, <2>3 DEF CheckSharedMemoryRegionSize
<1>4. ASSUME NEW t \in Threads, MapSharedMemory(t) PROVE IndBounds'
    <2>1. /\ call[t] \in RegisterCall /\ call[t].step = "map" /\ Registering(t)
          /\ UNCHANGED <<objectSize, shared_memory_map_, handle>>
        BY <1>4, CallKinds DEF MapSharedMemory, Registering
    <2>2. CASE Throws(t)
        <3>1. call'[t] = Idle /\ \A u \in Threads \ {t} : call'[u] = call[u]
            BY <2>2, CallReturns DEF Throws
        <3> QED
            BY <2>1, <3>1, BoundsStay DEF Registering, Idle
    <2>3. CASE \E a : call' = [call EXCEPT ![t].step = "close", ![t].addr = a]
        <3>1. /\ call'[t].key = call[t].key /\ call'[t].size = call[t].size
              /\ call'[t].offset = call[t].offset
              /\ \A u \in Threads \ {t} : call'[u] = call[u]
            BY <2>1, <2>3 DEF IndCall, RegisterCall
        <3> QED
            BY <2>1, <3>1, BoundsStay DEF Registering
    <2> QED
        BY <1>4, <2>2, <2>3 DEF MapSharedMemory
<1>5. ASSUME NEW t \in Threads, CloseSharedMemoryRegion(t) PROVE IndBounds'
    <2>1. /\ call[t] \in RegisterCall /\ call[t].step = "close" /\ Registering(t) /\ Inside(t)
          /\ call[t].m = Original /\ Returns(t) /\ UNCHANGED <<objectSize, handle>>
        BY <1>5, CallKinds DEF CloseSharedMemoryRegion, Registering, Inside, IndMutex, RegisterCall
    <2>2. call'[t] = Idle /\ \A u \in Threads \ {t} : call'[u] = call[u]
        BY <2>1, CallReturns
    <2>3. \A u \in Threads : ~Registering(u)'
        BY <2>1, <2>2, Alone DEF Registering, Inside, Idle
    <2>4. PICK e \in Names : e = call[t].name
        BY <2>1 DEF RegisterCall
    <2>5. Entry(e) = None
        BY <2>1, <2>4 DEF IndEntries
    <2>6. CASE UNCHANGED shared_memory_map_
        BY <2>1, <2>3, <2>6, BoundsStay
    <2>7. CASE shared_memory_map_' = [shared_memory_map_ EXCEPT ![Original][e] =
                   [key |-> call[t].key, offset |-> call[t].offset, size |-> call[t].size,
                    fd |-> call[t].fd, addr |-> call[t].addr]]
        <3>1. /\ Entry(e)'.key = call[t].key /\ Entry(e)'.offset = call[t].offset
              /\ Entry(e)'.size = call[t].size
              /\ \A n \in Names \ {e} : Entry(n)' = Entry(n)
            BY <2>7, ManagerAssumption DEF Entry, TypeOK
        <3>2. Registered(Original) \subseteq Registered(Original)' \ {e}
            BY <2>5, <3>1 DEF Registered, Entry
        <3>3. Registered(Original)' \subseteq Registered(Original) \cup {e}
            BY <3>1 DEF Registered, Entry
        <3>4. \A n \in Registered(Original)' :
                 Entry(n)'.offset = 0 /\ objectSize'[Entry(n)'.key] = Entry(n)'.size
            BY <2>1, <3>1, <3>3 DEF IndBounds, Registered
        <3>5. \A u \in Threads : Valid(handle'[u]) =>
                 /\ handle'[u].m = Original
                 /\ handle'[u].name \in Registered(Original)'
                 /\ handle'[u].addr = shared_memory_map_'[Original][handle'[u].name].addr
                 /\ handle'[u].offset + handle'[u].size
                        <= shared_memory_map_'[Original][handle'[u].name].size
            BY <2>1, <3>1, <3>2 DEF IndBounds, Valid, Entry, Registered
        <3> QED
            BY <2>3, <3>4, <3>5 DEF IndBounds, Valid, Entry
    <2> QED
        BY <1>5, <2>1, <2>4, <2>5, <2>6, <2>7 DEF CloseSharedMemoryRegion, Entry
<1>6. ASSUME NEW t \in Threads, LockToUnregister(t) \/ UnregisterHelper(t) \/ UnregisterDone(t)
      PROVE  IndBounds'
    <2>1. /\ call[t] \in UnregisterCall
          /\ UNCHANGED <<objectSize, shared_memory_map_, handle>>
        BY <1>6, CallKinds DEF LockToUnregister, UnregisterHelper, UnregisterDone
    <2>2. call'[t].op # "register" /\ \A u \in Threads \ {t} : call'[u] = call[u]
        BY <1>6, <2>1, UnregisterStays
    <2> QED
        BY <2>1, <2>2, BoundsStay DEF Registering
<1>7. ASSUME NEW t \in Threads, EraseEntry(t) PROVE IndBounds'
    <2>1. /\ call[t] \in UnregisterCall /\ call[t].step = "erase" /\ call[t].m = Original
          /\ UNCHANGED objectSize
        BY <1>7, CallKinds DEF EraseEntry, IndMutex, UnregisterCall
    <2>2. PICK e \in Names : e = call[t].name
        BY <2>1 DEF IndCall, WellFormed
    <2>3. call'[t].op # "register" /\ \A u \in Threads \ {t} : call'[u] = call[u]
        BY <1>7, <2>1, UnregisterStays
    <2>4. \A u \in Threads : Registering(u)' => Registering(u) /\ call'[u] = call[u]
        BY <2>3 DEF Registering
    <2>5. Entry(e)' = None /\ \A n \in Names \ {e} : Entry(n)' = Entry(n)
        BY <1>7, <2>1, <2>2, ManagerAssumption DEF EraseEntry, Entry, TypeOK
    <2>6. Registered(Original)' = Registered(Original) \ {e}
        BY <2>5 DEF Registered, Entry
    <2>7. \A u \in Threads : Valid(handle'[u]) => handle'[u] = handle[u] /\ handle[u].name # e
        <3>1. ASSUME NEW u \in Threads, handle[u] # None, handle[u].m = Original,
                     handle[u].name = e
              PROVE  ~Valid(handle'[u])
            <4>1. handle'[u] = [handle[u] EXCEPT !.gone = TRUE]
                BY <1>7, <2>1, <2>2, <3>1 DEF EraseEntry
            <4>2. handle'[u].gone
                BY <3>1, <4>1 DEF TypeOK, Handle
            <4> QED
                BY <4>2 DEF Valid
        <3>2. ASSUME NEW u \in Threads,
                     ~(handle[u] # None /\ handle[u].m = Original /\ handle[u].name = e)
              PROVE  handle'[u] = handle[u]
            BY <1>7, <2>1, <2>2, <3>2 DEF EraseEntry
        <3> QED
            BY <3>1, <3>2 DEF Valid, IndBounds
    <2>8. \A u \in Threads : Registering(u)' =>
              /\ objectSize'[call'[u].key] = call'[u].size
              /\ call'[u].step \in {"map", "close"} => call'[u].offset = 0
        BY <2>1, <2>4 DEF IndBounds
    <2>9. \A n \in Registered(Original)' :
              Entry(n)'.offset = 0 /\ objectSize'[Entry(n)'.key] = Entry(n)'.size
        BY <2>1, <2>5, <2>6 DEF IndBounds, Registered
    <2>10. \A u \in Threads : Valid(handle'[u]) =>
              /\ handle'[u].m = Original
              /\ handle'[u].name \in Registered(Original)'
              /\ handle'[u].addr = shared_memory_map_'[Original][handle'[u].name].addr
              /\ handle'[u].offset + handle'[u].size
                     <= shared_memory_map_'[Original][handle'[u].name].size
        BY <2>5, <2>6, <2>7 DEF IndBounds, Valid, Entry, Registered
    <2> QED
        BY <2>8, <2>9, <2>10 DEF IndBounds, Valid, Entry
<1>8. ASSUME NEW t \in Threads, UnregisterUnknown(t) PROVE IndBounds'
    <2>1. \A u \in Threads : call'[u] = Idle /\ handle'[u] = None
        BY <1>8 DEF UnregisterUnknown
    <2>2. Registered(Original)' = {}
        BY <1>8, ManagerAssumption DEF UnregisterUnknown, Registered
    <2> QED
        BY <2>1, <2>2 DEF IndBounds, Registering, Idle
<1>9. ASSUME NEW t \in Threads, GetMemoryInfo(t) PROVE IndBounds'
    <2>1. PICK m \in alive, n \in Names, o \in Offsets, s \in Sizes :
              handle' = [handle EXCEPT ![t] = Found(m, n, o, s)]
        BY <1>9, Finds
    <2>2. UNCHANGED <<objectSize, shared_memory_map_, call>>
        BY <1>9 DEF GetMemoryInfo
    <2>3. m = Original
        BY DEF IndMutex
    <2> DEFINE h == Found(m, n, o, s)
    <2>4. handle'[t] = h /\ \A u \in Threads \ {t} : handle'[u] = handle[u]
        BY <2>1 DEF TypeOK
    <2>5. h # None => /\ n \in Registered(Original) /\ h.m = Original /\ h.name = n
                      /\ h.addr = Entry(n).addr
                      /\ h.offset + h.size <= Entry(n).offset + Entry(n).size
        BY <2>3, FoundType, ManagerAssumption DEF Entry
    <2>6. n \in Registered(Original) => Entry(n).offset = 0 /\ Entry(n).size \in Nat
        BY ManagerAssumption DEF IndBounds, Registered, Entry, TypeOK, Info
    <2> HIDE DEF h
    <2>7. h # None => h.offset + h.size <= Entry(n).size
        BY <2>5, <2>6
    <2>8. \A u \in Threads : Valid(handle'[u]) =>
              /\ handle'[u].m = Original
              /\ handle'[u].name \in Registered(Original)
              /\ handle'[u].addr = shared_memory_map_[Original][handle'[u].name].addr
              /\ handle'[u].offset + handle'[u].size
                     <= shared_memory_map_[Original][handle'[u].name].size
        BY <2>4, <2>5, <2>7 DEF IndBounds, Valid, Entry
    <2> QED
        BY <2>2, <2>8 DEF IndBounds, Valid, Entry, Registering, Registered
<1>10. ASSUME NEW t \in Threads, GetMemoryMap(t) PROVE IndBounds'
    <2>1. UNCHANGED <<objectSize, shared_memory_map_, call>>
        BY <1>10 DEF GetMemoryMap
    <2>2. ~Valid(handle'[t]) /\ \A u \in Threads \ {t} : handle'[u] = handle[u]
        BY <1>10 DEF GetMemoryMap, Valid, TypeOK
    <2> QED
        BY <2>1, <2>2, BoundsStay DEF Registering
<1>11. CASE OtherProcessRegisters
    <2>1. PICK k \in Keys, s \in Sizes :
              /\ objectSize[k] \in {0, s}
              /\ objectSize' = [objectSize EXCEPT ![k] = s]
        BY <1>11 DEF OtherProcessRegisters
    <2>2. \A l \in Keys : objectSize[l] # 0 => objectSize'[l] = objectSize[l]
        BY <2>1 DEF TypeOK
    <2>3. UNCHANGED <<shared_memory_map_, call, handle>>
        BY <1>11 DEF OtherProcessRegisters
    <2>4. \A u \in Threads : Registering(u) => call[u].key \in Keys /\ call[u].size # 0
        BY CallKinds, ManagerAssumption DEF Registering, RegisterCall
    <2>5. \A n \in Registered(Original) : Entry(n).key \in Keys /\ Entry(n).size # 0
        BY ManagerAssumption DEF Registered, Entry, TypeOK, Info
    <2> QED
        BY <2>2, <2>3, <2>4, <2>5 DEF IndBounds, Registering, Registered, Entry
<1>12. CASE UNCHANGED <<objectSize, shared_memory_map_, call, handle>>
    BY <1>12, BoundsStay DEF Registering
<1>13. ASSUME NEW t \in Threads, CopyManager(t) \/ UnlockMu(t) PROVE FALSE
    BY <1>13 DEF CopyManager, UnlockMu
<1> QED
    BY <1>1, <1>2, <1>3, <1>4, <1>5, <1>6, <1>7, <1>8, <1>9, <1>10, <1>11, <1>12, <1>13
    DEF Next, Step, Register, Unregister, vars, OtherOpens, OtherCloses

-----------------------------------------------------------------------------
(* The theorems.                                                           *)

IndInv == IndDescriptors /\ IndSafe /\ IndUsable

LEMMA Inductive == Spec => [](TypeOK /\ IndCall /\ IndInv)
<1>1. Init => IndInv
    <2> SUFFICES ASSUME Init PROVE IndInv
        OBVIOUS
    <2>1. /\ \A t \in Threads : call[t] = Idle /\ handle[t] = None
          /\ \A a \in Addresses : maps[a] = None
          /\ \A m \in Managers, n \in Names : shared_memory_map_[m][n] = None
          /\ foreign = {} /\ alive = {Original}
        BY DEF Init
    <2>2. /\ \A t \in Threads : ~Registering(t) /\ ~Inside(t) /\ ~Mapped(t)
          /\ Registered(Original) = {} /\ Holding = {}
        BY <2>1, ManagerAssumption
        DEF Registering, Unregistering, Inside, Mapped, Idle, Registered, Holding
    <2>3. IndDescriptors
        BY <2>1, <2>2 DEF IndDescriptors
    <2>4. IndMutex
        BY <2>1, <2>2 DEF IndMutex, Idle
    <2>5. IndEntries
        BY <2>1, <2>2 DEF IndEntries
    <2>6. IndBounds
        BY <2>1, <2>2 DEF IndBounds
    <2> QED
        BY <2>3, <2>4, <2>5, <2>6 DEF IndInv, IndSafe, IndUsable
<1>2. TypeOK /\ IndCall /\ IndInv /\ [Next]_vars => IndInv'
    <2> SUFFICES ASSUME TypeOK, IndCall, IndInv, [Next]_vars PROVE IndInv'
        OBVIOUS
    <2>1. IndDescriptors'
        BY DescriptorsNext DEF IndInv
    <2>2. IndSafe'
        <3> SUFFICES ASSUME Safe' PROVE (IndMutex /\ IndEntries)'
            BY DEF IndSafe
        <3>1. IndMutex /\ IndEntries
            BY SafeStays DEF IndInv, IndSafe
        <3> QED
            BY <3>1, MutexNext, EntriesNext DEF IndInv
    <2>3. IndUsable'
        <3> SUFFICES ASSUME misuse' = {} PROVE IndBounds'
            BY DEF IndUsable
        <3>1. misuse = {}
            BY MisuseStays
        <3>2. IndMutex /\ IndEntries /\ IndBounds
            BY <3>1 DEF IndInv, IndSafe, IndUsable, Safe
        <3> QED
            BY <3>2, BoundsNext DEF IndInv
    <2> QED
        BY <2>1, <2>2, <2>3 DEF IndInv
<1> QED
    BY <1>1, <1>2, TypeInit, TypeNext, CallNext, PTL DEF Spec

\* Every entry of a manager is a live mapping of its own key.
THEOREM EntriesAreLive == Spec => []EntriesLive
<1>1. TypeOK /\ IndCall /\ IndInv => EntriesLive
    <2> SUFFICES ASSUME TypeOK, IndInv, Safe, NEW m \in alive, NEW n \in Registered(m),
                        ~Leaving(m, n)
                 PROVE  maps[shared_memory_map_[m][n].addr] =
                            [file |-> shared_memory_map_[m][n].key,
                             offset |-> shared_memory_map_[m][n].offset,
                             size |-> shared_memory_map_[m][n].size]
        BY DEF EntriesLive, Safe
    <2>1. m = Original
        BY DEF IndInv, IndSafe, IndMutex
    <2> QED
        BY <2>1 DEF IndInv, IndSafe, IndEntries, Holding, Entry
<1> QED
    BY <1>1, Inductive, PTL

\* A mapping has one owner, the entry that will unmap it or the call that is about to
\* make the entry.
THEOREM MappingsAreOwned == Spec => []MappingsOwned
<1>1. TypeOK /\ IndCall /\ IndInv => MappingsOwned
    <2> SUFFICES ASSUME TypeOK, IndInv, Safe, NEW a \in Addresses, maps[a] # None,
                        ~\E t \in Threads : Mapped(t) /\ call[t].addr = a
                 PROVE  Cardinality(Owners(a)) = 1
        BY DEF MappingsOwned, Safe, Mapped
    <2>1. PICK n \in Holding : Entry(n).addr = a
        BY DEF IndInv, IndSafe, IndEntries
    <2>2. \A o \in Holding : Entry(o).addr = a => o = n
        BY <2>1 DEF IndInv, IndSafe, IndEntries
    <2>3. \A m \in Managers \ {Original} : Registered(m) = {}
        BY DEF IndInv, IndSafe, IndMutex, Registered
    <2>4. ASSUME NEW m \in Managers, NEW o \in Names
          PROVE  Owns(m, o, a) <=> m = Original /\ o = n
        BY <2>1, <2>2, <2>3, ManagerAssumption DEF Owns, Holding, Entry
    <2>5. <<Original, n>> \in Managers \X Names
        BY ManagerAssumption DEF Holding, Registered
    <2>6. Owners(a) = {<<Original, n>>}
        <3>1. ASSUME NEW p \in Owners(a) PROVE p = <<Original, n>>
            <4>1. p \in Managers \X Names /\ Owns(p[1], p[2], a)
                BY DEF Owners
            <4> QED
                BY <2>4, <4>1
        <3>2. <<Original, n>> \in Owners(a)
            BY <2>4, <2>5, ManagerAssumption DEF Owners, Holding, Registered
        <3> QED
            BY <3>1, <3>2
    <2> QED
        BY <2>6, FS_Singleton
<1> QED
    BY <1>1, Inductive, PTL

\* Entries and mappings correspond, one to one.
THEOREM EntriesOwnTheirMappings == Spec => []EntriesOwnMappings
<1>1. EntriesLive /\ MappingsOwned => EntriesOwnMappings
    BY DEF EntriesOwnMappings
<1> QED
    BY <1>1, EntriesAreLive, MappingsAreOwned, PTL

\* What GetMemoryInfo hands out lies in its mapping, and the mapping in the object, as
\* long as the entry stays.
THEOREM HandlesAreUsable == Spec => []HandlesUsable
<1>1. TypeOK /\ IndCall /\ IndInv => HandlesUsable
    <2> SUFFICES ASSUME TypeOK, IndInv, misuse = {}, NEW t \in Threads, Valid(handle[t]),
                        ~Leaving(handle[t].m, handle[t].name)
                 PROVE  /\ maps[handle[t].addr] # None
                        /\ handle[t].offset + handle[t].size <= maps[handle[t].addr].size
                        /\ maps[handle[t].addr].file \in Keys
                        /\ maps[handle[t].addr].offset + maps[handle[t].addr].size
                               <= objectSize[maps[handle[t].addr].file]
        BY DEF HandlesUsable, Valid
    <2>1. IndEntries /\ IndBounds
        BY DEF IndInv, IndSafe, IndUsable, Safe
    <2>2. PICK n \in Holding : /\ n = handle[t].name /\ handle[t].addr = Entry(n).addr
                               /\ handle[t].offset + handle[t].size <= Entry(n).size
        BY <2>1 DEF IndBounds, Valid, Holding
    <2>3. Entry(n) \in Info
        BY ManagerAssumption DEF Holding, Registered, Entry, TypeOK
    <2> DEFINE x == [file |-> Entry(n).key, offset |-> Entry(n).offset, size |-> Entry(n).size]
    <2>4. maps[handle[t].addr] = x
        BY <2>1, <2>2 DEF IndEntries
    <2>5. x \in Mapping
        BY <2>3 DEF Info, Mapping
    <2>6. Entry(n).offset = 0 /\ objectSize[Entry(n).key] = Entry(n).size /\ Entry(n).size \in Nat
        BY <2>1, <2>3, ManagerAssumption DEF IndBounds, Holding, Info
    <2>7. x.file \in Keys /\ x.offset + x.size <= objectSize[x.file]
        BY <2>3, <2>6 DEF Info
    <2>8. handle[t].offset + handle[t].size <= x.size
        BY <2>2
    <2>9. x # None
        BY <2>5, ManagerAssumption
    <2> QED
        BY <2>4, <2>7, <2>8, <2>9
<1> QED
    BY <1>1, Inductive, PTL

=============================================================================
