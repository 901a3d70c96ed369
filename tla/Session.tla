------------------------------ MODULE Session ------------------------------
(***************************************************************************)
(* One session of the gateway: the host process (core/src/main.cpp) makes  *)
(* the shared region, starts the handler and the streamer and the HTTP     *)
(* thread, and joins them; the children register the region, install       *)
(* dieHandler, and meet in the handshake of HandleStreamDaemon.cpp.        *)
(* Signals come at any time, to the host alone (kill) or to the three      *)
(* processes of the terminal's group (Ctrl-C).                             *)
(*                                                                         *)
(* The region is named by a key.  `linked' is the object the key names, a  *)
(* number; the object lives on in the processes that map it when the key   *)
(* is unlinked, and shm_open with O_CREAT makes a new one.                 *)
(*                                                                         *)
(* The HTTP server is Crow (external): it takes SIGINT and SIGTERM over    *)
(* while it runs, stops on the first one, and its end restores the default *)
(* reaction.  It ends only when its worker has ended, and that may be in a  *)
(* synchronous write to a client that does not read (HttpConnection).      *)
(*                                                                         *)
(* Not modelled: a signal between fork and exec of a child, two different  *)
(* signal numbers in one session, failures of shm_open, ftruncate and mmap *)
(* in the host (it ends before it has started anything).                   *)
(***************************************************************************)
EXTENDS Naturals, Sequences

CONSTANTS
    MaxSignals,     \* bound: signals sent in a session
    SignalKinds,    \* who gets them: "host" alone or the "group"
    Faults,         \* what may fail: "spawn", "port", "handler", "streamer"
    SemaAtStart,    \* value of the semaphore left by an earlier session, or 0
    Expected,       \* the handshake: checksum of the host's process number
    OrphanValue     \* the same for the process that adopts orphans

Children == {"handler", "streamer"}
Processes == Children \cup {"host"}

ASSUME SessionAssumption ==
    /\ MaxSignals \in Nat
    /\ SignalKinds \subseteq {"host", "group"}
    /\ Faults \subseteq Children \cup {"spawn", "port"}

VARIABLES
    \* the host's main thread; handle_interruption_host; the HTTP thread
    hostpc, ipc, http,
    \* handler_process and streamer_process, the children whose pointer is set
    owned,
    \* the children: where each one is, the signals not yet delivered to it
    cpc, pending,
    \* the shared memory objects: the one the key names (0: none), the number
    \* made so far, the one each process maps, those with an initialized queue
    linked, created, mapped, initialized,
    \* the semaphore, and the value the handler waits for
    sema, want,
    \* history: the signals sent
    signals

host == <<hostpc, ipc, http, owned>>
children == <<cpc, pending>>
region == <<linked, created, mapped, initialized>>
handshake == <<sema, want>>
vars == <<hostpc, ipc, http, owned, cpc, pending, linked, created, mapped,
          initialized, sema, want, signals>>

HostAlive == hostpc \notin {"exited", "killed"}
Alive(c) == cpc[c] \notin {"none", "dead"}

Init ==
    /\ hostpc = "start" /\ ipc = "none" /\ http = "off"
    /\ owned = {}
    /\ cpc = [c \in Children |-> "none"] /\ pending = {}
    /\ linked = 0 /\ created = 0
    /\ mapped = [p \in Processes |-> 0] /\ initialized = {}
    /\ sema = SemaAtStart /\ want = SemaAtStart
    /\ signals = <<>>

-----------------------------------------------------------------------------
(* Shared memory.                                                          *)

\* Process p opens the object the key names, or a new one, and maps it.
RegisterSystemSharedMemory(p) ==
    /\ linked' = IF linked = 0 THEN created + 1 ELSE linked
    /\ created' = IF linked = 0 THEN created + 1 ELSE created
    /\ mapped' = [mapped EXCEPT ![p] = linked']
    /\ UNCHANGED initialized

\* Process p unmaps everything; its end has the same effect.
UnregisterAll(p) ==
    /\ mapped' = [mapped EXCEPT ![p] = 0]
    /\ UNCHANGED <<linked, created, initialized>>

\* Child c ends: by dieHandler, by a signal's default reaction, or by SIGKILL.
Dies(c) ==
    /\ cpc' = [cpc EXCEPT ![c] = "dead"]
    /\ pending' = pending \ {c}
    /\ UnregisterAll(c)

-----------------------------------------------------------------------------
(* The host's main thread.                                                 *)

RegisterRegion ==
    /\ hostpc = "start"
    /\ RegisterSystemSharedMemory("host")
    /\ hostpc' = "install"
    /\ UNCHANGED <<ipc, http, owned, children, handshake, signals>>

InstallSignals ==
    /\ hostpc = "install"
    /\ hostpc' = "spawn_handler"
    /\ UNCHANGED <<ipc, http, owned, children, region, handshake, signals>>

\* The constructor of boost::process::child returns when the child has started.
SpawnAndSet(c, spawn, set, next) ==
    \/ /\ hostpc = spawn
       /\ cpc' = [cpc EXCEPT ![c] = "starting"]
       /\ hostpc' = set
       /\ UNCHANGED owned
    \/ /\ hostpc = set                  \* the pointer gets its value
       /\ owned' = owned \cup {c}
       /\ hostpc' = next
       /\ UNCHANGED cpc

StartHandler ==
    /\ SpawnAndSet("handler", "spawn_handler", "set_handler", "spawn_streamer")
    /\ UNCHANGED <<ipc, http, pending, region, handshake, signals>>

StartStreamer ==
    /\ SpawnAndSet("streamer", "spawn_streamer", "set_streamer", "start_http")
    /\ UNCHANGED <<ipc, http, pending, region, handshake, signals>>

\* The constructor throws: catch calls handle_interruption_host.
SpawnFails ==
    /\ "spawn" \in Faults
    /\ hostpc \in {"spawn_handler", "spawn_streamer"}
    /\ hostpc' = "caught" /\ ipc' = "kill_streamer"
    /\ UNCHANGED <<http, owned, children, region, handshake, signals>>

StartHttp ==
    /\ hostpc = "start_http"
    /\ http' = "starting"
    /\ hostpc' = "join_handler"
    /\ UNCHANGED <<ipc, owned, children, region, handshake, signals>>

\* handler_process->join, streamer_process->join, pthread_join.
Join ==
    /\ \/ /\ hostpc = "join_handler" /\ cpc["handler"] = "dead"
          /\ hostpc' = "join_streamer"
       \/ /\ hostpc = "join_streamer" /\ cpc["streamer"] = "dead"
          /\ hostpc' = "join_http"
       \/ /\ hostpc = "join_http" /\ http = "stopped"
          /\ hostpc' = "unregister"
    /\ UNCHANGED <<ipc, http, owned, children, region, handshake, signals>>

Finish ==
    /\ hostpc = "unregister"
    /\ UnregisterAll("host")
    /\ hostpc' = "finishing" /\ ipc' = "kill_streamer"
    /\ UNCHANGED <<http, owned, children, handshake, signals>>

-----------------------------------------------------------------------------
(* handle_interruption_host: from a signal, from catch, or at the end.     *)

\* mutant: SIGTERM, and nobody waits
Terminate_Polite(c) ==
    /\ pending' = IF c \in owned /\ Alive(c) THEN pending \cup {c} ELSE pending
    /\ UNCHANGED <<cpc, region>>

\* terminate: SIGKILL, then waitpid; nothing for a pointer that is not set.
Terminate(c) ==
    IF c \in owned /\ Alive(c) THEN Dies(c) ELSE UNCHANGED <<children, region>>

\* mutant: the key is unlinked before the children are gone
TerminateStreamer_UnlinksFirst ==
    /\ ipc = "kill_streamer"
    /\ ipc' = "kill_handler"
    /\ linked' = 0
    /\ UNCHANGED <<hostpc, http, owned, children, created, mapped, initialized,
                   handshake, signals>>

TerminateStreamer ==
    /\ ipc = "kill_streamer"
    /\ Terminate("streamer")
    /\ ipc' = "kill_handler"
    /\ UNCHANGED <<hostpc, http, owned, handshake, signals>>

TerminateHandler ==
    /\ ipc = "kill_handler"
    /\ Terminate("handler")
    /\ ipc' = "unregister"
    /\ UNCHANGED <<hostpc, http, owned, handshake, signals>>

UnregisterHost ==
    /\ ipc = "unregister"
    /\ UnregisterAll("host")
    /\ ipc' = "unlink"
    /\ UNCHANGED <<hostpc, http, owned, children, handshake, signals>>

\* shm_unlink of the key, and exit.
UnlinkAndExit ==
    /\ ipc = "unlink"
    /\ linked' = 0
    /\ ipc' = "none" /\ hostpc' = "exited"
    /\ UNCHANGED <<http, owned, children, created, mapped, initialized, handshake,
                   signals>>

HandleInterruption ==
    TerminateStreamer \/ TerminateHandler \/ UnregisterHost \/ UnlinkAndExit

-----------------------------------------------------------------------------
(* The HTTP thread, serveApp.                                              *)

\* app.run has made the server and added its signals.
ServeApp ==
    /\ http = "starting" /\ HostAlive
    /\ http' = "running"
    /\ UNCHANGED <<hostpc, ipc, owned, children, region, handshake, signals>>

\* The port is taken: the exception leaves the thread, SIGABRT follows, and
\* handle_interruption_host runs on this thread.  What the main thread does
\* meanwhile (its joins end or throw) repeats this one's steps.
PortTaken ==
    /\ "port" \in Faults
    /\ http = "starting" /\ ipc = "none" /\ HostAlive
    /\ hostpc' = "interrupted" /\ ipc' = "kill_streamer"
    /\ UNCHANGED <<http, owned, children, region, handshake, signals>>

\* The worker is in a synchronous write to a client: "writing", and "held" when the
\* server has been told to stop meanwhile.
WriteToClient ==
    /\ http = "running" /\ HostAlive
    /\ http' = "writing"
    /\ UNCHANGED <<hostpc, ipc, owned, children, region, handshake, signals>>

\* The client reads, or leaves.
ClientLetsGo ==
    /\ http \in {"writing", "held"} /\ HostAlive
    /\ http' = IF http = "held" THEN "stopping" ELSE "running"
    /\ UNCHANGED <<hostpc, ipc, owned, children, region, handshake, signals>>

\* The worker has ended, run returns, the server is destroyed, the thread ends.
ServerStops ==
    /\ http = "stopping" /\ HostAlive
    /\ http' = "stopped"
    /\ UNCHANGED <<hostpc, ipc, owned, children, region, handshake, signals>>

HttpThread == ServeApp \/ ServerStops

-----------------------------------------------------------------------------
(* The children: webcam_streamer.cpp and TCPStreamer/src/main.cpp, and     *)
(* webcam_handler.cpp.  A process with a single thread takes a signal      *)
(* before its next step; the streamer's putter thread goes on meanwhile.   *)

ChildRegisters(c) ==
    /\ cpc[c] = "starting" /\ c \notin pending
    /\ RegisterSystemSharedMemory(c)
    /\ cpc' = [cpc EXCEPT ![c] = "registered"]
    /\ UNCHANGED <<host, pending, handshake, signals>>

InstallDieHandler(c) ==
    /\ cpc[c] = "registered" /\ c \notin pending
    /\ cpc' = [cpc EXCEPT ![c] = "ready"]
    /\ UNCHANGED <<host, pending, region, handshake, signals>>

\* crc8 of getppid
ParentValue == IF HostAlive THEN Expected ELSE OrphanValue

\* InitStreaming, first InitializeQueue ...
InitStreaming ==
    /\ cpc["streamer"] = "ready"
    /\ initialized' = initialized \cup {mapped["streamer"]}
    /\ cpc' = [cpc EXCEPT !["streamer"] = "initialized"]
    /\ UNCHANGED <<host, pending, linked, created, mapped, handshake, signals>>

\* mutant: the semaphore is set before the queue is initialized
SetSemaphore_Early ==
    /\ cpc["streamer"] \in {"ready", "initialized"}
    /\ sema' = ParentValue
    /\ cpc' = IF cpc["streamer"] = "ready" THEN cpc
              ELSE [cpc EXCEPT !["streamer"] = "streaming"]
    /\ UNCHANGED <<host, pending, region, want, signals>>

\* ... then semctl SETVAL.
SetSemaphore ==
    /\ cpc["streamer"] = "initialized"
    /\ sema' = ParentValue
    /\ cpc' = [cpc EXCEPT !["streamer"] = "streaming"]
    /\ UNCHANGED <<host, pending, region, want, signals>>

\* InitHandler computes the value ...
InitHandler ==
    /\ cpc["handler"] = "ready" /\ "handler" \notin pending
    /\ want' = ParentValue
    /\ cpc' = [cpc EXCEPT !["handler"] = "waiting"]
    /\ UNCHANGED <<host, pending, region, sema, signals>>

\* ... and polls for it; a poll that fails is a stuttering step.
WaitForSemaphoreValue ==
    /\ cpc["handler"] = "waiting" /\ "handler" \notin pending
    /\ sema = want
    /\ cpc' = [cpc EXCEPT !["handler"] = "online"]
    /\ UNCHANGED <<host, pending, region, handshake, signals>>

\* The handler's thread takes and releases the manager's mu_ in GetMemoryInfo.
UseManager ==
    /\ "handler" \notin pending
    /\ \/ cpc["handler"] = "online" /\ cpc' = [cpc EXCEPT !["handler"] = "in_mu"]
       \/ cpc["handler"] = "in_mu" /\ cpc' = [cpc EXCEPT !["handler"] = "online"]
    /\ UNCHANGED <<host, pending, region, handshake, signals>>

\* A child fails on its own: an exception nobody catches, a fault.
ChildFails(c) ==
    /\ c \in Faults /\ Alive(c)
    /\ Dies(c)
    /\ UNCHANGED <<host, handshake, signals>>

\* mutant: dieHandler unregisters and returns
DieHandler_NoExit(c) ==
    /\ c \in pending /\ Alive(c)
    /\ IF cpc[c] \in {"starting", "registered"} THEN Dies(c)
       ELSE UnregisterAll(c) /\ pending' = pending \ {c} /\ UNCHANGED cpc
    /\ UNCHANGED <<host, handshake, signals>>

\* The signal reaches child c: the default reaction, or dieHandler.  The
\* handler's only thread may hold mu_, and then waits for itself for ever; in the
\* streamer the putter thread holds mu_, and the main thread waits for it.
DieHandler(c) ==
    /\ c \in pending /\ Alive(c)
    /\ \/ /\ cpc[c] # "in_mu"
          /\ Dies(c)
       \/ /\ cpc[c] = "in_mu"
          /\ cpc' = [cpc EXCEPT ![c] = "hung"]
          /\ pending' = pending \ {c}
          /\ UNCHANGED region
    /\ UNCHANGED <<host, handshake, signals>>

ChildStep(c) ==
    \/ ChildRegisters(c) \/ InstallDieHandler(c)
    \/ c = "streamer" /\ (InitStreaming \/ SetSemaphore)
    \/ c = "handler" /\ (InitHandler \/ WaitForSemaphoreValue)

-----------------------------------------------------------------------------
(* Signals.                                                                *)

\* What a signal finds installed in the host.
Disposition ==
    IF hostpc \in {"start", "install"} \/ http = "stopped" THEN "default"
    ELSE IF http \in {"off", "starting"} THEN "handler"
    ELSE "crow"

\* The host's reaction.
HostReacts ==
    \/ /\ Disposition = "default"
       /\ hostpc' = "killed" /\ ipc' = "none"
       /\ UnregisterAll("host")
       /\ UNCHANGED http
    \/ /\ Disposition = "handler" /\ hostpc \notin {"interrupted", "hung"}
       /\ \/ /\ hostpc' = "interrupted" /\ ipc' = "kill_streamer"
          \/ /\ ipc = "unregister"      \* inside UnregisterAll: waits for itself
             /\ hostpc' = "hung" /\ ipc' = "none"
       /\ UNCHANGED <<http, region>>
    \/ /\ Disposition = "handler" /\ hostpc \in {"interrupted", "hung"}
       /\ UNCHANGED <<hostpc, ipc, http, region>>    \* blocked
    \/ /\ Disposition = "crow"
       /\ http' = IF http \in {"writing", "held"} THEN "held" ELSE "stopping"
       /\ UNCHANGED <<hostpc, ipc, region>>

Signal(kind) ==
    /\ Len(signals) < MaxSignals /\ HostAlive
    /\ HostReacts
    /\ pending' = IF kind = "group" THEN {c \in Children : Alive(c)} ELSE pending
    /\ signals' = Append(signals, kind)
    /\ UNCHANGED <<owned, cpc, handshake>>

HostMain == RegisterRegion \/ InstallSignals \/ StartHandler \/ StartStreamer
            \/ StartHttp \/ Join \/ Finish

Next ==
    \/ HostMain \/ SpawnFails \/ HandleInterruption
    \/ HttpThread \/ PortTaken \/ WriteToClient \/ ClientLetsGo
    \/ UseManager
    \/ \E c \in Children : ChildStep(c) \/ ChildFails(c) \/ DieHandler(c)
    \/ \E kind \in SignalKinds : Signal(kind)

Spec == Init /\ [][Next]_vars

\* Every process runs, and signals are delivered.  Signals, failures, the use of the
\* manager and the clients of the HTTP server owe nothing.
FairSpec ==
    /\ Spec
    /\ WF_vars(HostMain) /\ WF_vars(HandleInterruption) /\ WF_vars(HttpThread)
    /\ \A c \in Children : WF_vars(ChildStep(c)) /\ WF_vars(DieHandler(c))

-----------------------------------------------------------------------------
(* Properties.                                                             *)

HostStates == {"start", "install", "spawn_handler", "set_handler", "spawn_streamer",
               "set_streamer", "start_http", "join_handler", "join_streamer",
               "join_http", "unregister", "finishing", "caught", "interrupted",
               "hung", "exited", "killed"}

ChildStates == {"none", "starting", "registered", "ready", "initialized", "streaming",
                "waiting", "online", "in_mu", "hung", "dead"}

TypeOK ==
    /\ hostpc \in HostStates
    /\ ipc \in {"none", "kill_streamer", "kill_handler", "unregister", "unlink"}
    /\ http \in {"off", "starting", "running", "writing", "held", "stopping", "stopped"}
    /\ owned \subseteq Children
    /\ cpc \in [Children -> ChildStates]
    /\ pending \subseteq Children
    /\ created \in Nat /\ linked \in 0 .. created
    /\ mapped \in [Processes -> 0 .. created]
    /\ initialized \subseteq 1 .. created
    /\ sema \in {SemaAtStart, Expected, OrphanValue}
    /\ want \in {SemaAtStart, Expected, OrphanValue}
    /\ signals \in Seq(SignalKinds)

\* "Publisher online!" (HandleStreamDaemon.cpp): a handler that has passed the
\* handshake works on an object whose queue is initialized.  The checksum must
\* differ from what the semaphore held before, which the code does not ensure.
HandshakeSound ==
    SemaAtStart \notin {Expected, OrphanValue} =>
        (cpc["handler"] \in {"online", "in_mu", "hung"} => mapped["handler"] \in initialized)

\* Processes that have the region mapped have the same object mapped, although a
\* late shm_open with O_CREAT may follow an early shm_unlink.
RegionShared ==
    \A p, q \in Processes : mapped[p] # 0 /\ mapped[q] # 0 => mapped[p] = mapped[q]

\* When the host exits, from wherever handle_interruption_host was called, no
\* child whose pointer was set runs on; if every child's was, nothing has the
\* region mapped and no name of it is left for ever.
CleanExit ==
    hostpc = "exited" =>
        /\ \A c \in owned : ~Alive(c)
        /\ (\A c \in Children : cpc[c] # "none" => c \in owned) =>
               linked = 0 /\ \A p \in Processes : mapped[p] = 0

\* A signal has found a thread that holds mu_, and its handler waits for mu_.
Hung == cpc["handler"] = "hung" \/ hostpc = "hung"

\* Ctrl-C ends the session, whenever it comes: the host and both children go, also
\* when the HTTP server has taken the host's handlers over.  There are two exceptions:
\* a handler of a signal that waits for a mutex of its own thread, and an HTTP client
\* that for ever neither reads its answer nor leaves, while the host joins the server.
CtrlCEnds ==
    \/ <>[](http = "held")
    \/ (\E i \in 1 .. Len(signals) : signals[i] = "group")
          ~> Hung \/ (~HostAlive /\ \A c \in Children : ~Alive(c))

\* "std::signal(SIGTERM, handle_interruption_host)" (main.cpp): a signal to the
\* host ends it.
SignalledHostEnds == signals # <<>> ~> ~HostAlive
=============================================================================
