--------------------------- MODULE SessionProofs ---------------------------
(***************************************************************************)
(* Theorems about Session: for every number and kind of signals, every     *)
(* fault and every value of the checksums, the handshake is sound, the     *)
(* processes share one object, and a host that exits leaves nothing of     *)
(* what it owns behind.                                                    *)
(***************************************************************************)
EXTENDS Session, TLAPS

\* A child has the region mapped from its registration to its end.
IndMapped ==
    \A c \in Children : mapped[c] = 0 <=> cpc[c] \in {"none", "starting", "dead"}

\* The children are started in order, and the second only when the pointer to the
\* first is set.
IndStart ==
    /\ hostpc \in {"start", "install", "spawn_handler"} =>
           \A c \in Children : cpc[c] = "none"
    /\ hostpc \in {"set_handler", "spawn_streamer"} => cpc["streamer"] = "none"
    /\ hostpc \in {"spawn_streamer", "set_streamer"} => "handler" \in owned
    /\ "handler" \notin owned => cpc["streamer"] = "none"

\* How far handle_interruption_host has come.
IndInterruption ==
    /\ ipc # "none" => hostpc \in {"caught", "interrupted", "finishing"}
    /\ ipc \in {"kill_handler", "unregister", "unlink"} /\ "streamer" \in owned =>
           ~Alive("streamer")
    /\ ipc \in {"unregister", "unlink"} /\ "handler" \in owned => ~Alive("handler")
    /\ ipc = "unlink" => mapped["host"] = 0

\* Until the key is unlinked, it names the only object anybody has mapped.
IndRegion ==
    /\ hostpc # "exited" =>
           /\ \A p \in Processes : mapped[p] # 0 => mapped[p] = linked
           /\ initialized \subseteq {linked}
    /\ hostpc = "exited" => mapped["host"] = 0

\* The semaphore has a new value only after a queue has been initialized.
IndHandshake ==
    /\ sema # SemaAtStart => initialized # {} /\ cpc["streamer"] # "none"
    /\ cpc["streamer"] \in {"initialized", "streaming"} => initialized # {}
    /\ cpc["handler"] \in {"waiting", "online", "in_mu", "hung"} =>
           want \in {Expected, OrphanValue}

IndInv ==
    /\ TypeOK /\ IndMapped /\ IndStart /\ IndInterruption /\ IndRegion
    /\ CleanExit /\ IndHandshake /\ HandshakeSound

-----------------------------------------------------------------------------
(* The invariant holds initially and every step keeps it.                  *)

\* Nothing is started, mapped or initialized at first.
LEMMA IndInvInit == Init => IndInv
BY DEF Init, IndInv, TypeOK, IndMapped, IndStart, IndInterruption, IndRegion,
       CleanExit, IndHandshake, HandshakeSound, HostStates, ChildStates, Children, Processes, Alive

\* What unmapping and the end of a child do to the types, and that every step keeps
\* them: an initialized object needs IndMapped, the streamer has mapped it.
LEMMA MappedStaysTyped ==
    ASSUME TypeOK, NEW p \in Processes, UnregisterAll(p)
    PROVE  mapped' \in [Processes -> 0 .. created']
BY DEF TypeOK, UnregisterAll

LEMMA DiesStaysTyped ==
    ASSUME TypeOK, NEW c \in Children, Dies(c)
    PROVE  /\ cpc' \in [Children -> ChildStates] /\ pending' \subseteq Children
           /\ mapped' \in [Processes -> 0 .. created']
           /\ UNCHANGED <<linked, created, initialized>>
<1>1. c \in Processes
    BY DEF Processes
<1>2. mapped' \in [Processes -> 0 .. created']
    BY <1>1, MappedStaysTyped DEF Dies
<1> QED
    BY <1>2 DEF TypeOK, Dies, UnregisterAll, ChildStates

LEMMA TypeNext ==
    ASSUME TypeOK, IndMapped, [Next]_vars
    PROVE  TypeOK'
<1> USE DEF TypeOK, HostStates, ChildStates, host, children, region, handshake
<1>1. CASE RegisterRegion
    BY <1>1 DEF RegisterRegion, RegisterSystemSharedMemory, Children, Processes
<1>2. CASE InstallSignals
    BY <1>2 DEF InstallSignals
<1>3. CASE StartHandler
    BY <1>3 DEF StartHandler, SpawnAndSet, Children
<1>4. CASE StartStreamer
    BY <1>4 DEF StartStreamer, SpawnAndSet, Children
<1>5. CASE StartHttp
    BY <1>5 DEF StartHttp, Children
<1>6. CASE Join
    BY <1>6 DEF Join
<1>7. CASE Finish
    BY <1>7, MappedStaysTyped DEF Finish, Processes, UnregisterAll
<1>8. CASE SpawnFails
    BY <1>8 DEF SpawnFails
<1>9. CASE TerminateStreamer
    <2>1. CASE Dies("streamer")
        BY <1>9, <2>1, DiesStaysTyped DEF TerminateStreamer, Children, Dies, UnregisterAll
    <2>2. CASE UNCHANGED <<children, region>>
        BY <1>9, <2>2 DEF TerminateStreamer
    <2> QED
        BY <1>9, <2>1, <2>2 DEF TerminateStreamer, Terminate
<1>10. CASE TerminateHandler
    <2>1. CASE Dies("handler")
        BY <1>10, <2>1, DiesStaysTyped DEF TerminateHandler, Children, Dies, UnregisterAll
    <2>2. CASE UNCHANGED <<children, region>>
        BY <1>10, <2>2 DEF TerminateHandler
    <2> QED
        BY <1>10, <2>1, <2>2 DEF TerminateHandler, Terminate
<1>11. CASE UnregisterHost
    BY <1>11, MappedStaysTyped DEF UnregisterHost, Processes, UnregisterAll
<1>12. CASE UnlinkAndExit
    BY <1>12 DEF UnlinkAndExit
<1>13. CASE ServeApp
    BY <1>13 DEF ServeApp
<1>14. CASE ServerStops
    BY <1>14 DEF ServerStops
<1>27. CASE WriteToClient
    BY <1>27 DEF WriteToClient
<1>28. CASE ClientLetsGo
    BY <1>28 DEF ClientLetsGo
<1>15. CASE PortTaken
    BY <1>15 DEF PortTaken
<1>16. CASE UseManager
    BY <1>16 DEF UseManager
<1>17. ASSUME NEW c \in Children, ChildRegisters(c) PROVE TypeOK'
    BY <1>17 DEF ChildRegisters, RegisterSystemSharedMemory, Children, Processes
<1>18. ASSUME NEW c \in Children, InstallDieHandler(c) PROVE TypeOK'
    BY <1>18 DEF InstallDieHandler
<1>19. CASE InitStreaming
    <2>1. mapped["streamer"] \in 1 .. created
        BY <1>19 DEF InitStreaming, IndMapped, Children, Processes
    <2> QED
        BY ZenonT(60), <1>19, <2>1 DEF InitStreaming
<1>20. CASE SetSemaphore
    BY <1>20 DEF SetSemaphore, ParentValue
<1>21. CASE InitHandler
    BY <1>21 DEF InitHandler, ParentValue
<1>22. CASE WaitForSemaphoreValue
    BY <1>22 DEF WaitForSemaphoreValue
<1>23. ASSUME NEW c \in Children, ChildFails(c) PROVE TypeOK'
    <2>1. Dies(c)
        BY <1>23 DEF ChildFails
    <2>2. /\ cpc' \in [Children -> ChildStates] /\ pending' \subseteq Children
         /\ mapped' \in [Processes -> 0 .. created']
         /\ UNCHANGED <<linked, created, initialized>>
        BY <2>1, DiesStaysTyped
    <2> QED
        BY <1>23, <2>2 DEF ChildFails
<1>24. ASSUME NEW c \in Children, DieHandler(c) PROVE TypeOK'
    <2>1. CASE Dies(c)
        <3>2. /\ cpc' \in [Children -> ChildStates] /\ pending' \subseteq Children
             /\ mapped' \in [Processes -> 0 .. created']
             /\ UNCHANGED <<linked, created, initialized>>
            BY <2>1, DiesStaysTyped
        <3> QED
            BY <1>24, <3>2 DEF DieHandler
    <2>2. CASE cpc' = [cpc EXCEPT ![c] = "hung"] /\ pending' = pending \ {c} /\ UNCHANGED region
        BY <1>24, <2>2 DEF DieHandler
    <2> QED
        BY <1>24, <2>1, <2>2 DEF DieHandler
<1>25. ASSUME NEW kind \in SignalKinds, Signal(kind) PROVE TypeOK'
    <2>1. signals' \in Seq(SignalKinds)
        BY <1>25 DEF Signal
    <2>2. pending' \subseteq Children
        BY <1>25 DEF Signal
    <2>3. CASE UnregisterAll("host") /\ hostpc' = "killed" /\ ipc' = "none" /\ UNCHANGED http
        BY <1>25, <2>1, <2>2, <2>3, MappedStaysTyped DEF Signal, Processes, UnregisterAll
    <2>4. CASE UNCHANGED region
        BY <1>25, <2>1, <2>2, <2>4 DEF Signal, HostReacts
    <2> QED
        BY <1>25, <2>3, <2>4 DEF Signal, HostReacts
<1>26. CASE UNCHANGED vars
    BY <1>26 DEF vars
<1> QED
    BY <1>1, <1>2, <1>3, <1>4, <1>5, <1>6, <1>7, <1>8, <1>9, <1>10, <1>11, <1>12, <1>13, <1>14, <1>15, <1>16, <1>17, <1>18, <1>19, <1>20, <1>21, <1>22, <1>23, <1>24, <1>25, <1>26,
       <1>27, <1>28
       DEF Next, HostMain, HandleInterruption, HttpThread, ChildStep

\* The other parts: the order in which the children start (IndStart) and are killed
\* (IndInterruption) decides what is left at the exit (CleanExit), and that one object
\* has the name until then (IndRegion) makes the handshake sound.
LEMMA IndInvNext == IndInv /\ [Next]_vars => IndInv'
<1> SUFFICES ASSUME IndInv, [Next]_vars PROVE IndInv'
    OBVIOUS
<1>0. TypeOK'
    BY TypeNext DEF IndInv
<1> USE DEF IndInv, TypeOK, IndMapped, IndStart, IndInterruption, IndRegion,
            CleanExit, IndHandshake, HandshakeSound, HostStates, ChildStates, Children, Processes,
            Alive, HostAlive, host, children, region, handshake
<1>1. CASE RegisterRegion
    BY <1>1 DEF RegisterRegion, RegisterSystemSharedMemory
<1>2. CASE InstallSignals
    BY <1>2 DEF InstallSignals
<1>3. CASE StartHandler
    BY ZenonT(60), <1>3 DEF StartHandler, SpawnAndSet
<1>4. CASE StartStreamer
    <2>1. CASE hostpc = "spawn_streamer"
        BY ZenonT(60), <1>4, <2>1 DEF StartStreamer, SpawnAndSet
    <2>2. CASE hostpc = "set_streamer"
        BY ZenonT(60), <1>4, <2>2 DEF StartStreamer, SpawnAndSet
    <2> QED
        BY <1>4, <2>1, <2>2 DEF StartStreamer, SpawnAndSet
<1>5. CASE StartHttp
    BY <1>5 DEF StartHttp
<1>6. CASE Join
    BY <1>6 DEF Join
<1>7. CASE Finish
    BY <1>7 DEF Finish, UnregisterAll
<1>8. CASE SpawnFails
    BY <1>8 DEF SpawnFails
<1>9. CASE TerminateStreamer
    <2>1. CASE "streamer" \in owned /\ Alive("streamer")
        <3>1. IndMapped'
            BY <1>9, <2>1 DEF TerminateStreamer, Terminate, Dies, UnregisterAll
        <3>2. IndStart'
            BY <1>9, <2>1 DEF TerminateStreamer, Terminate, Dies, UnregisterAll
        <3>3. IndInterruption'
            BY <1>9, <2>1 DEF TerminateStreamer, Terminate, Dies, UnregisterAll
        <3>4. IndRegion'
            BY ZenonT(60), <1>9, <2>1 DEF TerminateStreamer, Terminate, Dies, UnregisterAll
        <3>5. CleanExit'
            BY <1>9, <2>1 DEF TerminateStreamer, Terminate, Dies, UnregisterAll
        <3>6. IndHandshake'
            BY <1>9, <2>1 DEF TerminateStreamer, Terminate, Dies, UnregisterAll
        <3>7. HandshakeSound'
            BY <1>9, <2>1 DEF TerminateStreamer, Terminate, Dies, UnregisterAll
        <3> QED
            BY <1>0, <3>1, <3>2, <3>3, <3>4, <3>5, <3>6, <3>7
    <2>2. CASE ~("streamer" \in owned /\ Alive("streamer"))
        <3>1. IndMapped'
            BY <1>9, <2>2 DEF TerminateStreamer, Terminate
        <3>2. IndStart'
            BY <1>9, <2>2 DEF TerminateStreamer, Terminate
        <3>3. IndInterruption'
            BY <1>9, <2>2 DEF TerminateStreamer, Terminate
        <3>4. IndRegion'
            BY <1>9, <2>2 DEF TerminateStreamer, Terminate
        <3>5. CleanExit'
            BY <1>9, <2>2 DEF TerminateStreamer, Terminate
        <3>6. IndHandshake'
            BY <1>9, <2>2 DEF TerminateStreamer, Terminate
        <3>7. HandshakeSound'
            BY <1>9, <2>2 DEF TerminateStreamer, Terminate
        <3> QED
            BY <1>0, <3>1, <3>2, <3>3, <3>4, <3>5, <3>6, <3>7
    <2> QED
        BY <2>1, <2>2
<1>10. CASE TerminateHandler
    <2>1. CASE "handler" \in owned /\ Alive("handler")
        <3>1. IndMapped'
            BY <1>10, <2>1 DEF TerminateHandler, Terminate, Dies, UnregisterAll
        <3>2. IndStart'
            BY <1>10, <2>1 DEF TerminateHandler, Terminate, Dies, UnregisterAll
        <3>3. IndInterruption'
            BY <1>10, <2>1 DEF TerminateHandler, Terminate, Dies, UnregisterAll
        <3>4. IndRegion'
            BY <1>10, <2>1 DEF TerminateHandler, Terminate, Dies, UnregisterAll
        <3>5. CleanExit'
            BY <1>10, <2>1 DEF TerminateHandler, Terminate, Dies, UnregisterAll
        <3>6. IndHandshake'
            BY <1>10, <2>1 DEF TerminateHandler, Terminate, Dies, UnregisterAll
        <3>7. HandshakeSound'
            BY <1>10, <2>1 DEF TerminateHandler, Terminate, Dies, UnregisterAll
        <3> QED
            BY <1>0, <3>1, <3>2, <3>3, <3>4, <3>5, <3>6, <3>7
    <2>2. CASE ~("handler" \in owned /\ Alive("handler"))
        <3>1. IndMapped'
            BY <1>10, <2>2 DEF TerminateHandler, Terminate
        <3>2. IndStart'
            BY <1>10, <2>2 DEF TerminateHandler, Terminate
        <3>3. IndInterruption'
            BY <1>10, <2>2 DEF TerminateHandler, Terminate
        <3>4. IndRegion'
            BY <1>10, <2>2 DEF TerminateHandler, Terminate
        <3>5. CleanExit'
            BY <1>10, <2>2 DEF TerminateHandler, Terminate
        <3>6. IndHandshake'
            BY <1>10, <2>2 DEF TerminateHandler, Terminate
        <3>7. HandshakeSound'
            BY <1>10, <2>2 DEF TerminateHandler, Terminate
        <3> QED
            BY <1>0, <3>1, <3>2, <3>3, <3>4, <3>5, <3>6, <3>7
    <2> QED
        BY <2>1, <2>2
<1>11. CASE UnregisterHost
    BY <1>11 DEF UnregisterHost, UnregisterAll
<1>12. CASE UnlinkAndExit
    BY <1>12 DEF UnlinkAndExit
<1>13. CASE ServeApp
    BY <1>13 DEF ServeApp
<1>14. CASE ServerStops
    BY <1>14 DEF ServerStops
<1>27. CASE WriteToClient
    BY <1>27 DEF WriteToClient
<1>28. CASE ClientLetsGo
    BY <1>28 DEF ClientLetsGo
<1>15. CASE PortTaken
    BY <1>15 DEF PortTaken
<1>16. CASE UseManager
    BY <1>16 DEF UseManager
<1>17. ASSUME NEW c \in Children, ChildRegisters(c) PROVE IndInv'
    BY <1>17 DEF ChildRegisters, RegisterSystemSharedMemory
<1>18. ASSUME NEW c \in Children, InstallDieHandler(c) PROVE IndInv'
    BY <1>18 DEF InstallDieHandler
<1>19. CASE InitStreaming
    <2>1. TypeOK'
        BY <1>0
    <2>2. IndMapped'
        BY <1>19 DEF InitStreaming
    <2>3. IndStart'
        BY <1>19 DEF InitStreaming
    <2>4. IndInterruption'
        BY <1>19 DEF InitStreaming
    <2>5. IndRegion'
        BY <1>19 DEF InitStreaming
    <2>6. CleanExit'
        BY <1>19 DEF InitStreaming
    <2>7. IndHandshake'
        BY <1>19 DEF InitStreaming
    <2>8. HandshakeSound'
        BY <1>19 DEF InitStreaming
    <2> QED
        BY <2>1, <2>2, <2>3, <2>4, <2>5, <2>6, <2>7, <2>8
<1>20. CASE SetSemaphore
    BY <1>20 DEF SetSemaphore, ParentValue
<1>21. CASE InitHandler
    BY <1>21 DEF InitHandler, ParentValue
<1>22. CASE WaitForSemaphoreValue
    <2>1. TypeOK'
        BY <1>0
    <2>2. IndMapped'
        BY <1>22 DEF WaitForSemaphoreValue
    <2>3. IndStart'
        BY <1>22 DEF WaitForSemaphoreValue
    <2>4. IndInterruption'
        BY <1>22 DEF WaitForSemaphoreValue
    <2>5. IndRegion'
        BY <1>22 DEF WaitForSemaphoreValue
    <2>6. CleanExit'
        BY <1>22 DEF WaitForSemaphoreValue
    <2>7. IndHandshake'
        BY <1>22 DEF WaitForSemaphoreValue
    <2>8. HandshakeSound'
        <3> SUFFICES ASSUME SemaAtStart \notin {Expected, OrphanValue}
                     PROVE  mapped["handler"] \in initialized
            BY <1>22 DEF WaitForSemaphoreValue
        <3>1. initialized # {} /\ cpc["streamer"] # "none"
            BY <1>22 DEF WaitForSemaphoreValue
        <3>2. hostpc # "exited"
            BY <1>22, <3>1 DEF WaitForSemaphoreValue
        <3>3. initialized = {linked}
            BY ZenonT(60), <3>1, <3>2
        <3>4. mapped["handler"] # 0
            BY <1>22 DEF WaitForSemaphoreValue
        <3>5. mapped["handler"] = linked
            BY <3>2, <3>4
        <3> QED
            BY <3>3, <3>5
    <2> QED
        BY <2>1, <2>2, <2>3, <2>4, <2>5, <2>6, <2>7, <2>8
<1>23. ASSUME NEW c \in Children, ChildFails(c) PROVE IndInv'
    BY <1>23 DEF ChildFails, Dies, UnregisterAll
<1>24. ASSUME NEW c \in Children, DieHandler(c) PROVE IndInv'
    <2>1. CASE Dies(c)
        BY <1>24, <2>1 DEF DieHandler, Dies, UnregisterAll
    <2>2. CASE /\ cpc[c] = "in_mu" /\ cpc' = [cpc EXCEPT ![c] = "hung"]
               /\ pending' = pending \ {c} /\ UNCHANGED region
        <3>1. IndMapped'
            BY <1>24, <2>2 DEF DieHandler
        <3>2. IndStart'
            BY <1>24, <2>2 DEF DieHandler
        <3>3. IndInterruption'
            BY <1>24, <2>2 DEF DieHandler
        <3>4. IndRegion'
            BY <1>24, <2>2 DEF DieHandler
        <3>5. CleanExit'
            BY <1>24, <2>2 DEF DieHandler
        <3>6. IndHandshake'
            BY <1>24, <2>2 DEF DieHandler
        <3>7. HandshakeSound'
            BY <1>24, <2>2 DEF DieHandler
        <3> QED
            BY <1>0, <3>1, <3>2, <3>3, <3>4, <3>5, <3>6, <3>7
    <2> QED
        BY <1>24, <2>1, <2>2 DEF DieHandler
<1>25. ASSUME NEW kind \in SignalKinds, Signal(kind) PROVE IndInv'
    <2>1. signals' \in Seq(SignalKinds)
        BY <1>25 DEF Signal
    <2>2. pending' \subseteq Children
        BY <1>25 DEF Signal
    <2>3. CASE Disposition = "default"
        <3>1. IndMapped'
            BY <1>25, <2>1, <2>2, <2>3 DEF Signal, HostReacts, UnregisterAll
        <3>2. IndStart'
            BY <1>25, <2>1, <2>2, <2>3 DEF Signal, HostReacts, UnregisterAll
        <3>3. IndInterruption'
            BY <1>25, <2>1, <2>2, <2>3 DEF Signal, HostReacts, UnregisterAll
        <3>4. IndRegion'
            BY <1>25, <2>1, <2>2, <2>3 DEF Signal, HostReacts, UnregisterAll
        <3>5. CleanExit'
            BY <1>25, <2>1, <2>2, <2>3 DEF Signal, HostReacts, UnregisterAll
        <3>6. IndHandshake'
            BY <1>25, <2>1, <2>2, <2>3 DEF Signal, HostReacts, UnregisterAll
        <3>7. HandshakeSound'
            BY <1>25, <2>1, <2>2, <2>3 DEF Signal, HostReacts, UnregisterAll
        <3> QED
            BY <1>0, <3>1, <3>2, <3>3, <3>4, <3>5, <3>6, <3>7
    <2>4. CASE Disposition = "crow"
        <3>1. IndMapped'
            BY <1>25, <2>1, <2>2, <2>4 DEF Signal, HostReacts
        <3>2. IndStart'
            BY <1>25, <2>1, <2>2, <2>4 DEF Signal, HostReacts
        <3>3. IndInterruption'
            BY <1>25, <2>1, <2>2, <2>4 DEF Signal, HostReacts
        <3>4. IndRegion'
            BY <1>25, <2>1, <2>2, <2>4 DEF Signal, HostReacts
        <3>5. CleanExit'
            BY <1>25, <2>1, <2>2, <2>4 DEF Signal, HostReacts
        <3>6. IndHandshake'
            BY <1>25, <2>1, <2>2, <2>4 DEF Signal, HostReacts
        <3>7. HandshakeSound'
            BY <1>25, <2>1, <2>2, <2>4 DEF Signal, HostReacts
        <3> QED
            BY <1>0, <3>1, <3>2, <3>3, <3>4, <3>5, <3>6, <3>7
    <2>5. CASE Disposition = "handler" /\ hostpc \notin {"interrupted", "hung"}
        BY ZenonT(60), <1>25, <2>1, <2>2, <2>5 DEF Signal, HostReacts, Disposition
    <2>6. CASE Disposition = "handler" /\ hostpc \in {"interrupted", "hung"}
        <3>1. IndMapped'
            BY <1>25, <2>1, <2>2, <2>6 DEF Signal, HostReacts
        <3>2. IndStart'
            BY <1>25, <2>1, <2>2, <2>6 DEF Signal, HostReacts
        <3>3. IndInterruption'
            BY <1>25, <2>1, <2>2, <2>6 DEF Signal, HostReacts
        <3>4. IndRegion'
            BY <1>25, <2>1, <2>2, <2>6 DEF Signal, HostReacts
        <3>5. CleanExit'
            BY <1>25, <2>1, <2>2, <2>6 DEF Signal, HostReacts
        <3>6. IndHandshake'
            BY <1>25, <2>1, <2>2, <2>6 DEF Signal, HostReacts
        <3>7. HandshakeSound'
            BY <1>25, <2>1, <2>2, <2>6 DEF Signal, HostReacts
        <3> QED
            BY <1>0, <3>1, <3>2, <3>3, <3>4, <3>5, <3>6, <3>7
    <2> QED
        BY <2>3, <2>4, <2>5, <2>6 DEF Disposition
<1>26. CASE UNCHANGED vars
    BY <1>26 DEF vars
<1> QED
    BY <1>1, <1>2, <1>3, <1>4, <1>5, <1>6, <1>7, <1>8, <1>9, <1>10, <1>11, <1>12, <1>13, <1>14, <1>15, <1>16, <1>17, <1>18, <1>19, <1>20, <1>21, <1>22, <1>23, <1>24, <1>25, <1>26,
       <1>27, <1>28
       DEF Next, HostMain, HandleInterruption, HttpThread, ChildStep

LEMMA IndInvImplies == IndInv => RegionShared
<1> SUFFICES ASSUME IndInv PROVE RegionShared
    OBVIOUS
<1> USE DEF RegionShared, Processes, Children
<1>1. CASE hostpc # "exited"
    BY <1>1 DEF IndInv, IndRegion
<1>2. CASE hostpc = "exited"
    <2>1. mapped["host"] = 0
        BY <1>2 DEF IndInv, IndRegion
    <2>2. ~Alive("handler") \/ cpc["streamer"] = "none"
        BY <1>2 DEF IndInv, CleanExit, IndStart
    <2>3. mapped["handler"] = 0 \/ mapped["streamer"] = 0
        BY <2>2 DEF IndInv, IndMapped, Alive
    <2> QED
        BY <2>1, <2>3
<1> QED
    BY <1>1, <1>2

LEMMA IndInvAlways == Spec => []IndInv
BY IndInvInit, IndInvNext, PTL DEF Spec

-----------------------------------------------------------------------------
(* The theorems.                                                           *)

\* Every variable keeps its type; in particular a streamer only ever initializes an
\* object it has mapped.
THEOREM SessionTypeCorrect == Spec => []TypeOK
<1>1. IndInv => TypeOK
    BY DEF IndInv
<1> QED
    BY <1>1, IndInvAlways, PTL

\* A handler that has passed the handshake works on an initialized queue, whatever
\* fails and whenever signals come, if the checksums differ from the semaphore's
\* first value.
THEOREM HandshakeIsSound == Spec => []HandshakeSound
<1>1. IndInv => HandshakeSound
    BY DEF IndInv
<1> QED
    BY <1>1, IndInvAlways, PTL

\* All processes that have the region mapped share one object.
THEOREM RegionIsShared == Spec => []RegionShared
BY IndInvImplies, IndInvAlways, PTL

\* A host that exits leaves no child it owns, and if it owns all it started, no
\* mapping and no name.
THEOREM ExitIsClean == Spec => []CleanExit
<1>1. IndInv => CleanExit
    BY DEF IndInv
<1> QED
    BY <1>1, IndInvAlways, PTL
=============================================================================
