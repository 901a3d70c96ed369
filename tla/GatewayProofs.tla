---------------------------- MODULE GatewayProofs ----------------------------
(***************************************************************************)
(* Theorems about Gateway: the components keep their specifications when    *)
(* they work together, for any pool, any division of the stream, any length *)
(* of a segment and a death at any step; what they promise one by one then  *)
(* gives the order in which a client is shown the publisher's messages.     *)
(***************************************************************************)
EXTENDS Gateway, FiniteSetTheorems, SequenceTheorems, TLAPS

IP == INSTANCE TcpIngestProofs
EP == INSTANCE HlsExporterProofs WITH got <- segment, MaxRestarts <- 0

-----------------------------------------------------------------------------
(* What the components assume of their constants.                          *)

LEMMA IngestAssumed == IP!IngestAssumption
BY GatewayAssumption
   DEF GatewayAssumption, Ingest!IngestAssumption, IP!IngestAssumption, IP!Messages, IP!Size,
       IP!Begin, IP!IsFiniteSet, IsFiniteSet, Ingest!Messages, Ingest!Size, Ingest!Begin,
       Ingest!IsFiniteSet

LEMMA ExporterAssumed == EP!ExporterAssumption
BY GatewayAssumption
   DEF GatewayAssumption, Exporter!ExporterAssumption, EP!ExporterAssumption

LEMMA WorkersAreFinite == IsFiniteSet(Workers)
BY IngestAssumed DEF IP!IngestAssumption, IP!IsFiniteSet, IsFiniteSet

-----------------------------------------------------------------------------
(* The streamer process is TcpIngest.                                      *)

LEMMA StreamerInit == Init => IP!Init
BY DEF Init, Ingest!Init, IP!Init, Ingest!NoBuffer, IP!NoBuffer

LEMMA ListenerStep == Listener => IP!Listener
BY DEF Listener, Ingest!Listener, IP!Listener, Ingest!ReceiveSize, IP!ReceiveSize,
       Ingest!ReceiveData, IP!ReceiveData, Ingest!QueueTask, IP!QueueTask,
       Ingest!NotifyWorker, IP!NotifyWorker, Ingest!SizesRead, IP!SizesRead,
       Ingest!Messages, IP!Messages, Ingest!Begin, IP!Begin, Ingest!Size, IP!Size,
       Ingest!NoBuffer, IP!NoBuffer, Ingest!BufferFull, IP!BufferFull,
       Ingest!Asleep, IP!Asleep, Ingest!connection, IP!connection,
       Ingest!pool, IP!pool, Ingest!putter, IP!putter

LEMMA WorkerStep == \A w \in Workers : Worker(w) => IP!Worker(w)
BY DEF Worker, Ingest!Worker, IP!Worker, Ingest!TakeTask, IP!TakeTask, Ingest!WorkerWaits,
       IP!WorkerWaits, Ingest!RunTask, IP!RunTask, Ingest!Running, IP!Running,
       Ingest!Pushed, IP!Pushed, Ingest!connection, IP!connection,
       Ingest!listener, IP!listener, Ingest!putter, IP!putter

LEMMA PutStep == Ingest!PutOnSHMQueue => IP!PutOnSHMQueue
BY DEF Ingest!PutOnSHMQueue, IP!PutOnSHMQueue, Ingest!Running, IP!Running,
       Ingest!connection, IP!connection, Ingest!listener, IP!listener, Ingest!pool, IP!pool

LEMMA PutterStep == Putter => IP!Putter
<1>1. NewMessage => IP!Putter
    BY DEF NewMessage, IP!Putter, Ingest!NewMessage, IP!NewMessage, Ingest!PutterWaits,
           IP!PutterWaits, Ingest!Running, IP!Running, Ingest!connection, IP!connection,
           Ingest!listener, IP!listener, Ingest!pool, IP!pool
<1> QED
    BY <1>1, PutStep DEF Putter, Enqueue, RejectMessage, IP!Putter

LEMMA OutsideStep == Outside => IP!Next
BY DEF Outside, IP!Next, Ingest!HandleWebcamFrame, IP!HandleWebcamFrame,
       Ingest!DropFrame, IP!DropFrame, Ingest!PublishFrame, IP!PublishFrame,
       Ingest!ClosePublisher, IP!ClosePublisher, Ingest!SpuriousWakeup, IP!SpuriousWakeup,
       Ingest!BetweenMessages, IP!BetweenMessages, Ingest!PacketsAfterDrop,
       IP!PacketsAfterDrop, Ingest!StreamLen, IP!StreamLen, Ingest!Begin, IP!Begin,
       Ingest!Running, IP!Running, Ingest!connection, IP!connection,
       Ingest!listener, IP!listener, Ingest!pool, IP!pool, Ingest!putter, IP!putter

LEMMA StreamerNext == [Next]_vars => [IP!Next]_(IP!vars)
<1>1. FetchMessage \/ Export \/ Fail \/ Play \/ UNCHANGED vars => UNCHANGED IP!vars
    BY DEF FetchMessage, Export, Fail, Play, Apart, vars, streamer, IP!vars
<1> QED
    BY <1>1, ListenerStep, WorkerStep, PutterStep, OutsideStep DEF Next, IP!Next

LEMMA StreamerSpec == Spec => IP!Spec
BY StreamerInit, StreamerNext, PTL DEF Spec, IP!Spec

-----------------------------------------------------------------------------
(* The handler process and its client are HlsExporter.                     *)

LEMMA HandlerInit == Init => EP!Init
BY DEF Init, Exporter!Init, EP!Init

LEMMA FetchStep == FetchMessage => EP!FetchMessage
BY DEF FetchMessage, Exporter!FetchMessage, EP!FetchMessage, Exporter!BatchHasRoom,
       EP!BatchHasRoom, Exporter!repository, EP!repository, Exporter!reader, EP!reader

LEMMA ExportStep == Export => EP!Export
BY DEF Export, Exporter!Export, EP!Export, Exporter!UnmarshalMessages, EP!UnmarshalMessages,
       Exporter!ReadLastSegmentNumber, EP!ReadLastSegmentNumber, Exporter!OpenWriter,
       EP!OpenWriter, Exporter!WriteFrame, EP!WriteFrame, Exporter!AppendPlaylist,
       EP!AppendPlaylist, Exporter!ReleaseWriter, EP!ReleaseWriter, Exporter!BatchHasRoom,
       EP!BatchHasRoom, Exporter!LastSegmentPlusOne, EP!LastSegmentPlusOne, Exporter!Max,
       EP!Max, Exporter!SetSegment, EP!SetSegment, Exporter!SameSize, EP!SameSize,
       Exporter!Complete, EP!Complete, Exporter!AppendTo, EP!AppendTo, Exporter!Close,
       EP!Close, Exporter!repository, EP!repository, Exporter!reader, EP!reader

LEMMA FailStep == Fail => EP!Fail
BY DEF Fail, Exporter!Fail, EP!Fail, Exporter!UnmarshalThrows, EP!UnmarshalThrows,
       Exporter!OpenFails, EP!OpenFails, Exporter!WrongSize, EP!WrongSize, Exporter!Killed,
       EP!Killed, Exporter!Dies, EP!Dies, Exporter!FramesOf, EP!FramesOf,
       Exporter!BatchHasRoom, EP!BatchHasRoom, Exporter!SameSize, EP!SameSize,
       Exporter!repository, EP!repository, Exporter!reader, EP!reader

LEMMA PlayStep == Play => EP!GetPlaylist \/ EP!GetSegment
BY DEF Play, Exporter!GetPlaylist, EP!GetPlaylist, Exporter!GetSegment, EP!GetSegment,
       Exporter!handler, EP!handler, Exporter!repository, EP!repository

\* The streamer's steps, and those in which nothing happens, are none of the handler's.
LEMMA StreamerApart ==
    Outside \/ Listener \/ Putter \/ (\E w \in Workers : Worker(w)) \/ UNCHANGED vars
        => UNCHANGED handler
BY DEF Outside, Listener, Putter, NewMessage, Enqueue, RejectMessage, Worker, Inside, vars

LEMMA HandlerNext == [Next]_vars => [EP!Next]_(EP!vars)
<1>1. UNCHANGED handler => UNCHANGED EP!vars
    BY DEF handler, EP!vars
<1> QED
    BY <1>1, StreamerApart, FetchStep, ExportStep, FailStep, PlayStep DEF Next, EP!Next

LEMMA HandlerSpec == Spec => EP!Spec
BY HandlerInit, HandlerNext, PTL DEF Spec, EP!Spec
-----------------------------------------------------------------------------
(* The frames in the ring are numbered as the channel's.                   *)

\* What the streamer's invariants say of the message in the putter's hands.
LEMMA PacketInHand ==
    ASSUME IP!IndInv, IP!PutOnSHMQueue
    PROVE  /\ packet \in Nat /\ settled \in Seq(Nat) /\ settled' = Append(settled, packet)
           /\ UNCHANGED queued
           /\ \A p \in 1 .. Len(settled) : settled[p] # packet
<1>1. IP!TypeOK /\ IP!IndHands /\ IP!NothingLost
    BY DEF IP!IndInv
<1>2. packet \in Nat /\ settled \in Seq(Nat) /\ Len(settled) \in Nat
    BY <1>1 DEF IP!TypeOK
<1>3. settled' = Append(settled, packet) /\ UNCHANGED queued /\ packet # 0
    BY <1>1 DEF IP!PutOnSHMQueue, IP!IndHands
<1>4. IP!ArrivesOnce
    BY <1>1, IP!CountsOnce, IngestAssumed DEF IP!IngestAssumption
<1>5. /\ Len(settled) <= Len(IP!Arrived) /\ Len(IP!Arrived) \in Nat
      /\ \A p \in 1 .. Len(settled) : IP!Arrived[p] = settled[p]
      /\ Len(settled) + 1 \in 1 .. Len(IP!Arrived) /\ IP!Arrived[Len(settled) + 1] = packet
    BY <1>1, <1>3, IP!PlacesInArrived, IngestAssumed DEF IP!IngestAssumption
<1>6. ASSUME NEW p \in 1 .. Len(settled), settled[p] = packet PROVE FALSE
    <2>1. p \in 1 .. Len(IP!Arrived) /\ IP!Arrived[p] = IP!Arrived[Len(settled) + 1]
        BY <1>2, <1>5, <1>6
    <2>2. p = Len(settled) + 1
        BY <1>4, <1>5, <2>1 DEF IP!ArrivesOnce
    <2> QED
        BY <1>2, <2>2
<1> QED
    BY <1>2, <1>3, <1>6

IndTypes ==
    /\ ring \in Seq(Nat) /\ enqueued \in Seq(Nat) /\ dequeued \in Seq(Nat)
    /\ taken = Len(dequeued)

LEMMA TypesInit == Init => IndTypes
BY DEF Init, IndTypes, Exporter!Init

LEMMA TypesNext ==
    ASSUME IP!IndInv, IndTypes, [Next]_vars
    PROVE  IndTypes'
<1> USE DEF IndTypes
<1>1. CASE Enqueue
    <2>1. packet \in Nat
        BY <1>1, PutStep, PacketInHand DEF Enqueue
    <2>2. Len(enqueued) + 1 \in Nat
        OBVIOUS
    <2>3. UNCHANGED <<dequeued, taken>>
        BY <1>1 DEF Enqueue, handler
    <2> QED
        BY <1>1, <2>1, <2>2, <2>3 DEF Enqueue
<1>2. CASE FetchMessage
    <2>1. ring # <<>> /\ Head(ring) \in Nat /\ Tail(ring) \in Seq(Nat)
        BY <1>2 DEF FetchMessage
    <2>2. taken' = taken + 1
        BY <1>2 DEF FetchMessage, Exporter!FetchMessage
    <2> QED
        BY <1>2, <2>1, <2>2 DEF FetchMessage
<1>3. CASE Export
    BY <1>3 DEF Export, Apart, channel, Exporter!Export, Exporter!UnmarshalMessages,
       Exporter!ReadLastSegmentNumber, Exporter!OpenWriter, Exporter!WriteFrame,
       Exporter!AppendPlaylist, Exporter!ReleaseWriter
<1>4. CASE Fail
    BY <1>4 DEF Fail, Apart, channel, Exporter!Fail, Exporter!UnmarshalThrows,
       Exporter!OpenFails, Exporter!WrongSize, Exporter!Killed, Exporter!Dies
<1>5. CASE Play
    BY <1>5 DEF Play, Apart, channel, Exporter!GetPlaylist, Exporter!GetSegment
<1>6. CASE Inside \/ UNCHANGED vars
    BY <1>6 DEF Inside, vars, channel, handler
<1> QED
    BY <1>1, <1>2, <1>3, <1>4, <1>5, <1>6
       DEF Next, Putter, NewMessage, RejectMessage, Outside, Listener, Worker

LEMMA ChannelNext ==
    ASSUME IndTypes, [Next]_vars
    PROVE  [Channel!Next]_(Channel!vars)
<1>1. CASE Enqueue
    <2>1. Len(enqueued') = Len(enqueued) + 1
        BY <1>1 DEF Enqueue, IndTypes
    <2> QED
        BY <1>1, <2>1 DEF Enqueue, Channel!Next, Channel!Publish
<1>2. CASE FetchMessage
    BY <1>2 DEF FetchMessage, Channel!Next, Channel!Take
<1>3. UNCHANGED channel => UNCHANGED Channel!vars
    BY DEF channel, Channel!vars
<1>4. CASE Export \/ Fail \/ Play
    BY <1>3, <1>4 DEF Export, Fail, Play, Apart
<1>5. CASE Inside \/ UNCHANGED vars
    BY <1>3, <1>5 DEF Inside, vars
<1> QED
    BY <1>1, <1>2, <1>4, <1>5
       DEF Next, Putter, NewMessage, RejectMessage, Outside, Listener, Worker

LEMMA StreamerInvariant == Spec => []IP!IndInv
<1>1. IP!Spec => []IP!IndInv
    BY IP!IndAlways, IngestAssumed DEF IP!IngestAssumption
<1> QED
    BY <1>1, StreamerSpec, PTL

LEMMA TypesInvariant == Spec => []IndTypes
<1>1. Init => IndTypes
    BY TypesInit
<1>2. IP!IndInv /\ IndTypes /\ [Next]_vars => IndTypes'
    BY TypesNext
<1> QED
    BY <1>1, <1>2, StreamerInvariant, PTL DEF Spec

LEMMA ChannelSpec == Spec => Channel!Spec
<1>1. Init => Channel!Init
    BY DEF Init, Channel!Init
<1>2. IndTypes /\ [Next]_vars => [Channel!Next]_(Channel!vars)
    BY ChannelNext
<1> QED
    BY <1>1, <1>2, TypesInvariant, PTL DEF Spec, Channel!Spec

\* Streamer, ring and handler do together what each of them does alone: nothing that is
\* proved of one of them is lost in the gateway.
THEOREM ComponentsKept == Spec => IP!Spec /\ Channel!Spec /\ EP!Spec
BY StreamerSpec, ChannelSpec, HandlerSpec, PTL
-----------------------------------------------------------------------------
(* The messages in the ring, and those before them.                        *)

\* Frame f is what the putter had as number p; no later frame is a message that it had
\* before.
EnqueuedAt(f, p) ==
    /\ settled[p] = enqueued[f]
    /\ \A q \in 1 .. p - 1, g \in 1 .. Len(enqueued) : settled[q] = enqueued[g] => g < f

IndLink ==
    /\ \A f \in 1 .. Len(enqueued) : \E p \in 1 .. Len(settled) : EnqueuedAt(f, p)
    /\ \A f, g \in 1 .. Len(enqueued) : enqueued[f] = enqueued[g] => f = g

LEMMA LinkInit == Init => IndLink
<1>1. Init => Len(enqueued) = 0
    BY DEF Init
<1> QED
    BY <1>1 DEF IndLink

\* A message that is not enqueued changes nothing for the frames.
LEMMA RejectLink ==
    ASSUME IP!IndInv, IndTypes, IndLink, RejectMessage
    PROVE  IndLink'
<1>1. /\ packet \in Nat /\ settled \in Seq(Nat) /\ settled' = Append(settled, packet)
      /\ enqueued' = enqueued
    BY PutStep, PacketInHand DEF RejectMessage, Inside, channel
<1>2. /\ Len(settled) \in Nat /\ Len(settled') = Len(settled) + 1
      /\ \A p \in 1 .. Len(settled) : settled'[p] = settled[p]
    BY <1>1
<1>3. ASSUME NEW f \in 1 .. Len(enqueued), NEW p \in 1 .. Len(settled), EnqueuedAt(f, p)
      PROVE  p \in 1 .. Len(settled') /\ EnqueuedAt(f, p)'
    <2>1. p \in 1 .. Len(settled') /\ \A q \in 1 .. p - 1 : settled'[q] = settled[q]
        BY <1>2
    <2> QED
        BY <1>1, <1>2, <1>3, <2>1 DEF EnqueuedAt
<1> QED
    BY <1>1, <1>3 DEF IndLink

\* The message enqueued is new, and all that the putter has seen is before it.
LEMMA EnqueueLink ==
    ASSUME IP!IndInv, IndTypes, IndLink, Enqueue
    PROVE  IndLink'
<1>1. /\ packet \in Nat /\ settled \in Seq(Nat) /\ settled' = Append(settled, packet)
      /\ enqueued \in Seq(Nat) /\ enqueued' = Append(enqueued, packet)
      /\ \A p \in 1 .. Len(settled) : settled[p] # packet
    BY PutStep, PacketInHand DEF Enqueue, IndTypes
<1>2. /\ Len(settled) \in Nat /\ Len(settled') = Len(settled) + 1
      /\ \A p \in 1 .. Len(settled) : settled'[p] = settled[p]
      /\ settled'[Len(settled) + 1] = packet
    BY <1>1
<1>3. /\ Len(enqueued) \in Nat /\ Len(enqueued') = Len(enqueued) + 1
      /\ \A f \in 1 .. Len(enqueued) : enqueued'[f] = enqueued[f]
      /\ enqueued'[Len(enqueued) + 1] = packet
    BY <1>1
<1>4. \A f \in 1 .. Len(enqueued) : enqueued[f] # packet
    BY <1>1 DEF IndLink, EnqueuedAt
<1>5. ASSUME NEW f \in 1 .. Len(enqueued), NEW p \in 1 .. Len(settled), EnqueuedAt(f, p)
      PROVE  p \in 1 .. Len(settled') /\ EnqueuedAt(f, p)'
    <2>1. p \in 1 .. Len(settled') /\ settled'[p] = enqueued'[f]
        BY <1>2, <1>3, <1>5 DEF EnqueuedAt
    <2>2. ASSUME NEW q \in 1 .. p - 1, NEW g \in 1 .. Len(enqueued'),
                 settled'[q] = enqueued'[g]
          PROVE  g < f
        <3>1. q \in 1 .. Len(settled) /\ settled'[q] = settled[q]
            BY <1>2
        <3>2. g \in 1 .. Len(enqueued)
            <4>1. enqueued'[g] # packet
                BY <1>1, <2>2, <3>1
            <4>2. g # Len(enqueued) + 1
                BY <1>3, <4>1
            <4> QED
                BY <1>3, <4>2
        <3> QED
            BY <1>3, <1>5, <2>2, <3>1, <3>2 DEF EnqueuedAt
    <2> QED
        BY <2>1, <2>2 DEF EnqueuedAt
<1>6. ASSUME NEW f \in {Len(enqueued) + 1}, NEW p \in {Len(settled) + 1}
      PROVE  p \in 1 .. Len(settled') /\ EnqueuedAt(f, p)'
    <2>1. p \in 1 .. Len(settled') /\ settled'[p] = enqueued'[f]
        BY <1>2, <1>3
    <2>2. ASSUME NEW q \in 1 .. p - 1, NEW g \in 1 .. Len(enqueued'),
                 settled'[q] = enqueued'[g]
          PROVE  g < f
        <3>1. q \in 1 .. Len(settled) /\ settled'[q] # packet
            BY <1>1, <1>2
        <3>2. g # f
            BY <1>3, <2>2, <3>1
        <3> QED
            BY <1>3, <3>2
    <2> QED
        BY <2>1, <2>2 DEF EnqueuedAt
<1>7. \A f, g \in 1 .. Len(enqueued') : enqueued'[f] = enqueued'[g] => f = g
    BY <1>3, <1>4 DEF IndLink
<1>8. \A f \in 1 .. Len(enqueued') : \E p \in 1 .. Len(settled') : EnqueuedAt(f, p)'
    <2> SUFFICES ASSUME NEW f \in 1 .. Len(enqueued')
                 PROVE  \E p \in 1 .. Len(settled') : EnqueuedAt(f, p)'
        OBVIOUS
    <2>1. CASE f = Len(enqueued) + 1
        BY <1>6, <2>1
    <2>2. CASE f \in 1 .. Len(enqueued)
        BY <1>5, <2>2 DEF IndLink
    <2> QED
        BY <1>3, <2>1, <2>2
<1> QED
    BY <1>7, <1>8 DEF IndLink

LEMMA LinkNext ==
    ASSUME IP!IndInv, IndTypes, IndLink, [Next]_vars
    PROVE  IndLink'
<1>1. CASE Enqueue \/ RejectMessage
    BY <1>1, EnqueueLink, RejectLink
<1>2. CASE UNCHANGED <<settled, enqueued>>
    BY <1>2 DEF IndLink, EnqueuedAt
<1>3. Listener \/ NewMessage \/ Outside \/ (\E w \in Workers : Worker(w)) \/ FetchMessage
        \/ Export \/ Fail \/ Play \/ UNCHANGED vars => UNCHANGED <<settled, enqueued>>
    BY DEF Listener, NewMessage, Outside, Worker, Inside, FetchMessage, Export, Fail, Play,
           Apart, channel, streamer, vars, Ingest!Listener, Ingest!ReceiveSize,
           Ingest!ReceiveData, Ingest!QueueTask, Ingest!NotifyWorker, Ingest!Worker,
           Ingest!TakeTask, Ingest!WorkerWaits, Ingest!RunTask, Ingest!NewMessage,
           Ingest!PutterWaits, Ingest!HandleWebcamFrame, Ingest!DropFrame,
           Ingest!PublishFrame, Ingest!ClosePublisher, Ingest!SpuriousWakeup
<1> QED
    BY <1>1, <1>2, <1>3 DEF Next, Putter

LEMMA LinkInvariant == Spec => []IndLink
<1>1. Init => IndLink
    BY LinkInit
<1>2. IP!IndInv /\ IndTypes /\ IndLink /\ [Next]_vars => IndLink'
    BY LinkNext
<1> QED
    BY <1>1, <1>2, StreamerInvariant, TypesInvariant, PTL DEF Spec
-----------------------------------------------------------------------------
(* What a client is shown.                                                 *)

\* A frame enters at the end: the number after the last one in flight.
LEMMA PublishInOrder ==
    ASSUME IndTypes, Channel!InOrder, Channel!Publish
    PROVE  (Channel!InOrder)'
<1> USE DEF IndTypes, Channel!InOrder, Channel!Publish
<1>1. Len(ring') = Len(ring) + 1
    OBVIOUS
<1>2. \A i \in 1 .. Len(ring') : ring'[i] = Len(dequeued) + i
    <2> TAKE i \in 1 .. Len(ring')
    <2>1. CASE i \in 1 .. Len(ring)
        BY <2>1
    <2>2. CASE i = Len(ring) + 1
        BY <2>2
    <2> QED
        BY <1>1, <2>1, <2>2
<1> QED
    BY <1>1, <1>2

\* A frame leaves at the front: the number after the last one taken.
LEMMA TakeInOrder ==
    ASSUME IndTypes, Channel!InOrder, Channel!Take
    PROVE  (Channel!InOrder)'
<1> USE DEF IndTypes, Channel!InOrder, Channel!Take
<1>1. Len(ring) # 0
    OBVIOUS
<1>2. Head(ring) = ring[1] /\ ring[1] = Len(dequeued) + 1
    BY <1>1
<1>3. Len(ring') = Len(ring) - 1 /\ Len(dequeued') = Len(dequeued) + 1
    BY <1>2
<1>4. \A i \in 1 .. Len(dequeued') : dequeued'[i] = i
    <2> TAKE i \in 1 .. Len(dequeued')
    <2>1. CASE i \in 1 .. Len(dequeued)
        BY <2>1
    <2>2. CASE i = Len(dequeued) + 1
        BY <2>2, <1>2
    <2> QED
        BY <1>3, <2>1, <2>2
<1>5. \A i \in 1 .. Len(ring') : ring'[i] = Len(dequeued') + i
    <2> TAKE i \in 1 .. Len(ring')
    <2>1. i + 1 \in 1 .. Len(ring) /\ ring'[i] = ring[i + 1]
        BY <1>1, <1>3
    <2> QED
        BY <2>1, <1>3
<1>6. Len(dequeued') + Len(ring') = Len(enqueued')
    <2>1. Len(dequeued) \in Nat /\ Len(ring) \in Nat
        OBVIOUS
    <2>2. Len(enqueued') = Len(dequeued) + Len(ring)
        OBVIOUS
    <2> QED
        BY ONLY <1>3, <2>1, <2>2
<1> QED
    BY ONLY <1>4, <1>5, <1>6 DEF Channel!InOrder

\* The frames leave the ring in the order they were published, none missing: the promise
\* of FrameChannel, of whatever takes its steps.
THEOREM ChannelInOrder == Spec => []Channel!InOrder
<1>1. Init => Channel!InOrder
    BY DEF Init, Channel!InOrder
<1>2. IndTypes /\ Channel!InOrder /\ [Next]_vars => (Channel!InOrder)'
    <2> SUFFICES ASSUME IndTypes, Channel!InOrder, [Next]_vars PROVE (Channel!InOrder)'
        OBVIOUS
    <2>1. CASE UNCHANGED Channel!vars
        BY <2>1 DEF Channel!InOrder, Channel!vars
    <2>2. [Channel!Next]_(Channel!vars)
        BY ChannelNext
    <2> QED
        BY <2>1, <2>2, PublishInOrder, TakeInOrder DEF Channel!Next
<1> QED
    BY <1>1, <1>2, TypesInvariant, PTL DEF Spec

LEMMA PlayedInvariant == Spec => []EP!PlayedInOrder
<1>1. EP!Spec => []EP!PlayedInOrder
    BY EP!PlaylistMissesNothing, ExporterAssumed DEF EP!ExporterAssumption
<1> QED
    BY <1>1, HandlerSpec, PTL

\* The frame at a place has gone through the ring, as the one of its number; those with
\* smaller numbers are shown earlier or are lost.
LEMMA FrameShown ==
    ASSUME IndTypes, Channel!InOrder, EP!PlayedInOrder, NEW x \in Places
    PROVE  /\ FrameAt(x) \in 1 .. Len(enqueued) /\ MessageOf(FrameAt(x)) = enqueued[FrameAt(x)]
           /\ \A y \in Places : Before(y, x) =>
                 /\ FrameAt(y) \in 1 .. Len(enqueued) /\ FrameAt(y) < FrameAt(x)
                 /\ MessageOf(FrameAt(y)) = enqueued[FrameAt(y)]
           /\ \A g \in 1 .. FrameAt(x) - 1 :
                 enqueued[g] \in ShownBefore(x) \cup LostWithHandler
<1>1. /\ Len(dequeued) \in Nat /\ Len(ring) \in Nat /\ taken = Len(dequeued)
      /\ Len(dequeued) + Len(ring) = Len(enqueued)
      /\ \A f \in 1 .. Len(dequeued) : dequeued[f] = f
    BY DEF IndTypes, Channel!InOrder
<1>2. /\ 1 .. taken \subseteq 1 .. Len(enqueued)
      /\ \A f \in 1 .. taken : MessageOf(f) = enqueued[f]
    BY <1>1 DEF MessageOf
<1>3. \A y \in Places : /\ y[1] \in 1 .. Len(playlist) /\ y[2] \in 1 .. FrameRate
                        /\ y = <<y[1], y[2]>>
                        /\ FrameAt(y) = segments[playlist[y[1]]].frames[y[2]]
    BY DEF Places, FrameAt, SegmentOf
<1>4. \A y \in Places : FrameAt(y) \in 1 .. taken
    BY <1>3 DEF EP!PlayedInOrder
<1>5. \A y \in Places : Before(y, x) => FrameAt(y) < FrameAt(x)
    BY <1>3 DEF EP!PlayedInOrder, EP!PlayedBefore, Before
<1>6. ASSUME NEW g \in 1 .. FrameAt(x) - 1
      PROVE  enqueued[g] \in ShownBefore(x) \cup LostWithHandler
    <2>1. FrameAt(x) \in 1 .. taken
        BY <1>4
    <2>2. g \in 1 .. taken /\ MessageOf(g) = enqueued[g]
        BY <1>1, <1>2, <2>1
    <2>3. CASE g \in lost
        BY <2>2, <2>3 DEF LostWithHandler
    <2>4. CASE g \notin lost
        <3>1. PICK h \in 1 .. Len(playlist), k \in 1 .. FrameRate :
                  /\ EP!PlayedBefore(h, k, x[1], x[2])
                  /\ segments[playlist[h]].frames[k] = g
            <4>1. /\ x[1] \in 1 .. Len(playlist) /\ x[2] \in 1 .. FrameRate
                  /\ g \in 1 .. segments[playlist[x[1]]].frames[x[2]] - 1
                BY <1>3
            <4>2. \A g1 \in 1 .. segments[playlist[x[1]]].frames[x[2]] - 1 :
                     \/ g1 \in lost
                     \/ \E h \in 1 .. Len(playlist), k \in 1 .. FrameRate :
                            /\ EP!PlayedBefore(h, k, x[1], x[2])
                            /\ segments[playlist[h]].frames[k] = g1
                BY <4>1 DEF EP!PlayedInOrder
            <4> QED
                BY <4>1, <4>2, <2>4
        <3>2. <<h, k>> \in Places /\ Before(<<h, k>>, x) /\ FrameAt(<<h, k>>) = g
            BY <3>1 DEF Places, Before, EP!PlayedBefore, FrameAt, SegmentOf
        <3> QED
            BY <2>2, <3>2 DEF ShownBefore
    <2> QED
        BY <2>3, <2>4
<1> QED
    BY <1>2, <1>4, <1>5, <1>6

\* The messages missing at a place were overtaken in the pool.
LEMMA MissingAtPlace ==
    ASSUME IP!IndInv, IndTypes, IndLink, Channel!InOrder, EP!PlayedInOrder, NEW x \in Places
    PROVE  Cardinality(1 .. (MessageOf(FrameAt(x)) - 1)
                           \ (ShownBefore(x) \cup Rejected \cup LostWithHandler))
               < Cardinality(Workers)
<1> DEFINE f == FrameAt(x)
           shown == MessageOf(f)
           missing == 1 .. (shown - 1) \ (ShownBefore(x) \cup Rejected \cup LostWithHandler)
<1>1. f \in 1 .. Len(enqueued) /\ shown = enqueued[f]
    BY FrameShown
<1>2. PICK p \in 1 .. Len(settled) : EnqueuedAt(f, p)
    BY <1>1 DEF IndLink
<1>3. /\ enqueued \in Seq(Nat) /\ shown \in Nat /\ Len(settled) \in Nat
      /\ \A q \in 1 .. Len(settled) : IP!Arrived[q] = settled[q]
      /\ p \in 1 .. Len(IP!Arrived)
    <2>1. IP!TypeOK
        BY DEF IP!IndInv
    <2>2. /\ Len(settled) \in Nat /\ Len(IP!Arrived) \in Nat
          /\ Len(settled) <= Len(IP!Arrived)
          /\ \A q \in 1 .. Len(settled) : IP!Arrived[q] = settled[q]
        BY <2>1, IP!PlacesInArrived, IngestAssumed DEF IP!IngestAssumption
    <2> QED
        BY <1>1, <2>2 DEF IndTypes
<1> DEFINE overtaken == 1 .. (IP!Arrived[p] - 1) \ {IP!Arrived[q] : q \in 1 .. p}
<1>4. IP!Arrived[p] = shown
    BY <1>1, <1>2, <1>3 DEF EnqueuedAt
<1>5. Cardinality(overtaken) < Cardinality(Workers)
    <2>1. IP!Cardinality(overtaken) < IP!Cardinality(Workers)
        BY <1>3 DEF IP!IndInv, IP!OvertakingBounded
    <2> QED
        BY <2>1 DEF IP!Cardinality, Cardinality
<1>6. missing \subseteq overtaken
    <2>1. SUFFICES ASSUME NEW m \in missing, NEW q \in 1 .. p, IP!Arrived[q] = m
                   PROVE  FALSE
        BY <1>4
    <2>2. q \in 1 .. Len(settled) /\ settled[q] = m /\ m # shown /\ m \in Nat
        BY <1>3, <2>1
    <2>3. m \notin Rejected /\ m \notin ShownBefore(x) \cup LostWithHandler
        BY <2>1
    <2>4. PICK g \in 1 .. Len(enqueued) : enqueued[g] = m
        BY <2>2, <2>3 DEF Rejected, Ingest!Elements
    <2>5. q \in 1 .. p - 1
        <3>1. q # p
            BY <1>4, <2>1, <2>2
        <3> QED
            BY <1>3, <3>1
    <2>6. g < f
        BY <1>2, <2>2, <2>4, <2>5 DEF EnqueuedAt
    <2>7. g \in 1 .. f - 1
        BY <1>1, <1>3, <2>6
    <2> QED
        BY <2>3, <2>4, <2>7, FrameShown
<1>7. IsFiniteSet(overtaken)
    <2>1. IsFiniteSet(1 .. (shown - 1))
        BY <1>3, FS_Interval
    <2> QED
        BY <1>4, <2>1, FS_Subset
<1> HIDE DEF missing, overtaken
<1>8. IsFiniteSet(missing) /\ Cardinality(missing) <= Cardinality(overtaken)
    BY <1>6, <1>7, FS_Subset
<1>9. /\ Cardinality(missing) \in Nat /\ Cardinality(overtaken) \in Nat
      /\ Cardinality(Workers) \in Nat
    BY <1>7, <1>8, WorkersAreFinite, FS_CardinalityType
<1>10. Cardinality(missing) < Cardinality(Workers)
    BY <1>5, <1>8, <1>9
<1> QED
    BY <1>10 DEF missing

\* What is shown is a message as it was published.
LEMMA WholeAtPlace ==
    ASSUME IP!IndInv, IndLink, NEW f \in 1 .. Len(enqueued), ~derailed
    PROVE  \/ Ingest!Whole(queued[enqueued[f]])
           \/ ~open /\ enqueued[f] = Len(queued)
<1>1. PICK p \in 1 .. Len(settled) : settled[p] = enqueued[f]
    BY DEF IndLink, EnqueuedAt
<1>2. enqueued[f] \in 1 .. Len(queued)
    <2>1. IP!TypeOK /\ IP!NothingLost
        BY DEF IP!IndInv
    <2>2. p \in 1 .. Len(IP!Arrived) /\ IP!Arrived[p] = settled[p]
        BY <2>1, IP!PlacesInArrived, IngestAssumed DEF IP!IngestAssumption
    <2>3. settled[p] \in IP!Elements(IP!Arrived)
        BY <2>2 DEF IP!Elements
    <2> QED
        BY <1>1, <2>1, <2>3 DEF IP!NothingLost
<1>3. \/ IP!Framed(enqueued[f])
      \/ enqueued[f] = Len(queued) /\ ~open
    BY <1>2 DEF IP!IndInv, IP!IndFraming, IP!Ended
<1>4. IP!Framed(enqueued[f]) => Ingest!Whole(queued[enqueued[f]])
    BY DEF IP!Framed, Ingest!Whole, IP!Messages, Ingest!Messages, IP!Data, Ingest!Data,
           IP!Begin, Ingest!Begin, IP!Size, Ingest!Size
<1> QED
    BY <1>3, <1>4

\* A client is shown no message twice, and the publisher's messages almost in their
\* order, for any pool and any length of a segment, whenever the handler dies and
\* whatever the listen thread makes of the stream.
THEOREM ShownAlmostInOrder == Spec => []ShownInOrder
<1>1. ASSUME IP!IndInv, IndTypes, IndLink, Channel!InOrder, EP!PlayedInOrder
      PROVE  ShownInOrder
    <2> SUFFICES ASSUME NEW x \in Places
                 PROVE  LET shown == MessageOf(FrameAt(x))
                            accounted == ShownBefore(x) \cup Rejected \cup LostWithHandler
                        IN /\ shown \notin ShownBefore(x)
                           /\ Cardinality(1 .. (shown - 1) \ accounted) < Cardinality(Workers)
                           /\ \/ derailed \/ Ingest!Whole(queued[shown])
                              \/ ~open /\ shown = Len(queued)
        BY DEF ShownInOrder
    <2>1. FrameAt(x) \in 1 .. Len(enqueued) /\ MessageOf(FrameAt(x)) = enqueued[FrameAt(x)]
        BY <1>1, FrameShown
    <2>2. ASSUME NEW y \in Places, Before(y, x), MessageOf(FrameAt(y)) = MessageOf(FrameAt(x))
          PROVE  FALSE
        <3>1. /\ FrameAt(y) \in 1 .. Len(enqueued) /\ FrameAt(y) < FrameAt(x)
              /\ MessageOf(FrameAt(y)) = enqueued[FrameAt(y)]
            BY <1>1, <2>2, FrameShown
        <3>2. FrameAt(y) = FrameAt(x)
            BY <1>1, <2>1, <2>2, <3>1 DEF IndLink
        <3> QED
            BY <2>1, <3>1, <3>2
    <2>3. MessageOf(FrameAt(x)) \notin ShownBefore(x)
        BY <2>2 DEF ShownBefore
    <2>4. Cardinality(1 .. (MessageOf(FrameAt(x)) - 1)
                          \ (ShownBefore(x) \cup Rejected \cup LostWithHandler))
              < Cardinality(Workers)
        BY <1>1, MissingAtPlace
    <2>5. \/ derailed \/ Ingest!Whole(queued[MessageOf(FrameAt(x))])
          \/ ~open /\ MessageOf(FrameAt(x)) = Len(queued)
        BY <1>1, <2>1, WholeAtPlace
    <2> QED
        BY <2>3, <2>4, <2>5
<1> QED
    BY <1>1, StreamerInvariant, TypesInvariant, LinkInvariant, ChannelInOrder,
       PlayedInvariant, PTL
=============================================================================
