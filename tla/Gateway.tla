------------------------------- MODULE Gateway -------------------------------
(***************************************************************************)
(* The way of a frame through the gateway: the publisher and the streamer  *)
(* process of TcpIngest, the ring between the processes, the handler        *)
(* process, its repository and a client of HlsExporter.                    *)
(*                                                                         *)
(* The components are instances of their own modules.  They meet in two     *)
(* places: PutOnSHMQueue (TCPStreamer/src/TCPStreamer.cpp) enqueues what it *)
(* was given by the pool, ListenSHMQueue (core/common/src/                  *)
(* HandleStreamDaemon.cpp) fills the exporter's batches.  For the ring      *)
(* stands what it promises, the channel of FrameChannel, which ShmQueue     *)
(* implements as long as the handler keeps up.                             *)
(*                                                                         *)
(* One session: no handler is started after the one that dies.             *)
(***************************************************************************)
EXTENDS Integers, Sequences, FiniteSets

CONSTANTS
    Workers, Ends, HeaderLen, SplitHeaders, AllocFails, Garbage, Limit, \* TcpIngest
    FrameRate, FrameSizes, None,                                        \* HlsExporter
    MaxFrames       \* bound of HlsExporter: frames the ring hands over

VARIABLES
    \* TcpIngest
    sent, open, packet_num, numbers, derailed, got, lpc, buffer, task_queue, wpc, task,
    messages, ppc, packet, queued, settled,
    \* the ring: the numbers of the frames in it; history: the message that each frame
    \* was, the frames that were taken out
    ring, enqueued, dequeued,
    \* HlsExporter; segment is what its client got
    pc, message_buffer, segmentNumber, written, segments, playlist, headers,
    view, segment, taken, lost, torn, deaths

streamer == <<sent, open, packet_num, numbers, derailed, got, lpc, buffer, task_queue, wpc,
              task, messages, ppc, packet, queued, settled>>
channel == <<ring, enqueued, dequeued>>
handler == <<pc, message_buffer, segmentNumber, written, segments, playlist, headers,
             view, segment, taken, lost, torn, deaths>>
vars == <<streamer, channel, handler>>

Ingest == INSTANCE TcpIngest

Channel == INSTANCE FrameChannel
               WITH published <- Len(enqueued), inflight <- ring, taken <- dequeued

Exporter == INSTANCE HlsExporter WITH got <- segment, MaxRestarts <- 0

\* What the components assume of their constants.
ASSUME GatewayAssumption == Ingest!IngestAssumption /\ Exporter!ExporterAssumption

Init ==
    /\ Ingest!Init
    /\ ring = <<>> /\ enqueued = <<>> /\ dequeued = <<>>
    /\ Exporter!Init

-----------------------------------------------------------------------------
(* The streamer process.                                                   *)

\* Most of it happens in TcpIngest alone.
Inside == UNCHANGED <<channel, handler>>

Listener == Ingest!Listener /\ Inside
Worker(w) == Ingest!Worker(w) /\ Inside
NewMessage == (Ingest!NewMessage \/ Ingest!PutterWaits) /\ Inside

\* The publisher, and what may happen to a thread that sleeps.
Outside ==
    /\ \/ Ingest!HandleWebcamFrame \/ Ingest!ClosePublisher
       \/ \E w \in Workers : Ingest!SpuriousWakeup(w)
    /\ Inside

\* PutOnSHMQueue enqueues the message ...
Enqueue ==
    /\ Ingest!PutOnSHMQueue
    /\ ring' = Append(ring, Len(enqueued) + 1)
    /\ enqueued' = Append(enqueued, packet)
    /\ UNCHANGED <<dequeued, handler>>

\* mutant: the result of uncompress is compared the wrong way round
RejectMessage_Whole ==
    /\ Ingest!PutOnSHMQueue
    /\ Ingest!Whole(queued[packet])
    /\ Inside

\* ... or returns early, when it was sent compressed and cannot be decompressed;
\* what has come whole can be.
RejectMessage ==
    /\ Ingest!PutOnSHMQueue
    /\ ~Ingest!Whole(queued[packet])
    /\ Inside

Putter == NewMessage \/ Enqueue \/ RejectMessage

-----------------------------------------------------------------------------
(* The handler process, and the host that serves its files.                *)

\* ListenSHMQueue: Deque takes the oldest frame out of the ring into the batch.
FetchMessage ==
    /\ ring # <<>>
    /\ Exporter!FetchMessage
    /\ dequeued' = Append(dequeued, Head(ring))
    /\ ring' = Tail(ring)
    /\ UNCHANGED <<enqueued, streamer>>

\* The callback of ListenSHMQueue, the end of the process, a client.
Apart == UNCHANGED <<channel, streamer>>

Export == Exporter!Export /\ Apart
Fail == Exporter!Fail /\ Apart
Play == (Exporter!GetPlaylist \/ Exporter!GetSegment) /\ Apart

-----------------------------------------------------------------------------
Next ==
    \/ Outside \/ Listener \/ Putter \/ \E w \in Workers : Worker(w)
    \/ FetchMessage \/ Export \/ Fail \/ Play

Spec == Init /\ [][Next]_vars

\* The threads of both processes run, as in the components' own specifications; the
\* ring hands over a frame that is in it.
FairSpec ==
    /\ Spec
    /\ WF_vars(Listener)
    /\ WF_vars(Putter)
    /\ \A w \in Workers : WF_vars(Worker(w))
    /\ WF_vars(FetchMessage)
    /\ WF_vars(Export)

-----------------------------------------------------------------------------
(* Properties.                                                             *)

SegmentOf(n) == segments[n].frames

\* The places of the playlist, in playing order: entry and frame in it.
Places == (1 .. Len(playlist)) \X (1 .. FrameRate)
Before(x, y) == x[1] < y[1] \/ (x[1] = y[1] /\ x[2] < y[2])

FrameAt(x) == SegmentOf(playlist[x[1]])[x[2]]

\* The message that frame f was, an index of `queued'.
MessageOf(f) == enqueued[dequeued[f]]

\* The messages that PutOnSHMQueue could not decompress, and those that were in the
\* handler's hands when it died.
Rejected == Ingest!Elements(settled) \ Ingest!Elements(enqueued)
LostWithHandler == {MessageOf(f) : f \in lost}

ShownBefore(x) == {MessageOf(FrameAt(y)) : y \in {z \in Places : Before(z, x)}}

\* Whoever plays the playlist sees no message twice and sees them almost in the
\* publisher's order: at every place fewer older ones are still to come than the pool
\* has workers.  While the listen thread keeps its place, each one is a message as it was
\* published, unless it is what came last on a broken connection.
ShownInOrder ==
    \A x \in Places :
        LET shown == MessageOf(FrameAt(x))
            accounted == ShownBefore(x) \cup Rejected \cup LostWithHandler
        IN /\ shown \notin ShownBefore(x)
           /\ Cardinality(1 .. (shown - 1) \ accounted) < Cardinality(Workers)
           /\ derailed \/ Ingest!Whole(queued[shown]) \/ (~open /\ shown = Len(queued))

Shows(k) == \E x \in Places : queued[MessageOf(FrameAt(x))] = Ingest!Data(k)

\* The handler holds message k in a batch that waits for more frames.
Waits(k) ==
    /\ Len(message_buffer) < FrameRate
    /\ \E i \in 1 .. Len(message_buffer) :
          queued[MessageOf(message_buffer[i].frame)] = Ingest!Data(k)

\* When the publisher falls silent, every message that it has sent to its end gets into a
\* listed segment, or into a batch that waits for more; unless the listen thread loses
\* its place or the handler dies.
MessagesShown ==
    []<>(\A k \in Ingest!Messages :
            sent >= Ends[k] => derailed \/ pc = "dead" \/ Shows(k) \/ Waits(k))
=============================================================================
