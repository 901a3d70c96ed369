------------------------------ MODULE ShmQueue ------------------------------
(***************************************************************************)
(* The message ring that the streamer and the handler processes share      *)
(* (core/common/src/ipc_message_queue.{h,cpp}), driven the way the two     *)
(* processes drive it: one putter thread calls Enqueue for every frame     *)
(* (webcam/src/wc_daemon.cpp, TCPStreamer/src/TCPStreamer.cpp) and one     *)
(* thread calls Deque from HandleStreamDaemon::ListenSHMQueue.             *)
(*                                                                         *)
(* Memory is counted in units of one message header.  An offset counts     *)
(* from queueStartAddress, as the `next' pointers do in shared memory;     *)
(* head_position and rear_position count from the metric, so the offset of *)
(* a position p is p - MetricSize and position 0 is the null pointer.      *)
(* Init is the state after InitializeQueue on a fresh (zero filled) region.*)
(***************************************************************************)
EXTENDS Integers, Sequences

CONSTANTS
    ByteSize,       \* SharedMemoryInfo::byte_size_ of the region
    MetricSize,     \* sizeof(QueueMetric), at the start of the region
    MappedSize,     \* what mmap maps: byte_size_ rounded up to whole pages
    Sizes,          \* the values of Message::MessageSizeOnSHM: 1 header + data
    Pixels,         \* what a unit of frame data reads as when taken for a header
    Prefetch,       \* prefetch_count of ListenSHMQueue (the frame rate)
    MaxFrames,      \* bound: frames published in a behaviour
    DrainedAtWrap,  \* environment: the handler has emptied the ring whenever
                    \* the streamer reaches the end of the region
    Mortal          \* the processes a signal may end

ASSUME ConfigAssumption ==
    /\ MetricSize \in Nat \ {0}
    /\ ByteSize \in Nat
    /\ MappedSize \in Nat
    /\ MetricSize < ByteSize /\ ByteSize <= MappedSize
    /\ Sizes \subseteq Nat \ {0}
    /\ Pixels \subseteq [processed : BOOLEAN, dataLength : Nat, next : Nat]
    /\ Prefetch \in Nat \ {0}
    /\ MaxFrames \in Nat
    /\ DrainedAtWrap \in BOOLEAN
    /\ Mortal \subseteq {"streamer", "handler"}

VARIABLES
    \* QueueMetric, in shared memory
    locked, message_cnt, head_position, rear_position,
    \* the rest of the mapping
    mem,
    \* the streamer: where its thread is, the message in its hands, the locals
    \* startAddress of Enqueue and neighbour_addresses of JoinListener
    spc, frame, start, neighbours,
    \* the handler: where its thread is, the Message Deque is about to return,
    \* how many batches the callback has been given
    hpc, held, exported,
    \* history: where each published frame was put, and the frames ListenSHMQueue
    \* kept, in the order of Deque's returns
    log, received

metric == <<locked, message_cnt, head_position, rear_position>>
streamer == <<spc, frame, start, neighbours>>
handler == <<hpc, held, exported>>
vars == <<locked, message_cnt, head_position, rear_position, mem,
          spc, frame, start, neighbours, hpc, held, exported, log, received>>

-----------------------------------------------------------------------------
(* Shared memory.  A unit holds what the code reads from it when it takes  *)
(* the unit for a header, and (history) which unit of which frame was last *)
(* written there: unit 0 is the header.                                    *)

Offsets == 0 .. (MappedSize - MetricSize - 1)

Cell == [processed : BOOLEAN, dataLength : Nat, next : Nat, msg : Nat, unit : Nat]

ZeroCell == [processed |-> FALSE, dataLength |-> 0, next |-> 0, msg |-> 0, unit |-> 0]

At(off) == IF off \in Offsets THEN mem[off] ELSE ZeroCell

NoFrame == [size |-> 0,
            pixel |-> [processed |-> FALSE, dataLength |-> 0, next |-> 0]]

NoMessage == [dataLength |-> 0, msg |-> 0]

\* mutant: PutOnSHM stores next from the metric, not from the queue start
Header_FromMetric(f, off, id) ==
    [processed |-> FALSE, dataLength |-> f.size - 1,
     next |-> MetricSize + off + f.size, msg |-> id, unit |-> 0]

Header(f, off, id) ==
    [processed |-> FALSE, dataLength |-> f.size - 1, next |-> off + f.size,
     msg |-> id, unit |-> 0]

Datum(f, id, u) ==
    [processed |-> f.pixel.processed, dataLength |-> f.pixel.dataLength,
     next |-> f.pixel.next, msg |-> id, unit |-> u]

\* What the memory is after PutOnSHM has written frame f at offset off.
Written(f, off, id) ==
    [a \in Offsets |-> CASE a = off -> Header(f, off, id)
                         [] off < a /\ a < off + f.size -> Datum(f, id, a - off)
                         [] OTHER -> mem[a]]

\* Frame i lies unharmed where it was put.
Intact(i) ==
    \A u \in 0 .. (log[i].size - 1) :
        /\ log[i].off + u \in Offsets
        /\ mem[log[i].off + u].msg = i
        /\ mem[log[i].off + u].unit = u

-----------------------------------------------------------------------------
(* What Enqueue reads and decides.                                         *)

\* mutant: the next pointer of the rear message is not followed
NextStart_AtRear == IF rear_position = 0 THEN 0 ELSE rear_position - MetricSize

\* Enqueue's startAddress: behind the rear message, or the first byte.
NextStart == IF rear_position = 0 THEN 0 ELSE At(rear_position - MetricSize).next

\* The overflow test, which adds byte_size_ to queueStartAddress.
Overflow(s, size) == ByteSize <= s + size

\* The overflow branch that skips JoinListener.
NeverUsed == message_cnt = 0 /\ head_position = MetricSize

\* TraversalQueue from queueStartAddress: after i hops, the address and the
\* bytes passed.  Every hop adds the next pointer to the CURRENT address.
Hop[i \in Nat] ==
    IF i = 0 THEN [addr |-> 0, distance |-> 0]
    ELSE LET last == Hop[i - 1]
         IN [addr |-> last.addr + At(last.addr).next,
             distance |-> last.distance + 1 + At(last.addr).dataLength]

\* The addresses TraversalQueue collects for a message of this size: the first
\* before it measures anything, the others while the bytes passed are too few.
TraversalQueue(size) ==
    {0} \cup {Hop[i].addr : i \in {j \in 1 .. size : Hop[j].distance < size}}

-----------------------------------------------------------------------------
(* The streamer: PutOnSHMQueue and the steps of Enqueue.                   *)

Init ==
    /\ locked = FALSE
    /\ message_cnt = 0
    /\ head_position = MetricSize
    /\ rear_position = 0
    /\ mem = [a \in Offsets |-> ZeroCell]
    /\ spc = "idle"
    /\ frame = NoFrame
    /\ start = 0
    /\ neighbours = {}
    /\ hpc = "wait"
    /\ held = NoMessage
    /\ exported = 0
    /\ log = <<>>
    /\ received = <<>>

\* PutOnSHMQueue has taken a frame from its source and calls Enqueue.
NextFrame ==
    /\ spc = "idle"
    /\ Len(log) < MaxFrames
    /\ \E size \in Sizes, pixel \in Pixels :
        /\ DrainedAtWrap /\ Overflow(NextStart, size) =>
               head_position = 0 \/ log = <<>>
        /\ frame' = [size |-> size, pixel |-> pixel]
    /\ spc' = "acquire"
    /\ UNCHANGED <<metric, mem, start, neighbours, handler, log, received>>

\* Acquire succeeds and there is room, or nothing was ever in the ring.
EnqueueStart ==
    /\ spc = "acquire" /\ ~locked
    /\ Overflow(NextStart, frame.size) => NeverUsed
    /\ locked' = TRUE
    /\ start' = IF Overflow(NextStart, frame.size) THEN 0 ELSE NextStart
    /\ spc' = "put"
    /\ UNCHANGED <<message_cnt, head_position, rear_position, mem, frame,
                   neighbours, handler, log, received>>

\* Acquire succeeds, the message does not fit: Unlock, then TraversalQueue.
EnqueueOverflow ==
    /\ spc = "acquire" /\ ~locked
    /\ Overflow(NextStart, frame.size) /\ ~NeverUsed
    /\ TraversalQueue(frame.size) \subseteq Offsets
    /\ neighbours' = TraversalQueue(frame.size)
    /\ spc' = "join"
    /\ UNCHANGED <<metric, mem, frame, start, handler, log, received>>

\* The same, but the traversal leaves the mapping: the process is killed by
\* SIGSEGV, after Unlock.
TraversalFault ==
    /\ spc = "acquire" /\ ~locked
    /\ Overflow(NextStart, frame.size) /\ ~NeverUsed
    /\ ~(TraversalQueue(frame.size) \subseteq Offsets)
    /\ spc' = "dead"
    /\ UNCHANGED <<metric, mem, frame, start, neighbours, handler, log, received>>

\* mutant: JoinListener does not look at the messages
JoinListener_Unwaited ==
    /\ spc = "join"
    /\ spc' = "reacquire"
    /\ UNCHANGED <<metric, mem, frame, start, neighbours, handler, log, received>>

\* A poll of AnyMessageInProgress finds every collected message processed.
JoinListener ==
    /\ spc = "join"
    /\ \A a \in neighbours : mem[a].processed
    /\ spc' = "reacquire"
    /\ UNCHANGED <<metric, mem, frame, start, neighbours, handler, log, received>>

\* The second Acquire of Enqueue, which goes back to the start of the ring
\* without reading the metric again.
EnqueueReacquire ==
    /\ spc = "reacquire" /\ ~locked
    /\ locked' = TRUE
    /\ start' = 0
    /\ spc' = "put"
    /\ UNCHANGED <<message_cnt, head_position, rear_position, mem, frame,
                   neighbours, handler, log, received>>

\* PutOnSHM: what lies past the mapping cannot be written and ends the process,
\* with the lock held.
PutOnSHM ==
    /\ spc = "put"
    /\ mem' = Written(frame, start, Len(log) + 1)
    /\ spc' = IF \A u \in 0 .. (frame.size - 1) : start + u \in Offsets
              THEN "publish" ELSE "dead"
    /\ UNCHANGED <<metric, frame, start, neighbours, handler, log, received>>

\* mutant: the head is set although the ring is not empty
HeadOnPublish_Always == MetricSize + start

\* Where Enqueue leaves the head.
HeadOnPublish == IF head_position = 0 THEN MetricSize + start ELSE head_position

\* SetHead if the ring was empty, SetRear, fetch_add, Unlock.
PublishFrame ==
    /\ spc = "publish"
    /\ head_position' = HeadOnPublish
    /\ rear_position' = MetricSize + start
    /\ message_cnt' = message_cnt + 1
    /\ locked' = FALSE
    /\ log' = Append(log, [off |-> start, size |-> frame.size])
    /\ spc' = "idle"
    /\ frame' = NoFrame
    /\ start' = 0
    /\ neighbours' = {}
    /\ UNCHANGED <<mem, handler, received>>

-----------------------------------------------------------------------------
(* The handler: ListenSHMQueue, wait_for_messages and Deque.               *)

head == head_position - MetricSize

\* GetFromSHM can copy the message at head: header and data are mapped.
Readable == \A u \in 0 .. At(head).dataLength : head + u \in Offsets

\* The frame whose whole content GetFromSHM copies, or 0 for anything else.
Content ==
    IF /\ At(head).unit = 0
       /\ \A u \in 1 .. At(head).dataLength :
              At(head + u).msg = At(head).msg /\ At(head + u).unit = u
    THEN At(head).msg ELSE 0

\* wait_for_messages sees, without the lock, that message_cnt is not 0.
WaitForMessages ==
    /\ hpc = "wait"
    /\ message_cnt > 0
    /\ hpc' = "deque"
    /\ UNCHANGED <<metric, mem, streamer, held, exported, log, received>>

\* mutant: the exception is thrown without Unlock
DequeEmpty_KeepsLock ==
    /\ hpc = "deque" /\ ~locked
    /\ message_cnt = 0 \/ head_position = 0
    /\ locked' = TRUE
    /\ hpc' = "wait"
    /\ UNCHANGED <<message_cnt, head_position, rear_position, mem, streamer,
                   held, exported, log, received>>

\* Deque finds nothing: Unlock, throw QueueException; ListenSHMQueue tries again.
DequeEmpty ==
    /\ hpc = "deque" /\ ~locked
    /\ message_cnt = 0 \/ head_position = 0
    /\ hpc' = "wait"
    /\ UNCHANGED <<metric, mem, streamer, held, exported, log, received>>

\* mutants: the head stays; GetFromSHM and Deque do not acknowledge
NextHead_Stays == head_position
Acked_Never == mem

\* The head behind the fetched message, null when that was the rear one.
NextHead == IF rear_position # head_position THEN MetricSize + mem[head].next ELSE 0

\* The fetched message is marked processed.
Acked == [mem EXCEPT ![head].processed = TRUE]

\* Deque copies the message at head, marks it processed and moves head on.
DequeFetch ==
    /\ hpc = "deque" /\ ~locked
    /\ message_cnt > 0 /\ head_position # 0
    /\ Readable
    /\ locked' = TRUE
    /\ held' = [dataLength |-> At(head).dataLength, msg |-> Content]
    /\ mem' = Acked
    /\ head_position' = NextHead
    /\ hpc' = "release"
    /\ UNCHANGED <<message_cnt, rear_position, streamer, exported, log, received>>

\* The copy leaves the mapping: SIGSEGV ends the handler with the lock held.
DequeFault ==
    /\ hpc = "deque" /\ ~locked
    /\ message_cnt > 0 /\ head_position # 0
    /\ ~Readable
    /\ locked' = TRUE
    /\ hpc' = "dead"
    /\ UNCHANGED <<message_cnt, head_position, rear_position, mem, streamer,
                   held, exported, log, received>>

\* mutant: fetch_sub is missing
DequeRelease_Uncounted ==
    /\ hpc = "release"
    /\ message_cnt' = message_cnt
    /\ locked' = FALSE
    /\ received' = IF held.dataLength = 0 THEN received
                   ELSE Append(received, held.msg)
    /\ hpc' = IF Len(received') = (exported + 1) * Prefetch THEN "callback" ELSE "wait"
    /\ held' = NoMessage
    /\ UNCHANGED <<head_position, rear_position, mem, streamer, exported, log>>

\* fetch_sub, Unlock, return.  ListenSHMQueue keeps a message with data and
\* waits for another one in place of an empty one.
DequeRelease ==
    /\ hpc = "release"
    /\ message_cnt' = message_cnt - 1
    /\ locked' = FALSE
    /\ received' = IF held.dataLength = 0 THEN received
                   ELSE Append(received, held.msg)
    /\ hpc' = IF Len(received') = (exported + 1) * Prefetch THEN "callback" ELSE "wait"
    /\ held' = NoMessage
    /\ UNCHANGED <<head_position, rear_position, mem, streamer, exported, log>>

\* The batch is complete: the callback exports it, the next ListenSHMQueue starts.
Callback ==
    /\ hpc = "callback"
    /\ exported' = exported + 1
    /\ hpc' = "wait"
    /\ UNCHANGED <<metric, mem, streamer, held, log, received>>

-----------------------------------------------------------------------------
(* dieHandler or SIGKILL: the process goes, what it did in shared memory    *)
(* stays, the lock included.                                               *)

KillStreamer ==
    /\ "streamer" \in Mortal
    /\ spc # "dead"
    /\ spc' = "dead"
    /\ UNCHANGED <<metric, mem, frame, start, neighbours, handler, log, received>>

KillHandler ==
    /\ "handler" \in Mortal
    /\ hpc # "dead"
    /\ hpc' = "dead"
    /\ UNCHANGED <<metric, mem, streamer, held, exported, log, received>>

Enqueue ==
    \/ EnqueueStart \/ EnqueueOverflow \/ TraversalFault
    \/ JoinListener \/ EnqueueReacquire \/ PutOnSHM \/ PublishFrame

Handler ==
    \/ WaitForMessages \/ DequeEmpty \/ DequeFetch \/ DequeFault
    \/ DequeRelease \/ Callback

Next == NextFrame \/ Enqueue \/ Handler \/ KillStreamer \/ KillHandler

Spec == Init /\ [][Next]_vars

\* Both processes are scheduled: each thread takes its next step when it can.
\* The source of the frames owes nothing.  Weak fairness is enough although both
\* spin on the lock: neither takes it without end while the other does not.
FairSpec == Spec /\ WF_vars(Enqueue) /\ WF_vars(Handler)

-----------------------------------------------------------------------------
(* Properties that hold whatever the sizes, the pace and the deaths.       *)

\* Every variable keeps its type; in particular message_cnt, a size_t, never
\* goes below 0.
TypeOK ==
    /\ locked \in BOOLEAN
    /\ message_cnt \in Nat
    /\ head_position \in Nat
    /\ rear_position \in Nat
    /\ mem \in [Offsets -> Cell]
    /\ spc \in {"idle", "acquire", "join", "reacquire", "put", "publish", "dead"}
    /\ frame \in [size : Nat,
                  pixel : [processed : BOOLEAN, dataLength : Nat, next : Nat]]
    /\ start \in Nat
    /\ neighbours \subseteq Offsets
    /\ hpc \in {"wait", "deque", "release", "callback", "dead"}
    /\ held \in [dataLength : Nat, msg : Nat]
    /\ exported \in Nat
    /\ log \in Seq([off : Nat, size : Nat])
    /\ received \in Seq(Nat)

StreamerInside == spc \in {"put", "publish"}
HandlerInside == hpc = "release"

\* The spin lock of QueueMetric: the two processes are never inside together,
\* whoever is inside holds it, and it stays taken with nobody inside only when
\* a process has died, that is no path of Enqueue or Deque returns with it.
LockDiscipline ==
    /\ ~(StreamerInside /\ HandlerInside)
    /\ StreamerInside \/ HandlerInside => locked
    /\ locked => StreamerInside \/ HandlerInside \/ spc = "dead" \/ hpc = "dead"

\* The handler never waits for less than it is told: message_cnt never counts
\* more than the frames published and not yet kept by ListenSHMQueue.
CountNeverOverReports ==
    message_cnt + Len(received) <= Len(log)

\* What Enqueue trusts when it appends: the rear message in shared memory is the
\* last one published, and its next pointer still leads right behind it.
RearIntact ==
    spc \notin {"publish", "dead"} /\ log # <<>> =>
        LET last == log[Len(log)]
        IN /\ rear_position = MetricSize + last.off
           /\ mem[last.off].msg = Len(log)
           /\ mem[last.off].unit = 0
           /\ NextStart = last.off + last.size

-----------------------------------------------------------------------------
(* Order and loss.                                                         *)

Kept == {received[i] : i \in 1 .. Len(received)}

\* Published, and neither kept by ListenSHMQueue nor in Deque's hands.
Unread == {i \in 1 .. Len(log) : i \notin Kept /\ i # held.msg}

\* All frames so far have one size, as those of one camera have: messages of
\* successive laps then lie at the same offsets.
OneSize ==
    \A s, t \in {log[i].size : i \in 1 .. Len(log)}
                    \cup (IF frame = NoFrame THEN {} ELSE {frame.size}) : s = t

\* As long as the frames have one size, frames may be lost, but what
\* ListenSHMQueue keeps is whole, never twice the same frame and never a frame
\* older than one it already has.
OrderPreserved ==
    OneSize => \A i \in 1 .. Len(received) :
        /\ received[i] \in 1 .. Len(log)
        /\ i > 1 => received[i - 1] < received[i]

\* What JoinListener waits for: once it returns, the message that goes back to
\* the start of the ring overwrites no frame that is still to be read, as long as
\* the frames have one size.  (A frame without data is never kept, so it is not
\* missed either.)
JoinProtects ==
    OneSize /\ spc = "reacquire" =>
        \A i \in Unread :
            log[i].size >= 2 /\ Intact(i) => log[i].off >= frame.size

\* The queue promise of the repository's own test: Deque returns the frames in
\* the order they were enqueued, none missing.
Fifo == \A i \in 1 .. Len(received) : received[i] = i

\* No frame that is still to be read has been overwritten.
UnreadIntact == \A i \in Unread : Intact(i)

\* message_cnt is exactly the number of frames the handler has yet to get.
CountExact == message_cnt + Len(received) = Len(log)

\* Every frame lies inside the registered region: "User-provided offset and
\* byte_size should not go out-of-bounds" (shared_memory_manager.cpp).
InRegion == \A i \in 1 .. Len(log) : MetricSize + log[i].off + log[i].size <= ByteSize

\* The first message of the lap, or its first two, are as long as the frame: then
\* TraversalQueue makes no second hop.
FirstTwoCover ==
    \/ frame.size <= Hop[1].distance
    \/ rear_position # MetricSize /\ frame.size <= Hop[2].distance

\* A call of Enqueue returns, unless it goes back to the start of the ring with a
\* frame that is longer than the first two messages there: the second hop of
\* TraversalQueue adds a pointer that counts from the start to the current address,
\* and JoinListener may poll for ever what was never a header (TraversalQueue,
\* AnyMessageInProgress, JoinListener, Deque).
EnqueueReturns ==
    spc = "acquire" /\ (Overflow(NextStart, frame.size) => NeverUsed \/ FirstTwoCover)
        ~> spc \in {"idle", "dead"}

-----------------------------------------------------------------------------
(* The ring as a channel.  Deque has taken what ListenSHMQueue kept and the *)
(* message it is about to return; in flight are the frame at the head and   *)
(* all that were published after it.                                        *)

Taken == IF held = NoMessage THEN received ELSE Append(received, held.msg)

InFlight ==
    IF head_position = 0 \/ log = <<>> THEN <<>>
    ELSE [i \in 1 .. (Len(log) + 1 - At(head).msg) |-> At(head).msg + i - 1]

Channel == INSTANCE FrameChannel
           WITH published <- Len(log), inflight <- InFlight, taken <- Taken

\* The ring is a channel: no frame lost, none twice, none out of order, and each
\* one eventually taken.
ImplementsChannel == Channel!FairSpec
=============================================================================
