----------------------------- MODULE TcpIngest -----------------------------
(***************************************************************************)
(* The TCP source of the streamer process (TCPStreamer/src/TCPStreamer.h): *)
(* a remote TCPPublisher writes messages into one connection, the listen   *)
(* thread of TCPMessageIterator cuts them out of the byte stream and makes *)
(* a task of each, a pool of workers runs the tasks, which push the        *)
(* messages to a second queue, and the putter thread takes them from there *)
(* for PutOnSHMQueue.                                                      *)
(*                                                                         *)
(* Bytes are counted in coarse units: a message is HeaderLen units of size *)
(* field and Size(k) units of data, and the connection carries the         *)
(* messages back to back, so a position in the stream says what is read    *)
(* there.  A buffer is an interval of the stream.                          *)
(*                                                                         *)
(* Not modelled: the destructor of TCPMessageIterator (the process never   *)
(* runs it), a connection reset that discards bytes already sent, and      *)
(* buffers shorter than the packet number in front of the data.            *)
(***************************************************************************)
EXTENDS Integers, Sequences, FiniteSets

CONSTANTS
    Workers,        \* the threads of the pool
    Ends,           \* the publisher's messages: where in the stream each one ends
    HeaderLen,      \* units of the size field
    SplitHeaders,   \* environment: recv may return a part of the size field
    AllocFails,     \* environment: buffer.resize may throw bad_alloc
    Garbage,        \* sizes read where no whole size field is
    Limit           \* the suspicious size, 100000000 in the code

Messages == 1 .. Len(Ends)

\* The stream position where message k + 1 begins, and the size of message k.
Begin(k) == IF k = 0 THEN 0 ELSE Ends[k]
Size(k) == Begin(k) - Begin(k - 1) - HeaderLen

\* Every message has data, and its size is no suspicious one.
ASSUME IngestAssumption ==
    /\ IsFiniteSet(Workers) /\ Workers # {}
    /\ HeaderLen \in Nat \ {0}
    /\ Ends \in Seq(Nat)
    /\ \A k \in Messages : HeaderLen < Ends[k]
    /\ \A j, k \in Messages : j < k => Ends[j] + HeaderLen < Ends[k]
    /\ SplitHeaders \in BOOLEAN /\ AllocFails \in BOOLEAN
    /\ Garbage \subseteq Nat \ {0}
    /\ Limit \in Nat
    /\ \A k \in Messages : Size(k) <= Limit

VARIABLES
    \* the connection: units sent, whether the publisher still has it open
    sent, open,
    \* the publisher: packet_num, history: the numbers that the messages carry
    packet_num, numbers,
    \* history: a size field has come in parts, or a buffer could not be allocated,
    \* so that the listen thread may have lost the place where messages begin
    derailed,
    \* the listen thread: units received, where it is, the buffer it fills
    got, lpc, buffer,
    \* the pool: task_queue_, where each worker is, the task in its hands
    task_queue, wpc, task,
    \* messages_, where the putter is, the message in its hands
    messages, ppc, packet,
    \* history: the buffers in the order their tasks were queued, and the ones
    \* PutOnSHMQueue has finished; the other queues hold indices of `queued'
    queued, settled

connection == <<sent, open, packet_num, numbers>>
listener == <<derailed, got, lpc, buffer>>
pool == <<task_queue, wpc, task>>
putter == <<ppc, packet>>
vars == <<sent, open, packet_num, numbers, derailed, got, lpc, buffer, task_queue, wpc, task,
          messages, ppc, packet, queued, settled>>

-----------------------------------------------------------------------------
(* The byte stream.                                                        *)

StreamLen == Begin(Len(Ends))

NoBuffer == [from |-> 0, size |-> 0, len |-> 0]

\* The data of message k, cut out where it is.
Data(k) == [from |-> Begin(k - 1) + HeaderLen, size |-> Size(k), len |-> Size(k)]

Whole(b) == \E k \in Messages : b = Data(k)

\* The sizes the listen thread may read in n units from position got.
SizesRead(n) ==
    IF n = HeaderLen /\ \E k \in Messages : Begin(k - 1) = got
    THEN {Size(k) : k \in {j \in Messages : Begin(j - 1) = got}}
    ELSE Garbage

\* The process runs: an exception that leaves the listen thread ends it.
Running == lpc # "terminated"

Init ==
    /\ sent = 0 /\ open = TRUE
    /\ packet_num = 0 /\ numbers = <<>>
    /\ derailed = FALSE
    /\ got = 0 /\ lpc = "size" /\ buffer = NoBuffer
    /\ task_queue = <<>>
    /\ wpc = [w \in Workers |-> "check"]
    /\ task = [w \in Workers |-> 0]
    /\ messages = <<>>
    /\ ppc = "check" /\ packet = 0
    /\ queued = <<>> /\ settled = <<>>

-----------------------------------------------------------------------------
(* The publisher: TCPFrameProducer and TCPPublisher.                       *)

BetweenMessages == \E k \in 0 .. Len(Ends) : Begin(k) = sent

\* mutant: a frame that is dropped is counted
PacketsAfterDrop_Counted == packet_num + 1

\* The early return leaves packet_num alone.
PacketsAfterDrop == packet_num

\* HandleWebcamFrame with a frame that compress refuses.
DropFrame ==
    /\ open /\ BetweenMessages /\ sent < StreamLen
    /\ packet_num' = PacketsAfterDrop
    /\ UNCHANGED <<sent, open, numbers, listener, pool, messages, putter, queued, settled>>

\* HandleWebcamFrame with another frame: publish sends its size and its data, as much
\* at a time as send takes; the number in front of the data goes up when it has
\* returned.
PublishFrame ==
    /\ open /\ sent < StreamLen
    /\ sent' = sent + 1
    /\ numbers' = IF BetweenMessages THEN Append(numbers, packet_num) ELSE numbers
    /\ packet_num' = IF BetweenMessages' THEN packet_num + 1 ELSE packet_num
    /\ UNCHANGED <<open, listener, pool, messages, putter, queued, settled>>

HandleWebcamFrame == DropFrame \/ PublishFrame

\* The producer ends, perhaps in the middle of a message: its socket is closed.
ClosePublisher ==
    /\ open
    /\ open' = FALSE
    /\ UNCHANGED <<sent, packet_num, numbers, listener, pool, messages, putter, queued,
                   settled>>

-----------------------------------------------------------------------------
(* The listen thread.                                                      *)

\* recv of the size field.  A return of 0 (the publisher has gone) leads back
\* here and is a stuttering step: the thread polls the dead connection.
ReceiveSize ==
    /\ lpc = "size"
    /\ \E n \in 1 .. HeaderLen :
        /\ n <= sent - got
        /\ n < HeaderLen => SplitHeaders
        /\ got' = got + n
        /\ \E size \in SizesRead(n) :
            \/ /\ size > Limit             \* throw bad_alloc, nobody catches it
               /\ lpc' = "terminated" /\ buffer' = NoBuffer
               /\ derailed' = (derailed \/ n < HeaderLen)
            \/ /\ size <= Limit
               /\ lpc' = "data"
               /\ buffer' = [from |-> got', size |-> size, len |-> 0]
               /\ derailed' = (derailed \/ n < HeaderLen)
            \/ /\ size <= Limit /\ AllocFails    \* continue, at the data
               /\ lpc' = "size" /\ buffer' = NoBuffer
               /\ derailed' = TRUE
    /\ UNCHANGED <<connection, pool, messages, putter, queued, settled>>

\* recv of some more data.
ReceiveData ==
    /\ lpc = "data" /\ buffer.len < buffer.size
    /\ \E n \in 1 .. (buffer.size - buffer.len) :
        /\ n <= sent - got
        /\ got' = got + n
        /\ buffer' = [buffer EXCEPT !.len = @ + n]
    /\ UNCHANGED <<connection, derailed, lpc, pool, messages, putter, queued, settled>>

\* mutant: the loop goes on after the last byte
BufferFull_OffByOne == buffer.len > buffer.size

\* The loop over recv is done.
BufferFull == buffer.len = buffer.size

\* The buffer is full, or recv says that the connection has ended (the rest of
\* the buffer stays zero): under task_mutex_ the buffer becomes a task.
QueueTask ==
    /\ lpc = "data"
    /\ BufferFull \/ (~open /\ got = sent)
    /\ queued' = Append(queued, buffer)
    /\ task_queue' = Append(task_queue, Len(queued) + 1)
    /\ lpc' = "notify"
    /\ buffer' = NoBuffer
    /\ UNCHANGED <<connection, derailed, got, wpc, task, messages, putter, settled>>

Asleep == {w \in Workers : wpc[w] = "asleep"}

\* task_cond_var_.notify_one, after the mutex has been released.
NotifyWorker ==
    /\ lpc = "notify"
    /\ lpc' = "size"
    /\ IF Asleep = {} THEN UNCHANGED wpc
       ELSE \E w \in Asleep : wpc' = [wpc EXCEPT ![w] = "check"]
    /\ UNCHANGED <<connection, derailed, got, buffer, task_queue, task, messages,
                   putter, queued, settled>>

Listener == ReceiveSize \/ ReceiveData \/ QueueTask \/ NotifyWorker

-----------------------------------------------------------------------------
(* The worker pool.                                                        *)

\* Under task_mutex_ the predicate of wait is true: the worker takes a task.
TakeTask(w) ==
    /\ Running
    /\ wpc[w] = "check" /\ task_queue # <<>>
    /\ task' = [task EXCEPT ![w] = Head(task_queue)]
    /\ task_queue' = Tail(task_queue)
    /\ wpc' = [wpc EXCEPT ![w] = "run"]
    /\ UNCHANGED <<connection, listener, messages, putter, queued, settled>>

\* mutant: the worker decides to sleep without looking at the queue again
WorkerWaits_Unchecked(w) ==
    /\ Running
    /\ wpc[w] = "check"
    /\ wpc' = [wpc EXCEPT ![w] = "asleep"]
    /\ UNCHANGED <<connection, listener, task_queue, task, messages, putter,
                   queued, settled>>

\* The predicate is false: the worker sleeps and releases the mutex at once.
WorkerWaits(w) ==
    /\ Running
    /\ wpc[w] = "check" /\ task_queue = <<>>
    /\ wpc' = [wpc EXCEPT ![w] = "asleep"]
    /\ UNCHANGED <<connection, listener, task_queue, task, messages, putter,
                   queued, settled>>

\* A condition variable may wake without a notification.
SpuriousWakeup(w) ==
    /\ Running
    /\ wpc[w] = "asleep"
    /\ wpc' = [wpc EXCEPT ![w] = "check"]
    /\ UNCHANGED <<connection, listener, task_queue, task, messages, putter,
                   queued, settled>>

\* mutant: the message is pushed to the front
Pushed_Front(w) == <<task[w]>> \o messages

\* messages_ after the task of worker w.
Pushed(w) == Append(messages, task[w])

\* The task: under mutex_ push the message and notify the putter.
RunTask(w) ==
    /\ Running
    /\ wpc[w] = "run"
    /\ messages' = Pushed(w)
    /\ ppc' = IF ppc = "asleep" THEN "check" ELSE ppc
    /\ task' = [task EXCEPT ![w] = 0]
    /\ wpc' = [wpc EXCEPT ![w] = "check"]
    /\ UNCHANGED <<connection, listener, task_queue, packet, queued, settled>>

Worker(w) == TakeTask(w) \/ WorkerWaits(w) \/ RunTask(w)

-----------------------------------------------------------------------------
(* The putter thread: new_message and PutOnSHMQueue.                       *)

\* mutant: the message handed out stays in messages_
NewMessage_Keeps ==
    /\ Running
    /\ ppc = "check" /\ messages # <<>>
    /\ packet' = Head(messages)
    /\ ppc' = "put"
    /\ UNCHANGED <<connection, listener, pool, messages, queued, settled>>

\* new_message: under mutex_ the oldest message leaves messages_.
NewMessage ==
    /\ Running
    /\ ppc = "check" /\ messages # <<>>
    /\ packet' = Head(messages)
    /\ messages' = Tail(messages)
    /\ ppc' = "put"
    /\ UNCHANGED <<connection, listener, pool, queued, settled>>

\* new_message finds nothing and waits on cond_var_.
PutterWaits ==
    /\ Running
    /\ ppc = "check" /\ messages = <<>>
    /\ ppc' = "asleep"
    /\ UNCHANGED <<connection, listener, pool, messages, packet, queued, settled>>

\* Enqueue, or the return on data that cannot be decompressed.
PutOnSHMQueue ==
    /\ Running
    /\ ppc = "put"
    /\ settled' = Append(settled, packet)
    /\ packet' = 0
    /\ ppc' = "check"
    /\ UNCHANGED <<connection, listener, pool, messages, queued>>

Putter == NewMessage \/ PutterWaits \/ PutOnSHMQueue

Next ==
    \/ HandleWebcamFrame \/ ClosePublisher
    \/ Listener \/ Putter
    \/ \E w \in Workers : Worker(w) \/ SpuriousWakeup(w)

Spec == Init /\ [][Next]_vars

\* Every thread of the process runs; the publisher and spurious wakeups do not
\* have to happen.
FairSpec ==
    /\ Spec
    /\ WF_vars(Listener)
    /\ WF_vars(Putter)
    /\ \A w \in Workers : WF_vars(Worker(w))

-----------------------------------------------------------------------------
(* Properties.                                                             *)

Buffer == [from : Nat, size : Nat, len : Nat]

TypeOK ==
    /\ sent \in 0 .. StreamLen /\ open \in BOOLEAN
    /\ packet_num \in Nat /\ numbers \in Seq(Nat)
    /\ derailed \in BOOLEAN
    /\ got \in 0 .. sent
    /\ lpc \in {"size", "data", "notify", "terminated"}
    /\ buffer \in Buffer
    /\ task_queue \in Seq(Nat)
    /\ wpc \in [Workers -> {"check", "asleep", "run"}]
    /\ task \in [Workers -> Nat]
    /\ messages \in Seq(Nat)
    /\ ppc \in {"check", "asleep", "put"}
    /\ packet \in Nat
    /\ queued \in Seq(Buffer)
    /\ settled \in Seq(Nat)

\* The order in which messages_ got them: what the putter sees.
Arrived == settled \o (IF packet = 0 THEN <<>> ELSE <<packet>>) \o messages

Elements(s) == {s[i] : i \in 1 .. Len(s)}

InHands == {task[w] : w \in Workers} \ {0}

\* Between the listen thread and PutOnSHMQueue no message is lost and none is
\* doubled: each one queued is a task, in a worker's hands, or has arrived.
NothingLost ==
    /\ Elements(task_queue) \cup InHands \cup Elements(Arrived) = 1 .. Len(queued)
    /\ Len(task_queue) + Cardinality({w \in Workers : task[w] # 0}) + Len(Arrived)
           = Len(queued)

\* The pool may reorder messages, but only by the tasks in other workers' hands:
\* when a message arrives, fewer than one message per worker is overtaken.
OvertakingBounded ==
    \A p \in 1 .. Len(Arrived) :
        Cardinality(1 .. (Arrived[p] - 1) \ {Arrived[q] : q \in 1 .. p})
            < Cardinality(Workers)

\* notify_one outside the mutex loses no wakeup: a task never waits while all
\* workers sleep, unless the listen thread is about to notify, and a message
\* never waits while the putter sleeps.
NoLostWakeup ==
    /\ task_queue # <<>> /\ Asleep = Workers => lpc = "notify"
    /\ messages # <<>> => ppc # "asleep"

\* As long as recv returns whole size fields and the buffers can be allocated, the
\* listen thread cuts the stream where the publisher did: the buffers are the messages
\* in order, and only the last one of a broken connection can be incomplete.  The
\* numbers by which sender and receiver log a message ("sent at", "received at") then
\* show a loss and nothing else: the k-th one cut out carries k - 1, also when frames
\* before it could not be compressed.
FramingKept ==
    \A k \in 1 .. Len(queued) :
        \/ derailed
        \/ queued[k] = Data(k) /\ numbers[k] = k - 1
        \/ k = Len(queued) /\ ~open /\ got = sent

\* A message the publisher has sent to its end is put on the queue, unless the
\* listen thread has lost its place.
MessagesArrive ==
    \A k \in Messages :
        sent >= Begin(k) ~>
            derailed \/ \E p \in 1 .. Len(settled) : queued[settled[p]] = Data(k)
=============================================================================
