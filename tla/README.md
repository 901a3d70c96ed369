# FloWWeaver in TLA+

A verification project for the streaming gateway in this repository: TLA+
modules that model its components, TLC configurations that check them on small
instances, and theorems that TLAPS checks for every instance.

The gateway runs three processes. The **host** (`core/src/main.cpp`) creates a
shared memory region, starts the two others and serves the finished files over
HTTP. The **streamer** takes frames from a source (a camera, or a TCP connection)
and puts each one into a ring in the region. The **handler** takes frames out of
the ring in batches and makes a video segment of each batch.

    TCPPublisher ==tcp==> TCPMessageIterator --> putter --Enqueue--> [ring] --Deque--> ListenSHMQueue --> exporter --> files --> HTTP
    (remote)              listen thread, pool    (streamer process)   shared memory     (handler process)               (host process)

## Inventory

Each entry: the state, the operations, the neighbours, what makes it hard, and
what it must get right.

**Shared memory ring** (`ipc_message_queue.{h,cpp}`).
*State:* `QueueMetric` (spin lock, `message_cnt`, `head_position`,
`rear_position`) at the start of the region and the messages behind it, each a
header (`processed`, `dataLength`, `next`) and data; all of it in shared memory.
*Operations:* `InitializeQueue`, `Enqueue`, `Deque`.
*Neighbours:* called by the two stream daemons from two processes; gets addresses
from the memory manager.
*Hard:* the streamer waits for the handler with the lock released
(`JoinListener`); its decisions rest on pointers inside memory that is being
reused; a process may die with the lock; the ring is unchecked apart from one
message per lap.
*Correct means:* mutual exclusion, no lock left behind, the counter and the two
ends of the list agree with the frames, no unread frame overwritten, frames in
order, `Enqueue` returns, nothing outside the region.

**Stream daemon** (`HandleStreamDaemon.{h,cpp}`, `utils.cpp`).
*State:* `initialized_publisher_`, a System V semaphore named by a checksum of the
region's key.
*Operations:* `InitStreaming`, `InitHandler`, `ListenSHMQueue` (batches of
`prefetch_count` messages), `wait_for_messages`.
*Hard:* the handshake compares an 8 bit checksum in a semaphore that outlives
every process; the counter is polled without the lock; empty messages and "queue
is empty" exceptions inside the batch loop.
*Correct means:* no handler works before the ring is initialized; batches are full
and made of distinct frames in order.

**TCP source** (`TCPStreamer.{h,cpp}`, `TCPStreamer/src/main.cpp`).
*State:* the connection, `task_queue_`, `messages_`, two mutexes with condition
variables, a listen thread, a pool of workers, the putter.
*Operations:* `listen_for_messages`, `thread_pool_worker`, `new_message`,
`PutOnSHMQueue`.
*Hard:* `recv` returns any part; the publisher may go in the middle of a message;
a message passes two queues and a pool; `notify_one` comes after the unlock.
*Correct means:* the stream is cut where the publisher cut it; no message lost,
doubled or kept waiting; bounded reordering.

**TCP publisher** (`TCPPublisher.h`, `tcp_producing.cpp`).
*State:* the connection, `packet_num`. *Operations:* `HandleWebcamFrame` (compress, number,
`publish`): a size field and the data; partial sends are repeated for the data, not for
the size field. *Hard:* it may end inside a message; a frame that cannot be compressed is
dropped without a trace in the stream. *Correct means:* the numbers of the packets show
what was lost, and nothing else.

**Web camera streamer** (`wc_daemon.cpp`, `webcam_streamer.cpp`, `WebCam.h`) and
**handler program** (`webcam_handler.cpp`). Loops around `PutOnSHMQueue` and
`HandleMessages`; `dieHandler` unregisters the region from a signal handler while
the other threads run. *Correct means:* the process ends whatever it was doing.

**HLS exporter** (`exporters.cpp`). *State:* `index.m3u8` and the segment files, which
outlive the process. *Operations:* `ExportPartial`, `CreateHLSVideoSegment`,
`readLastSegmentNumber`, `unmarshallMessages`. *Neighbours:* gets batches from
`ListenSHMQueue`; the HTTP server's `readPlaylist` reads its files meanwhile. *Hard:*
exceptions in the middle of a batch; the playlist names a segment before its writer is
closed; a new handler works on what an old one has left. *Correct means:* the playlist
names segments 0, 1, 2, ... and finished ones only, frames in order, listed segments are
not written again.

**Shared memory manager** (`shared_memory_manager.{h,cpp}`). *State:* a map from names
to mappings, guarded by `mu_`; the descriptors and the address space of the process.
*Operations:* `RegisterSystemSharedMemory`, `Unregister`, `UnregisterAll`,
`GetMemoryInfo`, `GetMemoryMap`, the copying constructor, `UnlockMu`. *Hard:* closed
descriptors are reused, copies share mappings, one getter takes no lock, `UnregisterAll`
runs in signal handlers, other processes resize the object. *Correct means:* each entry is
a live mapping of its own key, unmapped once, and nobody else's descriptor is touched.

**Host** (`core/src/main.cpp`). *State:* the two children, the region. *Operations:*
`main_server`, `handle_interruption_host`. *Hard:* the signal may come between any two
of its steps; it joins the handler before the streamer. *Correct means:* when it ends,
no child and no region is left.

**HTTP server** (`http.cpp` and the part of the vendored Crow header that it runs).
`http.cpp` has one rule, `/hls/<string>`, Crow adds `/static/<path>`; the rest is Crow's:

- the *parser* (`http_parser_execute`, `HTTPParser`): state of one request between reads;
  hard because a read may end anywhere, and because some 50 states share a few counters;
- the *query string* (`qs_parse`, `query_string`): pointers into a buffer that is decoded
  in place; hard because separators may be escaped;
- the *router* (`Trie`, `Router`): a tree for each method, optimised after it is built;
  hard because nodes are merged, several rules may fit, and three functions look up a URL
  independently;
- *connections* (`Connection`, `task_timer`, `Server`): a worker that runs completion
  handlers, a timer whose ids are handed out again; hard because reading goes on while an
  answer is written, and a long answer occupies the only worker.

*Correct means:* each request is handled once, as the client wrote it, and answered on its
own connection in order, however its bytes arrive; nobody is waited for without a deadline.

**Command line, logging, constants** and the **tests** keep no state that others share.

## Modules

| module | what it is |
|---|---|
| `ShmQueue` | the ring with the streamer's and the handler's thread |
| `FrameChannel` | what the ring should be: a lossless first-in first-out channel |
| `MCShmQueue` | constants of `ShmQueue` for TLC |
| `ShmQueueProofs` | theorems about `ShmQueue` for every pace and every size; the refinement, when the handler keeps up |
| `TcpIngest`, `MCTcpIngest` | the TCP source: listen thread, pool, putter, and the publisher |
| `TcpIngestProofs` | theorems about `TcpIngest` for any pool and any division of the stream |
| `Session`, `MCSession` | the host, its two children, the handshake, and signals |
| `SessionProofs` | theorems about `Session` for any signals, faults and checksums |
| `SharedMemoryManager`, `MCSharedMemory` | the memory manager under the threads of one process |
| `SharedMemoryProofs` | theorems about it for any threads, names, keys and descriptors |
| `HlsExporter` | the exporter, its repository, and a client that follows the playlist |
| `HlsExporterProofs` | theorems about it for any frame rate and any number of deaths |
| `HttpChars` | digits, for the parser and the router |
| `HttpQuery` | the query string, as operators |
| `HttpRouting` | the tree of rules and the router, as operators |
| `HttpParser` | the parser with its callbacks, as operators, for any router and query string |
| `HttpRequest` | one connection's parser against a client that sends any texts in any pieces |
| `HttpReference`, `MCHttpRequest` | the parser with the router and the query string; what a request means |
| `HttpRequestProofs` | theorems about `HttpRequest` for any texts, pieces, router and limits |
| `HttpConnection`, `MCHttpConnection` | connections, the timer and the worker of the server |
| `HttpConnectionProofs` | theorems about its deadlines and answers for any connections, requests and timeout |
| `Gateway`, `MCGateway` | the composition: `TcpIngest`, the channel of `FrameChannel`, `HlsExporter` |
| `GatewayProofs` | the components' theorems carried over to the composition; what a client is shown |

### ShmQueue

Memory is counted in units of one message header, so that a message of data length
*d* takes *1 + d* units. `mem` gives for every unit what the code reads when it
takes that unit for a header; a frame's pixels read as one of the values `Pixels`,
since the code does follow pointers into pixel data. Each unit also remembers which
unit of which frame was last written there, the history variable that lets `Intact`
and `Content` say whether a frame is still whole.

The streamer's thread (`spc`) goes through `Enqueue` in the steps that the other
process can tell apart:

| `spc` | steps | code |
|---|---|---|
| `idle` | `NextFrame` | the putter's loop, `PutOnSHMQueue` |
| `acquire` | `EnqueueStart`, `EnqueueOverflow`, `TraversalFault` | lines 162-194: with the lock, find the place and test for overflow; on overflow unlock and collect the addresses |
| `join` | `JoinListener` | one poll of the processed flags that finds all of them set |
| `reacquire` | `EnqueueReacquire` | lines 196-199 |
| `put` | `PutOnSHM` | the message is written |
| `publish` | `PublishFrame` | lines 213-218: head, rear, counter, unlock |

The handler's thread (`hpc`) alternates `WaitForMessages` and `Deque` (`DequeEmpty`,
`DequeFault`, or `DequeFetch` and `DequeRelease`) until the batch is full, then
`Callback`. What is inside a critical section and invisible from outside (the
streamer reads no handler state under the lock) is one step. `TraversalQueue` reads
memory without the lock, but only the streamer writes what it reads, so it is part
of `EnqueueOverflow`. The polls that fail are stuttering.

`Mortal` names the processes that may die at any step, leaving shared memory as it
is. `DrainedAtWrap` is an assumption on the handler's pace: whenever the streamer
comes to the end of the region, the handler has taken everything.

The throws of `Deque` after `GetFromSHM` and of `PutOnSHM` need a null address, which
these addresses never are; they are conditions without a state and have no step.

### TcpIngest

The connection carries messages back to back; a position in the stream says what is
read there (`SizesRead`). The publisher drops a frame (`DropFrame`), or sends one a unit
at a time (`PublishFrame`), and may close the connection anywhere. The listen thread (`lpc`) receives a size, then data in
pieces of any length, queues the task (`QueueTask`, under `task_mutex_`) and notifies
(`NotifyWorker`, after it). A worker (`wpc`) checks the predicate and sleeps
(`WorkerWaits`), or takes a task and runs it. The putter (`ppc`) does the same on
`messages_`. `queued` lists the buffers in the order the tasks were made; the
queues hold positions in that list. `numbers` (history) is the packet number of each
message sent.

A size field that comes in parts (`SplitHeaders`) or a buffer that cannot be allocated
(`AllocFails`) makes the listen thread go on at the wrong place; `derailed` remembers it,
and what it reads for a size from then on is any of `Garbage`. `FramingKept` and
`MessagesArrive` are about streams that have not been derailed, the other properties about
all.

`PutOnSHMQueue` is one step here: what `Enqueue` does inside it is `ShmQueue`. Its
liveness therefore presupposes that `Enqueue` returns.

### Session

The three processes from the first registration to the last exit. The host's main
thread (`hostpc`) goes through `main_server`: register, install the handlers, start the
handler and the streamer (each in two steps, since a signal may come between the start
and the assignment of the pointer: `owned`), start the HTTP thread, three joins, the
end. `ipc` is the place in `handle_interruption_host`, whoever called it: a signal, the
`catch` of `main_server`, its last line, or the HTTP thread when the port is taken.
`http` is the life of `serveApp`, with the worker of the server inside a synchronous write or
not (`WriteToClient`, `ClientLetsGo`): `Server::run` returns only when its worker has left that write,
so a server told to stop meanwhile is `"held"` until the client reads or leaves.

A child (`cpc`) starts, registers the region, installs `dieHandler` and goes through its
side of the handshake: the streamer initializes the queue and then sets the semaphore,
the handler computes the value and polls for it. After that the handler takes and
releases the mutex `mu_` of its memory manager.

Shared memory objects are numbers; `linked` is the one the key names. `shm_open` with
`O_CREAT` makes a new one when the key is unlinked, and a process keeps what it has
mapped. The checksums are constants: `Expected` and `OrphanValue` for the host's process
number and that of whoever adopts orphans, `SemaAtStart` for what the semaphore held.

`Signal` reaches the host alone or, as Ctrl-C does, all three. What it does to the host
(`Disposition`) depends on who has installed a handler last: nobody, `main_server`, or
Crow, whose server takes SIGINT and SIGTERM over while it runs and leaves the default
reaction behind (external, from `crow_all.h`). `terminate` of Boost.Process is SIGKILL and
a wait (external).

### SharedMemoryManager

Managers are maps from names to entries with a mutex `mu_`; threads call them. A call is
a record (`call[t]`) that says how far it has come; the steps are the system calls and
the accesses to the map, so that the other threads, other parts of the process and other
processes come between them:

| call | steps |
|---|---|
| `RegisterSystemSharedMemory` | `OpenSharedMemoryRegion` (lock, `shm_open`, `ftruncate`), `CheckSharedMemoryRegionSize`, `MapSharedMemory`, `CloseSharedMemoryRegion` with the new entry |
| `Unregister`, `UnregisterAll` | `LockToUnregister` (or `UnregisterUnknown`), then for each name `UnregisterHelper` (`munmap`) and `EraseEntry`, `UnregisterDone` |
| `GetMemoryInfo`, `GetMemoryMap` | one step; what it hands out is `handle[t]` |
| copy, `UnlockMu` | `CopyManager`, `UnlockMu` |

The descriptor table gives out the lowest free number (`LowestClosed`), since the entries
keep the numbers of closed descriptors. `OtherOpens`, `OtherCloses` are the rest of the
process, `OtherProcessRegisters` another one that resizes the object. Some uses of the
API break every promise; `misuse` (history) remembers them: `"alias"` (a second name for
a known key, the FIXME at line 196), `"copy"`, `"unlock"`, `"resize"`, and each property
says which of them it excludes.

### HlsExporter

`pc` is the place in `ListenSHMQueue` and `CreateHLSVideoSegment`: fetch a message, unmarshal,
`ReadLastSegmentNumber`, `OpenWriter`, one `WriteFrame` after the other, `AppendPlaylist`,
`ReleaseWriter`. Every step may be the handler's last (`Fail`), by a signal or by the
exceptions of the code (`UnmarshalThrows`, `OpenFails`, `WrongSize`); `Restart` is the next
session on the same files. A client gets the playlist and, however much later, a file it
names (`GetPlaylist`, `GetSegment`). `torn` (history) has the files whose writer died.

### HttpQuery, HttpRouting, HttpParser, HttpRequest, HttpReference

The first three are the code as operators. A string is a sequence of characters; what the
code does with pointers into buffers, marks and `NUL` bytes is done on such sequences.

- `HttpQuery`: `QueryString` makes the pairs that `qs_parse` leaves in its buffer,
  `GetList` and `Get` are `query_string`, with keys that are decoded while they are compared
  (`SameKey`).
- `HttpRouting`: `Add`, `Optimize` and `Find` are `Trie`; `Validate`, `HandleInitial`, `Handle`
  and `HandleUpgrade` are `Router`.
- `HttpParser`: `Dispatch` has one operator for each group of the parser's states, each
  taking an execution `x` (the parser, the marks, the position) and a character; `Step` is one
  turn of its loop, `Leftover` the end of the buffer, `Feed` what the connection calls. The inner
  loops of the code over names, values and bodies are turns of one character here.

What `on_url` and `handle_url` get from the query string and the router is an operator parameter of
`HttpParser`, `UrlParams(url)` and `RouteCode(table, method, url)`: the theorems hold for whatever these
answer, and the run gives them `QueryString` and `HandleInitial`.

`HttpRequest` is the state machine: a client sends the texts of a script, each when the one
before is answered, and the connection reads any number of bytes (`Read`), or has written
the answer and clears the parser (`Answer`). In `HttpReference` the texts are rendered from requests
(`Render`), so that the properties can compare what the server has understood (`p.handled`)
with what was meant (`Expected`, which knows nothing of the parser); the tree of rules is
compared with trying the rules one after another (`Reference`).

`cut` says that a read ended inside the URL. The parser then looks up the part of the URL it
has (`on_url`, `handle_url`), and refuses a request that has a rule; the properties about
single requests except such reads, `TextsEnd` does not.

### HttpConnection

The server's side of a connection is the record `server.conn[c]`, with the timer's tasks
and the queue of completed operations beside it. `Work` runs the next handler of the queue
to its end, as the one worker thread of the server does: `Start`, `ReadDone`, `Written`,
`Tick`. An answer of `stream_threshold` bytes or more and every file of `/static` are written
synchronously: the worker is `blocked` until the client has taken the answer (`FinishLong`) or is gone
(`BreakLong`: `asio::write` throws, `Router::handle` catches, and the read handler goes on).
`Accept`, `Arrive`, `Take` and `Second` are the
acceptor, the socket and the clock, `Stop` and `End` the server's stop. The messages a client may
send are abstract; what makes a text one of them is `HttpReference`.

A request is named by what it is answered with (`Kinds`). A HEAD sets `skip_body`, which nothing sets
back, and `end` then empties the body of this and of every later answer on the connection. Two kinds of
answer keep their body all the same (`BodyOf`): `do_write_static` sends the file whatever the body is,
and `prepare_buffers` puts the text of an error status (`"status"`) into a body that is empty.

`stolen` (history): a connection whose deadline has fired keeps the id of its task, the
timer hands the id out again once no task is left, and the first connection may then
cancel the deadline of the second. The comment at `crow_all.h:8894` rules this out;
`NobodyWithoutDeadline` shows that it is the only way to lose a deadline.

### Gateway

A frame's whole way. The three components are instances of their own modules, with the variables
of each kept apart, and meet in two steps: `Enqueue`, where `PutOnSHMQueue` puts the message that
the pool handed it into the ring, and `FetchMessage`, where `ListenSHMQueue` takes the oldest frame
out of it into the batch. `RejectMessage` is the early return of `PutOnSHMQueue` for a message that
cannot be decompressed, which one that has come whole always can be. Every other step is one
component's own (`Inside`, `Apart`).

For the ring stands `FrameChannel`, which `ShmQueueProofs` shows `ShmQueue` to implement while the
handler keeps up (`DrainedAtWrap`); what happens when it does not is `MixedSizes` and `LostFrames`.
`enqueued` (history) says which message each frame was, so that `ShownInOrder` can compare what a
client plays with what the publisher sent.

## Runs

Passing runs:

| run | what it shows | bounds |
|---|---|---|
| `MixedSizes` | `LockDiscipline`, `CountNeverOverReports`, `RearIntact` in every interleaving, with faults and deaths; while frames have one size `OrderPreserved` (no torn, repeated or older frame) and `JoinProtects` (the first frame of a lap overwrites no unread frame with data) | region of 8 units (6 for messages), sizes 1, 2, 4, two kinds of pixels, 7 frames, both processes mortal |
| `DrainedLaps` | with a handler that keeps up: nothing unread overwritten, the counter exact, `FrameChannel!FairSpec` implemented; `Enqueue` returns, unless the frame that goes back to the start is longer than the first two messages there | sizes 2, 3, 5 in a region of 9 units, two kinds of pixels, 6 frames |
| `TcpIngest` | the framing and the packet numbers, no lost wakeup, fewer messages overtaken than there are workers, no task lost or doubled, every message sent whole arrives | 2 workers, 3 messages of 1, 2, 1 units, size fields of 2 units that may be split, failed allocations, wrong sizes 1 and 4 with the limit at 3 |
| `Session` | handshake, one shared object, a clean exit, Ctrl-C ends everything but for two stated exceptions | two signals, to the host or the group, at any step; each spawn, the port and each child may fail |
| `SharedMemory` | entries and mappings correspond, other descriptors stay, handles are usable, calls return | 2 threads, a manager and its copy, 2 names, 1 key, 2 descriptors, 2 addresses, 2 sizes, 2 offsets, 3 calls, 2 actions of others |
| `HlsExporter` | playlist, frames, clients that follow it; listed segments stay; complete batches get listed | 3 frames a segment, two frame sizes, 12 frames, 2 restarts |
| `HttpRequest` | requests are handled once and as written in whatever pieces they come, other texts end the connection, the query means what the client meant, the tree and the three passes of the router agree | about 500 texts, reads of 1, 2, 3, 5, 8 bytes or all, three tables of rules, all URLs of up to 5 characters of a small alphabet; counters of 8 bits, headers of 95 bytes |
| `Gateway` | whoever plays the playlist sees no message twice and each one almost in the publisher's place; a message sent to its end gets shown, or waits in a batch that is not full | 2 workers, 4 messages of one unit behind size fields of one unit, a publisher that drops frames and may end anywhere, segments of 2 frames, a handler that may die at any step |
| `HttpConnection` | answers match requests, deadlines are neither missing nor early, a silent or stopped server comes to rest unless a client that takes no answer keeps it | 2 connections with 2 and 1 requests, a timeout of 2 seconds, one client that may leave; HEAD of a page and of a file, an error, answers of all three lengths |

The bounds are enough for the interesting cases: the ring wraps at least twice, with
a message that ends before, at and behind the end; the first message of a lap is
smaller than, as large as and larger than the one it replaces; a batch (`Prefetch`)
ends inside a lap; a second signal finds a host that is handling the first one, or one
whose server the first one has stopped; all workers hold a task while a further one
waits. Three calls of the manager are a registration, a look-up and a removal, or two of
one kind and what disturbs them; two descriptors make a number come back in one step. Two
restarts leave a handler that dies on the files of one that died. Reads of one
byte end at every place of a text, and the larger ones mix whole lines and parts; numbers,
headers and bodies of the texts lie on both sides of their limits. Two connections
are what it takes to steal a deadline. Four messages make two segments, so that a message can
be overtaken across the boundary of a segment; a listen thread that loses its place is not in the
run `Gateway` (it is in `TcpIngest`, and the theorem covers it).

The type invariants of `ShmQueue`, `TcpIngest`, `Session`, `SharedMemoryManager` and `HlsExporter` are
proved and not checked again by these runs; that of `HttpRequest` is checked and proved. `Gateway` has
those of its components; what `HttpConnection` has to say of its deadlines and operations beyond
their types is part of `NobodyWithoutDeadline`.

`JoinProtects` is stated for unread frames with data (one without is never kept) and for frames of
one size: with several, the addresses
`JoinListener` polls are not those of the messages: `TraversalQueue` adds a pointer that
counts from the start of the queue to the current address. `MessagesArrive` and
`FramingKept` end where the stream is derailed; `NothingLost` shows what remains true then.

`CHECK_DEADLOCK FALSE` everywhere: the frames, messages, calls and requests of a behaviour
are bounded, polling is stuttering, and a process may die, so every model really stops.

Runs that show a disagreement between the code and what its text says (each one a
finding in `PROJECT.json`):

| run | what happens |
|---|---|
| `LostFrames` | only the message that wraps waits for the handler; the following ones overwrite unread frames |
| `RegionOverrun` | the overflow test ignores the size of the metric |
| `IgnoredSignal` | a SIGTERM to the host, once the HTTP server runs, stops only the server |

`Enqueue` may wait for ever on an empty ring, which the comment in line 190 of `ipc_message_queue.cpp` ("do
nothing, because there is no messages and JoinListener is not required") does not foresee. In a region of 9
units: messages of 2 units at 0, 2 and 4 have been taken, and one of 5 goes back to the start. `head_position` is not the start of the queue any more, so `JoinListener` runs on an
empty ring.
`TraversalQueue` goes from 0 to 2, the first message's pointer, and then to 2 + 4, as the second pointer counts
from the start too; at 6 no message ever began. `EnqueueReturns` leaves out the frames that are longer than
the first two messages of the lap (`FirstTwoCover`), for which that hop is needed, and claims nothing of them.

After a lap over unread frames the ring may also stand still: the handler finds no head any
more, and at the next wrap the streamer waits for ever for flags that nobody sets.
`EnqueueReturns` is therefore stated for a handler that keeps up.

`HandshakeSound` is stated for checksums that differ from what the semaphore held. The
code ensures neither: a new semaphore is 0, and some process numbers have the checksum 0;
an old one may hold anything. With `SemaAtStart = Expected` the handler is "online" before
there is a publisher. `CtrlCEnds` has two exceptions. `Hung`: a signal that finds the handler's
only thread inside the memory manager, or a second one that finds the host inside
`UnregisterAll` on the way out of its `catch`, leaves a thread that waits for itself. And an HTTP
client that neither reads its answer nor leaves holds the server's worker, for which the host waits.

`ComesToRest` has exceptions as well: a client that never takes a synchronous answer
keeps the worker, so that no deadline fires and `stop` ends nothing; one that never takes the last answer of
its connection keeps that connection, since its deadline was cancelled and no read is under way
(`crow_all.h:9462`); and a connection whose deadline was stolen has none.

Found on the way, and no run of its own: a result of -1 of
`semget` is not looked at, and the handler polls for ever; a signal between the registration
of the region and the installation of the handlers (`main.cpp:71`) kills the host without
removing the region; `Unregister` of an unknown name erases the end of the map;
`GetMemoryMap` reads the map without the mutex; another process that registers the key with a
smaller size takes pages away from those who have it mapped; a URL that is cut by a read may be refused although
it has a rule (the part so far is looked up and has none); after a HEAD the other answers
of a connection have no body (`skip_body` is never set back, though `crow_all.h:7255` describes it as
"Whether this is a response to a HEAD request."); an upgrade that no rule offers
is not answered and not counted as an answer; a publisher that comes again is never heard,
as `accept` is called once; a connection that ends in the middle of a message leaves a buffer that is
queued like a message, its rest zero (`TCPStreamer.h:67`), which `FramingKept` and `ShownInOrder`
allow for the last message of a broken connection only.

## Fairness

`ShmQueue!FairSpec` has weak fairness of the streamer's and of the handler's steps:
both are threads of running processes, and the spin lock cannot starve either one
in these models since the other one releases it and needs an action of the first, or
a new frame, before it could take it without end. The arrival of frames and deaths
are not fair. `TcpIngest!FairSpec` has weak fairness of the listen thread, of the
putter and of each worker; the publisher and spurious wakeups owe nothing.
`Session!FairSpec` has weak fairness of each process's own steps, of the HTTP thread and
of the delivery of a signal, which the kernel owes; signals, failures and the handler's
work after the handshake are not fair. `SharedMemoryManager!FairSpec` has weak fairness of
each thread inside a call, which runs unless it waits for the mutex; nobody has to call.
`HlsExporter!FairSpec` has weak fairness of the exporter, which never waits; no frame has to
come and nobody has to start a dead handler again. `HttpConnection!Spec` has weak fairness
of the worker (a thread that runs whatever is queued, and gets an error from a write to a client that
has left), of the clock, and of the network towards the server. No client has to send anything, to take
an answer, synchronous or not, or to leave: no timeout of the code makes one. Likewise `ClientLetsGo` of `Session`
is not fair. `Gateway!FairSpec` has the fairness
of its components, with `FetchMessage` (a frame in the ring is handed over, which is the channel's
fairness) apart from the exporter's other steps.

## Proofs

`ShmQueueProofs`, for every pace, size mixture, death and number of frames, from
`ConfigAssumption` (a region larger than its metric, mapped at least as far as it is
registered, messages of at least a header):

- `TypeCorrect`: `TypeOK`, with `IndType` as the inductive invariant. That
  `message_cnt` is a natural number needs the fact that the message being returned
  is still counted.
- `LockIsDisciplined`: mutual exclusion; nobody alive leaves with the lock.
- `CountIsHonest`: `message_cnt` plus the frames kept is at most the frames published.
- `RearIsIntact`: from `IndRear`, which adds where the message being written lies and
  that the handler only sets processed flags.
- `OrderIsPreserved` (`OrderPreserved`) and `JoinDoesProtect` (`JoinProtects`), which speak of
  frames of one size, with a handler that falls behind by any number of laps, faults in
  `TraversalQueue` and deaths at any step. `IndLaps` is stated for each size *s* and holds
  nothing of a mixture. Frames of one size lie in slots that do not overlap (`InvPlaces`), each
  slot holds one frame, whole, and a frame that is still in its slot has its successor in the next
  one (`InvSlots`), so that the memory from any slot on reads as growing frames, once round
  the ring. The head stands at a slot whose frame is newer than all that were taken, or behind the last slot
  (`InvHead`). The start of the ring is marked processed only when its frame has been
  taken (`InvSeen`), and `JoinListener` returns only when it is. A streamer that dies
  inside `Enqueue` may leave a torn slot, but also the lock, and nobody reads it (`Torn`).

The last part of `ShmQueueProofs`, when `DrainedAtWrap` holds and every frame has data
(`FramesHaveData`; `wc_daemon.cpp` always writes a frame header), for any mixture
of sizes:

- `DrainedKeepsFrames`: `UnreadIntact`; `DrainedIsExact`: `CountExact` and `Fifo`.
- `DrainedImplementsChannel`: `Spec => Channel!Spec`.

The inductive invariant `IndDrained` is a conjunction: `InvTaken` (the frames taken
are exactly 1 to some number, so the unread ones are an interval), `InvEnds` (head
and rear are the places of the oldest unread and of the newest frame, or null),
`InvPending` (the unread frames lie one behind the other and whole) and `InvEnqueue`
(where the message in hand goes, nothing unread lies). `DrainedAtWrap` enters at one
place: a message that goes back to the start finds no frame pending.

`SessionProofs`, without assumptions on the constants: `SessionTypeCorrect`,
`HandshakeIsSound`, `RegionIsShared`, `ExitIsClean`. The invariant `IndInv` adds that the
second child is started only when the first one's pointer is set (`IndStart`), how far
`handle_interruption_host` has come (`IndInterruption`), and that until the key is
unlinked it names the only object anybody maps (`IndRegion`). After that at most one
child can be left, so that no two processes can disagree on the object, and a handler
that is left alone finds a semaphore nobody has set (`IndHandshake`).

`TcpIngestProofs`, from `IngestAssumption` (at least one worker, messages with data, sizes
within the limit), for any pool and any division of the stream:
`IngestTypeCorrect`, `TasksAreKept` (`NothingLost`), `WakeupsAreKept`, `PoolAlmostKeepsOrder`
(`OvertakingBounded`), `FramingIsKept`, and `NothingDoubled` (the messages handed to `Enqueue` are
pairwise distinct: a count of the places of `NothingLost`). The invariants are layers on one another:
`IndHands` (a worker has a task exactly while it runs one, the putter a message exactly
while it enqueues it), `IndOrder` (the queue holds the newest indices in order, so whatever a
message overtakes was in the hands of another worker), `IndFraming` (while nothing was
derailed, the number of buffers cut says where the listen thread is in the stream) and
`IndNumbers` (one number for each message begun).

`SharedMemoryProofs`, from `ManagerAssumption` (finitely many descriptors, positive sizes), for
any threads, names, keys and calls: `SharedMemoryTypeCorrect`; `DescriptorsAreKept`, from
`IndDescriptors` (a call's descriptor is open on its own key until the call closes it);
`EntriesAreLive`, `MappingsAreOwned` and `EntriesOwnTheirMappings`, from `IndSafe`: `IndMutex` (one call at a
time is inside a manager) and `IndEntries` (entries have distinct addresses, an address in hand
belongs to no entry); `HandlesAreUsable`, from `IndUsable`, which adds the sizes (`IndBounds`:
as objects are resized to exactly what is registered, an entry that passed the check begins
at offset 0 unless somebody else resizes the object, which is why the wrong bounds of
`GetMemoryInfo` do no harm).

`HlsExporterProofs`, from `ExporterAssumption`, for any frame rate, any frames and any number of
deaths: `ExporterTypeCorrect`, `PlaylistIsInOrder`, `FramesAreAccounted`, `FollowerIsServed`,
`SegmentsAreKept`. `IndBatch` says that the batch is the last run of frames taken,
`IndFile` what the file being written holds, `IndListed` that the listed files hold the earlier
frames in order, `IndView` that a client's playlist is a beginning of the present one.
`PlaylistMissesNothing` puts them together: in playing order a client sees growing frame numbers and
all frames that were taken and not lost.

`GatewayProofs`, from the assumptions of the components: `ComponentsKept`, that every step of the
composition is a step or a stutter of each component, so that their theorems hold of the whole;
`ChannelInOrder`, that frames leave the ring in order, from the steps of `FrameChannel` alone; and
`ShownAlmostInOrder` (`ShownInOrder`), for any pool, stream, frame rate and any deaths. `IndTypes` and
`IndLink` add what the composition has of its own: frame *f* of the ring is a message that the
putter has settled, and frames are in the order in which their messages were settled. An older message
that is missing at a place of the playlist was then not yet settled when the one shown was
(`NothingDoubled`, `ChannelInOrder`, `PlaylistMissesNothing`), and `OvertakingBounded` counts those.

`HttpConnectionProofs`, from `ConnectionAssumption` (a timeout of at least a second; requests that
may be sent), for any number of connections and requests: `ServerInvariant`, `DeadlinesKept`
(`NobodyWithoutDeadline`), `DeadlinesInTime` (`DeadlineNotEarly`) and `AnswersInOrder` (`AnswersMatch`). A handler runs to its end, in
the turn of one connection; the invariant `Inv(s, tasks, h)` is stated for the states within it, with `h`
the connection whose turn it is and `tasks` the deadlines that have not run. An event of a read or a
start gives the turn (`Held`), and each handler gives it back (`Free`): with a read and a fresh
deadline of its own, with neither, or with the worker blocked in a synchronous answer. At most one such event of a
connection is under way (`InvQueue`); who waits for its client holds the id of its own deadline,
unless another has cancelled it (`ConnOK`); a task belongs to the connection that holds its id, and
what is left of it and the seconds of silence make up at least the timeout (`InvTasks`). A connection that has
expired is the only one that may hold an id that is not its own any more: it is closed, and `Cancel` on
that id is the theft that `NobodyWithoutDeadline` allows. The tasks of one tick run in a loop (`RunDue`, a
recursive function); the invariant of the loop is carried from id to id by induction over a set of
numbers (`NatSet`, from `WFMin` of the library), which needs no operator as a parameter.

`AnswersInOrder` puts `Books(s, client, c)` beside it, for each connection and its client: the answers
given match the messages sent (`Matches`), and wherever a message is on its way to an answer (read and in
the queue, being written, written and waiting for its completion handler, or blocking the worker) it is the
only one the client has sent without an answer (`Owes`). The delicate part is the parser: `do_write` starts the next
read before its completion handler has cleared the parser, so that the parser may still hold the last message
while a read is under way. Then the completed write stands in the queue before any read of the client's next
message (`ReadingFits`, `Awaited`), because the client sends that only when it has the answer; handlers run in the
order of the queue, so the parser is clear when the read is handled, and nothing is dropped. Deadlines, refusals and clients that
leave only make a connection's books easier to keep (`Softer`, `Eased`).

`HttpRequestProofs`, from `ParserAssumption` (the largest length holds a digit) and `RequestAssumption` (texts
are sequences of characters, a read returns something), for every text, also one that is no request, every
division into reads, every router, query string and limit: `TypesOfRequest` (`TypeOK`) and
`SplitsDoNotMatter` (`SplitIndependent`). The second is the argument, the first comes with it. To have
read a text in two parts is compared with having read it in one: `Twins(x, y, l, n)` relates two executions of the
parser behind the same byte, of which `x` has begun further back. Their parsers are equal once they have
been told what is marked (`Flushed`): what `y` was told at the end of its first part, `x` still has in its mark. The
marks of the URL are equal, which is where `cut` enters, and both have come equally far in it
(`Position`), since `qs_point` is a distance from where the URL began. This lasts as long as no
further message is handled (`l` of them so far): then `clear` is called in the middle of a buffer, and the
positions differ. `Twins` also has what makes it inductive: which marks are set in which state (`MarksFit`, so that at
the end of a buffer there is one at most), where a body and a chunk begin, that a header value in hand is not one of a
word yet to be looked for (`Sound`); these are the assertions of the code. Each group of states has a lemma that
its character keeps `Twins` (`Result`), put together in `StepTwins`; `Onward` and `Walks` carry that over the bytes of a
buffer, by induction over a set of numbers as in `HttpConnectionProofs`; `BeginTwins` and `EndIs` are the two
ends of a buffer, `FeedSplit` the sum: `Feed` of a second part, after `Feed` of a first one, is `Feed` of both.
An execution and itself are twins, which gives the types. The invariant of the connection, `Inv`, adds that
the parser is sound while it is open and that no read has ended inside the URL unless `cut` says so.

Only model-checked: every liveness property and the fairness part of the refinement
(out of the prover's reach); and the properties of `HttpReference`: what a text means, the query string and the
tree of rules are written with RECURSIVE operators over texts and trees, of which the prover knows nothing,
and to say what a whole text means takes induction over its data.

## Not modelled

The bytes of decompression and image decoding (their failures are `RejectMessage` and
`UnmarshalThrows`); sockets being set up; the destructor of `TCPMessageIterator`, which no
path of the process reaches; a publisher that goes on after a failed send; a signal between
`fork` and `exec` of a child, two different signals at once, two
sessions at once, and with them two sessions in one semaphore or one repository; memory that
`Deque` and the exporter never free; failures of `ftruncate`; the wording of logs.

Of Crow: what the gateway never runs (websockets, middlewares, blueprints, catch-all rules,
templates, JSON, multipart, compression, SSL, asynchronous handlers, parameters of type
double), and pipelining clients. The bytes of an answer are not modelled, only which one it is
and whether it is complete.

Compiler or processor reordering around `memory_order_relaxed` polls: every
flag that is polled is followed by an acquiring lock before data is touched.

## Plan

Built: everything in the table of modules. Left, in this order:

1. `Gateway` over `ShmQueue` itself in place of the channel, with a handler that falls behind: how
   many messages a client can miss.
2. Two sessions that share a semaphore and a repository, as an extension of `Session`.
