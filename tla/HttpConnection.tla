---------------------------- MODULE HttpConnection ----------------------------
(***************************************************************************)
(* The HTTP server of the host: its connections, the timer that closes     *)
(* idle ones and the thread that runs their handlers (core/include/crow/   *)
(* crow_all.h: Connection, task_timer, response, Server; the gateway takes *)
(* the default concurrency, which leaves one worker thread).               *)
(*                                                                         *)
(* The worker runs one completion handler after another, in the order in   *)
(* which the operations completed; each is one step here, but for the      *)
(* answers that are written synchronously.  What the parser makes of the    *)
(* bytes of a message is the business of HttpRequest: a message is here    *)
(*   "part"     some bytes of a request, not the last ones                 *)
(*   "expect"   a header that expects 100-continue                         *)
(*   "refused"  bytes that end the connection, with a 404 or without       *)
(*   a request  [kind, close]: the last bytes of a request.                 *)
(* The clients do not pipeline.  Left out: handlers that answer later,     *)
(* websockets, middlewares, compression, SSL.                              *)
(***************************************************************************)
EXTENDS Integers, Sequences

CONSTANTS
    Conns,      \* the connections
    Timeout,    \* seconds until an idle connection is closed
    Offers,     \* Offers[c]: the messages the client of c may send
    MaxRequests,\* MaxRequests[c], bound: how many it sends
    Leavers     \* bound: the clients that may leave before they are answered

\* What a request is answered with.  "medium": more than the buffers of the socket hold;
\* "long": stream_threshold bytes or more; "file": a file of the route /static; "status": a
\* status of 400 or more without a body of its own, the one for a missing host included.
\* Heads: asked for with HEAD; "head" stands for the first three of them.
Heads == {"head", "head file", "head status"}
Files == {"file", "head file"}
Errors == {"status", "head status"}
Kinds == {"short", "medium", "long", "upgrade"} \cup Files \cup Errors \cup Heads
Requests == [kind : Kinds, close : BOOLEAN]

\* What a read or a write ends with, when it is not a request.
Plain(kind) == [kind |-> kind, close |-> FALSE]
Openings == {Plain("part"), Plain("expect")}

None == "none"

ASSUME ConnectionAssumption ==
    /\ Timeout \in Nat \ {0}
    /\ None \notin Conns
    /\ Offers \in [Conns -> SUBSET (Requests \cup Openings \cup {Plain("refused")})]
    /\ MaxRequests \in [Conns -> Nat] /\ Leavers \subseteq Conns

VARIABLES
    server,     \* connections, timer, queue of the worker
    client      \* what each client has sent and whether it has left

vars == <<server, client>>

Answer(kind, body) == [kind |-> kind, body |-> body]
NoAnswer == Answer(None, None)

NewConnection ==
    [accepted |-> FALSE, open |-> FALSE, reading |-> FALSE, writing |-> NoAnswer,
     task_id |-> 0, message_complete |-> FALSE, close_connection |-> FALSE,
     continue_requested |-> FALSE, skip_body |-> FALSE,
     \* history: the answers that have left; a message was dropped; another connection
     \* has cancelled the deadline; it has fired; seconds without a message
     answers |-> <<>>, dropped |-> FALSE, stolen |-> FALSE, expired |-> FALSE, quiet |-> 0]

NewServer ==
    [conn |-> [c \in Conns |-> NewConnection], tasks |-> [id \in {} |-> None],
     highest_id |-> 0, armed |-> TRUE, queue |-> <<>>, blocked |-> [conn |-> None, answer |-> NoAnswer],
     serving |-> "running"]

NewClient == [sent |-> <<>>, wire |-> <<>>, begun |-> FALSE, gone |-> FALSE]

Event(op, c, kind) == [op |-> op, conn |-> c, what |-> Plain(kind)]
Post(s, e) == [s EXCEPT !.queue = Append(@, e)]

-----------------------------------------------------------------------------
(* task_timer.                                                             *)

\* Whoever holds the id cancels the task, whether or not it is still its own.
Cancel(s, c) ==
    LET id == s.conn[c].task_id IN
    IF id \notin DOMAIN s.tasks THEN s
    ELSE LET owner == s.tasks[id].conn IN
         [s EXCEPT !.tasks = [i \in DOMAIN @ \ {id} |-> @[i]],
                   !.conn[owner].stolen = @ \/ owner # c]

Schedule(s, c) ==
    LET id == s.highest_id + 1 IN
    [s EXCEPT !.highest_id = id,
              !.tasks = [i \in DOMAIN @ \cup {id} |->
                            IF i = id THEN [conn |-> c, left |-> Timeout] ELSE @[i]],
              !.conn[c].task_id = id, !.conn[c].stolen = FALSE]

\* mutant: the old task stays
StartDeadline_Twice(s, c) == Schedule(s, c)

StartDeadline(s, c) == Schedule(Cancel(s, c), c)

NextIds(tasks, highest_id) == IF tasks = {} THEN 0 ELSE highest_id

-----------------------------------------------------------------------------
(* The socket of a connection.                                             *)

Sent(s, c, answer) == [s EXCEPT !.conn[c].answers = Append(@, answer)]

\* What was being written when the socket is closed is cut off.
CutWrite(s, c) ==
    IF s.conn[c].writing = NoAnswer THEN s
    ELSE [Sent(s, c, [s.conn[c].writing EXCEPT !.body = "cut"]) EXCEPT !.conn[c].writing = NoAnswer]

\* Closing completes the operations of the socket with an error.
Close(s, c) ==
    LET read == IF s.conn[c].reading THEN Post(s, Event("read", c, "error")) ELSE s
        written == IF s.conn[c].writing = NoAnswer THEN read ELSE Post(read, Event("written", c, "error"))
    IN [CutWrite(written, c) EXCEPT !.conn[c].open = FALSE, !.conn[c].reading = FALSE,
                                   !.conn[c].quiet = 0]

\* mutant: a handler the connection owns keeps the connection
Release_Leaks(s, c) == s

\* Nobody holds the connection any more: its destructor closes the socket.
Release(s, c) ==
    IF \/ s.conn[c].reading \/ s.conn[c].writing # NoAnswer
       \/ \E i \in DOMAIN s.queue : s.queue[i].conn = c
       \/ \E id \in DOMAIN s.tasks : s.tasks[id].conn = c
    THEN s ELSE [s EXCEPT !.conn[c].open = FALSE]

DoRead(s, c) == [s EXCEPT !.conn[c].reading = TRUE]

\* HTTPParser::clear.
ClearParser(s, c) == [s EXCEPT !.conn[c].message_complete = FALSE]

\* do_write: an answer that fits into the buffers is written at once, its completion
\* is queued.
DoWrite(s, c, answer) ==
    IF ~s.conn[c].open THEN Post(s, Event("written", c, "error"))
    ELSE IF answer.kind = "medium" /\ answer.body = "full"
    THEN [s EXCEPT !.conn[c].writing = answer]
    ELSE Post(IF answer.kind = "continue" THEN s ELSE Sent(s, c, answer), Event("written", c, "ok"))

-----------------------------------------------------------------------------
(* The handlers.                                                           *)

\* start, posted by the acceptor.
Start(s, c) == DoRead(ClearParser(StartDeadline(s, c), c), c)

\* The read handler after a feed that failed.
ReadFailed(s, c) == Close(Cancel(s, c), c)

\* mutant: the deadline is not started again
ReadOn_NoDeadline(s, c) ==
    IF ~s.conn[c].open THEN ReadFailed(s, c)
    ELSE IF s.conn[c].close_connection THEN Cancel(s, c)
    ELSE DoRead(s, c)

\* The read handler after a feed that succeeded.
ReadOn(s, c) ==
    IF ~s.conn[c].open THEN ReadFailed(s, c)
    ELSE IF s.conn[c].close_connection THEN Cancel(s, c)
    ELSE DoRead(StartDeadline(s, c), c)

\* mutant: end does not look at skip_body
BodyOf_NotSkipped(s, c, kind) == "full"

\* end empties the body of the response when skip_body is set, which a HEAD request does
\* and nothing undoes.  prepare_buffers then puts the text of an error there, and
\* do_write_static sends its file whatever the body is.
BodyOf(s, c, kind) ==
    IF s.conn[c].skip_body /\ kind \notin Files \cup Errors THEN "empty" ELSE "full"

\* do_write_static, and do_write_general for a long body, write before they return.
Synchronous(answer) == answer.kind \in Files \/ (answer.kind = "long" /\ answer.body = "full")

\* handle and complete_request up to the write: the deadline is cancelled, an upgrade
\* gets no answer.
Accepted(s, c, r) ==
    [Cancel(s, c) EXCEPT !.conn[c].message_complete = TRUE,
                         !.conn[c].close_connection = r.close \/ r.kind = "upgrade",
                         !.conn[c].skip_body = s.conn[c].skip_body \/ r.kind \in Heads]

\* On a closed socket remote_endpoint throws: the worker goes on, the connection is
\* released.  A synchronous answer occupies the worker until the client has taken it.
Handle(s, c, r) ==
    LET t == Accepted(s, c, r)
        answer == Answer(r.kind, BodyOf(t, c, r.kind))
    IN IF ~s.conn[c].open THEN Release(t, c)
       ELSE IF r.kind = "upgrade" THEN Release(ReadOn(t, c), c)
       ELSE IF Synchronous(answer)
       THEN [t EXCEPT !.blocked = [conn |-> c, answer |-> answer]]
       ELSE ReadOn(DoWrite(t, c, answer), c)

\* do_read's handler.
ReadDone(s, c, what) ==
    CASE what.kind = "error" -> ReadFailed(s, c)
      [] what.kind # "error" /\ s.conn[c].message_complete ->
           ReadOn([s EXCEPT !.conn[c].dropped = TRUE], c)
      [] what.kind = "part" /\ ~s.conn[c].message_complete -> ReadOn(s, c)
      [] what.kind = "expect" /\ ~s.conn[c].message_complete ->
           ReadOn(DoWrite([s EXCEPT !.conn[c].continue_requested = TRUE], c,
                          Answer("continue", "empty")), c)
      [] what.kind = "refused" /\ ~s.conn[c].message_complete ->
           ReadFailed(DoWrite(s, c, Answer("refused", "full")), c)
      [] what.kind \in Kinds /\ ~s.conn[c].message_complete -> Handle(s, c, what)

\* do_write's handler.
Cleared(s, c) ==
    IF s.conn[c].continue_requested THEN [s EXCEPT !.conn[c].continue_requested = FALSE]
    ELSE ClearParser(s, c)

Written(s, c, what) ==
    LET t == Cleared(s, c) IN
    Release(IF what.kind = "ok" /\ t.conn[c].close_connection THEN Close(t, c) ELSE t, c)

\* The task of a deadline.
Expire(s, c) ==
    IF s.conn[c].open THEN [Close(s, c) EXCEPT !.conn[c].expired = TRUE] ELSE s

Due(s) == {id \in DOMAIN s.tasks : s.tasks[id].left = 0}

\* process_tasks runs the due tasks in the order of their ids.
RunDue(s) ==
    LET ran[id \in 0 .. s.highest_id] ==
            IF id = 0 THEN s
            ELSE IF id \in Due(s) THEN Expire(ran[id - 1], s.tasks[id].conn)
            ELSE ran[id - 1]
    IN ran[s.highest_id]

\* tick_handler and process_tasks.
Tick(s) ==
    LET waiting == DOMAIN s.tasks \ Due(s)
    IN [RunDue(s) EXCEPT !.tasks = [i \in waiting |-> @[i]],
                         !.highest_id = NextIds(waiting, @),
                         !.armed = TRUE]

Handler(s, e) ==
    CASE e.op = "start"   -> Start(s, e.conn)
      [] e.op = "read"    -> ReadDone(s, e.conn, e.what)
      [] e.op = "written" -> Written(s, e.conn, e.what)
      [] e.op = "tick"    -> Tick(s)

-----------------------------------------------------------------------------
(* The steps of the worker and of the system.                              *)

Init == server = NewServer /\ client = [c \in Conns |-> NewClient]

Running == server.serving = "running"
Blocked == server.blocked.conn # None
Unblocked(s) == [s EXCEPT !.blocked = [conn |-> None, answer |-> NoAnswer]]

\* The worker: io_service::run takes the next handler.
Work ==
    /\ Running /\ ~Blocked /\ server.queue # <<>>
    /\ server' = Handler([server EXCEPT !.queue = Tail(@)], Head(server.queue))
    /\ UNCHANGED client

\* The end of do_write_static, and of do_write_general for a long body, which has cancelled
\* the deadline once more.
AfterLong(s, c) == ClearParser(IF s.conn[c].close_connection THEN Close(s, c) ELSE s, c)
Untimed(s, c) == IF s.conn[c].answers[Len(s.conn[c].answers)].kind \in Files THEN s ELSE Cancel(s, c)

\* The client has taken a synchronous answer: handle returns to the read handler.
FinishLong(c) ==
    /\ server.blocked.conn = c
    /\ ~client[c].gone
    /\ LET s == Untimed(Sent(Unblocked(server), c, server.blocked.answer), c)
       IN server' = Release(ReadOn(AfterLong(s, c), c), c)
    /\ UNCHANGED client

\* The client has left and asio::write throws.  Router::handle catches that; its end() has
\* no handler to call (prepare_buffers has taken it), the parser is not cleared, and the
\* read handler goes on as after any answer.
BreakLong(c) ==
    /\ server.blocked.conn = c
    /\ client[c].gone
    /\ LET s == Sent(Unblocked(server), c, [server.blocked.answer EXCEPT !.body = "cut"])
       IN server' = Release(ReadOn(s, c), c)
    /\ UNCHANGED client

Earlier(seconds) == IF seconds = 0 THEN 0 ELSE seconds - 1

\* Second: the clock; the timer has one wait at a time.
Second ==
    /\ Running
    /\ LET s == [server EXCEPT
                  !.tasks = [i \in DOMAIN server.tasks |->
                                [conn |-> server.tasks[i].conn,
                                 left |-> Earlier(server.tasks[i].left)]],
                  !.conn = [c \in Conns |->
                                IF server.conn[c].open /\ server.conn[c].quiet < Timeout
                                THEN [server.conn[c] EXCEPT !.quiet = @ + 1]
                                ELSE server.conn[c]],
                  !.armed = FALSE]
       IN server' = IF server.armed THEN Post(s, Event("tick", None, None)) ELSE s
    /\ UNCHANGED client

\* do_accept: the connection is handed to the worker.
Accept(c) ==
    /\ Running /\ ~server.conn[c].accepted
    /\ server' = Post([server EXCEPT !.conn[c].accepted = TRUE, !.conn[c].open = TRUE],
                      Event("start", c, None))
    /\ UNCHANGED client

\* A read completes with what the client has sent, or with the end of it.
Arrive(c) ==
    /\ Running /\ server.conn[c].reading
    /\ \/ /\ client[c].wire # <<>>
          /\ server' = Post([server EXCEPT !.conn[c].reading = FALSE, !.conn[c].quiet = 0],
                            [op |-> "read", conn |-> c, what |-> Head(client[c].wire)])
          /\ client' = [client EXCEPT ![c].wire = Tail(@)]
       \/ /\ client[c].wire = <<>> /\ client[c].gone
          /\ server' = Post([server EXCEPT !.conn[c].reading = FALSE], Event("read", c, "error"))
          /\ UNCHANGED client

\* An asynchronous write completes.
Take(c) ==
    /\ Running /\ server.conn[c].writing # NoAnswer
    /\ server' =
          IF client[c].gone THEN Post(CutWrite(server, c), Event("written", c, "error"))
          ELSE Post([Sent(server, c, server.conn[c].writing) EXCEPT !.conn[c].writing = NoAnswer],
                    Event("written", c, "ok"))
    /\ UNCHANGED client

\* stop: the services of the workers are stopped, then that of the acceptor.  Of an
\* idle worker nothing runs any more; a busy one has its handler to finish.
StopWorkers == server.serving = "stopping"

Stop ==
    /\ Running
    /\ server' = [(IF Blocked THEN server ELSE NewServer) EXCEPT !.serving = "stopping"]
    /\ UNCHANGED client

\* A stopped service runs no handler after the present one: the loop of the worker
\* ends, and with it run; the connections are gone.
End ==
    /\ server.serving = "stopping" /\ StopWorkers /\ ~Blocked
    /\ server' = [NewServer EXCEPT !.serving = "ended"]
    /\ UNCHANGED client

-----------------------------------------------------------------------------
(* The clients.                                                            *)

Unanswered(c) == Len(client[c].sent) > Len(server.conn[c].answers)

\* A client sends a request when it has the answer to the one before, in one piece or
\* in two, and may leave at any time or fall silent; what it does on a closed connection
\* has no effect.
Send(c) ==
    /\ Running /\ server.conn[c].open /\ ~client[c].gone /\ ~Unanswered(c)
    /\ Len(client[c].sent) < MaxRequests[c]
    /\ \/ /\ ~client[c].begun
          /\ \E m \in Offers[c] \cap Openings :
                client' = [client EXCEPT ![c].begun = TRUE, ![c].wire = Append(@, m)]
       \/ \E r \in Offers[c] \ Openings :
             client' = [client EXCEPT ![c].begun = FALSE, ![c].wire = Append(@, r),
                                      ![c].sent = Append(@, r)]
    /\ UNCHANGED server

Leave(c) ==
    /\ Running \/ Blocked
    /\ c \in Leavers /\ server.conn[c].open /\ ~client[c].gone
    /\ client' = [client EXCEPT ![c].gone = TRUE]
    /\ UNCHANGED server

Next ==
    \/ Work \/ Second \/ Stop \/ End
    \/ \E c \in Conns : \/ FinishLong(c) \/ BreakLong(c) \/ Accept(c) \/ Arrive(c)
                        \/ Take(c) \/ Send(c) \/ Leave(c)

\* What a client has to take is not fair: no timeout ends a synchronous write, and an
\* asynchronous one only that of its connection.  Towards a client that has left, writes
\* and reads fail.
Worker == Work \/ End \/ \E c \in Conns : BreakLong(c)
Network(c) == Arrive(c) \/ (client[c].gone /\ Take(c))

\* The worker and the clock go on; the network delivers what was sent.
Fairness == WF_vars(Worker) /\ WF_vars(Second) /\ \A c \in Conns : WF_vars(Network(c))

Spec == Init /\ [][Next]_vars /\ Fairness

-----------------------------------------------------------------------------
(* Properties.                                                             *)

\* Every answer that leaves belongs to the request at its place in the order in which
\* the client sent them; a HEAD has no body unless that is a file or the text of an error,
\* and only such a connection loses its bodies that has carried a HEAD; an answer is cut
\* off only by a deadline or a client that left (handle, complete_request, do_write_static,
\* do_write_general, response::end).  No message is thrown away: the parser is ready for
\* the next request before a client that waits for its answers can send it (do_write clears
\* it in a completion handler, after the read has been started).
AnswersMatch ==
    \A c \in Conns :
       LET answers == server.conn[c].answers
           sent == client[c].sent
       IN /\ ~server.conn[c].dropped
          /\ Len(answers) <= Len(sent)
          /\ \A i \in DOMAIN answers :
                /\ answers[i].kind = sent[i].kind
                /\ sent[i].kind = "head" => answers[i].body = "empty"
                /\ answers[i].body = "empty" =>
                      sent[i].kind \notin Files \cup Errors /\ \E j \in 1..i : sent[j].kind \in Heads
                /\ answers[i].body = "cut" => client[c].gone \/ server.conn[c].expired

\* A connection that waits for its client has a deadline; only another connection whose
\* own deadline has fired can have cancelled it.  Ids are used again, but one that is
\* still waiting is never given out, and no deadline is left without its connection
\* (do_read, start_deadline, task_timer).
NobodyWithoutDeadline ==
    /\ \A id \in DOMAIN server.tasks :
          /\ id \in 1..server.highest_id
          /\ server.conn[server.tasks[id].conn].accepted
    /\ \A c \in Conns :
          LET other == \E d \in Conns \ {c} : server.conn[d].expired
              waits == \E id \in DOMAIN server.tasks : server.tasks[id].conn = c
          IN /\ server.conn[c].stolen => other
             /\ server.conn[c].reading => server.conn[c].open
             /\ server.conn[c].reading => waits \/ server.conn[c].stolen

\* A deadline closes a connection only if nothing has come from the client for the
\* whole timeout, or what has come still waits for the worker (start_deadline).
DeadlineNotEarly ==
    [][\A c \in Conns :
          server'.conn[c].expired /\ ~server.conn[c].expired
          => \/ server.conn[c].quiet = Timeout
             \/ \E i \in DOMAIN server.queue :
                   server.queue[i].op = "read" /\ server.queue[i].conn = c]_vars

\* A server whose clients have fallen silent comes to rest, whether or not they have taken
\* their answers: every connection is closed, but for one that has nothing left to close it:
\* its deadline was cancelled, by another connection or because the answer is its last, and
\* its client does not take the answer, or has it.  A server that is stopped leaves its
\* loop.  The exception is a worker in a synchronous write to a client that neither takes
\* its answer nor leaves: then no other deadline fires, and stop does not end the server
\* (start_deadline, do_write, do_write_sync, Server::stop and run).
ComesToRest ==
    \/ <>[]Blocked
    \/ []<>(/\ server.serving # "stopping"
            /\ \A c \in Conns :
                  LET x == server.conn[c] IN
                  \/ ~x.open \/ ~Running
                  \/ x.stolen /\ ~Unanswered(c)
                  \/ x.writing # NoAnswer /\ (x.stolen \/ x.close_connection))
=============================================================================
