------------------------ MODULE HttpConnectionProofs ------------------------
(***************************************************************************)
(* Theorems about HttpConnection: no connection waits for its client       *)
(* without a deadline, no deadline closes a connection early, and every    *)
(* answer belongs to its request.                                          *)
(*                                                                         *)
(* The argument follows the turn: an event of the queue gives it to a      *)
(* connection (Held), whose handler gives it back (Free) with a read and a *)
(* fresh deadline, with neither, or with the worker blocked.  A deadline   *)
(* that fires closes its connection without having the turn, and leaves it *)
(* with an id that may be given out again: from there comes the only case  *)
(* in which a connection cancels the deadline of another.                  *)
(*                                                                         *)
(* The answers have books of their own, one for each connection and its    *)
(* client (Books): a message that has been read, written or that blocks    *)
(* the worker is the only one without an answer, and a read that finds the *)
(* parser taken has the completed write that clears it before it in the    *)
(* queue.                                                                  *)
(***************************************************************************)
EXTENDS HttpConnection, WellFoundedInduction, TLAPS

AnswerType ==
    [kind : Kinds \cup {"continue", "refused", None}, body : {"full", "empty", "cut", None}]
ConnType ==
    [accepted : BOOLEAN, open : BOOLEAN, reading : BOOLEAN, writing : AnswerType,
     task_id : Nat, message_complete : BOOLEAN, close_connection : BOOLEAN,
     continue_requested : BOOLEAN, skip_body : BOOLEAN,
     answers : Seq(AnswerType), dropped : BOOLEAN, stolen : BOOLEAN, expired : BOOLEAN, quiet : Nat]
Messages == Requests \cup Openings \cup {Plain("refused")}
Events ==
    [op : {"start"}, conn : Conns, what : {Plain(None)}]
    \cup [op : {"read"}, conn : Conns, what : Messages \cup {Plain("error")}]
    \cup [op : {"written"}, conn : Conns, what : {Plain("ok"), Plain("error")}]
    \cup [op : {"tick"}, conn : {None}, what : {Plain(None)}]
TaskType == [conn : Conns, left : Nat]
Tasks == UNION {[ids -> TaskType] : ids \in SUBSET Nat}
ServerType ==
    [conn : [Conns -> ConnType], tasks : Tasks, highest_id : Nat, armed : BOOLEAN,
     queue : Seq(Events), blocked : [conn : Conns \cup {None}, answer : AnswerType],
     serving : {"running", "stopping", "ended"}]

LEMMA KindsAre ==
    Kinds = {"short", "medium", "long", "upgrade", "file", "status", "head", "head file", "head status"}
BY DEF Kinds, Heads, Files, Errors

LEMMA TasksAre ==
    ASSUME NEW f
    PROVE  f \in Tasks <=> DOMAIN f \subseteq Nat /\ f \in [DOMAIN f -> TaskType]
<1>1. ASSUME f \in Tasks PROVE DOMAIN f \subseteq Nat /\ f \in [DOMAIN f -> TaskType]
    BY <1>1 DEF Tasks
<1>2. ASSUME DOMAIN f \subseteq Nat, f \in [DOMAIN f -> TaskType] PROVE f \in Tasks
    BY <1>2 DEF Tasks
<1> QED BY <1>1, <1>2

\* What the proofs compare in two states of a connection.
Alike(x, y) ==
    /\ x.accepted = y.accepted /\ x.open = y.open /\ x.reading = y.reading
    /\ x.task_id = y.task_id /\ x.close_connection = y.close_connection
    /\ x.expired = y.expired /\ x.quiet = y.quiet

\* The timer, the worker and the life of the server are what they were.
SameTimer(s, t) ==
    /\ t.tasks = s.tasks /\ t.highest_id = s.highest_id
    /\ t.blocked = s.blocked /\ t.serving = s.serving

\* The queue has got the end of a write of c, or nothing.
Wrote(s, t, c) ==
    \/ t.queue = s.queue
    \/ \E e \in Events : e.op = "written" /\ e.conn = c /\ t.queue = Append(s.queue, e)

\* From s to t nothing has happened but that c has written.
Unaffected(s, t, c) ==
    /\ t \in ServerType /\ SameTimer(s, t) /\ Wrote(s, t, c)
    /\ \A d \in Conns : Alike(t.conn[d], s.conn[d]) /\ t.conn[d].stolen = s.conn[d].stolen

-----------------------------------------------------------------------------
(* The inductive invariant.                                                *)
\* The events that give a connection its turn: its handler reads on, closes or answers.
Turn(e) == e.op \in {"start", "read"}

\* A message is awaited from the client of c, or waits for the worker.
Active(s, c) ==
    \/ s.conn[c].reading
    \/ \E i \in 1 .. Len(s.queue) : s.queue[i].op = "read" /\ s.queue[i].conn = c

\* The id that c holds is that of its own deadline.
Owned(s, tasks, c) ==
    s.conn[c].task_id \in DOMAIN tasks /\ tasks[s.conn[c].task_id].conn = c

\* A connection has one turn at a time: neither a read under way nor the worker.
EventOK(s, h, e) ==
    /\ Turn(e) => /\ s.conn[e.conn].accepted /\ ~s.conn[e.conn].reading
                  /\ s.blocked.conn # e.conn /\ e.conn # h
    /\ e.op = "start" => /\ s.conn[e.conn].task_id = 0 /\ s.conn[e.conn].open
                         /\ ~s.conn[e.conn].close_connection

InvQueue(s, h) ==
    /\ \A i \in 1 .. Len(s.queue) : EventOK(s, h, s.queue[i])
    /\ \A i, j \in 1 .. Len(s.queue) :
           Turn(s.queue[i]) /\ Turn(s.queue[j]) /\ s.queue[i].conn = s.queue[j].conn => i = j

\* Who awaits a message has a deadline, or another has cancelled it, or it has fired; with
\* close_connection no read is started any more.
ConnOK(s, tasks, c) ==
    /\ s.conn[c].reading => s.conn[c].accepted /\ s.conn[c].open
    /\ ~s.conn[c].accepted => /\ s.conn[c].task_id = 0 /\ ~s.conn[c].close_connection
                              /\ ~s.conn[c].stolen /\ ~s.conn[c].expired
    /\ Active(s, c) => Owned(s, tasks, c) \/ s.conn[c].stolen \/ s.conn[c].expired
    /\ s.conn[c].close_connection => ~Active(s, c)
    /\ s.conn[c].expired => ~s.conn[c].open
    /\ s.conn[c].stolen => \E d \in Conns \ {c} : s.conn[d].expired
    /\ s.conn[c].quiet <= Timeout

\* A deadline belongs to the connection that holds its id; while nothing comes from the
\* client it runs down no faster than the seconds of silence are counted.
InvTasks(s, tasks, h) ==
    \A id \in DOMAIN tasks :
        LET c == tasks[id].conn IN
        /\ id \in 1 .. s.highest_id /\ s.conn[c].accepted /\ s.conn[c].open
        /\ s.conn[c].task_id = id /\ (Active(s, c) \/ c = h)
        /\ s.conn[c].reading => tasks[id].left + s.conn[c].quiet >= Timeout

\* The connection in whose turn the worker is.
Idle(s, tasks, c) ==
    /\ s.conn[c].accepted /\ ~s.conn[c].reading
    /\ \/ s.conn[c].task_id \notin DOMAIN tasks
       \/ Owned(s, tasks, c) \/ s.conn[c].stolen \/ s.conn[c].expired

\* The invariant of a state in which the worker is in the turn of h (None: of nobody) and
\* tasks are the deadlines that have not run.
Inv(s, tasks, h) ==
    /\ InvQueue(s, h)
    /\ \A c \in Conns : ConnOK(s, tasks, c)
    /\ InvTasks(s, tasks, h)
    /\ h \in Conns => Idle(s, tasks, h) /\ s.blocked.conn = None
    /\ s.blocked.conn \in Conns =>
           LET c == s.blocked.conn IN
           s.conn[c].accepted /\ ~s.conn[c].reading /\ s.conn[c].task_id \notin DOMAIN tasks

\* What is written leaves the invariant alone.
LEMMA UnaffectedActive ==
    ASSUME NEW s \in ServerType, NEW t, NEW c, Unaffected(s, t, c), NEW d \in Conns
    PROVE  Active(t, d) <=> Active(s, d)
<1>1. CASE t.queue = s.queue
    BY <1>1 DEF Unaffected, Active, Alike
<1>2. ASSUME NEW e \in Events, e.op = "written", t.queue = Append(s.queue, e)
      PROVE  Active(t, d) <=> Active(s, d)
    <2>1. s.queue \in Seq(Events)
        BY DEF ServerType
    <2>2. /\ Len(t.queue) = Len(s.queue) + 1 /\ Len(s.queue) \in Nat
          /\ \A i \in 1 .. Len(s.queue) : t.queue[i] = s.queue[i]
          /\ t.queue[Len(s.queue) + 1] = e
        BY <1>2, <2>1
    <2> QED BY <1>2, <2>2 DEF Unaffected, Active, Alike
<1> QED BY <1>1, <1>2 DEF Unaffected, Wrote

LEMMA UnaffectedKeeps ==
    ASSUME NEW s \in ServerType, NEW t, NEW c \in Conns, NEW tasks, NEW h, Inv(s, tasks, h),
           Unaffected(s, t, c), tasks \in Tasks
    PROVE  Inv(t, tasks, h)
<1>1. \A d \in Conns : Active(t, d) <=> Active(s, d)
    BY UnaffectedActive
<1>2. \A d \in Conns : Alike(t.conn[d], s.conn[d]) /\ t.conn[d].stolen = s.conn[d].stolen
    BY DEF Unaffected
<1>3. t.highest_id = s.highest_id /\ t.blocked = s.blocked
    BY DEF Unaffected, SameTimer
<1>4. s.queue \in Seq(Events)
    BY DEF ServerType
<1>5. \A e \in Events : e.op # "tick" => e.conn \in Conns
    BY DEF Events
<1>6. InvQueue(t, h)
    <2>1. \A e \in Events : EventOK(s, h, e) => EventOK(t, h, e)
        BY <1>2, <1>3, <1>5 DEF EventOK, Alike, Turn
    <2>2. CASE t.queue = s.queue
        BY <2>1, <2>2, <1>4 DEF Inv, InvQueue
    <2>3. ASSUME NEW e \in Events, e.op = "written", e.conn = c, t.queue = Append(s.queue, e)
          PROVE  InvQueue(t, h)
        <3>2. /\ Len(t.queue) = Len(s.queue) + 1 /\ Len(s.queue) \in Nat
              /\ \A i \in 1 .. Len(s.queue) : t.queue[i] = s.queue[i] /\ s.queue[i] \in Events
              /\ t.queue[Len(s.queue) + 1] = e
            BY <2>3, <1>4
        <3>3. EventOK(t, h, e) /\ ~Turn(e)
            BY <2>3, <1>2 DEF EventOK, Alike, Turn
        <3>4. \A i \in 1 .. Len(s.queue) : EventOK(t, h, s.queue[i])
            BY <3>2, <2>1 DEF Inv, InvQueue
        <3>5. \A i \in 1 .. Len(t.queue) : i \in 1 .. Len(s.queue) \/ i = Len(s.queue) + 1
            BY <3>2
        <3>6. \A i \in 1 .. Len(t.queue) : EventOK(t, h, t.queue[i])
            BY <3>2, <3>3, <3>4, <3>5
        <3>7. \A i \in 1 .. Len(t.queue) : Turn(t.queue[i]) => i \in 1 .. Len(s.queue)
            BY <3>2, <3>3, <3>5
        <3> QED BY <3>2, <3>6, <3>7 DEF Inv, InvQueue
    <2> QED BY <2>2, <2>3 DEF Unaffected, Wrote
<1>7. ASSUME NEW d \in Conns PROVE ConnOK(t, tasks, d)
    <2>1. ConnOK(s, tasks, d)
        BY DEF Inv
    <2>2. \A x \in Conns : t.conn[x].expired = s.conn[x].expired
        BY <1>2 DEF Alike
    <2>3. Owned(t, tasks, d) <=> Owned(s, tasks, d)
        BY <1>2 DEF Alike, Owned
    <2>4. (Active(t, d) <=> Active(s, d)) /\ Alike(t.conn[d], s.conn[d]) /\ t.conn[d].stolen = s.conn[d].stolen
        BY <1>1, <1>2
    <2> QED BY <2>1, <2>2, <2>3, <2>4 DEF ConnOK, Alike
<1>8. InvTasks(t, tasks, h)
    <2>1. DOMAIN tasks \subseteq Nat /\ tasks \in [DOMAIN tasks -> TaskType]
        BY TasksAre
    <2>2. \A id \in DOMAIN tasks : tasks[id].conn \in Conns
        BY <2>1 DEF TaskType
    <2> QED BY <2>2, <1>1, <1>2, <1>3 DEF Inv, InvTasks, Alike
<1>9. h \in Conns => Idle(t, tasks, h)
    BY <1>2 DEF Inv, Idle, Alike, Owned
<1> QED BY <1>2, <1>3, <1>6, <1>7, <1>8, <1>9 DEF Inv, Alike

-----------------------------------------------------------------------------
(* The steps a handler is made of, which affect nobody.                    *)
\* t is s, but for the connection c.
Only(s, t, c, y) ==
    /\ t \in ServerType /\ SameTimer(s, t) /\ t.queue = s.queue
    /\ t.conn[c] = y /\ \A d \in Conns \ {c} : t.conn[d] = s.conn[d]

LEMMA PutConn ==
    ASSUME NEW s \in ServerType, NEW c \in Conns, NEW y \in ConnType
    PROVE  Only(s, [s EXCEPT !.conn = [s.conn EXCEPT ![c] = y]], c, y)
<1> DEFINE t == [s EXCEPT !.conn = [s.conn EXCEPT ![c] = y]]
<1>1. s.conn \in [Conns -> ConnType]
    BY DEF ServerType
<1>2. t.conn = [s.conn EXCEPT ![c] = y] /\ t.queue = s.queue /\ SameTimer(s, t)
    BY DEF ServerType, SameTimer
<1>3. t.conn \in [Conns -> ConnType] /\ t.conn[c] = y /\ \A d \in Conns \ {c} : t.conn[d] = s.conn[d]
    BY <1>1, <1>2
<1>4. t \in ServerType
    BY <1>3 DEF ServerType
<1> QED BY <1>2, <1>3, <1>4 DEF Only

\* s with y for the state of c; of two states given to c only the second stays.
Put(s, c, y) == [s EXCEPT !.conn = [s.conn EXCEPT ![c] = y]]

LEMMA PutOnly ==
    ASSUME NEW s \in ServerType, NEW c \in Conns, NEW y \in ConnType
    PROVE  Only(s, Put(s, c, y), c, y) /\ Put(s, c, y) \in ServerType /\ Put(s, c, y).conn[c] = y
BY PutConn DEF Put, Only

LEMMA PutTwice ==
    ASSUME NEW s \in ServerType, NEW c \in Conns, NEW x, NEW y
    PROVE  Put(Put(s, c, x), c, y) = Put(s, c, y)
<1> DEFINE t == Put(s, c, x)
<1>1. s.conn \in [Conns -> ConnType]
    BY DEF ServerType
<1>2. t.conn = [s.conn EXCEPT ![c] = x]
    BY DEF ServerType, Put
<1>3. [t.conn EXCEPT ![c] = y] = [s.conn EXCEPT ![c] = y]
    BY ONLY <1>1, <1>2, c \in Conns
<1>4. \A f, g : [[s EXCEPT !.conn = f] EXCEPT !.conn = g] = [s EXCEPT !.conn = g]
    BY ONLY s \in ServerType DEF ServerType
<1>5. t = [s EXCEPT !.conn = [s.conn EXCEPT ![c] = x]]
    BY DEF Put
<1> HIDE DEF t
<1> QED BY ONLY <1>3, <1>4, <1>5 DEF Put, t

LEMMA OnlyUnaffected ==
    ASSUME NEW s, NEW t, NEW c \in Conns, NEW y, Only(s, t, c, y), Alike(y, s.conn[c]),
           y.stolen = s.conn[c].stolen
    PROVE  Unaffected(s, t, c) /\ t.queue = s.queue
BY DEF Only, Unaffected, Wrote, Alike

LEMMA SentUnaffected ==
    ASSUME NEW s \in ServerType, NEW c \in Conns, NEW answer \in AnswerType
    PROVE  Unaffected(s, Sent(s, c, answer), c) /\ Sent(s, c, answer).queue = s.queue
<1> DEFINE y == [s.conn[c] EXCEPT !.answers = Append(@, answer)]
<1>1. s.conn[c] \in ConnType
    BY DEF ServerType
<1>2. y \in ConnType /\ Alike(y, s.conn[c]) /\ y.stolen = s.conn[c].stolen
    <2>1. Append(s.conn[c].answers, answer) \in Seq(AnswerType)
        BY <1>1 DEF ConnType
    <2> QED BY <1>1, <2>1 DEF ConnType, Alike
<1>3. Sent(s, c, answer) = [s EXCEPT !.conn = [s.conn EXCEPT ![c] = y]]
    BY DEF Sent
<1> HIDE DEF y
<1>4. Only(s, Sent(s, c, answer), c, y)
    BY <1>2, <1>3, PutConn
<1> QED BY <1>2, <1>4, OnlyUnaffected

LEMMA ClearParserUnaffected ==
    ASSUME NEW s \in ServerType, NEW c \in Conns
    PROVE  Unaffected(s, ClearParser(s, c), c) /\ ClearParser(s, c).queue = s.queue
<1> DEFINE y == [s.conn[c] EXCEPT !.message_complete = FALSE]
<1>1. s.conn[c] \in ConnType
    BY DEF ServerType
<1>2. y \in ConnType /\ Alike(y, s.conn[c]) /\ y.stolen = s.conn[c].stolen
    BY <1>1 DEF ConnType, Alike
<1>3. ClearParser(s, c) = [s EXCEPT !.conn = [s.conn EXCEPT ![c] = y]]
    BY DEF ClearParser
<1> HIDE DEF y
<1>4. Only(s, ClearParser(s, c), c, y)
    BY <1>2, <1>3, PutConn
<1> QED BY <1>2, <1>4, OnlyUnaffected

LEMMA WritingUnaffected ==
    ASSUME NEW s \in ServerType, NEW c \in Conns, NEW answer \in AnswerType, NEW t, t = [s EXCEPT !.conn[c].writing = answer]
    PROVE  Unaffected(s, t, c) /\ t.queue = s.queue
<1> DEFINE y == [s.conn[c] EXCEPT !.writing = answer]
<1>1. s.conn[c] \in ConnType
    BY DEF ServerType
<1>2. y \in ConnType /\ Alike(y, s.conn[c]) /\ y.stolen = s.conn[c].stolen
    BY <1>1 DEF ConnType, Alike
<1>3. t = [s EXCEPT !.conn = [s.conn EXCEPT ![c] = y]]
    OBVIOUS
<1> HIDE DEF y
<1>4. Only(s, t, c, y)
    BY <1>2, <1>3, PutConn
<1> QED BY <1>2, <1>4, OnlyUnaffected

LEMMA DroppedUnaffected ==
    ASSUME NEW s \in ServerType, NEW c \in Conns, NEW t, t = [s EXCEPT !.conn[c].dropped = TRUE]
    PROVE  Unaffected(s, t, c) /\ t.queue = s.queue
<1> DEFINE y == [s.conn[c] EXCEPT !.dropped = TRUE]
<1>1. s.conn[c] \in ConnType
    BY DEF ServerType
<1>2. y \in ConnType /\ Alike(y, s.conn[c]) /\ y.stolen = s.conn[c].stolen
    BY <1>1 DEF ConnType, Alike
<1>3. t = [s EXCEPT !.conn = [s.conn EXCEPT ![c] = y]]
    OBVIOUS
<1> HIDE DEF y
<1>4. Only(s, t, c, y)
    BY <1>2, <1>3, PutConn
<1> QED BY <1>2, <1>4, OnlyUnaffected

LEMMA ContinueUnaffected ==
    ASSUME NEW s \in ServerType, NEW c \in Conns, NEW b \in BOOLEAN, NEW t, t = [s EXCEPT !.conn[c].continue_requested = b]
    PROVE  Unaffected(s, t, c) /\ t.queue = s.queue
<1> DEFINE y == [s.conn[c] EXCEPT !.continue_requested = b]
<1>1. s.conn[c] \in ConnType
    BY DEF ServerType
<1>2. y \in ConnType /\ Alike(y, s.conn[c]) /\ y.stolen = s.conn[c].stolen
    BY <1>1 DEF ConnType, Alike
<1>3. t = [s EXCEPT !.conn = [s.conn EXCEPT ![c] = y]]
    OBVIOUS
<1> HIDE DEF y
<1>4. Only(s, t, c, y)
    BY <1>2, <1>3, PutConn
<1> QED BY <1>2, <1>4, OnlyUnaffected

LEMMA NoAnswerType == NoAnswer \in AnswerType
BY DEF NoAnswer, Answer, AnswerType, None

LEMMA ClearedUnaffected ==
    ASSUME NEW s \in ServerType, NEW c \in Conns
    PROVE  Unaffected(s, Cleared(s, c), c) /\ Cleared(s, c).queue = s.queue
BY ContinueUnaffected, ClearParserUnaffected DEF Cleared

LEMMA UnaffectedTwice ==
    ASSUME NEW s \in ServerType, NEW c \in Conns, NEW t, NEW u, Unaffected(s, t, c), Unaffected(t, u, c),
           t.queue = s.queue \/ u.queue = t.queue
    PROVE  Unaffected(s, u, c)
BY DEF Unaffected, SameTimer, Wrote, Alike

LEMMA PostWritten ==
    ASSUME NEW s \in ServerType, NEW c \in Conns, NEW e \in Events, e.op = "written", e.conn = c
    PROVE  Unaffected(s, Post(s, e), c)
<1> DEFINE t == Post(s, e)
<1>1. t = [s EXCEPT !.queue = Append(s.queue, e)]
    BY DEF Post
<1>2. Append(s.queue, e) \in Seq(Events)
    BY DEF ServerType
<1>3. t \in ServerType
    BY <1>1, <1>2 DEF ServerType
<1> QED BY <1>1, <1>3 DEF Unaffected, SameTimer, Wrote, Alike, ServerType

LEMMA CutWriteUnaffected ==
    ASSUME NEW s \in ServerType, NEW c \in Conns
    PROVE  Unaffected(s, CutWrite(s, c), c) /\ CutWrite(s, c).queue = s.queue
<1>1. CASE s.conn[c].writing = NoAnswer
    BY <1>1 DEF CutWrite, Unaffected, SameTimer, Wrote, Alike
<1>2. CASE s.conn[c].writing # NoAnswer
    <2> DEFINE a == [s.conn[c].writing EXCEPT !.body = "cut"]
               t == Sent(s, c, a)
               u == [t EXCEPT !.conn[c].writing = NoAnswer]
    <2>1. a \in AnswerType
        <3>1. s.conn[c].writing \in AnswerType
            BY DEF ServerType, ConnType
        <3>2. \A x \in AnswerType : [x EXCEPT !.body = "cut"] \in AnswerType
            BY ONLY TRUE DEF AnswerType
        <3> QED BY ONLY <3>1, <3>2 DEF a
    <2> HIDE DEF a
    <2>2. Unaffected(s, t, c) /\ t.queue = s.queue /\ t \in ServerType
        BY <2>1, SentUnaffected DEF Unaffected
    <2> HIDE DEF t
    <2>3. Unaffected(t, u, c) /\ u.queue = t.queue
        BY <2>2, NoAnswerType, WritingUnaffected
    <2>4. CutWrite(s, c) = u
        BY <1>2 DEF CutWrite, t, a
    <2> QED BY <2>2, <2>3, <2>4, UnaffectedTwice
<1> QED BY <1>1, <1>2

LEMMA EventTypes ==
    /\ \A c \in Conns : /\ Event("start", c, None) \in Events
                        /\ \A k \in {"ok", "error"} : Event("written", c, k) \in Events
                        /\ Event("read", c, "error") \in Events
    /\ Event("tick", None, None) \in Events
BY DEF Event, Events

LEMMA DoWriteUnaffected ==
    ASSUME NEW s \in ServerType, NEW c \in Conns, NEW answer \in AnswerType
    PROVE  Unaffected(s, DoWrite(s, c, answer), c)
<1>1. ASSUME NEW k \in {"ok", "error"}, NEW t, Unaffected(s, t, c), t.queue = s.queue
      PROVE  Unaffected(s, Post(t, Event("written", c, k)), c)
    <2>1. t \in ServerType /\ Event("written", c, k) \in Events
        BY <1>1, EventTypes DEF Unaffected
    <2>2. Event("written", c, k).op = "written" /\ Event("written", c, k).conn = c
        BY DEF Event
    <2>3. Unaffected(t, Post(t, Event("written", c, k)), c)
        BY <2>1, <2>2, PostWritten
    <2> QED BY <1>1, <2>3, UnaffectedTwice
<1>2. Unaffected(s, s, c)
    BY DEF Unaffected, SameTimer, Wrote, Alike
<1>3. CASE ~s.conn[c].open
    BY <1>1, <1>2, <1>3 DEF DoWrite
<1>4. CASE s.conn[c].open /\ answer.kind = "medium" /\ answer.body = "full"
    BY <1>4, WritingUnaffected DEF DoWrite
<1>5. CASE s.conn[c].open /\ ~(answer.kind = "medium" /\ answer.body = "full")
    <2> DEFINE t == IF answer.kind = "continue" THEN s ELSE Sent(s, c, answer)
    <2>1. Unaffected(s, t, c) /\ t.queue = s.queue
        BY <1>2, SentUnaffected
    <2> HIDE DEF t
    <2>2. Unaffected(s, Post(t, Event("written", c, "ok")), c)
        BY <2>1, <1>1
    <2> QED BY <2>2, <1>5 DEF DoWrite, t
<1> QED BY <1>3, <1>4, <1>5

-----------------------------------------------------------------------------
(* The turn of a connection.                                               *)
\* c has the turn; nobody has it.
Held(s, c) == s \in ServerType /\ Inv(s, s.tasks, c)
Free(s) == s \in ServerType /\ Inv(s, s.tasks, None)

\* c has no deadline, nor the id of one.
NoTask(s, c) ==
    /\ s.conn[c].task_id \notin DOMAIN s.tasks
    /\ \A id \in DOMAIN s.tasks : s.tasks[id].conn # c
SameExpired(s, t) == \A d \in Conns : t.conn[d].expired = s.conn[d].expired
SameConn(s, t, c) == Alike(t.conn[c], s.conn[c])

LEMMA StolenUpdate ==
    ASSUME NEW x \in ConnType, NEW b \in BOOLEAN, NEW y, y = [x EXCEPT !.stolen = b]
    PROVE  y \in ConnType /\ Alike(y, x) /\ (y.stolen <=> b)
BY DEF ConnType, Alike

LEMMA CancelFields ==
    ASSUME NEW s \in ServerType, NEW c \in Conns, NEW t, t = Cancel(s, c)
    PROVE  /\ t \in ServerType
           /\ t.highest_id = s.highest_id /\ t.queue = s.queue /\ t.blocked = s.blocked
           /\ t.serving = s.serving
           /\ DOMAIN t.tasks = DOMAIN s.tasks \ {s.conn[c].task_id}
           /\ \A id \in DOMAIN t.tasks : t.tasks[id] = s.tasks[id]
           /\ \A d \in Conns :
                 /\ Alike(t.conn[d], s.conn[d])
                 /\ t.conn[d].stolen <=> \/ s.conn[d].stolen
                                         \/ /\ d # c /\ s.conn[c].task_id \in DOMAIN s.tasks
                                            /\ s.tasks[s.conn[c].task_id].conn = d
<1> DEFINE id == s.conn[c].task_id
<1>1. CASE id \notin DOMAIN s.tasks
    <2>1. t = s BY <1>1 DEF Cancel
    <2>2. \A d \in Conns : s.conn[d].stolen \in BOOLEAN
        BY DEF ServerType, ConnType
    <2> QED BY <2>1, <2>2, <1>1 DEF Alike
<1>2. CASE id \in DOMAIN s.tasks
    <2>0. DOMAIN s.tasks \subseteq Nat /\ s.tasks \in [DOMAIN s.tasks -> TaskType]
        BY TasksAre DEF ServerType
    <2> DEFINE owner == s.tasks[id].conn
    <2>1. owner \in Conns
        BY <1>2, <2>0 DEF TaskType
    <2>2. t = [s EXCEPT !.tasks = [i \in DOMAIN @ \ {id} |-> @[i]],
                   !.conn[owner].stolen = @ \/ owner # c]
        BY <1>2 DEF Cancel
    <2> HIDE DEF owner
    <2>3. t.tasks = [i \in DOMAIN s.tasks \ {id} |-> s.tasks[i]]
        BY <2>2 DEF ServerType
    <2>4. t.tasks \in Tasks
        BY <2>3, <2>0, TasksAre
    <2> DEFINE b == s.conn[owner].stolen \/ owner # c
               x == [s.conn[owner] EXCEPT !.stolen = b]
    <2>5. t.conn = [s.conn EXCEPT ![owner] = x]
        BY <2>1, <2>2 DEF ServerType
    <2>6. s.conn \in [Conns -> ConnType] /\ b \in BOOLEAN
        BY DEF ServerType
    <2> HIDE DEF b
    <2>7. x \in ConnType /\ Alike(x, s.conn[owner]) /\ (x.stolen <=> b)
        BY <2>1, <2>6, StolenUpdate
    <2> HIDE DEF x
    <2>8. t.conn \in [Conns -> ConnType]
        BY <2>5, <2>6, <2>7
    <2>9. t \in ServerType
        BY <2>2, <2>4, <2>8 DEF ServerType
    <2>10. /\ t.highest_id = s.highest_id /\ t.queue = s.queue /\ t.blocked = s.blocked
           /\ t.serving = s.serving
        BY <2>2 DEF ServerType
    <2>11. ASSUME NEW d \in Conns
           PROVE  /\ Alike(t.conn[d], s.conn[d])
                  /\ t.conn[d].stolen <=> \/ s.conn[d].stolen
                                          \/ d # c /\ owner = d
        <3>1. CASE d = owner
            BY <3>1, <2>1, <2>5, <2>6, <2>7 DEF b
        <3>2. CASE d # owner
            <4>1. t.conn[d] = s.conn[d] /\ s.conn[d].stolen \in BOOLEAN
                BY <3>2, <2>1, <2>5, <2>6 DEF ConnType
            <4> QED BY <4>1, <3>2 DEF Alike
        <3> QED BY <3>1, <3>2
    <2> QED BY <2>3, <2>9, <2>10, <2>11, <1>2 DEF owner
<1> QED BY <1>1, <1>2

LEMMA TasksOf ==
    ASSUME NEW s \in ServerType
    PROVE  /\ DOMAIN s.tasks \subseteq Nat
           /\ \A id \in DOMAIN s.tasks : s.tasks[id] \in TaskType /\ s.tasks[id].conn \in Conns
<1>1. DOMAIN s.tasks \subseteq Nat /\ s.tasks \in [DOMAIN s.tasks -> TaskType]
    BY TasksAre DEF ServerType
<1> QED BY <1>1 DEF TaskType

LEMMA QueueOf ==
    ASSUME NEW s \in ServerType
    PROVE  /\ s.queue \in Seq(Events) /\ Len(s.queue) \in Nat
           /\ \A i \in 1 .. Len(s.queue) : s.queue[i] \in Events /\
                 (s.queue[i].op # "tick" => s.queue[i].conn \in Conns)
<1>1. s.queue \in Seq(Events)
    BY DEF ServerType
<1>2. \A e \in Events : e.op # "tick" => e.conn \in Conns
    BY DEF Events
<1> QED BY <1>1, <1>2

\* Cancelling leaves whoever has the turn without a deadline; if the id was that of
\* another, the other counts as robbed, and c has expired before.
LEMMA CancelKeeps ==
    ASSUME NEW s, NEW c \in Conns, Held(s, c), NEW t, t = Cancel(s, c)
    PROVE  /\ Held(t, c) /\ NoTask(t, c) /\ SameExpired(s, t) /\ SameConn(s, t, c)
           /\ t.queue = s.queue /\ t.blocked = s.blocked /\ t.serving = s.serving
<1> DEFINE id == s.conn[c].task_id
<1>0. s \in ServerType /\ Inv(s, s.tasks, c)
    BY DEF Held
<1>1. /\ t \in ServerType
      /\ t.highest_id = s.highest_id /\ t.queue = s.queue /\ t.blocked = s.blocked
      /\ t.serving = s.serving
      /\ DOMAIN t.tasks = DOMAIN s.tasks \ {id}
      /\ \A i \in DOMAIN t.tasks : t.tasks[i] = s.tasks[i]
      /\ \A d \in Conns :
           /\ Alike(t.conn[d], s.conn[d])
           /\ t.conn[d].stolen <=> \/ s.conn[d].stolen
                                   \/ d # c /\ id \in DOMAIN s.tasks /\ s.tasks[id].conn = d
    BY <1>0, CancelFields
<1> HIDE DEF id
<1>2. ASSUME NEW d \in Conns PROVE Active(t, d) <=> Active(s, d)
    <2>1. t.queue = s.queue /\ t.conn[d].reading = s.conn[d].reading
        BY <1>1 DEF Alike
    <2> QED BY <2>1 DEF Active
<1>3. \A i \in 1 .. Len(s.queue) : s.queue[i].op # "tick" => s.queue[i].conn \in Conns
    BY <1>0, QueueOf
<1>4. InvQueue(t, c)
    BY <1>0, <1>1, <1>3 DEF Inv, InvQueue, EventOK, Alike, Turn
<1>5. ASSUME NEW d \in Conns, d # c, id \in DOMAIN s.tasks, s.tasks[id].conn = d
      PROVE  \E e \in Conns \ {d} : s.conn[e].expired
    <2>1. Idle(s, s.tasks, c)
        BY <1>0 DEF Inv
    <2>2. ~Owned(s, s.tasks, c)
        BY <1>5 DEF Owned, id
    <2>3. s.conn[c].stolen \/ s.conn[c].expired
        BY <2>1, <2>2, <1>5 DEF Idle, id
    <2>4. s.conn[d].open
        BY <1>5, <1>0 DEF Inv, InvTasks
    <2>5. ~s.conn[d].expired
        BY <2>4, <1>0 DEF Inv, ConnOK
    <2>6. ConnOK(s, s.tasks, c)
        BY <1>0 DEF Inv
    <2> QED BY <2>3, <2>5, <2>6, <1>5 DEF ConnOK
<1>6. ASSUME NEW d \in Conns PROVE ConnOK(t, t.tasks, d)
    <2>1. ConnOK(s, s.tasks, d)
        BY <1>0 DEF Inv
    <2>2. \A x \in Conns : t.conn[x].expired = s.conn[x].expired
        BY <1>1 DEF Alike
    <2>3. Owned(s, s.tasks, d) => Owned(t, t.tasks, d) \/ t.conn[d].stolen \/ d = c
        BY <1>1 DEF Owned, Alike
    <2>4. Active(t, c) => FALSE
        <3>1. ~s.conn[c].reading
            BY <1>0 DEF Inv, Idle
        <3>2. \A i \in 1 .. Len(s.queue) : s.queue[i].op = "read" => s.queue[i].conn # c
            BY <1>0 DEF Inv, InvQueue, EventOK, Turn
        <3> QED BY <3>1, <3>2, <1>2 DEF Active
    <2>5. t.conn[d].stolen => \E x \in Conns \ {d} : t.conn[x].expired
        BY <1>1, <1>5, <2>1, <2>2 DEF ConnOK
    <2>6. Active(t, d) => Owned(t, t.tasks, d) \/ t.conn[d].stolen \/ t.conn[d].expired
        BY <2>1, <2>2, <2>3, <2>4, <1>1, <1>2 DEF ConnOK
    <2>7. Alike(t.conn[d], s.conn[d]) /\ (t.conn[d].stolen => s.conn[d].accepted \/ s.conn[d].stolen)
        BY <1>0, <1>1 DEF Inv, InvTasks
    <2> QED BY <2>1, <2>5, <2>6, <2>7, <1>2 DEF ConnOK, Alike
<1>7. InvTasks(t, t.tasks, c)
    <2>1. InvTasks(s, s.tasks, c) /\ \A i \in DOMAIN s.tasks : s.tasks[i].conn \in Conns
        BY <1>0, TasksOf DEF Inv
    <2>2. \A d \in Conns : Alike(t.conn[d], s.conn[d]) /\ (Active(t, d) <=> Active(s, d))
        BY ONLY <1>1, <1>2
    <2>3. /\ DOMAIN t.tasks \subseteq DOMAIN s.tasks /\ t.highest_id = s.highest_id
          /\ \A i \in DOMAIN t.tasks : t.tasks[i] = s.tasks[i]
        BY ONLY <1>1
    <2> QED BY ONLY <2>1, <2>2, <2>3 DEF InvTasks, Alike
<1>8. NoTask(t, c)
    <2>1. \A i \in DOMAIN s.tasks : s.tasks[i].conn = c => i = id
        BY <1>0 DEF Inv, InvTasks, id
    <2>2. t.conn[c].task_id = id
        BY <1>1 DEF id, Alike
    <2> QED BY <2>1, <2>2, <1>1 DEF NoTask
<1>9. Idle(t, t.tasks, c) /\ t.blocked.conn = None
    BY <1>0, <1>1, <1>8 DEF Inv, Idle, NoTask, Alike
<1>10. t.blocked.conn \notin Conns
    BY <1>9, ConnectionAssumption DEF ConnectionAssumption
<1>11. SameExpired(s, t) /\ SameConn(s, t, c)
    BY <1>1 DEF SameExpired, SameConn, Alike
<1> QED BY <1>1, <1>4, <1>6, <1>7, <1>8, <1>9, <1>10, <1>11 DEF Held, Inv

\* start_deadline: a new id, a new task.
Scheduled(s, t, c) ==
    /\ t.queue = s.queue /\ t.blocked = s.blocked /\ t.serving = s.serving
    /\ t.highest_id = s.highest_id + 1
    /\ DOMAIN t.tasks = DOMAIN s.tasks \cup {t.highest_id}
    /\ \A i \in DOMAIN t.tasks :
          t.tasks[i] = IF i = t.highest_id THEN [conn |-> c, left |-> Timeout] ELSE s.tasks[i]
    /\ \A d \in Conns \ {c} : t.conn[d] = s.conn[d]
    /\ t.conn[c].task_id = t.highest_id /\ ~t.conn[c].stolen
    /\ t.conn[c].accepted = s.conn[c].accepted /\ t.conn[c].open = s.conn[c].open
    /\ t.conn[c].reading = s.conn[c].reading /\ t.conn[c].expired = s.conn[c].expired
    /\ t.conn[c].close_connection = s.conn[c].close_connection
    /\ t.conn[c].quiet = s.conn[c].quiet

LEMMA ScheduleFields ==
    ASSUME NEW s \in ServerType, NEW c \in Conns, NEW t, t = Schedule(s, c)
    PROVE  t \in ServerType /\ Scheduled(s, t, c)
<1> DEFINE id == s.highest_id + 1
           T == [i \in DOMAIN s.tasks \cup {id} |->
                    IF i = id THEN [conn |-> c, left |-> Timeout] ELSE s.tasks[i]]
           y == [s.conn[c] EXCEPT !.task_id = id, !.stolen = FALSE]
<1>1. id \in Nat /\ s.conn[c] \in ConnType /\ s.conn \in [Conns -> ConnType]
    BY DEF ServerType
<1>2. T \in Tasks
    <2>1. DOMAIN s.tasks \subseteq Nat /\ \A i \in DOMAIN s.tasks : s.tasks[i] \in TaskType
        BY TasksOf
    <2>2. [conn |-> c, left |-> Timeout] \in TaskType
        BY ConnectionAssumption DEF TaskType, ConnectionAssumption
    <2>3. DOMAIN T \subseteq Nat /\ T \in [DOMAIN T -> TaskType]
        BY <2>1, <2>2, <1>1
    <2> QED BY <2>3, TasksAre
<1>3. t = [s EXCEPT !.highest_id = id, !.tasks = T, !.conn = [s.conn EXCEPT ![c] = y]]
    <2> DEFINE x == [s.conn[c] EXCEPT !.task_id = id]
               v == [s EXCEPT !.highest_id = id, !.tasks = T]
               m == Put(v, c, x)
    <2>1. t = [[v EXCEPT !.conn[c].task_id = id] EXCEPT !.conn[c].stolen = FALSE]
        BY DEF Schedule
    <2>2. y = [x EXCEPT !.stolen = FALSE]
        OBVIOUS
    <2>3. v.conn = s.conn
        BY DEF ServerType
    <2> HIDE DEF T
    <2>4. v \in ServerType
        BY <1>1, <1>2 DEF ServerType
    <2> HIDE DEF v
    <2>5. x \in ConnType
        BY ONLY <1>1 DEF ConnType
    <2>6. m = [v EXCEPT !.conn[c].task_id = id]
        BY ONLY <2>3 DEF Put, m, x
    <2> HIDE DEF x
    <2>7. m.conn[c] = x
        BY ONLY <2>4, <2>5, PutOnly, c \in Conns DEF m
    <2> HIDE DEF m, y
    <2>8. t = [m EXCEPT !.conn[c].stolen = FALSE]
        BY ONLY <2>1, <2>6
    <2>9. t = Put(m, c, y)
        BY ONLY <2>2, <2>7, <2>8 DEF Put
    <2>10. t = Put(v, c, y)
        BY ONLY <2>4, <2>9, PutTwice, c \in Conns DEF m
    <2> QED BY ONLY <2>3, <2>10 DEF Put, v
<1>4. y \in ConnType /\ y.task_id = id /\ ~y.stolen
      /\ y.accepted = s.conn[c].accepted /\ y.open = s.conn[c].open
      /\ y.reading = s.conn[c].reading /\ y.expired = s.conn[c].expired
      /\ y.close_connection = s.conn[c].close_connection /\ y.quiet = s.conn[c].quiet
    BY <1>1 DEF ConnType
<1>5. DOMAIN T = DOMAIN s.tasks \cup {id} /\ \A i \in DOMAIN T :
          T[i] = IF i = id THEN [conn |-> c, left |-> Timeout] ELSE s.tasks[i]
    OBVIOUS
<1> HIDE DEF T, y
<1>6. t.conn = [s.conn EXCEPT ![c] = y] /\ t.highest_id = id /\ t.tasks = T
      /\ t.queue = s.queue /\ t.blocked = s.blocked /\ t.serving = s.serving
    BY <1>3 DEF ServerType
<1>7. t.conn \in [Conns -> ConnType] /\ t.conn[c] = y /\ \A d \in Conns \ {c} : t.conn[d] = s.conn[d]
    BY <1>1, <1>4, <1>6
<1>8. t \in ServerType
    BY <1>1, <1>2, <1>3, <1>6, <1>7 DEF ServerType
<1> QED BY <1>4, <1>5, <1>6, <1>7, <1>8 DEF Scheduled

SameSocket(s, t, c) ==
    /\ t.conn[c].accepted = s.conn[c].accepted /\ t.conn[c].open = s.conn[c].open
    /\ t.conn[c].reading = s.conn[c].reading
    /\ t.conn[c].close_connection = s.conn[c].close_connection

\* c has a deadline of its own, just started.
Fresh(s, c) == Owned(s, s.tasks, c) /\ s.tasks[s.conn[c].task_id].left = Timeout

LEMMA ScheduleKeeps ==
    ASSUME NEW s, NEW c \in Conns, Held(s, c), NoTask(s, c), s.conn[c].open, NEW t, t = Schedule(s, c)
    PROVE  /\ Held(t, c) /\ Fresh(t, c) /\ SameExpired(s, t) /\ SameSocket(s, t, c)
           /\ t.queue = s.queue /\ t.blocked = s.blocked /\ t.serving = s.serving
<1>0. s \in ServerType /\ Inv(s, s.tasks, c)
    BY DEF Held
<1> DEFINE id == t.highest_id
<1>1. t \in ServerType /\ Scheduled(s, t, c)
    BY <1>0, ScheduleFields
<1>2. /\ t \in ServerType
      /\ t.queue = s.queue /\ t.blocked = s.blocked /\ t.serving = s.serving
      /\ id = s.highest_id + 1
      /\ DOMAIN t.tasks = DOMAIN s.tasks \cup {id}
      /\ \A i \in DOMAIN t.tasks :
            t.tasks[i] = IF i = id THEN [conn |-> c, left |-> Timeout] ELSE s.tasks[i]
      /\ \A d \in Conns \ {c} : t.conn[d] = s.conn[d]
      /\ t.conn[c].task_id = id /\ ~t.conn[c].stolen
      /\ t.conn[c].accepted = s.conn[c].accepted /\ t.conn[c].open = s.conn[c].open
      /\ t.conn[c].reading = s.conn[c].reading /\ t.conn[c].expired = s.conn[c].expired
      /\ t.conn[c].close_connection = s.conn[c].close_connection
      /\ t.conn[c].quiet = s.conn[c].quiet
    BY <1>1 DEF Scheduled
<1>3. ASSUME NEW d \in Conns PROVE Active(t, d) <=> Active(s, d)
    <2>1. t.queue = s.queue /\ t.conn[d].reading = s.conn[d].reading
        BY <1>2
    <2> QED BY <2>1 DEF Active
<1>4. \A i \in 1 .. Len(s.queue) : s.queue[i].op # "tick" => s.queue[i].conn \in Conns
    BY <1>0, QueueOf
<1>5. /\ s.conn[c].accepted /\ ~s.conn[c].reading /\ s.blocked.conn = None
      /\ s.highest_id \in Nat
    BY <1>0 DEF Inv, Idle, ServerType
<1>6. id \notin DOMAIN s.tasks /\ id \in Nat /\ \A i \in DOMAIN s.tasks : i \in 1 .. s.highest_id
    <2>1. \A i \in DOMAIN s.tasks : i \in 1 .. s.highest_id
        BY <1>0 DEF Inv, InvTasks
    <2> QED BY <2>1, <1>2, <1>5
<1> HIDE DEF id
<1>7. InvQueue(t, c)
    <2>1. \A i \in 1 .. Len(s.queue) : Turn(s.queue[i]) => s.queue[i].conn # c
        BY <1>0 DEF Inv, InvQueue, EventOK
    <2>2. ASSUME NEW i \in 1 .. Len(s.queue) PROVE EventOK(t, c, s.queue[i])
        <3>1. EventOK(s, c, s.queue[i])
            BY <1>0 DEF Inv, InvQueue
        <3>2. CASE s.queue[i].op = "tick"
            BY <3>2 DEF EventOK, Turn
        <3>3. CASE s.queue[i].conn = c
            BY <3>1, <3>3, <2>1, <1>2 DEF EventOK, Turn
        <3>4. CASE s.queue[i].op # "tick" /\ s.queue[i].conn \in Conns \ {c}
            BY <3>1, <3>4, <1>2 DEF EventOK
        <3> QED BY <3>2, <3>3, <3>4, <1>4
    <2> QED BY <2>2, <1>0, <1>2 DEF Inv, InvQueue
<1>8. \A d \in Conns : t.conn[d].expired = s.conn[d].expired
    BY <1>2
<1>9. Owned(t, t.tasks, c) /\ t.tasks[id].left = Timeout
    BY <1>2 DEF Owned
<1>10. ASSUME NEW d \in Conns PROVE ConnOK(t, t.tasks, d)
    <2>1. ConnOK(s, s.tasks, d)
        BY <1>0 DEF Inv
    <2>2. CASE d = c
        BY <2>1, <2>2, <1>2, <1>3, <1>5, <1>8, <1>9 DEF ConnOK
    <2>3. CASE d # c
        <3>1. Owned(s, s.tasks, d) => Owned(t, t.tasks, d)
            BY <2>3, <1>2, <1>6 DEF Owned
        <3>2. t.conn[d] = s.conn[d]
            BY <2>3, <1>2
        <3> QED BY <3>1, <3>2, <2>1, <1>3, <1>8 DEF ConnOK
    <2> QED BY <2>2, <2>3
<1>11. InvTasks(t, t.tasks, c)
    <2> SUFFICES ASSUME NEW i \in DOMAIN t.tasks
                 PROVE  LET d == t.tasks[i].conn IN
                        /\ i \in 1 .. t.highest_id /\ t.conn[d].accepted /\ t.conn[d].open
                        /\ t.conn[d].task_id = i /\ (Active(t, d) \/ d = c)
                        /\ t.conn[d].reading => t.tasks[i].left + t.conn[d].quiet >= Timeout
        BY DEF InvTasks
    <2>1. CASE i = id
        <3>1. t.tasks[i].conn = c /\ i \in 1 .. t.highest_id
            BY <2>1, <1>2, <1>5, <1>6 DEF id
        <3> QED BY <3>1, <2>1, <1>2, <1>5
    <2>2. CASE i \in DOMAIN s.tasks
        <3>1. s.tasks[i].conn \in Conns \ {c} /\ t.tasks[i] = s.tasks[i]
            BY <2>2, <1>0, <1>2, <1>6, TasksOf DEF NoTask
        <3>2. i \in 1 .. t.highest_id
            BY <2>2, <1>2, <1>5, <1>6 DEF id
        <3>3. /\ i \in 1 .. s.highest_id /\ s.conn[s.tasks[i].conn].accepted
              /\ s.conn[s.tasks[i].conn].open /\ s.conn[s.tasks[i].conn].task_id = i
              /\ (Active(s, s.tasks[i].conn) \/ s.tasks[i].conn = c)
              /\ s.conn[s.tasks[i].conn].reading => s.tasks[i].left + s.conn[s.tasks[i].conn].quiet >= Timeout
            BY ONLY <2>2, <1>0 DEF Inv, InvTasks
        <3>4. t.conn[s.tasks[i].conn] = s.conn[s.tasks[i].conn]
            BY ONLY <3>1, <1>2
        <3>5. Active(s, s.tasks[i].conn) => Active(t, s.tasks[i].conn)
            BY ONLY <3>1, <1>3
        <3> QED BY ONLY <3>1, <3>2, <3>3, <3>4, <3>5
    <2> QED BY <2>1, <2>2, <1>2
<1>12. Idle(t, t.tasks, c) /\ t.blocked.conn = None /\ t.blocked.conn \notin Conns
    BY <1>2, <1>5, <1>9, ConnectionAssumption DEF Idle, ConnectionAssumption
<1> QED BY <1>2, <1>7, <1>8, <1>9, <1>10, <1>11, <1>12 DEF Held, Inv, SameExpired, SameSocket, Fresh

LEMMA StartDeadlineKeeps ==
    ASSUME NEW s, NEW c \in Conns, Held(s, c), s.conn[c].open, NEW t, t = StartDeadline(s, c)
    PROVE  /\ Held(t, c) /\ Fresh(t, c) /\ SameExpired(s, t) /\ SameSocket(s, t, c)
           /\ t.queue = s.queue /\ t.blocked = s.blocked /\ t.serving = s.serving
<1> DEFINE u == Cancel(s, c)
<1>1. /\ Held(u, c) /\ NoTask(u, c) /\ SameExpired(s, u) /\ SameConn(s, u, c)
      /\ u.queue = s.queue /\ u.blocked = s.blocked /\ u.serving = s.serving
    BY CancelKeeps
<1>2. t = Schedule(u, c)
    BY DEF StartDeadline
<1> HIDE DEF u
<1>3. u.conn[c].open
    BY <1>1 DEF SameConn, Alike
<1>4. /\ Held(t, c) /\ Fresh(t, c) /\ SameExpired(u, t) /\ SameSocket(u, t, c)
      /\ t.queue = u.queue /\ t.blocked = u.blocked /\ t.serving = u.serving
    BY <1>1, <1>2, <1>3, ScheduleKeeps
<1> QED BY <1>1, <1>4 DEF SameExpired, SameSocket, SameConn, Alike

\* Whoever holds the turn and has a fresh deadline may read ...
LEMMA DoReadFrees ==
    ASSUME NEW s, NEW c \in Conns, Held(s, c), Fresh(s, c), s.conn[c].open,
           ~s.conn[c].close_connection, NEW t, t = DoRead(s, c)
    PROVE  Free(t) /\ SameExpired(s, t)
<1>0. s \in ServerType /\ Inv(s, s.tasks, c) /\ s.conn[c] \in ConnType /\ s.conn \in [Conns -> ConnType]
    BY DEF Held, ServerType
<1> DEFINE y == [s.conn[c] EXCEPT !.reading = TRUE]
<1>1. /\ y \in ConnType /\ y.reading /\ y.accepted = s.conn[c].accepted /\ y.open = s.conn[c].open
      /\ y.task_id = s.conn[c].task_id /\ y.close_connection = s.conn[c].close_connection
      /\ y.stolen = s.conn[c].stolen /\ y.expired = s.conn[c].expired /\ y.quiet = s.conn[c].quiet
    BY <1>0 DEF ConnType
<1>2. t = [s EXCEPT !.conn = [s.conn EXCEPT ![c] = y]]
    BY DEF DoRead
<1> HIDE DEF y
<1>3. Only(s, t, c, y)
    BY <1>0, <1>1, <1>2, PutConn
<1>4. /\ t.queue = s.queue /\ t.tasks = s.tasks /\ t.highest_id = s.highest_id
      /\ t.blocked = s.blocked /\ t.serving = s.serving /\ t \in ServerType
      /\ t.conn[c] = y /\ \A d \in Conns \ {c} : t.conn[d] = s.conn[d]
    BY <1>3 DEF Only, SameTimer
<1>6. /\ \A i \in 1 .. Len(s.queue) : s.queue[i].op # "tick" => s.queue[i].conn \in Conns
      /\ \A i \in 1 .. Len(s.queue) : Turn(s.queue[i]) => s.queue[i].conn # c
      /\ s.conn[c].accepted /\ s.blocked.conn = None
    BY <1>0, QueueOf DEF Inv, InvQueue, EventOK, Idle
<1>7. (\A d \in Conns \ {c} : Active(t, d) <=> Active(s, d)) /\ Active(t, c)
    BY <1>1, <1>4 DEF Active
<1>8. InvQueue(t, None)
    <2>1. ASSUME NEW i \in 1 .. Len(s.queue) PROVE EventOK(t, None, s.queue[i])
        <3>1. EventOK(s, c, s.queue[i])
            BY <1>0 DEF Inv, InvQueue
        <3>2. CASE s.queue[i].op = "tick"
            BY <3>2 DEF EventOK, Turn
        <3>3. CASE s.queue[i].conn = c
            BY <3>1, <3>3, <1>1, <1>4, <1>6 DEF EventOK, Turn
        <3>4. CASE s.queue[i].op # "tick" /\ s.queue[i].conn \in Conns \ {c}
            BY <3>1, <3>4, <1>4, <1>6, ConnectionAssumption DEF EventOK, ConnectionAssumption
        <3> QED BY <3>2, <3>3, <3>4, <1>6
    <2> QED BY <2>1, <1>0, <1>4 DEF Inv, InvQueue
<1>9. \A d \in Conns : t.conn[d].expired = s.conn[d].expired
    BY <1>1, <1>4
<1>10. ASSUME NEW d \in Conns PROVE ConnOK(t, t.tasks, d)
    <2>1. ConnOK(s, s.tasks, d)
        BY <1>0 DEF Inv
    <2>2. CASE d = c
        <3>1. Owned(t, t.tasks, c)
            BY <1>1, <1>4 DEF Fresh, Owned
        <3> QED BY <2>1, <2>2, <3>1, <1>1, <1>4, <1>6, <1>9 DEF ConnOK
    <2>3. CASE d # c
        <3>1. t.conn[d] = s.conn[d] /\ (Owned(s, s.tasks, d) <=> Owned(t, t.tasks, d))
            BY <2>3, <1>4 DEF Owned
        <3> QED BY <2>3, <3>1, <2>1, <1>7, <1>9 DEF ConnOK
    <2> QED BY <2>2, <2>3
<1>11. InvTasks(t, t.tasks, None)
    <2> SUFFICES ASSUME NEW i \in DOMAIN s.tasks
                 PROVE  LET d == s.tasks[i].conn IN
                        /\ i \in 1 .. t.highest_id /\ t.conn[d].accepted /\ t.conn[d].open
                        /\ t.conn[d].task_id = i /\ (Active(t, d) \/ d = None)
                        /\ t.conn[d].reading => s.tasks[i].left + t.conn[d].quiet >= Timeout
        BY <1>4 DEF InvTasks
    <2>1. s.tasks[i].conn \in Conns
        BY <1>0, TasksOf
    <2>2. LET d == s.tasks[i].conn IN
          /\ i \in 1 .. s.highest_id /\ s.conn[d].accepted /\ s.conn[d].open
          /\ s.conn[d].task_id = i /\ (Active(s, d) \/ d = c)
          /\ s.conn[d].reading => s.tasks[i].left + s.conn[d].quiet >= Timeout
        BY <1>0 DEF Inv, InvTasks
    <2>3. CASE s.tasks[i].conn = c
        <3>1. s.tasks[i].left = Timeout /\ y.quiet \in Nat /\ Timeout \in Nat
            BY <2>2, <2>3, <1>1, ConnectionAssumption DEF Fresh, ConnType, ConnectionAssumption
        <3>2. s.tasks[i].left + t.conn[c].quiet >= Timeout
            BY <3>1, <1>4
        <3>3. /\ i \in 1 .. t.highest_id /\ t.conn[c].accepted /\ t.conn[c].open
              /\ t.conn[c].task_id = i
            BY <2>2, <2>3, <1>1, <1>4
        <3> QED BY <3>2, <3>3, <2>3, <1>7
    <2>4. CASE s.tasks[i].conn # c
        BY <2>1, <2>2, <2>4, <1>4, <1>7
    <2> QED BY <2>3, <2>4
<1>12. None \notin Conns
    BY ConnectionAssumption DEF ConnectionAssumption
<1> QED BY <1>4, <1>6, <1>8, <1>9, <1>10, <1>11, <1>12 DEF Free, Inv, SameExpired

\* ... and whoever has no task may let the turn go.
LEMMA LetGo ==
    ASSUME NEW s, NEW c \in Conns, Held(s, c), NoTask(s, c)
    PROVE  Free(s)
<1>1. None \notin Conns
    BY ConnectionAssumption DEF ConnectionAssumption
<1>2. s \in ServerType /\ Inv(s, s.tasks, c)
    BY DEF Held
<1>3. \A i \in 1 .. Len(s.queue) : Turn(s.queue[i]) => s.queue[i].conn \in Conns
    BY <1>2, QueueOf DEF Turn
<1>4. InvQueue(s, None)
    BY <1>1, <1>2, <1>3 DEF Inv, InvQueue, EventOK
<1>5. InvTasks(s, s.tasks, None)
    BY <1>2 DEF Inv, InvTasks, NoTask
<1> QED BY <1>1, <1>2, <1>4, <1>5 DEF Free, Inv

LEMMA UnaffectedHeld ==
    ASSUME NEW s, NEW c \in Conns, Held(s, c), NEW t, Unaffected(s, t, c)
    PROVE  /\ Held(t, c) /\ SameExpired(s, t) /\ SameConn(s, t, c) /\ SameTimer(s, t)
           /\ NoTask(s, c) => NoTask(t, c)
           /\ Fresh(s, c) => Fresh(t, c)
<1>1. s \in ServerType /\ Inv(s, s.tasks, c) /\ s.tasks \in Tasks /\ s.conn[c].accepted
    BY DEF Held, Inv, Idle, ServerType
<1>2. Inv(t, s.tasks, c)
    BY <1>1, UnaffectedKeeps
<1>3. t.tasks = s.tasks /\ t \in ServerType /\ SameTimer(s, t)
    BY DEF Unaffected, SameTimer
<1>4. SameExpired(s, t) /\ SameConn(s, t, c)
    BY DEF Unaffected, Alike, SameExpired, SameConn
<1>5. t.conn[c].task_id = s.conn[c].task_id
    BY <1>4 DEF SameConn, Alike
<1> QED BY <1>2, <1>3, <1>4, <1>5 DEF Held, NoTask, Fresh, Owned

LEMMA UnaffectedFree ==
    ASSUME NEW s, NEW c \in Conns, Free(s), NEW t, Unaffected(s, t, c)
    PROVE  /\ Free(t) /\ SameExpired(s, t) /\ SameConn(s, t, c) /\ SameTimer(s, t)
           /\ NoTask(s, c) => NoTask(t, c)
<1>1. s \in ServerType /\ Inv(s, s.tasks, None) /\ s.tasks \in Tasks
    BY DEF Free, ServerType
<1>2. Inv(t, s.tasks, None)
    BY <1>1, UnaffectedKeeps
<1>3. t.tasks = s.tasks /\ t \in ServerType /\ SameTimer(s, t)
    BY DEF Unaffected, SameTimer
<1>4. SameExpired(s, t) /\ SameConn(s, t, c)
    BY DEF Unaffected, Alike, SameExpired, SameConn
<1>5. t.conn[c].task_id = s.conn[c].task_id
    BY <1>4 DEF SameConn, Alike
<1> QED BY <1>2, <1>3, <1>4, <1>5 DEF Free, NoTask

\* c does not wait to be started.
NoStart(s, c) == \A i \in 1 .. Len(s.queue) : ~(s.queue[i].op = "start" /\ s.queue[i].conn = c)

\* The connection x, closed.
Shut(x, y) ==
    /\ ~y.open /\ ~y.reading
    /\ y.accepted = x.accepted /\ y.task_id = x.task_id /\ y.close_connection = x.close_connection
    /\ y.expired = x.expired /\ y.stolen = x.stolen /\ (y.quiet = 0 \/ y.quiet = x.quiet)

\* A socket without a read and without a deadline may be closed.
LEMMA ShutFree ==
    ASSUME NEW s, NEW c \in Conns, Free(s), ~s.conn[c].reading, NoStart(s, c),
           \A id \in DOMAIN s.tasks : s.tasks[id].conn # c,
           NEW y, Shut(s.conn[c], y), NEW t, Only(s, t, c, y)
    PROVE  Free(t) /\ SameExpired(s, t) /\ t.blocked = s.blocked
<1>0. /\ s \in ServerType /\ Inv(s, s.tasks, None) /\ s.conn \in [Conns -> ConnType]
      /\ Timeout \in Nat /\ None \notin Conns
    BY ConnectionAssumption DEF Free, ServerType, ConnectionAssumption
<1>3. /\ t.queue = s.queue /\ t.tasks = s.tasks /\ t.highest_id = s.highest_id
      /\ t.blocked = s.blocked /\ t.serving = s.serving
    BY DEF Only, SameTimer
<1>4. t.conn[c] = y /\ \A d \in Conns \ {c} : t.conn[d] = s.conn[d]
    BY DEF Only
<1>5. t \in ServerType
    BY DEF Only
<1>6. \A i \in 1 .. Len(s.queue) : s.queue[i].op # "tick" => s.queue[i].conn \in Conns
    BY <1>0, QueueOf
<1>7. ASSUME NEW d \in Conns PROVE Active(t, d) <=> Active(s, d)
    <2>1. t.conn[d].reading <=> s.conn[d].reading
        BY <1>4 DEF Shut
    <2> QED BY <2>1, <1>3 DEF Active
<1>8. InvQueue(t, None)
    <2>1. ASSUME NEW i \in 1 .. Len(s.queue) PROVE EventOK(t, None, s.queue[i])
        <3>1. EventOK(s, None, s.queue[i])
            BY <1>0 DEF Inv, InvQueue
        <3>2. CASE s.queue[i].op = "tick"
            BY <3>2 DEF EventOK, Turn
        <3>3. CASE s.queue[i].conn = c
            BY <3>1, <3>3, <1>3, <1>4 DEF EventOK, Turn, NoStart, Shut
        <3>4. CASE s.queue[i].op # "tick" /\ s.queue[i].conn \in Conns \ {c}
            BY <3>1, <3>4, <1>3, <1>4, <1>6 DEF EventOK
        <3> QED BY <3>2, <3>3, <3>4, <1>6
    <2> QED BY <2>1, <1>0, <1>3 DEF Inv, InvQueue
<1>9. \A d \in Conns : t.conn[d].expired = s.conn[d].expired
    BY <1>4 DEF Shut
<1>10. ASSUME NEW d \in Conns PROVE ConnOK(t, t.tasks, d)
    <2>1. ConnOK(s, s.tasks, d)
        BY <1>0 DEF Inv
    <2>2. CASE d = c
        <3>1. Owned(t, t.tasks, c) <=> Owned(s, s.tasks, c)
            BY <1>3, <1>4 DEF Shut, Owned
        <3> QED BY <2>1, <2>2, <3>1, <1>0, <1>4, <1>7, <1>9 DEF ConnOK, Shut
    <2>3. CASE d # c
        <3>1. t.conn[d] = s.conn[d] /\ (Owned(s, s.tasks, d) <=> Owned(t, t.tasks, d))
            BY <2>3, <1>3, <1>4 DEF Owned
        <3> QED BY <2>3, <3>1, <2>1, <1>7, <1>9 DEF ConnOK
    <2> QED BY <2>2, <2>3
<1>11. InvTasks(t, t.tasks, None)
    BY <1>0, <1>3, <1>4, <1>7, TasksOf DEF Inv, InvTasks
<1>12. s.blocked.conn \in Conns =>
           LET d == s.blocked.conn IN
           t.conn[d].accepted /\ ~t.conn[d].reading /\ t.conn[d].task_id \notin DOMAIN t.tasks
    BY <1>0, <1>3, <1>4 DEF Inv, Shut
<1> QED BY <1>0, <1>3, <1>5, <1>8, <1>9, <1>10, <1>11, <1>12 DEF Free, Inv, SameExpired

\* The destructor closes the socket of a connection nobody holds.
LEMMA ReleaseFree ==
    ASSUME NEW s, NEW c \in Conns, Free(s)
    PROVE  Free(Release(s, c)) /\ SameExpired(s, Release(s, c)) /\ Release(s, c).blocked = s.blocked
<1> DEFINE y == [s.conn[c] EXCEPT !.open = FALSE]
           t == [s EXCEPT !.conn = [s.conn EXCEPT ![c] = y]]
<1>1. CASE Release(s, c) = s
    BY <1>1 DEF SameExpired
<1>2. CASE /\ ~s.conn[c].reading
           /\ ~\E i \in DOMAIN s.queue : s.queue[i].conn = c
           /\ ~\E id \in DOMAIN s.tasks : s.tasks[id].conn = c
           /\ Release(s, c) = t
    <2>1. s \in ServerType /\ s.conn[c] \in ConnType
        BY DEF Free, ServerType
    <2>2. y \in ConnType /\ Shut(s.conn[c], y)
        BY <2>1, <1>2 DEF ConnType, Shut
    <2>3. NoStart(s, c)
        BY <1>2, <2>1, QueueOf DEF NoStart
    <2> HIDE DEF y
    <2>4. Only(s, t, c, y)
        BY <2>1, <2>2, PutConn
    <2> HIDE DEF t
    <2> QED BY <1>2, <2>2, <2>3, <2>4, ShutFree
<1>3. [s EXCEPT !.conn[c].open = FALSE] = t
    OBVIOUS
<1> QED BY <1>1, <1>2, <1>3 DEF Release

\* A socket is shut in three fields.
LEMMA ShutIs ==
    ASSUME NEW u \in ServerType, NEW c \in Conns,
           NEW t, t = [u EXCEPT !.conn[c].open = FALSE, !.conn[c].reading = FALSE, !.conn[c].quiet = 0]
    PROVE  t = Put(u, c, [u.conn[c] EXCEPT !.open = FALSE, !.reading = FALSE, !.quiet = 0])
<1> DEFINE x == [u.conn[c] EXCEPT !.open = FALSE]
           z == [x EXCEPT !.reading = FALSE]
           y == [u.conn[c] EXCEPT !.open = FALSE, !.reading = FALSE, !.quiet = 0]
           v == Put(u, c, x)
           m == Put(v, c, z)
<1>1. t = [[[u EXCEPT !.conn[c].open = FALSE] EXCEPT !.conn[c].reading = FALSE]
                EXCEPT !.conn[c].quiet = 0]
    OBVIOUS
<1>2. v = [u EXCEPT !.conn[c].open = FALSE]
    BY DEF Put
<1>3. x \in ConnType /\ z \in ConnType
    <2>1. u.conn[c] \in ConnType
        BY DEF ServerType
    <2> QED BY <2>1 DEF ConnType
<1>4. y = [z EXCEPT !.quiet = 0]
    OBVIOUS
<1> HIDE DEF x, y
<1>5. v \in ServerType /\ v.conn[c] = x
    BY ONLY <1>3, PutOnly, u \in ServerType, c \in Conns DEF v
<1> HIDE DEF v
<1>6. m = [v EXCEPT !.conn[c].reading = FALSE]
    BY ONLY <1>5 DEF z, m, Put
<1> HIDE DEF z
<1>7. m \in ServerType /\ m.conn[c] = z
    BY ONLY <1>3, <1>5, PutOnly, c \in Conns DEF m
<1>8. m = Put(u, c, z)
    BY ONLY PutTwice, u \in ServerType, c \in Conns DEF v, m
<1> HIDE DEF m
<1>9. t = [m EXCEPT !.conn[c].quiet = 0]
    BY ONLY <1>1, <1>2, <1>6
<1>10. t = Put(m, c, y)
    BY ONLY <1>4, <1>7, <1>9 DEF Put
<1>11. t = Put(u, c, y)
    BY ONLY <1>8, <1>10, PutTwice, u \in ServerType, c \in Conns
<1> QED BY ONLY <1>11 DEF y

\* Closing is: the operations of the socket end, and then it is shut.
Interrupted(s, c) == IF s.conn[c].reading THEN Post(s, Event("read", c, "error")) ELSE s

LEMMA CloseIs ==
    ASSUME NEW s \in ServerType, NEW c \in Conns, Interrupted(s, c) \in ServerType
    PROVE  \E u, y : /\ Unaffected(Interrupted(s, c), u, c) /\ y \in ConnType
                     /\ Shut([u.conn[c] EXCEPT !.reading = FALSE], y) /\ y.quiet = 0
                     /\ Only(u, Close(s, c), c, y)
<1> DEFINE r == Interrupted(s, c)
           w == IF s.conn[c].writing = NoAnswer THEN r ELSE Post(r, Event("written", c, "error"))
           u == CutWrite(w, c)
           y == [u.conn[c] EXCEPT !.open = FALSE, !.reading = FALSE, !.quiet = 0]
<1>1. Close(s, c) = [u EXCEPT !.conn[c].open = FALSE, !.conn[c].reading = FALSE, !.conn[c].quiet = 0]
    BY DEF Close, Interrupted
<1> HIDE DEF r
<1>2. Unaffected(r, w, c)
    <2>1. Unaffected(r, r, c)
        BY DEF r, Unaffected, SameTimer, Wrote, Alike
    <2>2. /\ Event("written", c, "error") \in Events
          /\ Event("written", c, "error").op = "written" /\ Event("written", c, "error").conn = c
        BY EventTypes DEF Event
    <2>3. Unaffected(r, Post(r, Event("written", c, "error")), c)
        BY <2>2, PostWritten DEF r
    <2> QED BY <2>1, <2>3
<1> HIDE DEF w
<1>3. w \in ServerType
    BY <1>2 DEF Unaffected
<1>4. Unaffected(w, u, c) /\ u.queue = w.queue
    BY <1>3, CutWriteUnaffected
<1>5. Unaffected(r, u, c)
    BY <1>2, <1>4, UnaffectedTwice DEF r
<1> HIDE DEF u
<1>6. u \in ServerType /\ u.conn[c] \in ConnType /\ u.conn \in [Conns -> ConnType]
    BY <1>4 DEF Unaffected, ServerType
<1>7. y \in ConnType /\ Shut([u.conn[c] EXCEPT !.reading = FALSE], y) /\ y.quiet = 0
    BY <1>6 DEF ConnType, Shut
<1>8. Close(s, c) = [u EXCEPT !.conn = [u.conn EXCEPT ![c] = y]]
    <2>1. Close(s, c) = Put(u, c, y)
        BY ONLY <1>1, <1>6, ShutIs, c \in Conns DEF y
    <2> QED BY ONLY <2>1 DEF Put
<1> HIDE DEF y
<1>9. Only(u, Close(s, c), c, y)
    BY <1>6, <1>7, <1>8, PutConn
<1> WITNESS u, y
<1> QED BY <1>5, <1>7, <1>9 DEF r

LEMMA CloseFree ==
    ASSUME NEW s, NEW c \in Conns, Free(s), ~s.conn[c].reading, NoStart(s, c),
           \A id \in DOMAIN s.tasks : s.tasks[id].conn # c
    PROVE  Free(Close(s, c)) /\ SameExpired(s, Close(s, c)) /\ Close(s, c).blocked = s.blocked
<1>1. Interrupted(s, c) = s /\ s \in ServerType
    BY DEF Interrupted, Free
<1>2. Interrupted(s, c) \in ServerType
    BY <1>1
<1>3. PICK u, y : /\ Unaffected(Interrupted(s, c), u, c) /\ y \in ConnType
                  /\ Shut([u.conn[c] EXCEPT !.reading = FALSE], y) /\ y.quiet = 0
                  /\ Only(u, Close(s, c), c, y)
    BY <1>1, <1>2, CloseIs
<1>4. /\ Unaffected(s, u, c) /\ y \in ConnType
      /\ Shut([u.conn[c] EXCEPT !.reading = FALSE], y)
      /\ Only(u, Close(s, c), c, y)
    BY <1>1, <1>3
<1>5. Free(u) /\ SameExpired(s, u) /\ SameConn(s, u, c) /\ SameTimer(s, u)
    BY <1>4, UnaffectedFree
<1>6. ~u.conn[c].reading /\ \A id \in DOMAIN u.tasks : u.tasks[id].conn # c
    BY <1>5 DEF SameConn, SameTimer, Alike
<1>7. NoStart(u, c)
    <2>1. CASE u.queue = s.queue
        BY <2>1 DEF NoStart
    <2>2. ASSUME NEW e \in Events, e.op = "written", u.queue = Append(s.queue, e)
          PROVE  NoStart(u, c)
        <3>1. /\ Len(u.queue) = Len(s.queue) + 1 /\ Len(s.queue) \in Nat
              /\ \A i \in 1 .. Len(s.queue) : u.queue[i] = s.queue[i]
              /\ u.queue[Len(s.queue) + 1] = e
            BY <2>2, <1>1, QueueOf
        <3> QED BY <3>1, <2>2 DEF NoStart
    <2> QED BY <2>1, <2>2, <1>4 DEF Unaffected, Wrote
<1>8. u.conn[c] \in ConnType
    BY <1>5 DEF Free, ServerType
<1>9. Shut(u.conn[c], y)
    BY <1>4, <1>8 DEF Shut, ConnType
<1>10. Free(Close(s, c)) /\ SameExpired(u, Close(s, c)) /\ Close(s, c).blocked = u.blocked
    BY <1>4, <1>5, <1>6, <1>7, <1>9, ShutFree
<1> QED BY <1>5, <1>10 DEF SameExpired, SameTimer

LEMMA HeldStart ==
    ASSUME NEW s, NEW c \in Conns, Held(s, c)
    PROVE  NoStart(s, c) /\ ~s.conn[c].reading /\ s.conn[c].accepted /\ s.blocked.conn = None
BY DEF Held, Inv, InvQueue, EventOK, Turn, NoStart, Idle

-----------------------------------------------------------------------------
(* The handlers take the turn and give it back.                            *)

LEMMA ReadFailedFrees ==
    ASSUME NEW s, NEW c \in Conns, Held(s, c)
    PROVE  Free(ReadFailed(s, c)) /\ SameExpired(s, ReadFailed(s, c))
<1> DEFINE t == Cancel(s, c)
<1>1. Held(t, c) /\ NoTask(t, c) /\ SameExpired(s, t)
    BY CancelKeeps
<1> HIDE DEF t
<1>2. Free(t)
    BY <1>1, LetGo
<1>3. Free(Close(t, c)) /\ SameExpired(t, Close(t, c))
    BY <1>1, <1>2, HeldStart, CloseFree DEF NoTask
<1>4. ReadFailed(s, c) = Close(t, c)
    BY DEF ReadFailed, t
<1> QED BY <1>1, <1>3, <1>4 DEF SameExpired

LEMMA ReadOnFrees ==
    ASSUME NEW s, NEW c \in Conns, Held(s, c)
    PROVE  Free(ReadOn(s, c)) /\ SameExpired(s, ReadOn(s, c))
<1>1. CASE ~s.conn[c].open
    BY <1>1, ReadFailedFrees DEF ReadOn
<1>2. CASE s.conn[c].open /\ s.conn[c].close_connection
    <2>1. Held(Cancel(s, c), c) /\ NoTask(Cancel(s, c), c) /\ SameExpired(s, Cancel(s, c))
        BY CancelKeeps
    <2>2. Free(Cancel(s, c))
        BY <2>1, LetGo
    <2> QED BY <1>2, <2>1, <2>2 DEF ReadOn
<1>3. CASE s.conn[c].open /\ ~s.conn[c].close_connection
    <2> DEFINE t == StartDeadline(s, c)
    <2>1. Held(t, c) /\ Fresh(t, c) /\ SameExpired(s, t) /\ SameSocket(s, t, c)
        BY <1>3, StartDeadlineKeeps
    <2>2. ReadOn(s, c) = DoRead(t, c)
        BY <1>3 DEF ReadOn
    <2> HIDE DEF t
    <2>3. Free(DoRead(t, c)) /\ SameExpired(t, DoRead(t, c))
        BY <1>3, <2>1, DoReadFrees DEF SameSocket
    <2> QED BY <2>1, <2>2, <2>3 DEF SameExpired
<1> QED BY <1>1, <1>2, <1>3

\* start: the first read.
LEMMA StartFrees ==
    ASSUME NEW s, NEW c \in Conns, Held(s, c), s.conn[c].open, ~s.conn[c].close_connection
    PROVE  Free(Start(s, c)) /\ SameExpired(s, Start(s, c))
<1> DEFINE t == StartDeadline(s, c)
           u == ClearParser(t, c)
<1>1. Held(t, c) /\ Fresh(t, c) /\ SameExpired(s, t) /\ SameSocket(s, t, c)
    BY StartDeadlineKeeps
<1> HIDE DEF t
<1>2. t \in ServerType
    BY <1>1 DEF Held
<1>3. Held(u, c) /\ Fresh(u, c) /\ SameExpired(t, u) /\ SameConn(t, u, c)
    BY <1>1, <1>2, ClearParserUnaffected, UnaffectedHeld
<1>4. Start(s, c) = DoRead(u, c)
    BY DEF Start, t
<1> HIDE DEF u
<1>5. Free(DoRead(u, c)) /\ SameExpired(u, DoRead(u, c))
    BY <1>1, <1>3, DoReadFrees DEF SameSocket, SameConn, Alike
<1> QED BY <1>1, <1>3, <1>4, <1>5 DEF SameExpired

\* Only close_connection and what the invariant does not speak of.
Marked(x, y) ==
    /\ y.accepted = x.accepted /\ y.open = x.open /\ y.reading = x.reading
    /\ y.task_id = x.task_id /\ y.expired = x.expired /\ y.quiet = x.quiet /\ y.stolen = x.stolen

LEMMA MarkedHeld ==
    ASSUME NEW s, NEW c \in Conns, Held(s, c), NoTask(s, c),
           NEW y, Marked(s.conn[c], y), NEW t, Only(s, t, c, y)
    PROVE  /\ Held(t, c) /\ NoTask(t, c) /\ SameExpired(s, t) /\ t.conn[c] = y
<1>0. /\ s \in ServerType /\ Inv(s, s.tasks, c) /\ s.conn \in [Conns -> ConnType]
    BY DEF Held, ServerType
<1>1. /\ t.queue = s.queue /\ t.tasks = s.tasks /\ t.highest_id = s.highest_id
      /\ t.blocked = s.blocked /\ t.serving = s.serving
    BY DEF Only, SameTimer
<1>2. t.conn[c] = y /\ \A d \in Conns \ {c} : t.conn[d] = s.conn[d]
    BY DEF Only
<1>3. t \in ServerType
    BY DEF Only
<1>4. /\ \A i \in 1 .. Len(s.queue) : s.queue[i].op # "tick" => s.queue[i].conn \in Conns
      /\ \A i \in 1 .. Len(s.queue) : Turn(s.queue[i]) => s.queue[i].conn # c
      /\ s.conn[c].accepted /\ ~s.conn[c].reading
    BY <1>0, QueueOf DEF Inv, InvQueue, EventOK, Idle
<1>5. ASSUME NEW d \in Conns PROVE Active(t, d) <=> Active(s, d)
    <2>1. t.conn[d].reading = s.conn[d].reading
        BY <1>2 DEF Marked
    <2> QED BY <2>1, <1>1 DEF Active
<1>6. ~Active(s, c)
    BY <1>4 DEF Active, Turn
<1>7. InvQueue(t, c)
    <2>1. ASSUME NEW i \in 1 .. Len(s.queue) PROVE EventOK(t, c, s.queue[i])
        <3>1. EventOK(s, c, s.queue[i])
            BY <1>0 DEF Inv, InvQueue
        <3>2. CASE s.queue[i].op = "tick"
            BY <3>2 DEF EventOK, Turn
        <3>3. CASE s.queue[i].conn = c
            BY <3>1, <3>3, <1>1, <1>2, <1>4 DEF EventOK, Turn, Marked
        <3>4. CASE s.queue[i].op # "tick" /\ s.queue[i].conn \in Conns \ {c}
            BY <3>1, <3>4, <1>1, <1>2, <1>4 DEF EventOK
        <3> QED BY <3>2, <3>3, <3>4, <1>4
    <2> QED BY <2>1, <1>0, <1>1 DEF Inv, InvQueue
<1>8. \A d \in Conns : t.conn[d].expired = s.conn[d].expired
    BY <1>2 DEF Marked
<1>9. ASSUME NEW d \in Conns PROVE ConnOK(t, t.tasks, d)
    <2>1. ConnOK(s, s.tasks, d)
        BY <1>0 DEF Inv
    <2>2. CASE d = c
        BY <2>1, <2>2, <1>6, <1>2, <1>4, <1>5, <1>8 DEF ConnOK, Marked
    <2>3. CASE d # c
        <3>1. t.conn[d] = s.conn[d] /\ (Owned(s, s.tasks, d) <=> Owned(t, t.tasks, d))
            BY <2>3, <1>1, <1>2 DEF Owned
        <3> QED BY <2>3, <3>1, <2>1, <1>5, <1>8 DEF ConnOK
    <2> QED BY <2>2, <2>3
<1>10. InvTasks(t, t.tasks, c)
    <2>1. InvTasks(s, s.tasks, c) /\ \A id \in DOMAIN s.tasks : s.tasks[id].conn \in Conns \ {c}
        BY <1>0, TasksOf DEF Inv, NoTask
    <2>2. t.tasks = s.tasks /\ t.highest_id = s.highest_id /\ \A d \in Conns \ {c} : t.conn[d] = s.conn[d]
        BY ONLY <1>1, <1>2
    <2> QED BY ONLY <2>1, <2>2, <1>5 DEF InvTasks
<1>11. NoTask(t, c)
    BY <1>1, <1>2 DEF NoTask, Marked
<1>12. Idle(t, t.tasks, c)
    BY <1>2, <1>4, <1>11 DEF Idle, Marked, NoTask
<1>13. t.blocked.conn = None /\ t.blocked.conn \notin Conns
    BY <1>0, <1>1, ConnectionAssumption DEF Inv, ConnectionAssumption
<1> QED BY <1>1, <1>2, <1>3, <1>7, <1>8, <1>9, <1>10, <1>11, <1>12, <1>13
       DEF Held, Inv, SameExpired

\* complete_request leaves its marks in three fields.
Completed(x, b, k) ==
    [x EXCEPT !.message_complete = TRUE, !.close_connection = b, !.skip_body = k]

LEMMA AcceptedIs ==
    ASSUME NEW s, NEW c \in Conns, NEW r \in Requests, NEW u \in ServerType, u = Cancel(s, c),
           NEW t, t = Accepted(s, c, r)
    PROVE  \E b, k \in BOOLEAN :
              /\ b <=> r.close \/ r.kind = "upgrade"
              /\ k <=> s.conn[c].skip_body \/ r.kind \in Heads
              /\ t = Put(u, c, Completed(u.conn[c], b, k))
<1> DEFINE b == r.close \/ r.kind = "upgrade"
           k == s.conn[c].skip_body \/ r.kind \in Heads
           x == [u.conn[c] EXCEPT !.message_complete = TRUE]
           z == [x EXCEPT !.close_connection = b]
           y == [u.conn[c] EXCEPT !.message_complete = TRUE, !.close_connection = b, !.skip_body = k]
           v == Put(u, c, x)
           m == Put(v, c, z)
<1>0. t = [u EXCEPT !.conn[c].message_complete = TRUE, !.conn[c].close_connection = b,
                    !.conn[c].skip_body = k]
    BY DEF Accepted
<1>a. /\ b \in BOOLEAN /\ k \in BOOLEAN /\ (b <=> r.close \/ r.kind = "upgrade")
      /\ (k <=> s.conn[c].skip_body \/ r.kind \in Heads)
    OBVIOUS
<1> HIDE DEF b, k
<1>1. t = [[[u EXCEPT !.conn[c].message_complete = TRUE] EXCEPT !.conn[c].close_connection = b]
              EXCEPT !.conn[c].skip_body = k]
    BY ONLY <1>0
<1>2. v = [u EXCEPT !.conn[c].message_complete = TRUE]
    BY DEF Put
<1>3. x \in ConnType /\ z \in ConnType
    <2>1. u.conn[c] \in ConnType
        BY DEF ServerType
    <2> QED BY <2>1, <1>a DEF ConnType
<1>4. y = [z EXCEPT !.skip_body = k]
    OBVIOUS
<1> HIDE DEF x, y
<1>5. v \in ServerType /\ v.conn[c] = x
    BY ONLY <1>3, PutOnly, u \in ServerType, c \in Conns DEF v
<1> HIDE DEF v
<1>6. m = [v EXCEPT !.conn[c].close_connection = b]
    BY ONLY <1>5 DEF z, m, Put
<1> HIDE DEF z
<1>7. m \in ServerType /\ m.conn[c] = z
    BY ONLY <1>3, <1>5, PutOnly, c \in Conns DEF m
<1>8. m = Put(u, c, z)
    BY ONLY PutTwice, u \in ServerType, c \in Conns DEF v, m
<1> HIDE DEF m
<1>9. t = [m EXCEPT !.conn[c].skip_body = k]
    BY ONLY <1>1, <1>2, <1>6
<1>10. t = Put(m, c, y)
    BY ONLY <1>4, <1>7, <1>9 DEF Put
<1>11. t = Put(u, c, y)
    BY ONLY <1>8, <1>10, PutTwice, u \in ServerType, c \in Conns
<1> b \in BOOLEAN /\ k \in BOOLEAN
    BY ONLY <1>a
<1> WITNESS b \in BOOLEAN, k \in BOOLEAN
<1> QED BY ONLY <1>11, <1>a DEF y, Completed

\* complete_request up to the write.
LEMMA AcceptedHeld ==
    ASSUME NEW s, NEW c \in Conns, Held(s, c), NEW r \in Requests
    PROVE  LET t == Accepted(s, c, r) IN
           /\ Held(t, c) /\ NoTask(t, c) /\ SameExpired(s, t)
           /\ t.conn[c].open = s.conn[c].open
<1> DEFINE t == Accepted(s, c, r)
           u == Cancel(s, c)
<1>1. Held(u, c) /\ NoTask(u, c) /\ SameExpired(s, u) /\ SameConn(s, u, c)
    BY CancelKeeps
<1>2. PICK b, k \in BOOLEAN :
          /\ b <=> r.close \/ r.kind = "upgrade"
          /\ k <=> s.conn[c].skip_body \/ r.kind \in Heads
          /\ t = Put(u, c, Completed(u.conn[c], b, k))
    <2>1. u \in ServerType
        BY <1>1 DEF Held
    <2>2. t = Accepted(s, c, r) /\ u = Cancel(s, c)
        OBVIOUS
    <2> HIDE DEF t, u
    <2> QED BY ONLY <2>1, <2>2, AcceptedIs, c \in Conns, r \in Requests
<1> DEFINE y == Completed(u.conn[c], b, k)
<1> HIDE DEF t
<1> HIDE DEF u
<1>3. u.conn[c] \in ConnType /\ u.conn \in [Conns -> ConnType] /\ u \in ServerType
    BY <1>1 DEF Held, ServerType
<1>5. t = [u EXCEPT !.conn = [u.conn EXCEPT ![c] = y]]
    BY <1>2 DEF Put
<1>6. y \in ConnType /\ Marked(u.conn[c], y)
    BY <1>3 DEF ConnType, Marked, Completed
<1> HIDE DEF y
<1>7. Only(u, t, c, y)
    BY <1>3, <1>5, <1>6, PutConn
<1>8. Held(t, c) /\ NoTask(t, c) /\ SameExpired(u, t) /\ t.conn[c] = y
    BY <1>1, <1>6, <1>7, MarkedHeld
<1> QED BY <1>1, <1>6, <1>8 DEF SameExpired, SameConn, Alike, Marked, t

\* A long answer keeps the worker: the turn is with the client.
LEMMA BlockedFree ==
    ASSUME NEW s, NEW c \in Conns, Held(s, c), NoTask(s, c), NEW a \in AnswerType,
           NEW t, t = [s EXCEPT !.blocked = [conn |-> c, answer |-> a]]
    PROVE  Free(t) /\ SameExpired(s, t)
<1>0. s \in ServerType /\ Inv(s, s.tasks, c) /\ Inv(s, s.tasks, None) /\ None \notin Conns
    BY LetGo, ConnectionAssumption DEF Free, Held, ConnectionAssumption
<1>1. /\ t.conn = s.conn /\ t.queue = s.queue /\ t.tasks = s.tasks /\ t.highest_id = s.highest_id
      /\ t.blocked.conn = c /\ t \in ServerType
    BY <1>0 DEF ServerType
<1>2. \A d \in Conns : Active(t, d) <=> Active(s, d)
    BY <1>1 DEF Active
<1>3. InvQueue(t, None)
    <2>1. \A i \in 1 .. Len(s.queue) : Turn(s.queue[i]) => s.queue[i].conn \in Conns \ {c}
        BY <1>0, QueueOf DEF Inv, InvQueue, EventOK, Turn
    <2>2. InvQueue(s, None) /\ t.conn = s.conn /\ t.queue = s.queue /\ t.blocked.conn = c
        BY ONLY <1>0, <1>1 DEF Inv
    <2>3. \A i \in 1 .. Len(t.queue) : EventOK(t, None, t.queue[i])
        BY ONLY <2>1, <2>2 DEF InvQueue, EventOK
    <2> QED BY ONLY <2>2, <2>3 DEF InvQueue
<1>4. ASSUME NEW d \in Conns PROVE ConnOK(t, t.tasks, d)
    <2>1. ConnOK(s, s.tasks, d)
        BY <1>0 DEF Inv
    <2> QED BY <2>1, <1>1, <1>2 DEF ConnOK, Owned
<1>5. InvTasks(t, t.tasks, None)
    <2>1. InvTasks(s, s.tasks, None) /\ \A id \in DOMAIN s.tasks : s.tasks[id].conn \in Conns
        BY <1>0, TasksOf DEF Inv
    <2> QED BY ONLY <2>1, <1>1, <1>2 DEF InvTasks
<1>6. s.conn[c].accepted /\ ~s.conn[c].reading /\ s.conn[c].task_id \notin DOMAIN s.tasks
    BY <1>0 DEF Inv, Idle, NoTask
<1> QED BY <1>0, <1>1, <1>3, <1>4, <1>5, <1>6 DEF Free, Inv, SameExpired

\* handle: answered, closed, or blocked.
LEMMA HandleFrees ==
    ASSUME NEW s, NEW c \in Conns, Held(s, c), NEW r \in Requests
    PROVE  Free(Handle(s, c, r)) /\ SameExpired(s, Handle(s, c, r))
<1> DEFINE t == Accepted(s, c, r)
           answer == Answer(r.kind, BodyOf(t, c, r.kind))
<1>1. Held(t, c) /\ NoTask(t, c) /\ SameExpired(s, t) /\ t.conn[c].open = s.conn[c].open
    BY AcceptedHeld
<1>2. answer \in AnswerType
    BY DEF Answer, BodyOf, AnswerType, Requests
<1>3. CASE ~s.conn[c].open
    BY <1>1, <1>3, LetGo, ReleaseFree DEF Handle, SameExpired
<1>4. CASE s.conn[c].open /\ r.kind = "upgrade"
    <2>1. Free(ReadOn(t, c)) /\ SameExpired(t, ReadOn(t, c))
        BY <1>1, ReadOnFrees
    <2>2. Handle(s, c, r) = Release(ReadOn(t, c), c)
        BY <1>4 DEF Handle
    <2> HIDE DEF t
    <2>3. /\ Free(Release(ReadOn(t, c), c))
          /\ SameExpired(ReadOn(t, c), Release(ReadOn(t, c), c))
        BY <2>1, ReleaseFree
    <2> QED BY <1>1, <2>1, <2>2, <2>3 DEF SameExpired
<1>5. CASE s.conn[c].open /\ r.kind # "upgrade" /\ Synchronous(answer)
    <2>1. Handle(s, c, r) = [t EXCEPT !.blocked = [conn |-> c, answer |-> answer]]
        BY <1>5 DEF Handle
    <2> HIDE DEF t, answer
    <2>2. Free(Handle(s, c, r)) /\ SameExpired(t, Handle(s, c, r))
        BY <1>1, <1>2, <2>1, BlockedFree
    <2> QED BY <1>1, <2>2 DEF SameExpired
<1>6. CASE s.conn[c].open /\ r.kind # "upgrade" /\ ~Synchronous(answer)
    <2> DEFINE u == DoWrite(t, c, answer)
    <2>1. Handle(s, c, r) = ReadOn(u, c)
        BY <1>6 DEF Handle
    <2> HIDE DEF t, answer
    <2>2. Held(u, c) /\ SameExpired(t, u)
        BY <1>1, <1>2, DoWriteUnaffected, UnaffectedHeld DEF Held
    <2> HIDE DEF u
    <2>3. Free(ReadOn(u, c)) /\ SameExpired(u, ReadOn(u, c))
        BY <2>2, ReadOnFrees
    <2> QED BY <1>1, <2>1, <2>2, <2>3 DEF SameExpired
<1> QED BY <1>3, <1>4, <1>5, <1>6

\* The read handler.
LEMMA ReadDoneFrees ==
    ASSUME NEW s, NEW c \in Conns, Held(s, c), NEW what \in Messages \cup {Plain("error")}
    PROVE  Free(ReadDone(s, c, what)) /\ SameExpired(s, ReadDone(s, c, what))
<1>1. what.kind \in Kinds \cup {"part", "expect", "refused", "error"}
    BY DEF Messages, Requests, Openings, Plain
<1>2. what.kind \in Kinds => what \in Requests
    <2>1. CASE what \in Requests
        BY <2>1
    <2>2. CASE what \notin Requests
        <3>1. what.kind \in {"part", "expect", "refused", "error"}
            BY <2>2 DEF Messages, Openings, Plain
        <3> QED BY <3>1, KindsAre
    <2> QED BY <2>1, <2>2
<1>3. s \in ServerType /\ s.conn[c].accepted
    BY HeldStart DEF Held
<1>4. CASE what.kind = "error"
    BY <1>4, KindsAre, ReadFailedFrees DEF ReadDone
<1>5. CASE what.kind # "error" /\ s.conn[c].message_complete
    <2> DEFINE t == [s EXCEPT !.conn[c].dropped = TRUE]
    <2>1. ReadDone(s, c, what) = ReadOn(t, c)
        BY <1>5 DEF ReadDone, Kinds, Heads, Files, Errors
    <2>2. Unaffected(s, t, c)
        BY <1>3, DroppedUnaffected
    <2> HIDE DEF t
    <2>3. Held(t, c) /\ SameExpired(s, t)
        BY <2>2, UnaffectedHeld
    <2> QED BY <2>1, <2>3, ReadOnFrees DEF SameExpired
<1>6. CASE what.kind = "part" /\ ~s.conn[c].message_complete
    BY <1>6, ReadOnFrees DEF ReadDone, Kinds, Heads, Files, Errors
<1>7. CASE what.kind = "expect" /\ ~s.conn[c].message_complete
    <2> DEFINE t == [s EXCEPT !.conn[c].continue_requested = TRUE]
               a == Answer("continue", "empty")
               u == DoWrite(t, c, a)
    <2>1. ReadDone(s, c, what) = ReadOn(u, c)
        BY <1>7 DEF ReadDone, Kinds, Heads, Files, Errors
    <2>2. Unaffected(s, t, c)
        BY <1>3, ContinueUnaffected
    <2>3. a \in AnswerType
        BY DEF Answer, AnswerType
    <2> HIDE DEF t, a
    <2>4. Held(t, c) /\ SameExpired(s, t) /\ t \in ServerType
        BY <2>2, UnaffectedHeld DEF Held
    <2>5. Unaffected(t, u, c)
        BY <2>3, <2>4, DoWriteUnaffected
    <2> HIDE DEF u
    <2>6. Held(u, c) /\ SameExpired(t, u)
        BY <2>4, <2>5, UnaffectedHeld
    <2>7. Free(ReadOn(u, c)) /\ SameExpired(u, ReadOn(u, c))
        BY <2>6, ReadOnFrees
    <2> QED BY <2>1, <2>4, <2>6, <2>7 DEF SameExpired
<1>8. CASE what.kind = "refused" /\ ~s.conn[c].message_complete
    <2> DEFINE a == Answer("refused", "full")
               u == DoWrite(s, c, a)
    <2>1. ReadDone(s, c, what) = ReadFailed(u, c)
        BY <1>8 DEF ReadDone, Kinds, Heads, Files, Errors
    <2>3. a \in AnswerType
        BY DEF Answer, AnswerType
    <2> HIDE DEF a
    <2>5. Unaffected(s, u, c)
        BY <1>3, <2>3, DoWriteUnaffected
    <2> HIDE DEF u
    <2>6. Held(u, c) /\ SameExpired(s, u)
        BY <2>5, UnaffectedHeld
    <2>7. Free(ReadFailed(u, c)) /\ SameExpired(u, ReadFailed(u, c))
        BY <2>6, ReadFailedFrees
    <2> QED BY <2>1, <2>6, <2>7 DEF SameExpired
<1>9. CASE what.kind \in Kinds /\ ~s.conn[c].message_complete
    <2>1. ReadDone(s, c, what) = Handle(s, c, what)
        BY <1>9, KindsAre DEF ReadDone
    <2> QED BY <1>2, <1>9, <2>1, HandleFrees
<1> QED BY <1>1, <1>4, <1>5, <1>6, <1>7, <1>8, <1>9

LEMMA InactiveHasNoTask ==
    ASSUME NEW s, NEW c \in Conns, Free(s), ~Active(s, c)
    PROVE  \A id \in DOMAIN s.tasks : s.tasks[id].conn # c
BY ConnectionAssumption DEF Free, Inv, InvTasks, ConnectionAssumption

\* The write handler, which has no turn: it closes only who does not read any more.
LEMMA WrittenFrees ==
    ASSUME NEW s, NEW c \in Conns, Free(s), NEW what
    PROVE  Free(Written(s, c, what)) /\ SameExpired(s, Written(s, c, what))
<1> DEFINE t == Cleared(s, c)
           u == IF what.kind = "ok" /\ t.conn[c].close_connection THEN Close(t, c) ELSE t
<1>1. Written(s, c, what) = Release(u, c)
    BY DEF Written
<1>2. s \in ServerType
    BY DEF Free
<1>3. Unaffected(s, t, c)
    BY <1>2, ClearedUnaffected
<1> HIDE DEF t
<1>4. Free(t) /\ SameExpired(s, t)
    BY <1>3, UnaffectedFree
<1>5. Free(u) /\ SameExpired(s, u)
    <2>1. CASE what.kind = "ok" /\ t.conn[c].close_connection
        <3>1. ~Active(t, c)
            BY <2>1, <1>4 DEF Free, Inv, ConnOK
        <3>2. NoStart(t, c)
            BY <2>1, <1>4 DEF Free, Inv, InvQueue, EventOK, NoStart
        <3>3. Free(Close(t, c)) /\ SameExpired(t, Close(t, c))
            BY <3>1, <3>2, <1>4, InactiveHasNoTask, CloseFree DEF Active
        <3> QED BY <2>1, <3>3, <1>4 DEF SameExpired
    <2>2. CASE ~(what.kind = "ok" /\ t.conn[c].close_connection)
        BY <2>2, <1>4
    <2> QED BY <2>1, <2>2
<1> HIDE DEF u
<1>6. Free(Release(u, c)) /\ SameExpired(u, Release(u, c))
    BY <1>5, ReleaseFree
<1> QED BY <1>1, <1>5, <1>6 DEF SameExpired

-----------------------------------------------------------------------------
(* The worker takes the next event.                                        *)

LEMMA PopFields ==
    ASSUME NEW s \in ServerType, s.queue # <<>>, NEW t, t = [s EXCEPT !.queue = Tail(@)]
    PROVE  /\ t \in ServerType /\ SameTimer(s, t) /\ t.conn = s.conn
           /\ Head(s.queue) = s.queue[1] /\ 1 \in 1 .. Len(s.queue) /\ s.queue[1] \in Events
           /\ \A i \in 1 .. Len(t.queue) : i + 1 \in 1 .. Len(s.queue) /\ t.queue[i] = s.queue[i + 1]
           /\ \A i \in 1 .. Len(s.queue) : i # 1 => i - 1 \in 1 .. Len(t.queue) /\ t.queue[i - 1] = s.queue[i]
<1>1. s.queue \in Seq(Events)
    BY DEF ServerType
<1>2. t.queue = Tail(s.queue) /\ t.conn = s.conn /\ SameTimer(s, t)
    BY DEF ServerType, SameTimer
<1>3. Tail(s.queue) \in Seq(Events)
    BY <1>1
<1>4. t \in ServerType
    BY <1>3 DEF ServerType
<1> QED BY <1>1, <1>2, <1>4

\* The event of a turn gives the turn to its connection.
LEMMA PopKeeps ==
    ASSUME NEW s, Free(s), s.queue # <<>>, s.blocked.conn = None, NEW t, t = [s EXCEPT !.queue = Tail(@)],
           NEW e, e = Head(s.queue)
    PROVE  /\ e \in Events /\ t.conn = s.conn
           /\ Turn(e) => Held(t, e.conn)
           /\ e.op = "start" => t.conn[e.conn].open /\ ~t.conn[e.conn].close_connection
           /\ ~Turn(e) => Free(t)
<1>0. s \in ServerType /\ Inv(s, s.tasks, None) /\ None \notin Conns
    BY ConnectionAssumption DEF Free, ConnectionAssumption
<1>1. /\ t \in ServerType /\ SameTimer(s, t) /\ t.conn = s.conn
      /\ e = s.queue[1] /\ 1 \in 1 .. Len(s.queue) /\ s.queue[1] \in Events
    BY ONLY <1>0, PopFields, s.queue # <<>>, t = [s EXCEPT !.queue = Tail(@)], e = Head(s.queue)
<1>2. /\ \A i \in 1 .. Len(t.queue) : i + 1 \in 1 .. Len(s.queue) /\ t.queue[i] = s.queue[i + 1]
      /\ \A i \in 1 .. Len(s.queue) : i # 1 => i - 1 \in 1 .. Len(t.queue) /\ t.queue[i - 1] = s.queue[i]
    BY ONLY <1>0, PopFields, s.queue # <<>>, t = [s EXCEPT !.queue = Tail(@)]
<1>3. t.tasks = s.tasks /\ t.highest_id = s.highest_id /\ t.blocked = s.blocked
    BY <1>1 DEF SameTimer
<1>4. EventOK(s, None, e)
    BY <1>0, <1>1 DEF Inv, InvQueue
<1>5. \A i \in 1 .. Len(t.queue) : EventOK(s, None, t.queue[i])
    BY <1>0, <1>2 DEF Inv, InvQueue
<1>6. \A i, j \in 1 .. Len(t.queue) :
          Turn(t.queue[i]) /\ Turn(t.queue[j]) /\ t.queue[i].conn = t.queue[j].conn => i = j
    BY <1>0, <1>2 DEF Inv, InvQueue
<1>7. Turn(e) => \A i \in 1 .. Len(t.queue) : Turn(t.queue[i]) => t.queue[i].conn # e.conn
    <2> SUFFICES ASSUME Turn(e), NEW i \in 1 .. Len(t.queue), Turn(t.queue[i]), t.queue[i].conn = e.conn
                 PROVE  FALSE
        OBVIOUS
    <2>1. i + 1 \in 1 .. Len(s.queue) /\ t.queue[i] = s.queue[i + 1] /\ i + 1 # 1
        BY <1>2
    <2>2. \A j, k \in 1 .. Len(s.queue) :
             Turn(s.queue[j]) /\ Turn(s.queue[k]) /\ s.queue[j].conn = s.queue[k].conn => j = k
        BY <1>0 DEF Inv, InvQueue
    <2> QED BY ONLY <1>1, <2>1, <2>2, Turn(e), Turn(t.queue[i]), t.queue[i].conn = e.conn
<1>8. ASSUME NEW d \in Conns
      PROVE  /\ Active(t, d) => Active(s, d)
             /\ Active(s, d) => Active(t, d) \/ (e.op = "read" /\ e.conn = d)
    <2>1. ASSUME NEW i \in 1 .. Len(t.queue), t.queue[i].op = "read", t.queue[i].conn = d
          PROVE  Active(s, d)
        BY <2>1, <1>2 DEF Active
    <2>2. ASSUME NEW i \in 1 .. Len(s.queue), s.queue[i].op = "read", s.queue[i].conn = d
          PROVE  Active(t, d) \/ (e.op = "read" /\ e.conn = d)
        BY <2>2, <1>1, <1>2 DEF Active
    <2> QED BY <2>1, <2>2, <1>1 DEF Active
<1>9. ASSUME NEW d \in Conns PROVE ConnOK(t, t.tasks, d)
    <2>1. ConnOK(s, s.tasks, d)
        BY <1>0 DEF Inv
    <2> QED BY <2>1, <1>1, <1>3, <1>8 DEF ConnOK, Owned
<1>10. e.op # "tick" => e.conn \in Conns
    BY <1>1 DEF Events
<1>11. ASSUME Turn(e) PROVE Held(t, e.conn)
    <2>1. e.conn \in Conns
        BY <1>10, <1>11 DEF Turn
    <2>2. InvQueue(t, e.conn)
        <3>1. t.conn = s.conn /\ t.blocked = s.blocked
            BY ONLY <1>1, <1>3
        <3>2. \A i \in 1 .. Len(t.queue) : Turn(t.queue[i]) => t.queue[i].conn # e.conn
            BY ONLY <1>7, <1>11
        <3>3. \A i \in 1 .. Len(t.queue) : EventOK(t, e.conn, t.queue[i])
            BY ONLY <3>1, <3>2, <1>5 DEF EventOK
        <3> QED BY ONLY <3>3, <1>6 DEF InvQueue
    <2>3. InvTasks(t, t.tasks, e.conn)
        <3>1. \A d \in Conns : Active(s, d) => Active(t, d) \/ d = e.conn
            BY <1>8
        <3>2. InvTasks(s, s.tasks, None) /\ \A id \in DOMAIN s.tasks : s.tasks[id].conn \in Conns
            BY <1>0, TasksOf DEF Inv
        <3>3. SUFFICES ASSUME NEW id \in DOMAIN t.tasks
                       PROVE  LET d == t.tasks[id].conn IN
                              /\ id \in 1 .. t.highest_id /\ t.conn[d].accepted /\ t.conn[d].open
                              /\ t.conn[d].task_id = id /\ (Active(t, d) \/ d = e.conn)
                              /\ t.conn[d].reading => t.tasks[id].left + t.conn[d].quiet >= Timeout
            BY DEF InvTasks
        <3>4. t.tasks = s.tasks /\ t.highest_id = s.highest_id /\ t.conn = s.conn
            BY <1>1, <1>3
        <3>5. id \in DOMAIN s.tasks /\ s.tasks[id].conn \in Conns
            BY ONLY <3>2, <3>4, id \in DOMAIN t.tasks
        <3>6. ~(s.tasks[id].conn = None)
            BY ONLY <3>5, <1>0
        <3> QED BY ONLY <3>1, <3>2, <3>4, <3>5, <3>6 DEF InvTasks
    <2>4. Idle(t, t.tasks, e.conn)
        <3>0. /\ s.conn[e.conn].accepted /\ ~s.conn[e.conn].reading
              /\ t.conn = s.conn /\ t.tasks = s.tasks
            BY ONLY <1>1, <1>3, <1>4, <1>11 DEF EventOK
        <3>1. CASE e.op = "start"
            <4>1. s.conn[e.conn].task_id = 0
                BY ONLY <3>1, <1>4 DEF EventOK
            <4>2. \A id \in DOMAIN s.tasks : id \in 1 .. s.highest_id
                BY ONLY <1>0 DEF Inv, InvTasks
            <4>3. s.conn[e.conn].task_id \notin DOMAIN s.tasks
                BY ONLY <4>1, <4>2
            <4> QED BY ONLY <3>0, <4>3 DEF Idle
        <3>2. CASE e.op = "read"
            <4>1. Active(s, e.conn)
                BY <3>2, <1>1 DEF Active
            <4>2. Owned(s, s.tasks, e.conn) \/ s.conn[e.conn].stolen \/ s.conn[e.conn].expired
                BY <4>1, <2>1, <1>0 DEF Inv, ConnOK
            <4> QED BY ONLY <3>0, <4>2 DEF Idle, Owned
        <3> QED BY ONLY <3>1, <3>2, <1>11 DEF Turn
    <2>5. t.blocked.conn = None
        BY ONLY <1>3, s.blocked.conn = None
    <2>6. e.conn # None /\ None \notin Conns
        BY ONLY <2>1, <1>0
    <2> QED BY ONLY <2>1, <2>2, <2>3, <2>4, <2>5, <2>6, <1>1, <1>9 DEF Held, Inv
<1>12. ASSUME ~Turn(e) PROVE Free(t)
    <2>1. InvQueue(t, None)
        <3>1. t.conn = s.conn /\ t.blocked = s.blocked
            BY ONLY <1>1, <1>3
        <3>2. \A i \in 1 .. Len(t.queue) : EventOK(t, None, t.queue[i])
            BY ONLY <3>1, <1>5 DEF EventOK
        <3> QED BY ONLY <3>2, <1>6 DEF InvQueue
    <2>2. InvTasks(t, t.tasks, None)
        <3>1. t.tasks = s.tasks /\ t.highest_id = s.highest_id /\ t.conn = s.conn
            BY ONLY <1>1, <1>3
        <3>2. \A d \in Conns : Active(s, d) => Active(t, d)
            BY ONLY <1>8, <1>12 DEF Turn
        <3>3. InvTasks(s, s.tasks, None) /\ \A id \in DOMAIN s.tasks : s.tasks[id].conn \in Conns
            BY <1>0, TasksOf DEF Inv
        <3> QED BY ONLY <3>1, <3>2, <3>3 DEF InvTasks
    <2>3. t.blocked.conn = None
        BY ONLY <1>3, s.blocked.conn = None
    <2> QED BY ONLY <2>1, <2>2, <2>3, <1>0, <1>1, <1>9 DEF Free, Inv
<1> QED BY <1>1, <1>4, <1>11, <1>12 DEF EventOK

-----------------------------------------------------------------------------
(* A deadline fires.                                                       *)

LEMMA PostFields ==
    ASSUME NEW s \in ServerType, NEW e \in Events, NEW t, t = Post(s, e)
    PROVE  /\ t \in ServerType /\ SameTimer(s, t) /\ t.conn = s.conn /\ t.queue = Append(s.queue, e)
           /\ Len(s.queue) \in Nat /\ Len(t.queue) = Len(s.queue) + 1 /\ t.queue[Len(s.queue) + 1] = e
           /\ \A i \in 1 .. Len(s.queue) : t.queue[i] = s.queue[i]
<1>1. s.queue \in Seq(Events)
    BY DEF ServerType
<1>2. t.queue = Append(s.queue, e) /\ t.conn = s.conn /\ SameTimer(s, t)
    BY DEF Post, ServerType, SameTimer
<1>3. Append(s.queue, e) \in Seq(Events)
    BY <1>1
<1>4. t \in ServerType
    BY <1>3 DEF Post, ServerType
<1> QED BY <1>1, <1>2, <1>4

\* What the queue has got when the socket of c is closed.
Ended(s, t, c) ==
    /\ \A i \in 1 .. Len(s.queue) : i \in 1 .. Len(t.queue) /\ t.queue[i] = s.queue[i]
    /\ \A i \in 1 .. Len(t.queue) :
          \/ i \in 1 .. Len(s.queue)
          \/ t.queue[i].conn = c /\ t.queue[i].op = "written"
          \/ /\ t.queue[i].conn = c /\ t.queue[i].op = "read"
             /\ s.conn[c].reading /\ i = Len(s.queue) + 1
    /\ s.conn[c].reading => /\ Len(s.queue) + 1 \in 1 .. Len(t.queue)
                            /\ t.queue[Len(s.queue) + 1].op = "read"
                            /\ t.queue[Len(s.queue) + 1].conn = c

LEMMA InterruptedFields ==
    ASSUME NEW s \in ServerType, NEW c \in Conns
    PROVE  LET r == Interrupted(s, c) IN
           /\ r \in ServerType /\ SameTimer(s, r) /\ r.conn = s.conn /\ Ended(s, r, c)
<1>1. CASE ~s.conn[c].reading
    BY <1>1, QueueOf DEF Interrupted, Ended, SameTimer
<1>2. CASE s.conn[c].reading
    <2> DEFINE e == Event("read", c, "error")
               r == Interrupted(s, c)
    <2>1. e \in Events /\ e.op = "read" /\ e.conn = c
        BY EventTypes DEF Event
    <2>2. r = Post(s, e)
        BY <1>2 DEF Interrupted
    <2> HIDE DEF e, r
    <2>3. /\ Len(s.queue) \in Nat /\ Len(r.queue) = Len(s.queue) + 1 /\ r.queue[Len(s.queue) + 1] = e
          /\ \A i \in 1 .. Len(s.queue) : r.queue[i] = s.queue[i]
          /\ r \in ServerType /\ SameTimer(s, r) /\ r.conn = s.conn
        BY <2>1, <2>2, PostFields
    <2>4. Ended(s, r, c)
        BY <2>1, <2>3, <1>2 DEF Ended
    <2> QED BY <2>3, <2>4 DEF r
<1> QED BY <1>1, <1>2

LEMMA WroteEnds ==
    ASSUME NEW s \in ServerType, NEW c \in Conns, NEW r \in ServerType, Ended(s, r, c),
           NEW u, Wrote(r, u, c)
    PROVE  Ended(s, u, c)
<1>1. Len(s.queue) \in Nat /\ Len(r.queue) \in Nat
    BY QueueOf
<1>2. CASE u.queue = r.queue
    BY <1>2 DEF Ended
<1>3. ASSUME NEW e \in Events, e.op = "written", e.conn = c, u.queue = Append(r.queue, e)
      PROVE  Ended(s, u, c)
    <2>1. /\ Len(u.queue) = Len(r.queue) + 1 /\ u.queue[Len(r.queue) + 1] = e
          /\ \A i \in 1 .. Len(r.queue) : u.queue[i] = r.queue[i]
        BY <1>3, QueueOf
    <2>2. \A i \in 1 .. Len(u.queue) : i \in 1 .. Len(r.queue) \/ i = Len(r.queue) + 1
        BY <2>1, <1>1
    <2>3. \A i \in 1 .. Len(r.queue) : i \in 1 .. Len(u.queue)
        BY <2>1, <1>1
    <2>4. \A i \in 1 .. Len(s.queue) : i \in 1 .. Len(u.queue) /\ u.queue[i] = s.queue[i]
        BY <2>1, <2>3 DEF Ended
    <2>5. ASSUME NEW i \in 1 .. Len(u.queue)
          PROVE  \/ i \in 1 .. Len(s.queue)
                 \/ u.queue[i].conn = c /\ u.queue[i].op = "written"
                 \/ /\ u.queue[i].conn = c /\ u.queue[i].op = "read"
                    /\ s.conn[c].reading /\ i = Len(s.queue) + 1
        BY <1>3, <2>1, <2>2 DEF Ended
    <2>6. s.conn[c].reading => /\ Len(s.queue) + 1 \in 1 .. Len(u.queue)
                               /\ u.queue[Len(s.queue) + 1].op = "read"
                               /\ u.queue[Len(s.queue) + 1].conn = c
        BY <2>1, <2>3 DEF Ended
    <2> QED BY <2>4, <2>5, <2>6 DEF Ended
<1> QED BY <1>2, <1>3 DEF Wrote

\* What a deadline does to a connection that is open.
Fired(s, t, c) ==
    /\ t \in ServerType /\ SameTimer(s, t) /\ Ended(s, t, c)
    /\ ~t.conn[c].open /\ ~t.conn[c].reading /\ t.conn[c].expired /\ t.conn[c].quiet = 0
    /\ t.conn[c].accepted = s.conn[c].accepted /\ t.conn[c].task_id = s.conn[c].task_id
    /\ t.conn[c].close_connection = s.conn[c].close_connection
    /\ t.conn[c].stolen = s.conn[c].stolen
    /\ \A d \in Conns \ {c} : Alike(t.conn[d], s.conn[d]) /\ t.conn[d].stolen = s.conn[d].stolen

LEMMA ExpireFields ==
    ASSUME NEW s \in ServerType, NEW c \in Conns, s.conn[c].open
    PROVE  Fired(s, Expire(s, c), c)
<1> DEFINE r == Interrupted(s, c)
           v == Close(s, c)
           z == [v.conn[c] EXCEPT !.expired = TRUE]
           t == Expire(s, c)
<1>1. r \in ServerType /\ SameTimer(s, r) /\ r.conn = s.conn /\ Ended(s, r, c)
    BY InterruptedFields
<1>2. PICK u, y : /\ Unaffected(r, u, c) /\ y \in ConnType
                  /\ Shut([u.conn[c] EXCEPT !.reading = FALSE], y) /\ y.quiet = 0
                  /\ Only(u, v, c, y)
    BY <1>1, CloseIs
<1>3. t = [v EXCEPT !.conn = [v.conn EXCEPT ![c] = z]]
    BY DEF Expire
<1> HIDE DEF r, v, t
<1>4. Ended(s, u, c) /\ u \in ServerType
    BY <1>1, <1>2, WroteEnds DEF Unaffected
<1>5. v.queue = u.queue /\ v \in ServerType /\ v.conn[c] = y /\ SameTimer(u, v)
      /\ \A d \in Conns \ {c} : v.conn[d] = u.conn[d]
    BY <1>2 DEF Only
<1>6. z \in ConnType /\ z = [y EXCEPT !.expired = TRUE]
    BY <1>2, <1>5 DEF ConnType
<1>7. Only(v, t, c, z)
    BY <1>3, <1>5, <1>6, PutConn
<1> HIDE DEF z
<1>8. /\ t \in ServerType /\ SameTimer(v, t) /\ t.queue = u.queue
      /\ t.conn[c] = z /\ \A d \in Conns \ {c} : t.conn[d] = u.conn[d]
    BY <1>5, <1>7 DEF Only
<1>9. u.conn[c] \in ConnType
    BY <1>4 DEF ServerType
<1>10. /\ ~z.open /\ ~z.reading /\ z.expired /\ z.quiet = 0
       /\ z.accepted = u.conn[c].accepted /\ z.task_id = u.conn[c].task_id
       /\ z.close_connection = u.conn[c].close_connection /\ z.stolen = u.conn[c].stolen
    BY <1>2, <1>6, <1>9 DEF Shut, ConnType
<1>11. \A d \in Conns : Alike(u.conn[d], s.conn[d]) /\ u.conn[d].stolen = s.conn[d].stolen
    BY <1>1, <1>2 DEF Unaffected
<1>12. SameTimer(s, t)
    BY <1>1, <1>2, <1>5, <1>8 DEF SameTimer, Unaffected
<1>13. Ended(s, t, c)
    BY <1>4, <1>8 DEF Ended
<1>14. Alike(u.conn[c], s.conn[c]) /\ u.conn[c].stolen = s.conn[c].stolen
    BY <1>11
<1>15. \A d \in Conns \ {c} : Alike(t.conn[d], s.conn[d]) /\ t.conn[d].stolen = s.conn[d].stolen
    BY <1>8, <1>11
<1> QED BY <1>8, <1>10, <1>12, <1>13, <1>14, <1>15 DEF Fired, Alike, t

\* The invariant holds without the task that has run.
LEMMA ExpireKeeps ==
    ASSUME NEW s \in ServerType, NEW tasks \in Tasks, Inv(s, tasks, None), NEW id \in DOMAIN tasks,
           NEW rest, rest = [i \in DOMAIN tasks \ {id} |-> tasks[i]]
    PROVE  LET c == tasks[id].conn IN
           Inv(Expire(s, c), rest, None) /\ Fired(s, Expire(s, c), c)
<1> DEFINE c == tasks[id].conn
           t == Expire(s, c)
<1>0. None \notin Conns /\ Timeout \in Nat
    BY ConnectionAssumption DEF ConnectionAssumption
<1>1. \A i \in DOMAIN tasks : tasks[i].conn \in Conns
    BY TasksAre DEF TaskType
<1>2. /\ c \in Conns /\ id \in 1 .. s.highest_id /\ s.conn[c].accepted /\ s.conn[c].open
      /\ s.conn[c].task_id = id
    BY <1>1 DEF Inv, InvTasks
<1>3. Fired(s, t, c)
    BY <1>2, ExpireFields
<1>4. DOMAIN rest = DOMAIN tasks \ {id} /\ \A i \in DOMAIN rest : rest[i] = tasks[i]
    OBVIOUS
<1>5. \A i \in DOMAIN rest : rest[i].conn \in Conns \ {c}
    BY <1>1, <1>4 DEF Inv, InvTasks
<1> HIDE DEF c, t
<1>6. /\ t.blocked = s.blocked /\ t.highest_id = s.highest_id
      /\ \A d \in Conns : t.conn[d].accepted = s.conn[d].accepted
                          /\ t.conn[d].task_id = s.conn[d].task_id
                          /\ t.conn[d].close_connection = s.conn[d].close_connection
                          /\ t.conn[d].stolen = s.conn[d].stolen
                          /\ (t.conn[d].reading => s.conn[d].reading)
                          /\ (t.conn[d].open => s.conn[d].open)
                          /\ (s.conn[d].expired => t.conn[d].expired)
    BY <1>2, <1>3 DEF Fired, SameTimer, Alike
<1>7. Len(s.queue) \in Nat /\ \A i \in 1 .. Len(s.queue) : s.queue[i].op # "tick" => s.queue[i].conn \in Conns
    BY QueueOf
<1>8. /\ \A i \in 1 .. Len(s.queue) : i \in 1 .. Len(t.queue) /\ t.queue[i] = s.queue[i]
      /\ \A i \in 1 .. Len(t.queue) :
            \/ i \in 1 .. Len(s.queue)
            \/ t.queue[i].conn = c /\ t.queue[i].op = "written"
            \/ /\ t.queue[i].conn = c /\ t.queue[i].op = "read"
               /\ s.conn[c].reading /\ i = Len(s.queue) + 1
      /\ s.conn[c].reading => /\ Len(s.queue) + 1 \in 1 .. Len(t.queue)
                              /\ t.queue[Len(s.queue) + 1].op = "read"
                              /\ t.queue[Len(s.queue) + 1].conn = c
    BY <1>3 DEF Fired, Ended
<1>9. /\ \A d \in Conns \ {c} : Active(t, d) <=> Active(s, d)
      /\ Active(t, c) => Active(s, c)
    <2>1. ASSUME NEW d \in Conns \ {c} PROVE Active(t, d) <=> Active(s, d)
        <3>1. t.conn[d].reading = s.conn[d].reading
            BY <1>3 DEF Fired, Alike
        <3> QED BY <3>1, <1>8 DEF Active
    <2>2. Active(t, c) => Active(s, c)
        BY <1>3, <1>8 DEF Active, Fired
    <2> QED BY <2>1, <2>2
<1>10. s.blocked.conn \in Conns => ~s.conn[s.blocked.conn].reading
    BY DEF Inv
<1>11. \A i \in 1 .. Len(s.queue) : Turn(s.queue[i]) => ~s.conn[s.queue[i].conn].reading
    BY DEF Inv, InvQueue, EventOK
<1>12. \A i \in 1 .. Len(t.queue) : EventOK(t, None, t.queue[i])
    <2> SUFFICES ASSUME NEW i \in 1 .. Len(t.queue) PROVE EventOK(t, None, t.queue[i])
        OBVIOUS
    <2>1. CASE i \in 1 .. Len(s.queue)
        <3>1. EventOK(s, None, s.queue[i]) /\ t.queue[i] = s.queue[i]
            BY <2>1, <1>8 DEF Inv, InvQueue
        <3>2. CASE s.queue[i].op = "tick"
            BY <3>1, <3>2 DEF EventOK, Turn
        <3>3. CASE s.queue[i].op # "tick" /\ s.queue[i].conn = c
            BY <3>1, <3>3, <1>2, <1>6 DEF EventOK, Turn
        <3>4. CASE s.queue[i].op # "tick" /\ s.queue[i].conn \in Conns \ {c}
            <4>1. Alike(t.conn[s.queue[i].conn], s.conn[s.queue[i].conn])
                BY <3>4, <1>3 DEF Fired
            <4> QED BY <3>1, <3>4, <4>1, <1>6 DEF EventOK, Alike
        <3> QED BY <2>1, <3>2, <3>3, <3>4, <1>7
    <2>2. CASE t.queue[i].conn = c /\ t.queue[i].op = "written"
        BY <2>2, <1>2, <1>6 DEF EventOK, Turn
    <2>3. CASE t.queue[i].conn = c /\ t.queue[i].op = "read" /\ s.conn[c].reading
        BY <2>3, <1>0, <1>2, <1>3, <1>6, <1>10 DEF EventOK, Turn, Fired
    <2> QED BY <2>1, <2>2, <2>3, <1>8
<1>13. ASSUME NEW i \in 1 .. Len(t.queue), NEW j \in 1 .. Len(t.queue),
              Turn(t.queue[i]), Turn(t.queue[j]), t.queue[i].conn = t.queue[j].conn
       PROVE  i = j
    <2>1. \A k \in {i, j} : \/ k \in 1 .. Len(s.queue) /\ t.queue[k] = s.queue[k]
                            \/ s.conn[c].reading /\ t.queue[k].conn = c /\ k = Len(s.queue) + 1
        BY <1>8, <1>13 DEF Turn
    <2>2. CASE i \in 1 .. Len(s.queue) /\ j \in 1 .. Len(s.queue)
        BY <2>2, <1>8, <1>13 DEF Inv, InvQueue
    <2>3. CASE i \notin 1 .. Len(s.queue) \/ j \notin 1 .. Len(s.queue)
        <3>1. s.conn[c].reading /\ t.queue[i].conn = c /\ t.queue[j].conn = c
            BY <2>1, <2>3, <1>13
        <3>2. i \notin 1 .. Len(s.queue) /\ j \notin 1 .. Len(s.queue)
            BY <3>1, <2>1, <1>7, <1>11, <1>13
        <3> QED BY <3>2, <2>1
    <2> QED BY <2>2, <2>3
<1>14. ASSUME NEW d \in Conns PROVE ConnOK(t, rest, d)
    <2>1. ConnOK(s, tasks, d)
        BY DEF Inv
    <2>2. t.conn[d].stolen => \E x \in Conns \ {d} : t.conn[x].expired
        BY <2>1, <1>6 DEF ConnOK
    <2>3. CASE d = c
        BY <2>1, <2>2, <2>3, <1>0, <1>2, <1>3, <1>6, <1>9 DEF ConnOK, Fired
    <2>4. CASE d # c
        <3>1. Alike(t.conn[d], s.conn[d]) /\ t.conn[d].stolen = s.conn[d].stolen
            BY <2>4, <1>3 DEF Fired
        <3>2. Owned(s, tasks, d) => Owned(t, rest, d)
            BY <2>4, <3>1, <1>4 DEF Owned, Alike, c
        <3>3. Active(t, d) <=> Active(s, d)
            BY <2>4, <1>9
        <3> QED BY <2>1, <2>2, <3>1, <3>2, <3>3 DEF ConnOK, Alike
    <2> QED BY <2>3, <2>4
<1>15. InvTasks(t, rest, None)
    <2> SUFFICES ASSUME NEW i \in DOMAIN rest
                 PROVE  LET d == rest[i].conn IN
                        /\ i \in 1 .. t.highest_id /\ t.conn[d].accepted /\ t.conn[d].open
                        /\ t.conn[d].task_id = i /\ (Active(t, d) \/ d = None)
                        /\ t.conn[d].reading => rest[i].left + t.conn[d].quiet >= Timeout
        BY DEF InvTasks
    <2> DEFINE d == rest[i].conn
    <2>1. /\ d \in Conns \ {c} /\ i \in DOMAIN tasks /\ rest[i] = tasks[i] /\ tasks[i].conn = d
        BY <1>4, <1>5
    <2>2. /\ i \in 1 .. s.highest_id /\ s.conn[d].accepted /\ s.conn[d].open
          /\ s.conn[d].task_id = i /\ (Active(s, d) \/ d = None)
          /\ s.conn[d].reading => tasks[i].left + s.conn[d].quiet >= Timeout
        BY <2>1 DEF Inv, InvTasks
    <2> HIDE DEF d
    <2>3. Alike(t.conn[d], s.conn[d]) /\ (Active(t, d) <=> Active(s, d))
        BY <2>1, <1>3, <1>9 DEF Fired
    <2>4. /\ i \in 1 .. t.highest_id /\ t.conn[d].accepted /\ t.conn[d].open
          /\ t.conn[d].task_id = i /\ (Active(t, d) \/ d = None)
          /\ t.conn[d].reading => rest[i].left + t.conn[d].quiet >= Timeout
        BY <2>1, <2>2, <2>3, <1>6 DEF Alike
    <2> QED BY <2>4 DEF d
<1>16. t.blocked.conn \in Conns =>
           LET d == t.blocked.conn IN
           t.conn[d].accepted /\ ~t.conn[d].reading /\ t.conn[d].task_id \notin DOMAIN rest
    BY <1>4, <1>6 DEF Inv
<1>17. Inv(t, rest, None)
    BY <1>0, <1>12, <1>13, <1>14, <1>15, <1>16 DEF Inv, InvQueue
<1> QED BY <1>3, <1>17 DEF c, t

-----------------------------------------------------------------------------
(* process_tasks: the deadlines that are due fire one after another.       *)

\* Induction, for a set.
LEMMA NatSet ==
    ASSUME NEW S, 0 \in S, \A n \in Nat : n \in S => n + 1 \in S
    PROVE  Nat \subseteq S
<1> SUFFICES ASSUME NEW m \in Nat, m \notin S PROVE FALSE
    OBVIOUS
<1> DEFINE R == {ss \in Nat \X Nat : ss[1] < ss[2]}
           T == {n \in Nat : n \notin S}
<1>1. IsWellFoundedOn(R, Nat)
    BY NatLessThanWellFounded DEF OpToRel
<1>2. T \subseteq Nat /\ T # {}
    OBVIOUS
<1>3. \A x, y \in Nat : y < x => <<y, x>> \in R
    OBVIOUS
<1> HIDE DEF R
<1>4. PICK x \in T : \A y \in T : ~(<<y, x>> \in R)
    BY <1>1, <1>2, WFMin
<1>5. x \in Nat /\ x # 0 /\ x - 1 \in Nat /\ x - 1 < x
    BY <1>4
<1>6. x - 1 \notin T
    BY <1>3, <1>4, <1>5
<1> QED BY <1>4, <1>5, <1>6

\* What the recursive function of RunDue is.
Ran(s, f) ==
    f = [id \in 0 .. s.highest_id |->
            IF id = 0 THEN s
            ELSE IF id \in Due(s) THEN Expire(f[id - 1], s.tasks[id].conn)
            ELSE f[id - 1]]

LEMMA RunDueIs ==
    ASSUME NEW s \in ServerType
    PROVE  \E f : Ran(s, f) /\ RunDue(s) = f[s.highest_id]
<1> DEFINE Up(n, f) ==
               f = [id \in 0 .. n |->
                       IF id = 0 THEN s
                       ELSE IF id \in Due(s) THEN Expire(f[id - 1], s.tasks[id].conn)
                       ELSE f[id - 1]]
           S == {n \in Nat : \E f : Up(n, f)}
<1>1. 0 \in S
    <2>1. Up(0, [id \in 0 .. 0 |-> s])
        OBVIOUS
    <2> QED BY <2>1
<1>2. ASSUME NEW n \in Nat, n \in S PROVE n + 1 \in S
    <2>1. PICK f : Up(n, f)
        BY <1>2
    <2> DEFINE last == IF n + 1 \in Due(s) THEN Expire(f[n], s.tasks[n + 1].conn) ELSE f[n]
               g == [id \in 0 .. n + 1 |-> IF id = n + 1 THEN last ELSE f[id]]
    <2> HIDE DEF last
    <2>2. \A id \in 0 .. n + 1 : id \in 0 .. n \/ id = n + 1
        OBVIOUS
    <2>3. ASSUME NEW id \in 0 .. n + 1
          PROVE  g[id] = IF id = 0 THEN s
                         ELSE IF id \in Due(s) THEN Expire(g[id - 1], s.tasks[id].conn)
                         ELSE g[id - 1]
        <3>1. CASE id = 0
            BY <2>1, <3>1
        <3>2. CASE id = n + 1
            <4>1. g[id] = last /\ g[id - 1] = f[n] /\ id # 0
                BY <3>2
            <4> QED BY <3>2, <4>1 DEF last
        <3>3. CASE id # 0 /\ id # n + 1
            <4>1. id \in 0 .. n /\ id - 1 \in 0 .. n /\ id - 1 # n + 1 /\ id - 1 \in 0 .. n + 1
                BY <3>3
            <4>2. g[id] = f[id] /\ g[id - 1] = f[id - 1]
                BY <4>1
            <4>3. f[id] = IF id = 0 THEN s
                         ELSE IF id \in Due(s) THEN Expire(f[id - 1], s.tasks[id].conn)
                         ELSE f[id - 1]
                BY <2>1, <4>1
            <4> QED BY <4>2, <4>3
        <3> QED BY <3>1, <3>2, <3>3
    <2>4. DOMAIN g = 0 .. n + 1 /\ g = [id \in 0 .. n + 1 |-> g[id]]
        OBVIOUS
    <2> HIDE DEF g
    <2>5. Up(n + 1, g)
        BY <2>3, <2>4
    <2> QED BY <2>5
<1>3. s.highest_id \in Nat
    BY DEF ServerType
<1> HIDE DEF Up
<1>4. s.highest_id \in S
    <2> HIDE DEF S
    <2> QED BY <1>1, <1>2, <1>3, NatSet
<1>5. \E f : Ran(s, f)
    BY <1>4 DEF Ran, Up
<1>6. RunDue(s) = (CHOOSE f : Ran(s, f))[s.highest_id]
    BY DEF RunDue, Ran
<1> QED BY <1>5, <1>6

\* The tasks that are left when those that are due up to n have run.
Waiting(s, n) == [i \in {j \in DOMAIN s.tasks : ~(j \in Due(s) /\ j <= n)} |-> s.tasks[i]]

\* The state that process_tasks has reached then.
Reached(s, t, n) ==
    /\ t \in ServerType /\ SameTimer(s, t) /\ Inv(t, Waiting(s, n), None)
    /\ \A c \in Conns : t.conn[c].expired /\ ~s.conn[c].expired
                        => \E id \in Due(s) : s.tasks[id].conn = c

LEMMA WaitingIs ==
    ASSUME NEW s \in ServerType, NEW n \in Nat
    PROVE  /\ Waiting(s, n) \in Tasks
           /\ \A i \in DOMAIN Waiting(s, n) : i \in DOMAIN s.tasks /\ Waiting(s, n)[i] = s.tasks[i]
<1>1. /\ DOMAIN s.tasks \subseteq Nat
      /\ \A id \in DOMAIN s.tasks : s.tasks[id] \in TaskType
    BY TasksOf
<1>2. /\ DOMAIN Waiting(s, n) \subseteq DOMAIN s.tasks
      /\ \A i \in DOMAIN Waiting(s, n) : Waiting(s, n)[i] = s.tasks[i]
    BY DEF Waiting
<1>3. Waiting(s, n) = [i \in DOMAIN Waiting(s, n) |-> Waiting(s, n)[i]]
    BY DEF Waiting
<1>4. Waiting(s, n) \in [DOMAIN Waiting(s, n) -> TaskType]
    BY <1>1, <1>2, <1>3
<1>5. Waiting(s, n) \in Tasks
    BY <1>1, <1>2, <1>4, TasksAre
<1> QED BY <1>2, <1>5

LEMMA NextRuns ==
    ASSUME NEW s, Free(s), NEW n \in Nat, NEW t, Reached(s, t, n), n + 1 <= s.highest_id,
           NEW u, u = IF n + 1 \in Due(s) THEN Expire(t, s.tasks[n + 1].conn) ELSE t
    PROVE  Reached(s, u, n + 1)
<1>0. s \in ServerType /\ t \in ServerType
    BY DEF Free, Reached
<1>1. DOMAIN s.tasks \subseteq Nat /\ Due(s) \subseteq DOMAIN s.tasks
    BY <1>0, TasksOf DEF Due
<1>2. CASE n + 1 \notin Due(s)
    <2>1. {j \in DOMAIN s.tasks : ~(j \in Due(s) /\ j <= n)}
          = {j \in DOMAIN s.tasks : ~(j \in Due(s) /\ j <= n + 1)}
        BY <1>1, <1>2
    <2>2. Waiting(s, n + 1) = Waiting(s, n)
        BY <2>1 DEF Waiting
    <2> QED BY <1>2, <2>2 DEF Reached
<1>3. CASE n + 1 \in Due(s)
    <2> DEFINE c == s.tasks[n + 1].conn
    <2>1. n + 1 \in DOMAIN s.tasks /\ n + 1 \in DOMAIN Waiting(s, n)
        BY <1>1, <1>3 DEF Waiting
    <2>2. Waiting(s, n)[n + 1] = s.tasks[n + 1] /\ Waiting(s, n) \in Tasks
        BY <1>0, <2>1, WaitingIs
    <2>3. {j \in DOMAIN s.tasks : ~(j \in Due(s) /\ j <= n + 1)} = DOMAIN Waiting(s, n) \ {n + 1}
        BY <1>1, <1>3 DEF Waiting
    <2>4. \A i \in DOMAIN Waiting(s, n) : Waiting(s, n)[i] = s.tasks[i]
        BY <1>0, WaitingIs
    <2>5. Waiting(s, n + 1) = [i \in DOMAIN Waiting(s, n) \ {n + 1} |-> Waiting(s, n)[i]]
        BY <2>3, <2>4 DEF Waiting
    <2>6. Inv(t, Waiting(s, n), None)
        BY DEF Reached
    <2>7. u = Expire(t, c) /\ c \in Conns
        BY <1>0, <1>3, <2>1, TasksOf
    <2>8. Inv(u, Waiting(s, n + 1), None) /\ Fired(t, u, c)
        <3> DEFINE w == Waiting(s, n)
                   v == Waiting(s, n + 1)
        <3>1. w[n + 1].conn = c
            BY ONLY <2>2
        <3> HIDE DEF w, v, c
        <3>2. w \in Tasks /\ n + 1 \in DOMAIN w /\ v = [i \in DOMAIN w \ {n + 1} |-> w[i]] /\ Inv(t, w, None)
            BY ONLY <2>1, <2>2, <2>5, <2>6 DEF w, v
        <3>3. Inv(Expire(t, c), v, None) /\ Fired(t, Expire(t, c), c)
            BY ONLY <1>0, <3>1, <3>2, ExpireKeeps
        <3> QED BY ONLY <3>3, <2>7 DEF v
    <2> HIDE DEF c
    <2>9. \A d \in Conns : u.conn[d].expired => t.conn[d].expired \/ d = c
        BY <2>8 DEF Fired, Alike
    <2>10. u \in ServerType /\ SameTimer(s, u)
        BY <2>8 DEF Fired, SameTimer, Reached
    <2>11. \A d \in Conns : u.conn[d].expired /\ ~s.conn[d].expired
                            => \E id \in Due(s) : s.tasks[id].conn = d
        BY <1>3, <2>9 DEF Reached, c
    <2> QED BY <2>8, <2>10, <2>11 DEF Reached
<1> QED BY <1>2, <1>3

LEMMA RunDueKeeps ==
    ASSUME NEW s, Free(s)
    PROVE  Reached(s, RunDue(s), s.highest_id)
<1>0. s \in ServerType /\ s.highest_id \in Nat
    BY DEF Free, ServerType
<1>1. PICK f : Ran(s, f) /\ RunDue(s) = f[s.highest_id]
    BY <1>0, RunDueIs
<1> DEFINE S == {n \in Nat : n <= s.highest_id => Reached(s, f[n], n)}
<1>2. \A n \in 0 .. s.highest_id :
          f[n] = IF n = 0 THEN s
                 ELSE IF n \in Due(s) THEN Expire(f[n - 1], s.tasks[n].conn) ELSE f[n - 1]
    BY <1>1 DEF Ran
<1>3. 0 \in S
    <2>1. f[0] = s
        BY <1>0, <1>2
    <2>2. {j \in DOMAIN s.tasks : ~(j \in Due(s) /\ j <= 0)} = DOMAIN s.tasks
        BY <1>0, TasksOf DEF Free, Inv, InvTasks
    <2>3. s.tasks \in [DOMAIN s.tasks -> TaskType]
        BY <1>0, TasksAre DEF ServerType
    <2>4. Waiting(s, 0) = s.tasks
        BY <2>2, <2>3 DEF Waiting
    <2>5. Reached(s, s, 0)
        BY <2>4 DEF Reached, Free, SameTimer
    <2> QED BY <2>1, <2>5
<1>4. ASSUME NEW n \in Nat, n \in S PROVE n + 1 \in S
    <2> SUFFICES ASSUME n + 1 <= s.highest_id PROVE Reached(s, f[n + 1], n + 1)
        OBVIOUS
    <2>1. Reached(s, f[n], n)
        BY <1>0, <1>4
    <2>2. n + 1 \in 0 .. s.highest_id /\ n + 1 # 0 /\ (n + 1) - 1 = n
        BY <1>0
    <2>3. f[n + 1] = IF n + 1 \in Due(s) THEN Expire(f[n], s.tasks[n + 1].conn) ELSE f[n]
        BY <1>2, <2>2
    <2> QED BY <2>1, <2>3, NextRuns
<1>5. s.highest_id \in S
    <2> HIDE DEF S
    <2> QED BY <1>0, <1>3, <1>4, NatSet
<1> QED BY <1>0, <1>1, <1>5

\* The timer forgets the tasks that have run.
LEMMA TickKeeps ==
    ASSUME NEW s, Free(s)
    PROVE  /\ Free(Tick(s))
           /\ \A c \in Conns : Tick(s).conn[c].expired /\ ~s.conn[c].expired
                               => \E id \in Due(s) : s.tasks[id].conn = c
<1> DEFINE t == RunDue(s)
           rest == Waiting(s, s.highest_id)
           u == Tick(s)
<1>0. s \in ServerType /\ s.highest_id \in Nat
    BY DEF Free, ServerType
<1>1. Reached(s, t, s.highest_id)
    BY RunDueKeeps
<1> HIDE DEF t
<1>2. t \in ServerType /\ t.tasks = s.tasks /\ t.highest_id = s.highest_id /\ Inv(t, rest, None)
    BY <1>1 DEF Reached, SameTimer
<1>3. {j \in DOMAIN s.tasks : ~(j \in Due(s) /\ j <= s.highest_id)} = DOMAIN s.tasks \ Due(s)
    BY DEF Free, Inv, InvTasks, Due
<1>4. rest = [i \in DOMAIN s.tasks \ Due(s) |-> s.tasks[i]]
    BY <1>3 DEF Waiting
<1>5. u = [t EXCEPT !.tasks = rest, !.highest_id = NextIds(DOMAIN s.tasks \ Due(s), s.highest_id),
                    !.armed = TRUE]
    BY <1>2, <1>4 DEF Tick, t
<1>6. rest \in Tasks
    BY <1>0, WaitingIs
<1>7. DOMAIN rest = DOMAIN s.tasks \ Due(s)
    BY <1>4
<1> HIDE DEF rest, u
<1>8. /\ u.tasks = rest /\ u.conn = t.conn /\ u.queue = t.queue /\ u.blocked = t.blocked
      /\ u.highest_id = NextIds(DOMAIN rest, s.highest_id)
    BY <1>2, <1>5, <1>7 DEF ServerType
<1>9. u \in ServerType
    BY <1>0, <1>2, <1>5, <1>6 DEF ServerType, NextIds
<1>10. \A d \in Conns : Active(u, d) <=> Active(t, d)
    BY <1>8 DEF Active
<1>11. InvQueue(u, None)
    BY <1>2, <1>8 DEF Inv, InvQueue, EventOK
<1>12. \A d \in Conns : ConnOK(u, rest, d)
    BY <1>2, <1>8, <1>10 DEF Inv, ConnOK, Owned
<1>13. InvTasks(u, rest, None)
    <2>1. \A i \in DOMAIN rest : rest[i].conn \in Conns
        BY <1>6, TasksAre DEF TaskType
    <2>2. InvTasks(t, rest, None)
        BY <1>2 DEF Inv
    <2>3. \A i \in DOMAIN rest : u.highest_id = t.highest_id
        BY <1>2, <1>8 DEF NextIds
    <2> QED BY <2>1, <2>2, <2>3, <1>8, <1>10 DEF InvTasks
<1>14. Inv(u, u.tasks, None)
    <2>1. None \notin Conns
        BY ConnectionAssumption DEF ConnectionAssumption
    <2>2. t.blocked.conn \in Conns =>
              LET c == t.blocked.conn IN
              t.conn[c].accepted /\ ~t.conn[c].reading /\ t.conn[c].task_id \notin DOMAIN rest
        BY <1>2 DEF Inv
    <2> QED BY <2>1, <2>2, <1>8, <1>11, <1>12, <1>13 DEF Inv
<1>15. \A c \in Conns : u.conn[c].expired /\ ~s.conn[c].expired
                        => \E id \in Due(s) : s.tasks[id].conn = c
    BY <1>1, <1>8 DEF Reached
<1> QED BY <1>9, <1>14, <1>15 DEF Free, u

\* A deadline has closed c for a reason.
Timely(s, t) ==
    \A c \in Conns : t.conn[c].expired /\ ~s.conn[c].expired
                     => \/ s.conn[c].quiet = Timeout
                        \/ \E i \in DOMAIN s.queue : s.queue[i].op = "read" /\ s.queue[i].conn = c

\* Only a deadline that is due fires; a connection that awaits a message has then been
\* silent for the whole timeout.
LEMMA TickInTime ==
    ASSUME NEW s, Free(s)
    PROVE  Timely(s, Tick(s))
<1> SUFFICES ASSUME NEW c \in Conns, Tick(s).conn[c].expired, ~s.conn[c].expired
             PROVE  \/ s.conn[c].quiet = Timeout
                    \/ \E i \in DOMAIN s.queue : s.queue[i].op = "read" /\ s.queue[i].conn = c
    BY DEF Timely
<1>1. PICK id \in Due(s) : s.tasks[id].conn = c
    BY TickKeeps
<1>2. id \in DOMAIN s.tasks /\ s.tasks[id].left = 0
    BY DEF Due
<1>3. None \notin Conns /\ Timeout \in Nat /\ s.conn[c].quiet \in Nat
    BY ConnectionAssumption DEF ConnectionAssumption, Free, ServerType, ConnType
<1>4. Active(s, c) /\ (s.conn[c].reading => s.tasks[id].left + s.conn[c].quiet >= Timeout)
    BY <1>1, <1>2, <1>3 DEF Free, Inv, InvTasks
<1>5. s.conn[c].quiet <= Timeout
    BY DEF Free, Inv, ConnOK
<1>6. CASE s.conn[c].reading
    BY <1>2, <1>3, <1>4, <1>5, <1>6
<1>7. CASE ~s.conn[c].reading
    <2>1. DOMAIN s.queue = 1 .. Len(s.queue)
        BY QueueOf DEF Free
    <2> QED BY <1>4, <1>7, <2>1 DEF Active
<1> QED BY <1>6, <1>7

-----------------------------------------------------------------------------
(* The steps of the worker.                                                *)

LEMMA WorkKeeps ==
    ASSUME NEW s, Free(s), s.queue # <<>>, s.blocked.conn = None,
           NEW t, t = Handler([s EXCEPT !.queue = Tail(@)], Head(s.queue))
    PROVE  Free(t) /\ Timely(s, t)
<1> DEFINE p == [s EXCEPT !.queue = Tail(@)]
           e == Head(s.queue)
<1>1. /\ e \in Events /\ p.conn = s.conn
      /\ Turn(e) => Held(p, e.conn)
      /\ e.op = "start" => p.conn[e.conn].open /\ ~p.conn[e.conn].close_connection
      /\ ~Turn(e) => Free(p)
    BY PopKeeps
<1>2. s \in ServerType
    BY DEF Free
<1>3. \A i \in 1 .. Len(p.queue) : i + 1 \in 1 .. Len(s.queue) /\ p.queue[i] = s.queue[i + 1]
    BY <1>2, PopFields
<1>4. t = Handler(p, e)
    OBVIOUS
<1> HIDE DEF p, e
<1>5. SameExpired(p, t) => Timely(s, t)
    BY <1>1 DEF SameExpired, Timely
<1>6. CASE e.op = "start"
    <2>1. t = Start(p, e.conn) /\ e.conn \in Conns
        BY <1>1, <1>4, <1>6 DEF Handler, Events
    <2> QED BY <2>1, <1>1, <1>5, <1>6, StartFrees DEF Turn
<1>7. CASE e.op = "read"
    <2>1. t = ReadDone(p, e.conn, e.what) /\ e.conn \in Conns /\ e.what \in Messages \cup {Plain("error")}
        BY <1>1, <1>4, <1>7 DEF Handler, Events
    <2> QED BY <2>1, <1>1, <1>5, <1>7, ReadDoneFrees DEF Turn
<1>8. CASE e.op = "written"
    <2>1. t = Written(p, e.conn, e.what) /\ e.conn \in Conns
        BY <1>1, <1>4, <1>8 DEF Handler, Events
    <2> QED BY <2>1, <1>1, <1>5, <1>8, WrittenFrees DEF Turn
<1>9. CASE e.op = "tick"
    <2>1. t = Tick(p) /\ Free(p)
        BY <1>1, <1>4, <1>9 DEF Handler, Turn
    <2>2. Free(t) /\ Timely(p, t)
        BY <2>1, TickKeeps, TickInTime
    <2>3. DOMAIN p.queue = 1 .. Len(p.queue) /\ DOMAIN s.queue = 1 .. Len(s.queue)
        BY <1>2, <2>1, QueueOf DEF Free
    <2>4. Timely(s, t)
        <3> SUFFICES ASSUME NEW c \in Conns, t.conn[c].expired, ~s.conn[c].expired
                     PROVE  \/ s.conn[c].quiet = Timeout
                            \/ \E i \in DOMAIN s.queue : s.queue[i].op = "read" /\ s.queue[i].conn = c
            BY DEF Timely
        <3>1. p.conn = s.conn
            BY ONLY <1>1
        <3>2. \/ s.conn[c].quiet = Timeout
              \/ \E i \in DOMAIN p.queue : p.queue[i].op = "read" /\ p.queue[i].conn = c
            BY <2>2, <3>1 DEF Timely
        <3> QED BY ONLY <3>2, <1>3, <2>3
    <2> QED BY <2>2, <2>4
<1> QED BY <1>1, <1>6, <1>7, <1>8, <1>9 DEF Events

\* A connection that keeps the turn closes its socket.
LEMMA CloseHeld ==
    ASSUME NEW s, NEW c \in Conns, Held(s, c), NoTask(s, c), NEW t, t = Close(s, c)
    PROVE  Held(t, c) /\ NoTask(t, c) /\ SameExpired(s, t)
<1>1. s \in ServerType /\ Interrupted(s, c) = s
    BY HeldStart DEF Interrupted, Held
<1>2. Interrupted(s, c) \in ServerType
    BY <1>1
<1>3. PICK u, y : /\ Unaffected(Interrupted(s, c), u, c) /\ y \in ConnType
                  /\ Shut([u.conn[c] EXCEPT !.reading = FALSE], y) /\ y.quiet = 0
                  /\ Only(u, Close(s, c), c, y)
    BY <1>1, <1>2, CloseIs
<1>4. Unaffected(s, u, c) /\ Only(u, t, c, y)
    BY <1>1, <1>3
<1>5. Held(u, c) /\ NoTask(u, c) /\ SameExpired(s, u)
    BY <1>4, UnaffectedHeld
<1>6. Free(u) /\ NoStart(u, c) /\ ~u.conn[c].reading /\ u.conn[c].accepted /\ u.blocked.conn = None
    BY <1>5, LetGo, HeldStart
<1>7. u.conn[c] \in ConnType
    BY <1>6 DEF Free, ServerType
<1>8. Shut(u.conn[c], y)
    BY <1>3, <1>7 DEF Shut, ConnType
<1>9. Free(t) /\ SameExpired(u, t) /\ t.blocked = u.blocked
    BY <1>4, <1>5, <1>6, <1>8, ShutFree DEF NoTask
<1>10. /\ t.queue = u.queue /\ t.tasks = u.tasks /\ t.conn[c] = y
       /\ t \in ServerType /\ Inv(t, t.tasks, None)
    BY <1>4, <1>9 DEF Only, SameTimer, Free
<1>11. t.conn[c].accepted /\ ~t.conn[c].reading /\ t.conn[c].task_id \notin DOMAIN t.tasks
    BY <1>5, <1>6, <1>8, <1>10 DEF Shut, NoTask
<1>12. InvQueue(t, c)
    <2>1. InvQueue(u, c) /\ InvQueue(t, None)
        BY ONLY <1>5, <1>10 DEF Held, Inv
    <2>2. \A i \in 1 .. Len(t.queue) : Turn(t.queue[i]) => t.queue[i].conn # c
        BY ONLY <2>1, <1>10 DEF InvQueue, EventOK
    <2> QED BY ONLY <2>1, <2>2 DEF InvQueue, EventOK
<1>13. InvTasks(t, t.tasks, c)
    <2>1. \A id \in DOMAIN t.tasks : t.tasks[id].conn # None
        BY <1>10, TasksOf, ConnectionAssumption DEF ConnectionAssumption
    <2> QED BY <2>1, <1>10 DEF Inv, InvTasks
<1>14. Inv(t, t.tasks, c)
    BY <1>6, <1>9, <1>10, <1>11, <1>12, <1>13 DEF Inv, Idle
<1>15. NoTask(t, c)
    BY <1>5, <1>10, <1>11 DEF NoTask
<1> QED BY <1>5, <1>9, <1>10, <1>14, <1>15 DEF Held, SameExpired

\* The worker is back from the long answer of c.
LEMMA UnblockedHeld ==
    ASSUME NEW s, NEW c \in Conns, Free(s), s.blocked.conn = c, NEW t, t = Unblocked(s)
    PROVE  Held(t, c) /\ NoTask(t, c) /\ SameExpired(s, t)
<1>0. s \in ServerType /\ Inv(s, s.tasks, None) /\ None \notin Conns
    BY ConnectionAssumption DEF Free, ConnectionAssumption
<1>1. /\ t.conn = s.conn /\ t.queue = s.queue /\ t.tasks = s.tasks /\ t.highest_id = s.highest_id
      /\ t.blocked.conn = None /\ t \in ServerType
    BY <1>0, NoAnswerType DEF Unblocked, ServerType
<1>2. \A d \in Conns : Active(t, d) <=> Active(s, d)
    BY <1>1 DEF Active
<1>3. s.conn[c].accepted /\ ~s.conn[c].reading /\ s.conn[c].task_id \notin DOMAIN s.tasks
    BY <1>0 DEF Inv
<1>4. InvQueue(t, c)
    <2>1. \A i \in 1 .. Len(s.queue) : Turn(s.queue[i]) => s.queue[i].conn \in Conns \ {c}
        BY <1>0, QueueOf DEF Inv, InvQueue, EventOK, Turn
    <2> QED BY <2>1, <1>0, <1>1 DEF Inv, InvQueue, EventOK
<1>5. ASSUME NEW d \in Conns PROVE ConnOK(t, t.tasks, d)
    <2>1. ConnOK(s, s.tasks, d)
        BY <1>0 DEF Inv
    <2> QED BY <2>1, <1>1, <1>2 DEF ConnOK, Owned
<1>6. InvTasks(t, t.tasks, c) /\ NoTask(t, c)
    <2>1. \A id \in DOMAIN s.tasks : s.tasks[id].conn \in Conns
        BY <1>0, TasksOf
    <2>2. InvTasks(s, s.tasks, None)
        BY <1>0 DEF Inv
    <2>3. \A id \in DOMAIN s.tasks : s.tasks[id].conn # c
        BY <1>3, <2>2 DEF InvTasks
    <2>4. InvTasks(t, t.tasks, c)
        BY ONLY <2>1, <2>2, <1>0, <1>1, <1>2 DEF InvTasks
    <2> QED BY ONLY <2>3, <2>4, <1>1, <1>3 DEF NoTask
<1>7. Idle(t, t.tasks, c)
    BY <1>1, <1>3 DEF Idle
<1> QED BY <1>0, <1>1, <1>4, <1>5, <1>6, <1>7 DEF Held, Inv, SameExpired

LEMMA FinishLongKeeps ==
    ASSUME NEW s, NEW c \in Conns, Free(s), s.blocked.conn = c, NEW a \in AnswerType,
           NEW t, t = Untimed(Sent(Unblocked(s), c, a), c)
    PROVE  /\ Free(Release(ReadOn(AfterLong(t, c), c), c))
           /\ SameExpired(s, Release(ReadOn(AfterLong(t, c), c), c))
<1> DEFINE p == Unblocked(s)
           q == Sent(p, c, a)
           u == IF t.conn[c].close_connection THEN Close(t, c) ELSE t
           v == ClearParser(u, c)
           w == ReadOn(v, c)
<1>1. Held(p, c) /\ NoTask(p, c) /\ SameExpired(s, p) /\ p \in ServerType
    BY UnblockedHeld DEF Held
<1> HIDE DEF p
<1>2. Held(q, c) /\ NoTask(q, c) /\ SameExpired(p, q)
    BY <1>1, SentUnaffected, UnaffectedHeld
<1>3. t = q \/ t = Cancel(q, c)
    BY DEF p, Untimed
<1> HIDE DEF q
<1>4. Held(t, c) /\ NoTask(t, c) /\ SameExpired(q, t)
    BY <1>2, <1>3, CancelKeeps DEF SameExpired
<1>5. AfterLong(t, c) = v
    BY DEF AfterLong
<1>6. Held(u, c) /\ SameExpired(t, u)
    BY <1>4, CloseHeld DEF SameExpired
<1> HIDE DEF u
<1>7. u \in ServerType
    BY <1>6 DEF Held
<1>8. Held(v, c) /\ SameExpired(u, v)
    BY <1>6, <1>7, ClearParserUnaffected, UnaffectedHeld
<1> HIDE DEF v
<1>9. Free(w) /\ SameExpired(v, w)
    BY <1>8, ReadOnFrees
<1> HIDE DEF w
<1>10. Free(Release(w, c)) /\ SameExpired(w, Release(w, c))
    BY <1>9, ReleaseFree
<1>11. SameExpired(s, Release(w, c))
    <2>1. SameExpired(s, t)
        BY <1>1, <1>2, <1>4 DEF SameExpired
    <2>2. SameExpired(t, w)
        BY <1>6, <1>8, <1>9 DEF SameExpired
    <2> QED BY <2>1, <2>2, <1>10 DEF SameExpired
<1> QED BY <1>5, <1>10, <1>11 DEF w

LEMMA BreakLongKeeps ==
    ASSUME NEW s, NEW c \in Conns, Free(s), s.blocked.conn = c, NEW a \in AnswerType,
           NEW t, t = Release(ReadOn(Sent(Unblocked(s), c, a), c), c)
    PROVE  Free(t) /\ SameExpired(s, t)
<1> DEFINE p == Unblocked(s)
           q == Sent(p, c, a)
<1>1. Held(p, c) /\ NoTask(p, c) /\ SameExpired(s, p) /\ p \in ServerType
    BY UnblockedHeld DEF Held
<1> HIDE DEF p
<1>2. Held(q, c) /\ SameExpired(p, q)
    BY <1>1, SentUnaffected, UnaffectedHeld
<1> DEFINE r == ReadOn(q, c)
<1>3. t = Release(r, c)
    BY DEF p
<1> HIDE DEF q
<1>4. Free(r) /\ SameExpired(q, r)
    BY <1>2, ReadOnFrees
<1> HIDE DEF r
<1>5. Free(t) /\ SameExpired(r, t)
    BY <1>3, <1>4, ReleaseFree
<1> QED BY <1>1, <1>2, <1>4, <1>5 DEF SameExpired

-----------------------------------------------------------------------------
(* The clock, the network and the acceptor.                                *)

TickEvent == Event("tick", None, None)

LEMMA TickPosted ==
    ASSUME NEW s, Free(s), NEW t, t = Post(s, TickEvent)
    PROVE  Free(t) /\ SameExpired(s, t)
<1> DEFINE e == TickEvent
<1>1. e \in Events /\ e.op = "tick" /\ ~Turn(e)
    BY DEF TickEvent, Event, Events, Turn
<1>2. s \in ServerType /\ Inv(s, s.tasks, None) /\ None \notin Conns
    BY ConnectionAssumption DEF Free, ConnectionAssumption
<1> HIDE DEF e
<1>3. t = Post(s, e)
    BY DEF e
<1>4. /\ t \in ServerType /\ SameTimer(s, t) /\ t.conn = s.conn
      /\ Len(s.queue) \in Nat /\ Len(t.queue) = Len(s.queue) + 1 /\ t.queue[Len(s.queue) + 1] = e
      /\ \A i \in 1 .. Len(s.queue) : t.queue[i] = s.queue[i]
    BY <1>1, <1>2, <1>3, PostFields
<1>5. t.tasks = s.tasks /\ t.highest_id = s.highest_id /\ t.blocked = s.blocked
    BY <1>4 DEF SameTimer
<1>6. \A i \in 1 .. Len(t.queue) : i \in 1 .. Len(s.queue) \/ i = Len(s.queue) + 1
    BY <1>4
<1>7. \A i \in 1 .. Len(s.queue) : i \in 1 .. Len(t.queue)
    BY <1>4
<1>8. \A d \in Conns : Active(t, d) <=> Active(s, d)
    BY <1>1, <1>4, <1>6, <1>7 DEF Active
<1>9. InvQueue(t, None)
    <2>1. \A i \in 1 .. Len(s.queue) : EventOK(t, None, s.queue[i])
        BY <1>2, <1>4, <1>5 DEF Inv, InvQueue, EventOK
    <2>2. EventOK(t, None, e)
        BY <1>1 DEF EventOK
    <2>3. \A i \in 1 .. Len(t.queue) : EventOK(t, None, t.queue[i])
        BY <2>1, <2>2, <1>4, <1>6
    <2>4. \A i \in 1 .. Len(t.queue) : Turn(t.queue[i]) => i \in 1 .. Len(s.queue)
        BY <1>1, <1>4, <1>6
    <2>5. \A i, j \in 1 .. Len(s.queue) :
             Turn(s.queue[i]) /\ Turn(s.queue[j]) /\ s.queue[i].conn = s.queue[j].conn => i = j
        BY ONLY <1>2 DEF Inv, InvQueue
    <2>6. \A i \in 1 .. Len(s.queue) : t.queue[i] = s.queue[i]
        BY ONLY <1>4
    <2> QED BY ONLY <2>3, <2>4, <2>5, <2>6 DEF InvQueue
<1>10. ASSUME NEW d \in Conns PROVE ConnOK(t, t.tasks, d)
    <2>1. ConnOK(s, s.tasks, d)
        BY <1>2 DEF Inv
    <2> QED BY <2>1, <1>4, <1>5, <1>8 DEF ConnOK, Owned
<1>11. InvTasks(t, t.tasks, None)
    BY <1>2, <1>4, <1>5, <1>8, TasksOf DEF Inv, InvTasks
<1> QED BY <1>2, <1>4, <1>5, <1>9, <1>10, <1>11 DEF Free, Inv, SameExpired

\* A second goes by.
Aged(s, t) ==
    /\ t \in ServerType /\ t.queue = s.queue /\ t.highest_id = s.highest_id
    /\ t.blocked = s.blocked
    /\ DOMAIN t.tasks = DOMAIN s.tasks
    /\ \A id \in DOMAIN s.tasks : t.tasks[id].conn = s.tasks[id].conn
                                  /\ t.tasks[id].left = Earlier(s.tasks[id].left)
    /\ \A c \in Conns :
          LET x == s.conn[c]
              y == t.conn[c]
          IN /\ y.accepted = x.accepted /\ y.open = x.open /\ y.reading = x.reading
             /\ y.task_id = x.task_id /\ y.close_connection = x.close_connection
             /\ y.expired = x.expired /\ y.stolen = x.stolen
             /\ y.quiet = IF x.open /\ x.quiet < Timeout THEN x.quiet + 1 ELSE x.quiet

LEMMA ConnAges ==
    ASSUME NEW x \in ConnType,
           NEW y, y = IF x.open /\ x.quiet < Timeout THEN [x EXCEPT !.quiet = @ + 1] ELSE x
    PROVE  /\ y \in ConnType
           /\ y.accepted = x.accepted /\ y.open = x.open /\ y.reading = x.reading
           /\ y.task_id = x.task_id /\ y.close_connection = x.close_connection
           /\ y.expired = x.expired /\ y.stolen = x.stolen
           /\ y.quiet = IF x.open /\ x.quiet < Timeout THEN x.quiet + 1 ELSE x.quiet
BY DEF ConnType

LEMMA SecondAges ==
    ASSUME NEW s \in ServerType,
           NEW t, t = [s EXCEPT
                  !.tasks = [i \in DOMAIN s.tasks |->
                                [conn |-> s.tasks[i].conn,
                                 left |-> Earlier(s.tasks[i].left)]],
                  !.conn = [c \in Conns |->
                                IF s.conn[c].open /\ s.conn[c].quiet < Timeout
                                THEN [s.conn[c] EXCEPT !.quiet = @ + 1]
                                ELSE s.conn[c]],
                  !.armed = FALSE]
    PROVE  Aged(s, t)
<1> DEFINE tasks == [i \in DOMAIN s.tasks |->
                        [conn |-> s.tasks[i].conn, left |-> Earlier(s.tasks[i].left)]]
           conn == [c \in Conns |->
                      IF s.conn[c].open /\ s.conn[c].quiet < Timeout
                      THEN [s.conn[c] EXCEPT !.quiet = @ + 1]
                      ELSE s.conn[c]]
<1>1. DOMAIN s.tasks \subseteq Nat /\ \A id \in DOMAIN s.tasks : s.tasks[id] \in TaskType
    BY TasksOf
<1>2. ASSUME NEW id \in DOMAIN s.tasks PROVE tasks[id] \in TaskType
    <2>1. s.tasks[id].conn \in Conns /\ s.tasks[id].left \in Nat
        BY <1>1 DEF TaskType
    <2>2. Earlier(s.tasks[id].left) \in Nat
        BY <2>1 DEF Earlier
    <2>3. tasks[id] = [conn |-> s.tasks[id].conn, left |-> Earlier(s.tasks[id].left)]
        OBVIOUS
    <2> QED BY <2>1, <2>2, <2>3 DEF TaskType
<1>3. tasks \in Tasks
    BY <1>1, <1>2, TasksAre
<1>4. \A c \in Conns : s.conn[c] \in ConnType
    BY DEF ServerType
<1>5. ASSUME NEW c \in Conns
      PROVE  LET x == s.conn[c]
                 y == conn[c]
             IN /\ y \in ConnType
                /\ y.accepted = x.accepted /\ y.open = x.open /\ y.reading = x.reading
                /\ y.task_id = x.task_id /\ y.close_connection = x.close_connection
                /\ y.expired = x.expired /\ y.stolen = x.stolen
                /\ y.quiet = IF x.open /\ x.quiet < Timeout THEN x.quiet + 1 ELSE x.quiet
    <2>1. conn[c] = IF s.conn[c].open /\ s.conn[c].quiet < Timeout
                    THEN [s.conn[c] EXCEPT !.quiet = @ + 1] ELSE s.conn[c]
        OBVIOUS
    <2> HIDE DEF conn
    <2> QED BY <2>1, <1>4, ConnAges
<1>6. conn \in [Conns -> ConnType]
    <2>1. \A c \in Conns : conn[c] \in ConnType
        BY <1>5
    <2> QED BY <2>1
<1>7. t = [s EXCEPT !.tasks = tasks, !.conn = conn, !.armed = FALSE]
    OBVIOUS
<1>8. DOMAIN tasks = DOMAIN s.tasks /\ \A id \in DOMAIN s.tasks : tasks[id].conn = s.tasks[id].conn
                                  /\ tasks[id].left = Earlier(s.tasks[id].left)
    OBVIOUS
<1> HIDE DEF tasks, conn
<1>9. t.tasks = tasks /\ t.conn = conn /\ t.queue = s.queue /\ t.highest_id = s.highest_id
      /\ t.blocked = s.blocked /\ t \in ServerType
    BY <1>3, <1>6, <1>7 DEF ServerType
<1> QED BY <1>5, <1>8, <1>9 DEF Aged

LEMMA AgedFree ==
    ASSUME NEW s, Free(s), NEW t, Aged(s, t)
    PROVE  Free(t) /\ SameExpired(s, t)
<1>1. s \in ServerType /\ Inv(s, s.tasks, None) /\ None \notin Conns /\ Timeout \in Nat
    BY ConnectionAssumption DEF Free, ConnectionAssumption
<1>2. /\ t \in ServerType /\ t.queue = s.queue /\ t.highest_id = s.highest_id
      /\ t.blocked = s.blocked /\ DOMAIN t.tasks = DOMAIN s.tasks
      /\ \A id \in DOMAIN s.tasks : t.tasks[id].conn = s.tasks[id].conn
                                    /\ t.tasks[id].left = Earlier(s.tasks[id].left)
    BY DEF Aged
<1>3. \A c \in Conns :
          LET x == s.conn[c]
              y == t.conn[c]
          IN /\ y.accepted = x.accepted /\ y.open = x.open /\ y.reading = x.reading
             /\ y.task_id = x.task_id /\ y.close_connection = x.close_connection
             /\ y.expired = x.expired /\ y.stolen = x.stolen
             /\ y.quiet = IF x.open /\ x.quiet < Timeout THEN x.quiet + 1 ELSE x.quiet
    BY DEF Aged
<1>4. \A d \in Conns : Active(t, d) <=> Active(s, d)
    BY <1>2, <1>3 DEF Active
<1>5. InvQueue(t, None)
    <2>1. \A i \in 1 .. Len(s.queue) : Turn(s.queue[i]) => s.queue[i].conn \in Conns
        BY <1>1, QueueOf DEF Turn
    <2>2. InvQueue(s, None) /\ t.queue = s.queue /\ t.blocked = s.blocked
        BY ONLY <1>1, <1>2 DEF Inv
    <2>3. ASSUME NEW i \in 1 .. Len(s.queue) PROVE EventOK(t, None, s.queue[i])
        <3>1. EventOK(s, None, s.queue[i])
            BY ONLY <2>2, i \in 1 .. Len(s.queue) DEF InvQueue
        <3>2. CASE Turn(s.queue[i])
            BY ONLY <2>1, <2>2, <3>1, <3>2, <1>3, i \in 1 .. Len(s.queue) DEF EventOK
        <3>3. CASE ~Turn(s.queue[i])
            BY ONLY <3>3 DEF EventOK, Turn
        <3> QED BY ONLY <3>2, <3>3
    <2> QED BY ONLY <2>2, <2>3 DEF InvQueue
<1>6. ASSUME NEW c \in Conns PROVE ConnOK(t, t.tasks, c)
    <2>1. ConnOK(s, s.tasks, c) /\ s.conn[c].quiet \in Nat
        BY <1>1 DEF Inv, ServerType, ConnType
    <2>2. Owned(t, t.tasks, c) <=> Owned(s, s.tasks, c)
        BY <1>2, <1>3 DEF Owned
    <2>3. t.conn[c].quiet <= Timeout
        BY <2>1, <1>1, <1>3 DEF ConnOK
    <2> QED BY <2>1, <2>2, <2>3, <1>3, <1>4 DEF ConnOK
<1>7. InvTasks(t, t.tasks, None)
    <2> SUFFICES ASSUME NEW id \in DOMAIN t.tasks
                 PROVE  LET c == t.tasks[id].conn IN
                        /\ id \in 1 .. t.highest_id /\ t.conn[c].accepted /\ t.conn[c].open
                        /\ t.conn[c].task_id = id /\ (Active(t, c) \/ c = None)
                        /\ t.conn[c].reading => t.tasks[id].left + t.conn[c].quiet >= Timeout
        BY DEF InvTasks
    <2> DEFINE c == t.tasks[id].conn
    <2>1. id \in DOMAIN s.tasks /\ s.tasks[id].conn = c /\ c \in Conns /\ s.tasks[id].left \in Nat
          /\ t.tasks[id].left = Earlier(s.tasks[id].left)
        BY <1>1, <1>2, TasksOf DEF TaskType
    <2>2. /\ id \in 1 .. s.highest_id /\ s.conn[c].accepted /\ s.conn[c].open
          /\ s.conn[c].task_id = id /\ (Active(s, c) \/ c = None)
          /\ s.conn[c].reading => s.tasks[id].left + s.conn[c].quiet >= Timeout
        BY <2>1, <1>1 DEF Inv, InvTasks
    <2>3. s.conn[c].quiet \in Nat /\ s.conn[c].quiet <= Timeout
        BY <2>1, <1>1 DEF Inv, ConnOK, ServerType, ConnType
    <2> HIDE DEF c
    <2>4. t.conn[c].reading => t.tasks[id].left + t.conn[c].quiet >= Timeout
        BY <2>1, <2>2, <2>3, <1>1, <1>3 DEF Earlier
    <2>5. /\ id \in 1 .. t.highest_id /\ t.conn[c].accepted /\ t.conn[c].open
          /\ t.conn[c].task_id = id /\ (Active(t, c) \/ c = None)
          /\ t.conn[c].reading => t.tasks[id].left + t.conn[c].quiet >= Timeout
        BY <2>1, <2>2, <2>4, <1>2, <1>3, <1>4
    <2> QED BY <2>5 DEF c
<1>8. t.blocked.conn \in Conns =>
          LET c == t.blocked.conn IN
          t.conn[c].accepted /\ ~t.conn[c].reading /\ t.conn[c].task_id \notin DOMAIN t.tasks
    BY <1>1, <1>2, <1>3 DEF Inv
<1>9. SameExpired(s, t)
    BY <1>3 DEF SameExpired
<1> QED BY <1>1, <1>2, <1>5, <1>6, <1>7, <1>8, <1>9 DEF Free, Inv

LEMMA SecondKeeps ==
    ASSUME Free(server), Second
    PROVE  Free(server') /\ SameExpired(server, server')
<1> DEFINE s == [server EXCEPT
                  !.tasks = [i \in DOMAIN server.tasks |->
                                [conn |-> server.tasks[i].conn,
                                 left |-> Earlier(server.tasks[i].left)]],
                  !.conn = [c \in Conns |->
                                IF server.conn[c].open /\ server.conn[c].quiet < Timeout
                                THEN [server.conn[c] EXCEPT !.quiet = @ + 1]
                                ELSE server.conn[c]],
                  !.armed = FALSE]
<1>1. server' = IF server.armed THEN Post(s, TickEvent) ELSE s
    BY DEF Second, TickEvent
<1>2. server \in ServerType
    BY DEF Free
<1>3. Aged(server, s)
    BY <1>2, SecondAges
<1> HIDE DEF s
<1>4. Free(s) /\ SameExpired(server, s)
    BY <1>3, AgedFree
<1>5. Free(Post(s, TickEvent)) /\ SameExpired(s, Post(s, TickEvent))
    BY <1>4, TickPosted
<1> QED BY <1>1, <1>4, <1>5 DEF SameExpired

\* A connection gets its turn: it is accepted, or its read completes.
LEMMA TurnPosted ==
    ASSUME NEW s, Free(s), NEW c \in Conns, NEW y, NEW u, Only(s, u, c, y),
           NEW e \in Events, Turn(e), e.conn = c, NEW t, t = Post(u, e),
           e.op = "read" <=> s.conn[c].reading,
           e.op = "start" => y.task_id = 0 /\ y.open /\ ~y.close_connection,
           \A i \in 1 .. Len(s.queue) : Turn(s.queue[i]) => s.queue[i].conn # c,
           s.blocked.conn # c, y.accepted, ~y.reading, s.conn[c].open => y.open,
           y.task_id = s.conn[c].task_id, y.close_connection = s.conn[c].close_connection,
           y.expired = s.conn[c].expired, y.expired => ~y.open, y.stolen = s.conn[c].stolen,
           y.quiet <= Timeout
    PROVE  Free(t) /\ SameExpired(s, t)
<1>1. s \in ServerType /\ Inv(s, s.tasks, None) /\ None \notin Conns
    BY ConnectionAssumption DEF Free, ConnectionAssumption
<1>2. u \in ServerType /\ u.tasks = s.tasks /\ u.highest_id = s.highest_id /\ u.blocked = s.blocked
      /\ u.queue = s.queue /\ u.conn[c] = y /\ \A d \in Conns \ {c} : u.conn[d] = s.conn[d]
    BY DEF Only, SameTimer
<1>3. /\ t \in ServerType /\ SameTimer(u, t) /\ t.conn = u.conn
      /\ Len(u.queue) \in Nat /\ Len(t.queue) = Len(u.queue) + 1 /\ t.queue[Len(u.queue) + 1] = e
      /\ \A i \in 1 .. Len(u.queue) : t.queue[i] = u.queue[i]
    <2>1. u \in ServerType
        BY ONLY <1>2
    <2> QED BY ONLY <2>1, PostFields, e \in Events, t = Post(u, e)
<1>4. /\ t.conn[c] = y /\ \A d \in Conns \ {c} : t.conn[d] = s.conn[d]
      /\ t.tasks = s.tasks /\ t.highest_id = s.highest_id /\ t.blocked = s.blocked
      /\ Len(s.queue) \in Nat /\ Len(t.queue) = Len(s.queue) + 1 /\ t.queue[Len(s.queue) + 1] = e
      /\ \A i \in 1 .. Len(s.queue) : t.queue[i] = s.queue[i]
    BY <1>2, <1>3 DEF SameTimer
<1>5. /\ \A i \in 1 .. Len(t.queue) : i \in 1 .. Len(s.queue) \/ i = Len(s.queue) + 1
      /\ \A i \in 1 .. Len(s.queue) : i \in 1 .. Len(t.queue)
      /\ Len(s.queue) + 1 \in 1 .. Len(t.queue)
    BY <1>4
<1>6. \A i \in 1 .. Len(s.queue) : s.queue[i].op # "tick" => s.queue[i].conn \in Conns
    BY <1>1, QueueOf
<1>7. \A i \in 1 .. Len(s.queue) : Turn(s.queue[i]) => s.queue[i].conn \in Conns \ {c}
    BY <1>6 DEF Turn
<1>8. ASSUME NEW d \in Conns \ {c} PROVE Active(t, d) <=> Active(s, d)
    <2>1. ASSUME NEW i \in 1 .. Len(s.queue), s.queue[i].op = "read", s.queue[i].conn = d
          PROVE  Active(t, d)
        BY <2>1, <1>4, <1>5 DEF Active
    <2>2. ASSUME NEW i \in 1 .. Len(t.queue), t.queue[i].op = "read", t.queue[i].conn = d
          PROVE  Active(s, d)
        BY <2>2, <1>4, <1>5 DEF Active
    <2>3. t.conn[d].reading = s.conn[d].reading
        BY <1>4
    <2> QED BY <2>1, <2>2, <2>3 DEF Active
<1>9. Active(t, c) <=> Active(s, c)
    <2>1. Active(s, c) <=> s.conn[c].reading
        BY <1>7 DEF Active, Turn
    <2>2. ASSUME Active(t, c) PROVE e.op = "read"
        <3>1. PICK i \in 1 .. Len(t.queue) : t.queue[i].op = "read" /\ t.queue[i].conn = c
            BY <2>2, <1>4 DEF Active
        <3> QED BY <3>1, <1>4, <1>5, <1>7 DEF Turn
    <2>3. e.op = "read" => Active(t, c)
        BY <1>4, <1>5 DEF Active
    <2> QED BY <2>1, <2>2, <2>3
<1>10. InvQueue(t, None)
    <2>1. ASSUME NEW i \in 1 .. Len(s.queue) PROVE EventOK(t, None, s.queue[i])
        <3>1. EventOK(s, None, s.queue[i])
            BY <1>1 DEF Inv, InvQueue
        <3> QED BY <3>1, <1>4, <1>7 DEF EventOK, Turn
    <2>2. EventOK(t, None, e)
        BY <1>1, <1>4 DEF EventOK
    <2>3. \A i \in 1 .. Len(t.queue) : EventOK(t, None, t.queue[i])
        BY <2>1, <2>2, <1>4, <1>5
    <2>4. ASSUME NEW i \in 1 .. Len(t.queue), NEW j \in 1 .. Len(t.queue),
                 Turn(t.queue[i]), Turn(t.queue[j]), t.queue[i].conn = t.queue[j].conn
          PROVE  i = j
        <3>1. CASE i \in 1 .. Len(s.queue) /\ j \in 1 .. Len(s.queue)
            BY <3>1, <2>4, <1>1, <1>4 DEF Inv, InvQueue
        <3>2. CASE i \notin 1 .. Len(s.queue) \/ j \notin 1 .. Len(s.queue)
            BY <3>2, <2>4, <1>4, <1>5, <1>7
        <3> QED BY <3>1, <3>2
    <2> QED BY <2>3, <2>4 DEF InvQueue
<1>11. ASSUME NEW d \in Conns PROVE ConnOK(t, t.tasks, d)
    <2>1. ConnOK(s, s.tasks, d)
        BY <1>1 DEF Inv
    <2>2. \A x \in Conns : t.conn[x].expired = s.conn[x].expired
        BY <1>4
    <2>3. t.conn[d].task_id = s.conn[d].task_id
        BY <1>4
    <2>4. Owned(t, t.tasks, d) <=> Owned(s, s.tasks, d)
        BY <2>3, <1>4 DEF Owned
    <2>5. CASE d = c
        BY <2>1, <2>2, <2>4, <2>5, <1>4, <1>9 DEF ConnOK
    <2>6. CASE d # c
        BY <2>1, <2>2, <2>4, <2>6, <1>4, <1>8 DEF ConnOK
    <2> QED BY <2>5, <2>6
<1>12. InvTasks(t, t.tasks, None)
    <2>1. InvTasks(s, s.tasks, None) /\ \A id \in DOMAIN s.tasks : s.tasks[id].conn \in Conns
        BY <1>1, TasksOf DEF Inv
    <2>2. ASSUME NEW d \in Conns
          PROVE  /\ s.conn[d].accepted => t.conn[d].accepted
                 /\ s.conn[d].open => t.conn[d].open
                 /\ t.conn[d].task_id = s.conn[d].task_id
                 /\ Active(s, d) => Active(t, d)
                 /\ t.conn[d].reading => s.conn[d].reading /\ t.conn[d].quiet = s.conn[d].quiet
        <3>1. CASE d = c
            <4>1. t.conn[c] = y /\ (Active(t, c) <=> Active(s, c))
                BY ONLY <1>4, <1>9
            <4> QED BY <3>1, <4>1
        <3>2. CASE d # c
            <4>1. t.conn[d] = s.conn[d] /\ (Active(t, d) <=> Active(s, d))
                BY ONLY <3>2, <1>4, <1>8, d \in Conns
            <4> QED BY ONLY <4>1
        <3> QED BY ONLY <3>1, <3>2
    <2>3. t.tasks = s.tasks /\ t.highest_id = s.highest_id
        BY ONLY <1>4
    <2> QED BY ONLY <2>1, <2>2, <2>3 DEF InvTasks
<1>13. s.blocked.conn \in Conns => s.blocked.conn \in Conns \ {c}
    OBVIOUS
<1>14. t.blocked.conn \in Conns =>
           LET d == t.blocked.conn IN
           t.conn[d].accepted /\ ~t.conn[d].reading /\ t.conn[d].task_id \notin DOMAIN t.tasks
    BY <1>1, <1>4, <1>13 DEF Inv
<1>15. SameExpired(s, t)
    BY <1>4 DEF SameExpired
<1>16. t \in ServerType /\ None \notin Conns
    BY ONLY <1>1, <1>3
<1>17. Inv(t, t.tasks, None)
    BY ONLY <1>10, <1>11, <1>12, <1>14, <1>16 DEF Inv
<1> QED BY ONLY <1>15, <1>16, <1>17 DEF Free

LEMMA AcceptKeeps ==
    ASSUME Free(server), NEW c \in Conns, Accept(c)
    PROVE  Free(server') /\ SameExpired(server, server')
<1> DEFINE y == [server.conn[c] EXCEPT !.accepted = TRUE, !.open = TRUE]
           u == [server EXCEPT !.conn = [server.conn EXCEPT ![c] = y]]
           e == Event("start", c, None)
<1>1. server \in ServerType /\ server.conn[c] \in ConnType /\ Inv(server, server.tasks, None)
      /\ Timeout \in Nat
    BY ConnectionAssumption DEF Free, ServerType, ConnectionAssumption
<1>2. /\ y \in ConnType /\ y.accepted /\ y.open
      /\ y.reading = server.conn[c].reading /\ y.task_id = server.conn[c].task_id
      /\ y.close_connection = server.conn[c].close_connection
      /\ y.expired = server.conn[c].expired /\ y.stolen = server.conn[c].stolen
      /\ y.quiet = server.conn[c].quiet
    BY <1>1 DEF ConnType
<1>3. server' = Post(u, e) /\ ~server.conn[c].accepted
    BY DEF Accept
<1> HIDE DEF y
<1>4. Only(server, u, c, y)
    BY <1>1, <1>2, PutConn
<1> HIDE DEF u
<1>5. e \in Events /\ Turn(e) /\ e.op = "start" /\ e.conn = c
    BY EventTypes DEF Event, Turn
<1> HIDE DEF e
<1>6. ConnOK(server, server.tasks, c)
    BY <1>1 DEF Inv
<1>7. /\ ~server.conn[c].reading /\ server.conn[c].task_id = 0 /\ ~server.conn[c].close_connection
      /\ ~server.conn[c].expired /\ server.conn[c].quiet <= Timeout
    BY <1>3, <1>6 DEF ConnOK
<1>8. \A i \in 1 .. Len(server.queue) : Turn(server.queue[i]) => server.queue[i].conn # c
    BY <1>1, <1>3 DEF Inv, InvQueue, EventOK
<1>9. server.blocked.conn # c
    BY <1>1, <1>3 DEF Inv
<1> QED BY <1>2, <1>3, <1>4, <1>5, <1>7, <1>8, <1>9, TurnPosted

LEMMA ArriveKeeps ==
    ASSUME NEW s, Free(s), NEW c \in Conns, s.conn[c].reading, NEW quiet \in {0, s.conn[c].quiet},
           NEW what \in Messages \cup {Plain("error")},
           NEW t, t = Post([s EXCEPT !.conn[c].reading = FALSE, !.conn[c].quiet = quiet],
                           [op |-> "read", conn |-> c, what |-> what])
    PROVE  Free(t) /\ SameExpired(s, t)
<1> DEFINE y == [s.conn[c] EXCEPT !.reading = FALSE, !.quiet = quiet]
           u == [s EXCEPT !.conn = [s.conn EXCEPT ![c] = y]]
           e == [op |-> "read", conn |-> c, what |-> what]
<1>1. s \in ServerType /\ s.conn[c] \in ConnType /\ Inv(s, s.tasks, None)
      /\ Timeout \in Nat
    BY ConnectionAssumption DEF Free, ServerType, ConnectionAssumption
<1>2. /\ y \in ConnType /\ ~y.reading
      /\ y.accepted = s.conn[c].accepted /\ y.open = s.conn[c].open
      /\ y.task_id = s.conn[c].task_id
      /\ y.close_connection = s.conn[c].close_connection
      /\ y.expired = s.conn[c].expired /\ y.stolen = s.conn[c].stolen
      /\ y.quiet = quiet
    <2>1. quiet \in Nat
        BY <1>1 DEF ConnType
    <2> QED BY <2>1, <1>1 DEF ConnType
<1>3. t = Post(u, e)
    <2>1. [s EXCEPT !.conn[c].reading = FALSE, !.conn[c].quiet = quiet] = u
        OBVIOUS
    <2> HIDE DEF u
    <2> QED BY <2>1
<1> HIDE DEF y
<1>4. Only(s, u, c, y)
    BY <1>1, <1>2, PutConn
<1> HIDE DEF u
<1>5. e \in Events /\ Turn(e) /\ e.op = "read" /\ e.conn = c
    BY DEF Events, Turn
<1> HIDE DEF e
<1>6. ConnOK(s, s.tasks, c)
    BY <1>1 DEF Inv
<1>7. s.conn[c].accepted /\ s.conn[c].open /\ (s.conn[c].expired => ~s.conn[c].open)
      /\ quiet <= Timeout
    BY <1>1, <1>6 DEF ConnOK
<1>8. \A i \in 1 .. Len(s.queue) : Turn(s.queue[i]) => s.queue[i].conn # c
    BY <1>1 DEF Inv, InvQueue, EventOK
<1>9. s.blocked.conn # c
    BY <1>1 DEF Inv
<1> QED BY <1>2, <1>3, <1>4, <1>5, <1>7, <1>8, <1>9, TurnPosted

LEMMA TakeKeeps ==
    ASSUME Free(server), NEW c \in Conns, Take(c)
    PROVE  Free(server') /\ SameExpired(server, server')
<1> DEFINE cut == CutWrite(server, c)
           gone == Event("written", c, "error")
           sent == Sent(server, c, server.conn[c].writing)
           done == [sent EXCEPT !.conn[c].writing = NoAnswer]
           ok == Event("written", c, "ok")
<1>1. server \in ServerType /\ server.conn[c].writing \in AnswerType
    BY DEF Free, ServerType, ConnType
<1>2. server' = Post(cut, gone) \/ server' = Post(done, ok)
    BY DEF Take
<1>3. gone \in Events /\ gone.op = "written" /\ gone.conn = c
      /\ ok \in Events /\ ok.op = "written" /\ ok.conn = c
    BY EventTypes DEF Event
<1> HIDE DEF gone, ok
<1>4. Unaffected(server, cut, c) /\ cut.queue = server.queue /\ cut \in ServerType
    BY <1>1, CutWriteUnaffected DEF Unaffected
<1> HIDE DEF cut
<1>5. Unaffected(server, Post(cut, gone), c)
    BY <1>1, <1>3, <1>4, PostWritten, UnaffectedTwice
<1>6. Unaffected(server, sent, c) /\ sent.queue = server.queue /\ sent \in ServerType
    BY <1>1, SentUnaffected DEF Unaffected
<1> HIDE DEF sent
<1>7. Unaffected(sent, done, c) /\ done.queue = sent.queue
    BY <1>6, NoAnswerType, WritingUnaffected
<1> HIDE DEF done
<1>8. Unaffected(sent, done, c) /\ done.queue = sent.queue /\ done \in ServerType
    BY <1>7 DEF Unaffected
<1>9. Unaffected(server, done, c) /\ done.queue = server.queue
    BY <1>1, <1>6, <1>8, UnaffectedTwice
<1>10. Unaffected(server, Post(done, ok), c)
    BY <1>1, <1>3, <1>8, <1>9, PostWritten, UnaffectedTwice
<1>11. Unaffected(server, server', c)
    BY <1>2, <1>5, <1>10
<1> QED BY <1>11, UnaffectedFree

\* A server without connections.
LEMMA NewFree ==
    ASSUME NEW v \in {"running", "stopping", "ended"}, NEW t, t = [NewServer EXCEPT !.serving = v]
    PROVE  Free(t) /\ \A c \in Conns : ~t.conn[c].expired
<1>1. /\ t.conn = [c \in Conns |-> NewConnection] /\ t.tasks = [id \in {} |-> None]
      /\ t.highest_id = 0 /\ t.armed = TRUE /\ t.queue = <<>>
      /\ t.blocked = [conn |-> None, answer |-> NoAnswer] /\ t.serving = v
    BY DEF NewServer
<1>2. NewConnection \in ConnType
    BY NoAnswerType DEF NewConnection, ConnType
<1>3. t.tasks \in Tasks /\ DOMAIN t.tasks = {}
    <2>1. t.tasks \in [{} -> TaskType]
        BY <1>1
    <2>2. {} \in SUBSET Nat
        OBVIOUS
    <2> QED BY <2>1, <2>2 DEF Tasks
<1>4. t = [conn |-> t.conn, tasks |-> t.tasks, highest_id |-> 0, armed |-> TRUE, queue |-> <<>>,
           blocked |-> t.blocked, serving |-> v]
    BY <1>1 DEF NewServer
<1>5. t.conn \in [Conns -> ConnType]
    BY <1>1, <1>2
<1>6. t \in ServerType
    <2>1. <<>> \in Seq(Events)
        OBVIOUS
    <2>2. t.blocked \in [conn : Conns \cup {None}, answer : AnswerType]
        BY <1>1, NoAnswerType
    <2>3. \A conn \in [Conns -> ConnType], tasks \in Tasks,
              blocked \in [conn : Conns \cup {None}, answer : AnswerType] :
              [conn |-> conn, tasks |-> tasks, highest_id |-> 0, armed |-> TRUE, queue |-> <<>>,
               blocked |-> blocked, serving |-> v] \in ServerType
        BY <2>1 DEF ServerType
    <2> QED BY ONLY <1>3, <1>4, <1>5, <2>2, <2>3
<1>7. None \notin Conns /\ Timeout \in Nat \ {0}
    BY ConnectionAssumption DEF ConnectionAssumption
<1>8. Len(t.queue) = 0
    <2>1. t.queue = <<>>
        BY ONLY <1>1
    <2> QED BY ONLY <2>1
<1>9. \A c \in Conns : t.conn[c] = NewConnection
    <2>1. t.conn = [c \in Conns |-> NewConnection]
        BY ONLY <1>1
    <2> QED BY ONLY <2>1
<1>10. \A c \in Conns : /\ ~t.conn[c].accepted /\ ~t.conn[c].open /\ ~t.conn[c].reading
                       /\ t.conn[c].task_id = 0 /\ ~t.conn[c].close_connection
                       /\ ~t.conn[c].stolen /\ ~t.conn[c].expired /\ t.conn[c].quiet = 0
    <2>1. /\ ~NewConnection.accepted /\ ~NewConnection.open /\ ~NewConnection.reading
          /\ NewConnection.task_id = 0 /\ ~NewConnection.close_connection
          /\ ~NewConnection.stolen /\ ~NewConnection.expired /\ NewConnection.quiet = 0
        BY DEF NewConnection
    <2> QED BY <1>9, <2>1
<1>11. ASSUME NEW c \in Conns PROVE ConnOK(t, t.tasks, c)
    <2>1. ~Active(t, c)
        BY <1>8, <1>10 DEF Active
    <2>2. t.conn[c].quiet <= Timeout
        BY <1>7, <1>10
    <2> QED BY <2>1, <2>2, <1>10 DEF ConnOK
<1>12. InvQueue(t, None) /\ InvTasks(t, t.tasks, None)
    BY <1>3, <1>8 DEF InvQueue, InvTasks
<1> QED BY <1>1, <1>6, <1>7, <1>10, <1>11, <1>12 DEF Free, Inv

-----------------------------------------------------------------------------
(* The theorems.                                                           *)

ClientType == [sent : Seq(Messages), wire : Seq(Messages), begun : BOOLEAN, gone : BOOLEAN]

\* The inductive invariant.
IInv == Free(server) /\ client \in [Conns -> ClientType]

LEMMA OffersAre == \A c \in Conns : Offers[c] \subseteq Messages
BY ConnectionAssumption DEF ConnectionAssumption, Messages

LEMMA PutClient ==
    ASSUME client \in [Conns -> ClientType], NEW c \in Conns, NEW y \in ClientType
    PROVE  [client EXCEPT ![c] = y] \in [Conns -> ClientType]
OBVIOUS

LEMMA ClientSteps ==
    ASSUME client \in [Conns -> ClientType], NEW c \in Conns, Send(c) \/ Leave(c)
    PROVE  client' \in [Conns -> ClientType]
<1>1. client[c] \in ClientType
    OBVIOUS
<1>2. \A m \in Messages : /\ Append(client[c].wire, m) \in Seq(Messages)
                          /\ Append(client[c].sent, m) \in Seq(Messages)
    BY <1>1 DEF ClientType
<1>3. CASE Leave(c)
    <2> DEFINE y == [client[c] EXCEPT !.gone = TRUE]
    <2>1. y \in ClientType
        BY <1>1 DEF ClientType
    <2>2. client' = [client EXCEPT ![c] = y]
        BY <1>3 DEF Leave
    <2> HIDE DEF y
    <2> QED BY <2>1, <2>2
<1>4. CASE Send(c)
    <2>1. ASSUME NEW m \in Offers[c],
                 client' = [client EXCEPT ![c].begun = TRUE, ![c].wire = Append(@, m)]
          PROVE  client' \in [Conns -> ClientType]
        <3> DEFINE y == [client[c] EXCEPT !.begun = TRUE, !.wire = Append(client[c].wire, m)]
        <3>1. m \in Messages
            BY OffersAre
        <3>2. y \in ClientType
            BY <1>1, <1>2, <3>1 DEF ClientType
        <3>3. client' = [client EXCEPT ![c] = y]
            BY <2>1
        <3> HIDE DEF y
        <3> QED BY <3>2, <3>3
    <2>2. ASSUME NEW r \in Offers[c],
                 client' = [client EXCEPT ![c].begun = FALSE, ![c].wire = Append(@, r),
                                          ![c].sent = Append(@, r)]
          PROVE  client' \in [Conns -> ClientType]
        <3> DEFINE y == [client[c] EXCEPT !.begun = FALSE, !.wire = Append(client[c].wire, r),
                                          !.sent = Append(client[c].sent, r)]
        <3>1. r \in Messages
            BY OffersAre
        <3>2. y \in ClientType
            BY <1>1, <1>2, <3>1 DEF ClientType
        <3>3. client' = [client EXCEPT ![c] = y]
            BY <2>2
        <3> HIDE DEF y
        <3> QED BY <3>2, <3>3
    <2> QED BY <1>4, <2>1, <2>2 DEF Send
<1> QED BY <1>3, <1>4

LEMMA ArriveStep ==
    ASSUME IInv, NEW c \in Conns, Arrive(c)
    PROVE  IInv' /\ SameExpired(server, server')
<1>1. client[c] \in ClientType /\ Free(server) /\ server \in ServerType
    BY DEF IInv, Free
<1>2. CASE /\ client[c].wire # <<>>
           /\ server' = Post([server EXCEPT !.conn[c].reading = FALSE, !.conn[c].quiet = 0],
                             [op |-> "read", conn |-> c, what |-> Head(client[c].wire)])
           /\ client' = [client EXCEPT ![c].wire = Tail(@)]
    <2>1. Head(client[c].wire) \in Messages /\ Tail(client[c].wire) \in Seq(Messages)
        BY <1>1, <1>2 DEF ClientType
    <2> DEFINE y == [client[c] EXCEPT !.wire = Tail(client[c].wire)]
    <2>2. y \in ClientType /\ client' = [client EXCEPT ![c] = y]
        BY <1>1, <1>2, <2>1 DEF ClientType
    <2> HIDE DEF y
    <2>3. client' \in [Conns -> ClientType]
        BY <2>2 DEF IInv
    <2>4. Free(server') /\ SameExpired(server, server')
        BY <1>1, <1>2, <2>1, ArriveKeeps DEF Arrive
    <2> QED BY <2>3, <2>4 DEF IInv, Free
<1>3. CASE /\ server' = Post([server EXCEPT !.conn[c].reading = FALSE], Event("read", c, "error"))
           /\ UNCHANGED client
    <2>1. server.conn \in [Conns -> ConnType]
        BY <1>1 DEF ServerType
    <2>2. [server EXCEPT !.conn[c].reading = FALSE]
          = [server EXCEPT !.conn[c].reading = FALSE, !.conn[c].quiet = server.conn[c].quiet]
        BY <1>1, <2>1 DEF ServerType, ConnType
    <2>3. server' = Post([server EXCEPT !.conn[c].reading = FALSE, !.conn[c].quiet = server.conn[c].quiet],
                         [op |-> "read", conn |-> c, what |-> Plain("error")])
        BY <1>3, <2>2 DEF Event
    <2>4. Free(server') /\ SameExpired(server, server')
        BY <1>1, <2>3, ArriveKeeps DEF Arrive
    <2> QED BY <1>3, <2>4 DEF IInv, Free
<1> QED BY <1>2, <1>3 DEF Arrive

LEMMA StoppingFree ==
    ASSUME NEW s, Free(s), NEW t, t = [s EXCEPT !.serving = "stopping"]
    PROVE  Free(t) /\ SameExpired(s, t)
<1>1. s \in ServerType /\ Inv(s, s.tasks, None) /\ None \notin Conns
    BY ConnectionAssumption DEF Free, ConnectionAssumption
<1>2. /\ t.conn = s.conn /\ t.queue = s.queue /\ t.tasks = s.tasks /\ t.highest_id = s.highest_id
      /\ t.blocked = s.blocked /\ t \in ServerType
    BY <1>1 DEF ServerType
<1>3. \A d \in Conns : Active(t, d) <=> Active(s, d)
    BY <1>2 DEF Active
<1>4. InvQueue(t, None)
    BY <1>1, <1>2 DEF Inv, InvQueue, EventOK
<1>5. ASSUME NEW d \in Conns PROVE ConnOK(t, t.tasks, d)
    <2>1. ConnOK(s, s.tasks, d)
        BY <1>1 DEF Inv
    <2> QED BY <2>1, <1>2, <1>3 DEF ConnOK, Owned
<1>6. InvTasks(t, t.tasks, None)
    BY <1>1, <1>2, <1>3, TasksOf DEF Inv, InvTasks
<1> QED BY <1>1, <1>2, <1>4, <1>5, <1>6 DEF Free, Inv, SameExpired

LEMMA InitIs == Init => IInv
<1> SUFFICES ASSUME Init PROVE IInv
    OBVIOUS
<1>1. server = [NewServer EXCEPT !.serving = "running"]
    <2>1. server = NewServer
        BY DEF Init
    <2>2. NewServer = [NewServer EXCEPT !.serving = NewServer.serving]
        BY DEF NewServer
    <2>3. NewServer.serving = "running"
        BY DEF NewServer
    <2> QED BY <2>1, <2>2, <2>3
<1>2. Free(server)
    BY <1>1, NewFree
<1>3. NewClient \in ClientType
    BY DEF NewClient, ClientType
<1> QED BY <1>2, <1>3 DEF Init, IInv

\* One step per action of the system.
LEMMA NextKeeps ==
    ASSUME IInv, [Next]_vars
    PROVE  IInv' /\ Timely(server, server')
<1>1. Free(server) /\ server \in ServerType /\ client \in [Conns -> ClientType] /\ None \notin Conns
    BY ConnectionAssumption DEF IInv, Free, ConnectionAssumption
<1>2. SameExpired(server, server') => Timely(server, server')
    BY DEF SameExpired, Timely
<1>3. (Free(server))' <=> Free(server')
    BY DEF Free
<1>4. (\A c \in Conns : ~server'.conn[c].expired) => Timely(server, server')
    BY DEF Timely
<1>5. CASE Work
    <2>1. server.blocked.conn = None
        BY <1>5 DEF Work, Blocked
    <2>2. Free(server') /\ Timely(server, server')
        BY <1>1, <1>5, <2>1, WorkKeeps DEF Work
    <2> QED BY <1>1, <1>5, <2>2 DEF Work, IInv, Free
<1>6. CASE Second
    BY <1>1, <1>2, <1>6, SecondKeeps DEF Second, IInv, Free
<1>7. CASE Stop
    <2>1. CASE Blocked
        <3>1. server' = [server EXCEPT !.serving = "stopping"]
            BY <1>7, <2>1 DEF Stop
        <3>2. Free(server') /\ SameExpired(server, server')
            BY <3>1, <1>1, StoppingFree
        <3> QED BY <3>2, <1>1, <1>2, <1>7 DEF Stop, IInv, Free
    <2>2. CASE ~Blocked
        <3>1. server' = [NewServer EXCEPT !.serving = "stopping"]
            BY <1>7, <2>2 DEF Stop
        <3>2. Free(server') /\ \A c \in Conns : ~server'.conn[c].expired
            BY <3>1, NewFree
        <3> QED BY <3>2, <1>1, <1>4, <1>7 DEF Stop, IInv, Free
    <2> QED BY <2>1, <2>2
<1>8. CASE End
    <2>1. Free(server') /\ \A c \in Conns : ~server'.conn[c].expired
        BY <1>8, NewFree DEF End
    <2> QED BY <2>1, <1>1, <1>4, <1>8 DEF End, IInv, Free
<1>9. ASSUME NEW c \in Conns, FinishLong(c) PROVE IInv' /\ Timely(server, server')
    <2> DEFINE a == server.blocked.answer
               t == Untimed(Sent(Unblocked(server), c, a), c)
    <2>1. a \in AnswerType /\ server.blocked.conn = c
        BY <1>1, <1>9 DEF ServerType, FinishLong
    <2>2. server' = Release(ReadOn(AfterLong(t, c), c), c)
        BY <1>9 DEF FinishLong
    <2> HIDE DEF a
    <2>3. Free(server') /\ SameExpired(server, server')
        BY <1>1, <2>1, <2>2, FinishLongKeeps
    <2> QED BY <2>3, <1>1, <1>2, <1>9 DEF FinishLong, IInv, Free
<1>10. ASSUME NEW c \in Conns, BreakLong(c) PROVE IInv' /\ Timely(server, server')
    <2> DEFINE a == [server.blocked.answer EXCEPT !.body = "cut"]
    <2>1. a \in AnswerType /\ server.blocked.conn = c
        BY <1>1, <1>10 DEF ServerType, AnswerType, BreakLong
    <2>2. server' = Release(ReadOn(Sent(Unblocked(server), c, a), c), c)
        BY <1>10 DEF BreakLong
    <2> HIDE DEF a
    <2>3. Free(server') /\ SameExpired(server, server')
        BY <1>1, <2>1, <2>2, BreakLongKeeps
    <2> QED BY <2>3, <1>1, <1>2, <1>10 DEF BreakLong, IInv, Free
<1>11. ASSUME NEW c \in Conns, Accept(c) PROVE IInv' /\ Timely(server, server')
    BY <1>1, <1>2, <1>11, AcceptKeeps DEF Accept, IInv, Free
<1>12. ASSUME NEW c \in Conns, Arrive(c) PROVE IInv' /\ Timely(server, server')
    BY <1>2, <1>12, ArriveStep
<1>13. ASSUME NEW c \in Conns, Take(c) PROVE IInv' /\ Timely(server, server')
    BY <1>1, <1>2, <1>13, TakeKeeps DEF Take, IInv, Free
<1>14. ASSUME NEW c \in Conns, Send(c) \/ Leave(c) PROVE IInv' /\ Timely(server, server')
    <2>1. server' = server /\ SameExpired(server, server')
        BY <1>14 DEF Send, Leave, SameExpired
    <2>2. client' \in [Conns -> ClientType]
        BY <1>1, <1>14, ClientSteps
    <2> QED BY <1>1, <1>2, <2>1, <2>2 DEF IInv, Free
<1>15. CASE UNCHANGED vars
    <2>1. server' = server /\ client' = client /\ SameExpired(server, server')
        BY <1>15 DEF vars, SameExpired
    <2> QED BY <1>1, <1>2, <2>1 DEF IInv, Free
<1> QED BY <1>5, <1>6, <1>7, <1>8, <1>9, <1>10, <1>11, <1>12, <1>13, <1>14, <1>15 DEF Next

\* What the property says of deadlines is part of the invariant.
LEMMA InvImplies == IInv => NobodyWithoutDeadline
<1> SUFFICES ASSUME IInv PROVE NobodyWithoutDeadline
    OBVIOUS
<1>1. server \in ServerType /\ Inv(server, server.tasks, None)
    BY DEF IInv, Free
<1>2. \A id \in DOMAIN server.tasks :
          /\ id \in 1..server.highest_id
          /\ server.conn[server.tasks[id].conn].accepted
    BY <1>1 DEF Inv, InvTasks
<1>3. ASSUME NEW c \in Conns
      PROVE  LET other == \E d \in Conns \ {c} : server.conn[d].expired
                 waits == \E id \in DOMAIN server.tasks : server.tasks[id].conn = c
             IN /\ server.conn[c].stolen => other
                /\ server.conn[c].reading => server.conn[c].open
                /\ server.conn[c].reading => waits \/ server.conn[c].stolen
    <2>1. ConnOK(server, server.tasks, c)
        BY <1>1 DEF Inv
    <2> QED BY <2>1 DEF ConnOK, Active, Owned
<1> QED BY <1>2, <1>3 DEF NobodyWithoutDeadline

\* The connections, the timer and the queue of the worker keep together, for any number of
\* connections and requests and any timeout.
THEOREM ServerInvariant == Spec => []IInv
<1>1. Init => IInv
    BY InitIs
<1>2. IInv /\ [Next]_vars => IInv'
    BY NextKeeps
<1> QED BY <1>1, <1>2, PTL DEF Spec

\* A connection that waits for its client has a deadline, unless another whose deadline has
\* fired has cancelled it (do_read, start_deadline, task_timer).
THEOREM DeadlinesKept == Spec => []NobodyWithoutDeadline
BY ServerInvariant, InvImplies, PTL

\* A deadline never closes a connection early (start_deadline, process_tasks).
THEOREM DeadlinesInTime == Spec => DeadlineNotEarly
<1>1. IInv /\ [Next]_vars
      => [\A c \in Conns :
            server'.conn[c].expired /\ ~server.conn[c].expired
            => \/ server.conn[c].quiet = Timeout
               \/ \E i \in DOMAIN server.queue :
                     server.queue[i].op = "read" /\ server.queue[i].conn = c]_vars
    BY NextKeeps DEF Timely
<1> QED BY <1>1, ServerInvariant, PTL DEF Spec, DeadlineNotEarly

-----------------------------------------------------------------------------
(* The answers: what a connection and its client know of each other.       *)

\* c owes the answer to the last message that its client has sent, and no other.
Owes(x, cl, kind) == Len(cl.sent) = Len(x.answers) + 1 /\ cl.sent[Len(cl.sent)].kind = kind

WroteTo(e, c) == e.op = "written" /\ e.conn = c
HasWritten(q, c) == \E i \in 1 .. Len(q) : WroteTo(q[i], c)

\* The parser does not take a message, or what the next completed write clears is the
\* note of a "100 Continue" and not the parser.
Dirty(x) == x.message_complete \/ x.continue_requested

\* The answers that have left belong to the requests.
Right(x, cl, i) ==
    /\ x.answers[i].kind = cl.sent[i].kind
    /\ cl.sent[i].kind = "head" => x.answers[i].body = "empty"
    /\ x.answers[i].body = "empty" =>
          cl.sent[i].kind \notin Files \cup Errors /\ \E j \in 1 .. i : cl.sent[j].kind \in Heads
    /\ x.answers[i].body = "cut" => cl.gone \/ x.expired

Matches(x, cl) ==
    /\ ~x.dropped /\ Len(x.answers) <= Len(cl.sent)
    /\ \A i \in 1 .. Len(x.answers) : Right(x, cl, i)
    /\ x.skip_body => \E j \in 1 .. Len(cl.sent) : cl.sent[j].kind \in Heads
    /\ ~(x.message_complete /\ x.continue_requested)
    /\ ~x.accepted => ~x.continue_requested

\* A message that has been read: its answer is owed, no answer is under way, and the
\* writes that have completed are handled before it and leave the parser ready.
Awaited(x, q, cl, c, j) ==
    /\ x.writing = NoAnswer
    /\ q[j].what \notin Openings => Owes(x, cl, q[j].what.kind) /\ cl.wire = <<>>
    /\ \A i \in 1 .. Len(q) : WroteTo(q[i], c) => i < j
    /\ Dirty(x) => \E i \in 1 .. (j - 1) : WroteTo(q[i], c)

Fits(x, q, cl, c, j) ==
    /\ q[j].op = "start" => ~x.continue_requested
    /\ q[j].op = "read" /\ q[j].what.kind = "error" /\ x.writing # NoAnswer => cl.gone
    /\ q[j].op = "read" /\ q[j].what.kind # "error" => Awaited(x, q, cl, c, j)

QueueFits(x, q, cl, c) == \A j \in 1 .. Len(q) : q[j].conn = c => Fits(x, q, cl, c, j)

WritingFits(x, q, cl, c) ==
    x.writing # NoAnswer => /\ x.writing = Answer("medium", "full") /\ Owes(x, cl, "medium")
                            /\ cl.wire = <<>> /\ ~HasWritten(q, c)

\* The answers that can occupy the worker.
Lasting == Files \cup {"long"}

BlockedFits(x, blocked, cl, c) ==
    blocked.conn = c => /\ \E k \in Lasting : blocked.answer = Answer(k, "full") /\ Owes(x, cl, k)
                        /\ cl.wire = <<>> /\ x.writing = NoAnswer /\ ~x.continue_requested

\* Whoever waits for a message has its parser ready, or a write to complete first, or a
\* client that has left with nothing on the wire.
Departed(cl) == cl.gone /\ cl.wire = <<>>
ReadingFits(x, q, cl, c) ==
    x.reading /\ Dirty(x) => HasWritten(q, c) \/ x.writing # NoAnswer \/ Departed(cl)

WireFits(x, cl) ==
    /\ Len(cl.sent) <= Len(x.answers) + 1
    /\ \A i \in 1 .. Len(cl.wire) :
          cl.wire[i] \notin Openings => i = Len(cl.wire) /\ Owes(x, cl, cl.wire[i].kind)

\* What c and its client know of each other.
Books(s, cl, c) ==
    /\ Matches(s.conn[c], cl)
    /\ QueueFits(s.conn[c], s.queue, cl, c)
    /\ WritingFits(s.conn[c], s.queue, cl, c)
    /\ BlockedFits(s.conn[c], s.blocked, cl, c)
    /\ ReadingFits(s.conn[c], s.queue, cl, c)
    /\ s.serving = "running" => WireFits(s.conn[c], cl)

\* y is x, but that its parser may have become ready, its read have ended, its deadline
\* have fired.
Softer(y, x) ==
    /\ y.writing = x.writing /\ y.answers = x.answers
    /\ y.dropped = x.dropped /\ y.skip_body = x.skip_body
    /\ x.accepted => y.accepted
    /\ y.reading => x.reading
    /\ x.expired => y.expired
    /\ y.message_complete => x.message_complete
    /\ y.continue_requested => x.continue_requested

\* What a handler of c does, as the others see it.
Around(s, t, c) ==
    /\ t \in ServerType /\ t.serving = s.serving
    /\ \A d \in Conns \ {c} : Softer(t.conn[d], s.conn[d])
    /\ Len(t.queue) >= Len(s.queue) /\ \A i \in 1 .. Len(s.queue) : t.queue[i] = s.queue[i]
    /\ \A i \in 1 .. Len(t.queue) : i > Len(s.queue) => t.queue[i].conn = c
    /\ t.blocked = s.blocked \/ (t.blocked.conn \in {c, None} /\ s.blocked.conn \in {c, None})

LEMMA AroundTwice ==
    ASSUME NEW s \in ServerType, NEW t, NEW u, NEW c \in Conns, Around(s, t, c), Around(t, u, c)
    PROVE  Around(s, u, c)
<1>1. Len(s.queue) \in Nat /\ Len(t.queue) \in Nat /\ Len(u.queue) \in Nat
    BY QueueOf DEF Around
<1>2. \A d \in Conns \ {c} : Softer(u.conn[d], s.conn[d])
    BY DEF Around, Softer
<1>3. Len(u.queue) >= Len(s.queue) /\ \A i \in 1 .. Len(s.queue) : u.queue[i] = s.queue[i]
    BY <1>1 DEF Around
<1>4. \A i \in 1 .. Len(u.queue) : i > Len(s.queue) => u.queue[i].conn = c
    <2> SUFFICES ASSUME NEW i \in 1 .. Len(u.queue), i > Len(s.queue) PROVE u.queue[i].conn = c
        OBVIOUS
    <2>1. CASE i > Len(t.queue)
        BY <2>1 DEF Around
    <2>2. CASE i \in 1 .. Len(t.queue)
        BY <2>2 DEF Around
    <2> QED BY <1>1, <2>1, <2>2
<1> QED BY <1>2, <1>3, <1>4 DEF Around

LEMMA AroundSame ==
    ASSUME NEW s \in ServerType, NEW c
    PROVE  Around(s, s, c)
<1>1. Len(s.queue) \in Nat
    BY QueueOf
<1> QED BY <1>1 DEF Around, Softer

\* The books of d do not mind events of others, nor a parser that becomes ready.
LEMMA SofterKeeps ==
    ASSUME NEW s \in ServerType, NEW t \in ServerType, t.serving = "running" => s.serving = "running",
           NEW d \in Conns, NEW cl, Books(s, cl, d), Softer(t.conn[d], s.conn[d]),
           \A i \in 1 .. Len(s.queue) : i \in 1 .. Len(t.queue) /\ t.queue[i] = s.queue[i],
           \A i \in 1 .. Len(t.queue) : t.queue[i].conn = d => i \in 1 .. Len(s.queue),
           t.blocked.conn = d => t.blocked = s.blocked
    PROVE  Books(t, cl, d)
<1> DEFINE x == s.conn[d]
           y == t.conn[d]
<1>1. Softer(y, x)
    OBVIOUS
<1>2. /\ Len(s.queue) \in Nat /\ Len(t.queue) \in Nat
      /\ \A i \in 1 .. Len(s.queue) : i \in 1 .. Len(t.queue) /\ t.queue[i] = s.queue[i]
      /\ \A i \in 1 .. Len(t.queue) : t.queue[i].conn = d => i \in 1 .. Len(s.queue)
    BY QueueOf
<1>3. HasWritten(t.queue, d) <=> HasWritten(s.queue, d)
    BY <1>2 DEF HasWritten, WroteTo
<1>4. Books(s, cl, d) <=>
        /\ Matches(x, cl) /\ QueueFits(x, s.queue, cl, d) /\ WritingFits(x, s.queue, cl, d)
        /\ BlockedFits(x, s.blocked, cl, d) /\ ReadingFits(x, s.queue, cl, d)
        /\ s.serving = "running" => WireFits(x, cl)
    BY DEF Books
<1>5. Books(t, cl, d) <=>
        /\ Matches(y, cl) /\ QueueFits(y, t.queue, cl, d) /\ WritingFits(y, t.queue, cl, d)
        /\ BlockedFits(y, t.blocked, cl, d) /\ ReadingFits(y, t.queue, cl, d)
        /\ t.serving = "running" => WireFits(y, cl)
    BY DEF Books
<1>6. t.serving = "running" => s.serving = "running"
    OBVIOUS
<1>7. t.blocked.conn = d => t.blocked = s.blocked
    OBVIOUS
<1> HIDE DEF x, y
<1>8. Matches(y, cl)
    BY ONLY <1>1, <1>4, Books(s, cl, d) DEF Matches, Right, Softer
<1>9. QueueFits(y, t.queue, cl, d)
    <2> SUFFICES ASSUME NEW j \in 1 .. Len(t.queue), t.queue[j].conn = d PROVE Fits(y, t.queue, cl, d, j)
        BY DEF QueueFits
    <2>1. j \in 1 .. Len(s.queue) /\ t.queue[j] = s.queue[j]
        BY <1>2
    <2>2. Fits(x, s.queue, cl, d, j)
        BY <1>4, <2>1 DEF QueueFits
    <2>3. ASSUME Awaited(x, s.queue, cl, d, j) PROVE Awaited(y, t.queue, cl, d, j)
        <3>1. y.writing = NoAnswer
            BY ONLY <1>1, <2>3 DEF Awaited, Softer
        <3>2. t.queue[j].what \notin Openings => Owes(y, cl, t.queue[j].what.kind) /\ cl.wire = <<>>
            BY ONLY <1>1, <2>1, <2>3 DEF Awaited, Softer, Owes
        <3>3. \A i \in 1 .. Len(t.queue) : WroteTo(t.queue[i], d) => i < j
            BY ONLY <1>2, <2>3 DEF Awaited, WroteTo
        <3>4. Dirty(y) => \E i \in 1 .. (j - 1) : WroteTo(t.queue[i], d)
            <4>1. Dirty(y) => Dirty(x)
                BY ONLY <1>1 DEF Softer, Dirty
            <4>2. \A i \in 1 .. (j - 1) : i \in 1 .. Len(s.queue)
                BY ONLY <1>2, <2>1
            <4> QED BY ONLY <1>2, <2>3, <4>1, <4>2 DEF Awaited
        <3> QED BY ONLY <3>1, <3>2, <3>3, <3>4 DEF Awaited
    <2> QED BY ONLY <1>1, <2>1, <2>2, <2>3 DEF Fits, Softer
<1>10. WritingFits(y, t.queue, cl, d)
    BY ONLY <1>1, <1>3, <1>4, Books(s, cl, d) DEF WritingFits, Softer, Owes
<1>11. BlockedFits(y, t.blocked, cl, d)
    BY ONLY <1>1, <1>4, <1>7, Books(s, cl, d) DEF BlockedFits, Softer, Owes
<1>12. ReadingFits(y, t.queue, cl, d)
    BY ONLY <1>1, <1>3, <1>4, Books(s, cl, d) DEF ReadingFits, Softer, Dirty
<1>13. t.serving = "running" => WireFits(y, cl)
    BY ONLY <1>1, <1>4, <1>6, Books(s, cl, d) DEF WireFits, Softer, Owes
<1> QED BY <1>5, <1>8, <1>9, <1>10, <1>11, <1>12, <1>13

\* A handler of another connection leaves the books of d alone.
LEMMA OthersKeep ==
    ASSUME NEW s \in ServerType, NEW t, NEW c \in Conns, Around(s, t, c), NEW d \in Conns \ {c},
           NEW cl, Books(s, cl, d)
    PROVE  Books(t, cl, d)
<1>1. Softer(t.conn[d], s.conn[d]) /\ t \in ServerType /\ t.serving = s.serving
    BY DEF Around
<1>2. Len(s.queue) \in Nat /\ Len(t.queue) \in Nat
    BY <1>1, QueueOf
<1>3. \A i \in 1 .. Len(s.queue) : i \in 1 .. Len(t.queue) /\ t.queue[i] = s.queue[i]
    BY <1>2 DEF Around
<1>4. \A i \in 1 .. Len(t.queue) : t.queue[i].conn = d => i \in 1 .. Len(s.queue)
    BY <1>2 DEF Around
<1>5. t.blocked.conn = d => t.blocked = s.blocked
    BY ConnectionAssumption DEF Around, ConnectionAssumption
<1> QED BY ONLY <1>1, <1>3, <1>4, <1>5, SofterKeeps, Books(s, cl, d), s \in ServerType, d \in Conns

\* What a step on the record of c leaves.
Kept(s, t, c, y) ==
    /\ t \in ServerType /\ Around(s, t, c) /\ t.conn[c] = y /\ t.queue = s.queue
    /\ t.blocked = s.blocked /\ t.serving = s.serving

LEMMA PutAround ==
    ASSUME NEW s \in ServerType, NEW c \in Conns, NEW y \in ConnType
    PROVE  Kept(s, Put(s, c, y), c, y)
<1>1. Only(s, Put(s, c, y), c, y)
    BY PutOnly
<1>2. Len(s.queue) \in Nat
    BY QueueOf
<1> QED BY <1>1, <1>2 DEF Only, SameTimer, Around, Softer, Kept

LEMMA PostAround ==
    ASSUME NEW s \in ServerType, NEW e \in Events, NEW t, t = Post(s, e)
    PROVE  /\ Around(s, t, e.conn) /\ t \in ServerType /\ t.conn = s.conn /\ t.blocked = s.blocked
           /\ t.serving = s.serving /\ Len(s.queue) \in Nat /\ Len(t.queue) = Len(s.queue) + 1
           /\ t.queue[Len(s.queue) + 1] = e
           /\ \A i \in 1 .. Len(s.queue) : i \in 1 .. Len(t.queue) /\ t.queue[i] = s.queue[i]
           /\ \A i \in 1 .. Len(t.queue) : i \in 1 .. Len(s.queue) \/ i = Len(s.queue) + 1
<1>1. /\ t \in ServerType /\ SameTimer(s, t) /\ t.conn = s.conn
      /\ Len(s.queue) \in Nat /\ Len(t.queue) = Len(s.queue) + 1 /\ t.queue[Len(s.queue) + 1] = e
      /\ \A i \in 1 .. Len(s.queue) : t.queue[i] = s.queue[i]
    BY PostFields
<1>2. /\ \A i \in 1 .. Len(s.queue) : i \in 1 .. Len(t.queue)
      /\ \A i \in 1 .. Len(t.queue) : i \in 1 .. Len(s.queue) \/ i = Len(s.queue) + 1
    BY ONLY <1>1
<1>3. Around(s, t, e.conn)
    <2>1. \A i \in 1 .. Len(t.queue) : i > Len(s.queue) => t.queue[i].conn = e.conn
        BY ONLY <1>1, <1>2
    <2> QED BY ONLY <1>1, <2>1 DEF Around, Softer, SameTimer
<1> QED BY <1>1, <1>2, <1>3 DEF SameTimer

\* c has no read under way or read message that waits for the worker, no answer under way.
Quiet(s, c) ==
    /\ \A j \in 1 .. Len(s.queue) : ~(s.queue[j].op = "read" /\ s.queue[j].conn = c)
    /\ s.conn[c].writing = NoAnswer /\ ~s.conn[c].reading /\ s.blocked.conn # c

\* The end of a write of c, when no read of c waits for the worker.
LEMMA WrittenPosted ==
    ASSUME NEW s \in ServerType, NEW c \in Conns, NEW cl, Books(s, cl, c), Quiet(s, c),
           NEW e \in Events, WroteTo(e, c), NEW t, t = Post(s, e)
    PROVE  Books(t, cl, c) /\ Around(s, t, c) /\ HasWritten(t.queue, c)
<1>1. /\ Around(s, t, c) /\ t \in ServerType /\ t.conn = s.conn /\ t.blocked = s.blocked
      /\ t.serving = s.serving /\ Len(s.queue) \in Nat /\ Len(t.queue) = Len(s.queue) + 1
      /\ t.queue[Len(s.queue) + 1] = e
      /\ \A i \in 1 .. Len(s.queue) : i \in 1 .. Len(t.queue) /\ t.queue[i] = s.queue[i]
      /\ \A i \in 1 .. Len(t.queue) : i \in 1 .. Len(s.queue) \/ i = Len(s.queue) + 1
    BY PostAround DEF WroteTo
<1>2. HasWritten(t.queue, c)
    BY ONLY <1>1, WroteTo(e, c) DEF HasWritten
<1>3. QueueFits(t.conn[c], t.queue, cl, c)
    <2>1. ASSUME NEW j \in 1 .. Len(s.queue), s.queue[j].conn = c
          PROVE  Fits(t.conn[c], t.queue, cl, c, j)
        <3>1. Fits(s.conn[c], s.queue, cl, c, j) /\ s.queue[j].op # "read"
            BY <2>1 DEF Books, QueueFits, Quiet
        <3> QED BY ONLY <1>1, <3>1, j \in 1 .. Len(s.queue) DEF Fits
    <2>2. Fits(t.conn[c], t.queue, cl, c, Len(s.queue) + 1)
        BY ONLY <1>1, WroteTo(e, c) DEF Fits, WroteTo
    <2>3. \A j \in 1 .. Len(s.queue) : t.queue[j].conn = c => s.queue[j].conn = c
        BY ONLY <1>1
    <2> QED BY ONLY <1>1, <2>1, <2>2, <2>3 DEF QueueFits
<1>4. WritingFits(t.conn[c], t.queue, cl, c)
    BY <1>1 DEF WritingFits, Quiet
<1>5. ReadingFits(t.conn[c], t.queue, cl, c)
    BY ONLY <1>2 DEF ReadingFits
<1> QED BY <1>1, <1>2, <1>3, <1>4, <1>5 DEF Books

\* An answer leaves.
LEMMA SentKeeps ==
    ASSUME NEW s \in ServerType, NEW c \in Conns, NEW cl, Books(s, cl, c), Quiet(s, c),
           NEW a \in AnswerType, Owes(s.conn[c], cl, a.kind), cl.wire = <<>>,
           cl.sent \in Seq(Messages),
           a.kind = "head" => a.body = "empty",
           a.body = "empty" => a.kind \notin Files \cup Errors /\ \E j \in 1 .. Len(cl.sent) : cl.sent[j].kind \in Heads,
           a.body = "cut" => cl.gone \/ s.conn[c].expired,
           NEW t, t = Sent(s, c, a)
    PROVE  Books(t, cl, c) /\ Around(s, t, c) /\ Quiet(t, c) /\ t.queue = s.queue
<1> DEFINE x == s.conn[c]
           y == [x EXCEPT !.answers = Append(x.answers, a)]
<1>1. x \in ConnType
    BY DEF ServerType
<1>2. x.answers \in Seq(AnswerType)
    BY <1>1 DEF ConnType
<1>3. y \in ConnType /\ y.answers = Append(x.answers, a) /\ y.writing = x.writing
      /\ y.dropped = x.dropped /\ y.skip_body = x.skip_body /\ y.accepted = x.accepted
      /\ y.message_complete = x.message_complete /\ y.continue_requested = x.continue_requested
      /\ y.expired = x.expired /\ y.reading = x.reading
    <2>1. Append(x.answers, a) \in Seq(AnswerType)
        BY <1>2
    <2> QED BY <1>1, <2>1 DEF ConnType
<1>4. t = Put(s, c, y)
    BY DEF Sent, Put
<1>5. /\ Len(y.answers) = Len(x.answers) + 1 /\ y.answers[Len(x.answers) + 1] = a
      /\ \A i \in 1 .. Len(x.answers) : y.answers[i] = x.answers[i]
      /\ Len(x.answers) \in Nat
    BY <1>2, <1>3
<1> HIDE DEF y
<1>6. Kept(s, t, c, y)
    BY <1>3, <1>4, PutAround
<1>7. Matches(x, cl) /\ QueueFits(x, s.queue, cl, c) /\ ReadingFits(x, s.queue, cl, c)
    BY DEF Books
<1> HIDE DEF x
<1>8. Matches(y, cl)
    <2>1. Len(y.answers) = Len(cl.sent)
        BY <1>5 DEF Owes, x
    <2>2. ASSUME NEW i \in 1 .. Len(y.answers) PROVE Right(y, cl, i)
        <3>1. CASE i \in 1 .. Len(x.answers)
            BY ONLY <3>1, <1>3, <1>5, <1>7 DEF Matches, Right
        <3>2. CASE i = Len(x.answers) + 1
            <4>1. y.answers[i] = a /\ i = Len(cl.sent) /\ cl.sent[i].kind = a.kind
                BY <3>2, <1>5 DEF Owes, x
            <4> QED BY <4>1, <1>3 DEF Right, x
        <3> QED BY <1>5, <3>1, <3>2
    <2>3. Len(cl.sent) <= Len(cl.sent)
        BY <1>5, <2>1
    <2> QED BY ONLY <2>1, <2>2, <2>3, <1>3, <1>7 DEF Matches
<1>9. QueueFits(y, s.queue, cl, c)
    <2> SUFFICES ASSUME NEW j \in 1 .. Len(s.queue), s.queue[j].conn = c PROVE Fits(y, s.queue, cl, c, j)
        BY DEF QueueFits
    <2>1. s.queue[j].op # "read" /\ Fits(x, s.queue, cl, c, j)
        BY <1>7 DEF QueueFits, Quiet
    <2> QED BY ONLY <2>1, <1>3 DEF Fits
<1>10. y.writing = NoAnswer /\ ~y.reading /\ s.blocked.conn # c
    BY <1>3 DEF Quiet, x
<1>11. WireFits(y, cl)
    <2>1. Len(cl.sent) = Len(y.answers) /\ Len(cl.wire) = 0
        BY <1>5 DEF Owes, x
    <2> QED BY ONLY <2>1, <1>5 DEF WireFits
<1>12. ReadingFits(y, s.queue, cl, c)
    BY ONLY <1>3, <1>7 DEF ReadingFits, Dirty
<1>13. /\ t.conn[c] = y /\ t.queue = s.queue /\ t.blocked = s.blocked /\ t.serving = s.serving
       /\ Around(s, t, c)
    BY ONLY <1>6 DEF Kept
<1>14. Books(t, cl, c)
    BY ONLY <1>8, <1>9, <1>10, <1>11, <1>12, <1>13 DEF Books, WritingFits, BlockedFits
<1> QED BY <1>10, <1>13, <1>14 DEF Quiet

\* Every parser as it was or ready; nothing posted.
Eased(s, t) ==
    /\ t \in ServerType /\ t.queue = s.queue /\ t.blocked = s.blocked /\ t.serving = s.serving
    /\ \A d \in Conns : Softer(t.conn[d], s.conn[d])

LEMMA EasedKeeps ==
    ASSUME NEW s \in ServerType, NEW t, Eased(s, t), NEW c \in Conns
    PROVE  /\ Around(s, t, c)
           /\ \A cl : Books(s, cl, c) => Books(t, cl, c)
           /\ Quiet(s, c) => Quiet(t, c)
<1>1. Len(s.queue) \in Nat
    BY QueueOf
<1>2. Around(s, t, c)
    BY <1>1 DEF Eased, Around
<1>3. ASSUME NEW cl, Books(s, cl, c) PROVE Books(t, cl, c)
    <2>1. t \in ServerType /\ t.serving = s.serving /\ t.queue = s.queue /\ t.blocked = s.blocked
          /\ Softer(t.conn[c], s.conn[c])
        BY DEF Eased
    <2> QED BY <1>3, <2>1, SofterKeeps
<1>4. Quiet(s, c) => Quiet(t, c)
    BY DEF Eased, Quiet, Softer
<1> QED BY <1>2, <1>3, <1>4

LEMMA PutEases ==
    ASSUME NEW s \in ServerType, NEW c \in Conns, NEW y \in ConnType, Softer(y, s.conn[c]),
           NEW t, t = Put(s, c, y)
    PROVE  Eased(s, t)
<1>1. Kept(s, t, c, y)
    BY PutAround
<1> QED BY <1>1 DEF Kept, Around, Eased

LEMMA CancelEases ==
    ASSUME NEW s \in ServerType, NEW c \in Conns, NEW t, t = Cancel(s, c)
    PROVE  /\ Eased(s, t)
           /\ \A d \in Conns : Alike(t.conn[d], s.conn[d])
                 /\ (Dirty(t.conn[d]) <=> Dirty(s.conn[d]))
                 /\ t.conn[d].skip_body = s.conn[d].skip_body
                 /\ t.conn[d].continue_requested = s.conn[d].continue_requested
<1> DEFINE id == s.conn[c].task_id
           owner == s.tasks[id].conn
<1>1. /\ t \in ServerType
      /\ t.queue = s.queue /\ t.blocked = s.blocked /\ t.serving = s.serving
      /\ \A d \in Conns : Alike(t.conn[d], s.conn[d])
    BY CancelFields
<1>2. CASE id \notin DOMAIN s.tasks
    <2>1. t = s
        BY <1>2 DEF Cancel
    <2> QED BY <2>1, <1>1 DEF Eased, Softer
<1>3. CASE id \in DOMAIN s.tasks
    <2>1. owner \in Conns
        BY <1>3, TasksOf
    <2>2. t = [s EXCEPT !.tasks = [i \in DOMAIN @ \ {id} |-> @[i]],
                   !.conn[owner].stolen = @ \/ owner # c]
        BY <1>3 DEF Cancel
    <2> HIDE DEF owner
    <2> DEFINE b == s.conn[owner].stolen \/ owner # c
               x == [s.conn[owner] EXCEPT !.stolen = b]
    <2>3. t.conn = [s.conn EXCEPT ![owner] = x]
        BY <2>1, <2>2 DEF ServerType
    <2>4. s.conn \in [Conns -> ConnType] /\ s.conn[owner] \in ConnType
        BY <2>1 DEF ServerType
    <2> HIDE DEF b
    <2>5. Softer(x, s.conn[owner]) /\ (Dirty(x) <=> Dirty(s.conn[owner]))
          /\ x.skip_body = s.conn[owner].skip_body
          /\ x.continue_requested = s.conn[owner].continue_requested
        BY <2>4 DEF Softer, Dirty, ConnType
    <2> HIDE DEF x
    <2>6. t.conn[owner] = x /\ \A d \in Conns \ {owner} : t.conn[d] = s.conn[d]
        BY <2>1, <2>3, <2>4
    <2>7. ASSUME NEW d \in Conns
          PROVE  /\ Softer(t.conn[d], s.conn[d]) /\ (Dirty(t.conn[d]) <=> Dirty(s.conn[d]))
                 /\ t.conn[d].skip_body = s.conn[d].skip_body
                 /\ t.conn[d].continue_requested = s.conn[d].continue_requested
        <3>1. CASE d = owner
            BY <3>1, <2>5, <2>6
        <3>2. CASE d # owner
            <4>1. t.conn[d] = s.conn[d]
                BY <3>2, <2>6
            <4> QED BY <4>1 DEF Softer
        <3> QED BY <3>1, <3>2
    <2> QED BY <1>1, <2>7 DEF Eased
<1> QED BY <1>2, <1>3

LEMMA ScheduleEases ==
    ASSUME NEW s \in ServerType, NEW c \in Conns, NEW t, t = Schedule(s, c)
    PROVE  Eased(s, t) /\ (Dirty(t.conn[c]) <=> Dirty(s.conn[c]))
           /\ t.conn[c].continue_requested = s.conn[c].continue_requested
<1>1. t \in ServerType /\ Scheduled(s, t, c)
    BY ScheduleFields
<1>2. s.conn[c] \in ConnType
    BY DEF ServerType
<1>3. t.conn[c] = [[s.conn[c] EXCEPT !.task_id = s.highest_id + 1] EXCEPT !.stolen = FALSE]
    BY DEF Schedule, ServerType
<1>4. Softer(t.conn[c], s.conn[c]) /\ (Dirty(t.conn[c]) <=> Dirty(s.conn[c]))
      /\ t.conn[c].continue_requested = s.conn[c].continue_requested
    BY <1>2, <1>3 DEF Softer, Dirty, ConnType
<1>5. \A d \in Conns \ {c} : Softer(t.conn[d], s.conn[d])
    BY <1>1 DEF Scheduled, Softer
<1> QED BY <1>1, <1>4, <1>5 DEF Eased, Scheduled

LEMMA EasedTwice ==
    ASSUME NEW s, NEW t, NEW u, Eased(s, t), Eased(t, u)
    PROVE  Eased(s, u)
BY DEF Eased, Softer

LEMMA StartDeadlineEases ==
    ASSUME NEW s \in ServerType, NEW c \in Conns, NEW t, t = StartDeadline(s, c)
    PROVE  Eased(s, t) /\ (Dirty(t.conn[c]) <=> Dirty(s.conn[c]))
           /\ t.conn[c].continue_requested = s.conn[c].continue_requested
<1> DEFINE u == Cancel(s, c)
<1>1. Eased(s, u) /\ (Dirty(u.conn[c]) <=> Dirty(s.conn[c]))
      /\ u.conn[c].continue_requested = s.conn[c].continue_requested
    BY CancelEases
<1>2. t = Schedule(u, c)
    BY DEF StartDeadline
<1> HIDE DEF u
<1>3. u \in ServerType
    BY <1>1 DEF Eased
<1>4. Eased(u, t) /\ (Dirty(t.conn[c]) <=> Dirty(u.conn[c]))
      /\ t.conn[c].continue_requested = u.conn[c].continue_requested
    BY <1>2, <1>3, ScheduleEases
<1> QED BY <1>1, <1>4, EasedTwice

LEMMA ClearParserEases ==
    ASSUME NEW s \in ServerType, NEW c \in Conns, NEW t, t = ClearParser(s, c)
    PROVE  Eased(s, t) /\ ~t.conn[c].message_complete
           /\ t.conn[c].continue_requested = s.conn[c].continue_requested
<1> DEFINE y == [s.conn[c] EXCEPT !.message_complete = FALSE]
<1>1. s.conn[c] \in ConnType
    BY DEF ServerType
<1>2. y \in ConnType /\ Softer(y, s.conn[c]) /\ ~y.message_complete
      /\ y.continue_requested = s.conn[c].continue_requested
    BY <1>1 DEF ConnType, Softer
<1>3. t = Put(s, c, y)
    BY DEF ClearParser, Put
<1> HIDE DEF y
<1>4. t.conn[c] = y
    BY <1>2, <1>3, PutOnly
<1> QED BY <1>2, <1>3, <1>4, PutEases

\* The end of a write leaves the parser ready.
LEMMA ClearedEases ==
    ASSUME NEW s \in ServerType, NEW c \in Conns, NEW cl, Matches(s.conn[c], cl),
           NEW t, t = Cleared(s, c)
    PROVE  Eased(s, t) /\ ~Dirty(t.conn[c])
<1> DEFINE y == [s.conn[c] EXCEPT !.continue_requested = FALSE]
<1>1. s.conn[c] \in ConnType /\ ~(s.conn[c].message_complete /\ s.conn[c].continue_requested)
    BY DEF ServerType, Matches
<1>2. CASE s.conn[c].continue_requested
    <2>1. y \in ConnType /\ Softer(y, s.conn[c]) /\ ~Dirty(y)
        BY <1>1, <1>2 DEF ConnType, Softer, Dirty
    <2>2. t = Put(s, c, y)
        BY <1>2 DEF Cleared, Put
    <2> HIDE DEF y
    <2>3. t.conn[c] = y
        BY <2>1, <2>2, PutOnly
    <2> QED BY <2>1, <2>2, <2>3, PutEases
<1>3. CASE ~s.conn[c].continue_requested
    BY <1>3, ClearParserEases DEF Cleared, Dirty
<1> QED BY <1>2, <1>3

LEMMA ReleaseEases ==
    ASSUME NEW s \in ServerType, NEW c \in Conns, NEW t, t = Release(s, c)
    PROVE  Eased(s, t)
<1> DEFINE y == [s.conn[c] EXCEPT !.open = FALSE]
<1>1. s.conn[c] \in ConnType
    BY DEF ServerType
<1>2. y \in ConnType /\ Softer(y, s.conn[c])
    BY <1>1 DEF ConnType, Softer
<1>3. t = s \/ t = Put(s, c, y)
    BY DEF Release, Put
<1> HIDE DEF y
<1>4. Eased(s, s)
    BY DEF Eased, Softer
<1> QED BY <1>2, <1>3, <1>4, PutEases

\* An event that ends no write.
LEMMA PostBooks ==
    ASSUME NEW s \in ServerType, NEW c \in Conns, NEW cl, Books(s, cl, c),
           NEW e \in Events, e.op # "written", NEW t, t = Post(s, e),
           e.conn = c => Fits(s.conn[c], t.queue, cl, c, Len(s.queue) + 1)
    PROVE  Books(t, cl, c)
<1>1. /\ t \in ServerType /\ t.conn = s.conn /\ t.blocked = s.blocked
      /\ t.serving = s.serving /\ Len(s.queue) \in Nat /\ Len(t.queue) = Len(s.queue) + 1
      /\ t.queue[Len(s.queue) + 1] = e
      /\ \A i \in 1 .. Len(s.queue) : i \in 1 .. Len(t.queue) /\ t.queue[i] = s.queue[i]
      /\ \A i \in 1 .. Len(t.queue) : i \in 1 .. Len(s.queue) \/ i = Len(s.queue) + 1
    BY PostAround
<1>2. HasWritten(t.queue, c) <=> HasWritten(s.queue, c)
    BY ONLY <1>1, e.op # "written" DEF HasWritten, WroteTo
<1>3. QueueFits(t.conn[c], t.queue, cl, c)
    <2>1. ASSUME NEW j \in 1 .. Len(s.queue), s.queue[j].conn = c
          PROVE  Fits(t.conn[c], t.queue, cl, c, j)
        <3>1. Fits(s.conn[c], s.queue, cl, c, j)
            BY <2>1 DEF Books, QueueFits
        <3>2. ASSUME Awaited(s.conn[c], s.queue, cl, c, j) PROVE Awaited(s.conn[c], t.queue, cl, c, j)
            <4>1. \A i \in 1 .. Len(t.queue) : WroteTo(t.queue[i], c) => i < j
                BY ONLY <1>1, <3>2, e.op # "written" DEF Awaited, WroteTo
            <4>2. \A i \in 1 .. (j - 1) : i \in 1 .. Len(s.queue)
                BY ONLY <1>1, j \in 1 .. Len(s.queue)
            <4>3. t.queue[j] = s.queue[j]
                BY ONLY <1>1, j \in 1 .. Len(s.queue)
            <4> QED BY ONLY <1>1, <3>2, <4>1, <4>2, <4>3 DEF Awaited
        <3>3. t.queue[j] = s.queue[j] /\ t.conn[c] = s.conn[c]
            BY ONLY <1>1, j \in 1 .. Len(s.queue)
        <3> QED BY ONLY <3>1, <3>2, <3>3 DEF Fits
    <2>2. e.conn = c => Fits(t.conn[c], t.queue, cl, c, Len(s.queue) + 1)
        BY <1>1
    <2>3. ASSUME NEW j \in 1 .. Len(t.queue), t.queue[j].conn = c PROVE Fits(t.conn[c], t.queue, cl, c, j)
        <3>1. CASE j \in 1 .. Len(s.queue)
            BY ONLY <3>1, <2>1, <2>3, <1>1
        <3>2. CASE j = Len(s.queue) + 1
            BY ONLY <3>2, <2>2, <2>3, <1>1
        <3> QED BY ONLY <3>1, <3>2, <1>1, j \in 1 .. Len(t.queue)
    <2> QED BY ONLY <2>3 DEF QueueFits
<1>4. t.conn[c] = s.conn[c] /\ t.blocked = s.blocked /\ t.serving = s.serving
    BY ONLY <1>1
<1> QED BY ONLY <1>2, <1>3, <1>4, Books(s, cl, c) DEF Books, WritingFits, ReadingFits

\* The worker takes an event: a handler that ends a write leaves the parser ready.
LEMMA PopBooks ==
    ASSUME NEW s \in ServerType, s.queue # <<>>, NEW c \in Conns, NEW cl, Books(s, cl, c),
           NEW p, p = [s EXCEPT !.queue = Tail(@)], NEW t, Eased(p, t),
           WroteTo(Head(s.queue), c) => ~Dirty(t.conn[c])
    PROVE  Books(t, cl, c)
<1> DEFINE x == s.conn[c]
           y == t.conn[c]
<1>1. /\ p.conn = s.conn /\ p \in ServerType /\ p.blocked = s.blocked /\ p.serving = s.serving
      /\ Head(s.queue) = s.queue[1] /\ 1 \in 1 .. Len(s.queue)
      /\ \A i \in 1 .. Len(p.queue) : i + 1 \in 1 .. Len(s.queue) /\ p.queue[i] = s.queue[i + 1]
      /\ \A i \in 1 .. Len(s.queue) : i # 1 => i - 1 \in 1 .. Len(p.queue) /\ p.queue[i - 1] = s.queue[i]
    BY PopFields DEF SameTimer
<1>2. /\ Len(s.queue) \in Nat /\ Len(t.queue) \in Nat
      /\ \A i \in 1 .. Len(t.queue) : i + 1 \in 1 .. Len(s.queue) /\ t.queue[i] = s.queue[i + 1]
      /\ \A i \in 1 .. Len(s.queue) : i # 1 => i - 1 \in 1 .. Len(t.queue) /\ t.queue[i - 1] = s.queue[i]
      /\ WroteTo(s.queue[1], c) => ~Dirty(y)
      /\ t.blocked = s.blocked /\ t.serving = s.serving
    BY <1>1, QueueOf DEF Eased
<1>3. Softer(y, x)
    BY <1>1 DEF Eased
<1>4. /\ Matches(x, cl) /\ QueueFits(x, s.queue, cl, c) /\ WritingFits(x, s.queue, cl, c)
      /\ BlockedFits(x, s.blocked, cl, c) /\ ReadingFits(x, s.queue, cl, c)
      /\ s.serving = "running" => WireFits(x, cl)
    BY DEF Books
<1>5. Books(t, cl, c) <=>
        /\ Matches(y, cl) /\ QueueFits(y, t.queue, cl, c) /\ WritingFits(y, t.queue, cl, c)
        /\ BlockedFits(y, t.blocked, cl, c) /\ ReadingFits(y, t.queue, cl, c)
        /\ t.serving = "running" => WireFits(y, cl)
    BY DEF Books
<1> HIDE DEF x, y
<1>6. HasWritten(t.queue, c) => HasWritten(s.queue, c)
    BY ONLY <1>2 DEF HasWritten
<1>7. Dirty(y) => Dirty(x) /\ (HasWritten(s.queue, c) => HasWritten(t.queue, c))
    BY ONLY <1>2, <1>3 DEF HasWritten, Softer, Dirty
<1>8. Matches(y, cl) /\ WritingFits(y, t.queue, cl, c) /\ BlockedFits(y, t.blocked, cl, c)
      /\ ReadingFits(y, t.queue, cl, c)
    <2>1. Matches(y, cl)
        BY ONLY <1>3, <1>4 DEF Matches, Right, Softer
    <2>2. WritingFits(y, t.queue, cl, c)
        BY ONLY <1>3, <1>4, <1>6 DEF WritingFits, Softer, Owes
    <2>3. BlockedFits(y, t.blocked, cl, c)
        BY ONLY <1>2, <1>3, <1>4 DEF BlockedFits, Softer, Owes
    <2>4. ReadingFits(y, t.queue, cl, c)
        BY ONLY <1>3, <1>4, <1>7 DEF ReadingFits, Softer
    <2> QED BY <2>1, <2>2, <2>3, <2>4
<1>9. t.serving = "running" => WireFits(y, cl)
    BY ONLY <1>2, <1>3, <1>4 DEF WireFits, Softer, Owes
<1>10. ASSUME NEW j \in 1 .. Len(t.queue), t.queue[j].conn = c PROVE Fits(y, t.queue, cl, c, j)
    <2>1. j + 1 \in 1 .. Len(s.queue) /\ t.queue[j] = s.queue[j + 1] /\ j \in Nat
        BY ONLY <1>2, <1>10
    <2>2. Fits(x, s.queue, cl, c, j + 1)
        BY ONLY <1>4, <1>10, <2>1 DEF QueueFits
    <2>3. ASSUME Awaited(x, s.queue, cl, c, j + 1) PROVE Awaited(y, t.queue, cl, c, j)
        <3>1. y.writing = NoAnswer
            BY ONLY <1>3, <2>3 DEF Awaited, Softer
        <3>2. t.queue[j].what \notin Openings => Owes(y, cl, t.queue[j].what.kind) /\ cl.wire = <<>>
            BY ONLY <1>3, <2>1, <2>3 DEF Awaited, Softer, Owes
        <3>3. ASSUME NEW i \in 1 .. Len(t.queue), WroteTo(t.queue[i], c) PROVE i < j
            <4>1. i + 1 \in 1 .. Len(s.queue) /\ WroteTo(s.queue[i + 1], c)
                BY ONLY <1>2, <3>3
            <4>2. i + 1 < j + 1
                BY ONLY <2>3, <4>1 DEF Awaited
            <4> QED BY ONLY <4>2, <2>1, i \in 1 .. Len(t.queue), <1>2
        <3>4. ASSUME Dirty(y) PROVE \E i \in 1 .. (j - 1) : WroteTo(t.queue[i], c)
            <4>1. PICK i \in 1 .. ((j + 1) - 1) : WroteTo(s.queue[i], c)
                BY ONLY <1>7, <3>4, <2>3 DEF Awaited
            <4>2. i # 1
                BY ONLY <4>1, <3>4, <1>2
            <4>3. i \in 1 .. Len(s.queue) /\ i - 1 \in 1 .. (j - 1)
                BY ONLY <4>1, <4>2, <2>1, <1>2
            <4>4. t.queue[i - 1] = s.queue[i]
                BY ONLY <1>2, <4>2, <4>3
            <4> QED BY ONLY <4>1, <4>3, <4>4
        <3> QED BY ONLY <3>1, <3>2, <3>3, <3>4 DEF Awaited
    <2> QED BY ONLY <1>3, <2>1, <2>2, <2>3 DEF Fits, Softer
<1> QED BY ONLY <1>5, <1>8, <1>9, <1>10 DEF QueueFits

\* The write under way ends: with its answer, or cut off.
LEMMA WriteEnds ==
    ASSUME NEW s \in ServerType, NEW c \in Conns, NEW cl \in ClientType, Books(s, cl, c),
           s.conn[c].writing # NoAnswer,
           NEW a \in AnswerType, a.kind = "medium", a.body # "empty", a.body = "cut" => cl.gone,
           NEW t \in ServerType, t.blocked = s.blocked, t.serving = s.serving,
           NEW e \in Events, WroteTo(e, c), t.queue = Append(s.queue, e),
           t.conn[c] = [s.conn[c] EXCEPT !.answers = Append(@, a), !.writing = NoAnswer]
    PROVE  Books(t, cl, c)
<1> DEFINE x == s.conn[c]
           y == t.conn[c]
<1>1. x \in ConnType /\ x.answers \in Seq(AnswerType)
    BY DEF ServerType, ConnType
<1>2. /\ y.answers = Append(x.answers, a) /\ y.writing = NoAnswer /\ y.dropped = x.dropped
      /\ y.skip_body = x.skip_body /\ y.accepted = x.accepted
      /\ y.message_complete = x.message_complete /\ y.continue_requested = x.continue_requested
      /\ y.expired = x.expired /\ y.reading = x.reading
    BY <1>1 DEF ConnType
<1>3. /\ Len(y.answers) = Len(x.answers) + 1 /\ y.answers[Len(x.answers) + 1] = a
      /\ \A i \in 1 .. Len(x.answers) : y.answers[i] = x.answers[i]
      /\ Len(x.answers) \in Nat
    BY <1>1, <1>2
<1>4. /\ Len(s.queue) \in Nat /\ Len(t.queue) = Len(s.queue) + 1
      /\ t.queue[Len(s.queue) + 1] = e
      /\ \A i \in 1 .. Len(s.queue) : i \in 1 .. Len(t.queue) /\ t.queue[i] = s.queue[i]
      /\ \A i \in 1 .. Len(t.queue) : i \in 1 .. Len(s.queue) \/ i = Len(s.queue) + 1
    <2>1. s.queue \in Seq(Events) /\ Len(s.queue) \in Nat
        BY QueueOf
    <2> QED BY <2>1
<1>5. /\ Matches(x, cl) /\ QueueFits(x, s.queue, cl, c) /\ BlockedFits(x, s.blocked, cl, c)
      /\ Owes(x, cl, "medium") /\ cl.wire = <<>> /\ x.writing # NoAnswer
    BY DEF Books, WritingFits
<1>6. cl.sent \in Seq(Messages) /\ Len(cl.sent) \in Nat
    BY DEF ClientType
<1>7. Books(t, cl, c) <=>
        /\ Matches(y, cl) /\ QueueFits(y, t.queue, cl, c) /\ WritingFits(y, t.queue, cl, c)
        /\ BlockedFits(y, s.blocked, cl, c) /\ ReadingFits(y, t.queue, cl, c)
        /\ s.serving = "running" => WireFits(y, cl)
    BY DEF Books
<1> HIDE DEF x, y
<1>8. Matches(y, cl)
    <2>1. Len(y.answers) = Len(cl.sent)
        BY ONLY <1>3, <1>5 DEF Owes
    <2>2. ASSUME NEW i \in 1 .. Len(y.answers) PROVE Right(y, cl, i)
        <3>1. CASE i \in 1 .. Len(x.answers)
            BY ONLY <3>1, <1>2, <1>3, <1>5 DEF Matches, Right
        <3>2. CASE i = Len(x.answers) + 1
            <4>1. y.answers[i] = a /\ cl.sent[i].kind = "medium"
                BY ONLY <3>2, <1>3, <1>5 DEF Owes
            <4> QED BY <4>1 DEF Right
        <3> QED BY ONLY <1>3, <3>1, <3>2, i \in 1 .. Len(y.answers)
    <2>3. Len(y.answers) <= Len(cl.sent)
        BY ONLY <1>6, <2>1
    <2> QED BY ONLY <2>2, <2>3, <1>2, <1>5 DEF Matches
<1>9. QueueFits(y, t.queue, cl, c)
    <2> SUFFICES ASSUME NEW j \in 1 .. Len(t.queue), t.queue[j].conn = c PROVE Fits(y, t.queue, cl, c, j)
        BY DEF QueueFits
    <2>1. CASE j \in 1 .. Len(s.queue)
        <3>1. Fits(x, s.queue, cl, c, j) /\ t.queue[j] = s.queue[j]
            BY <2>1, <1>4, <1>5 DEF QueueFits
        <3> QED BY ONLY <3>1, <1>2, <1>5 DEF Fits, Awaited
    <2>2. CASE j = Len(s.queue) + 1
        BY <2>2, <1>4 DEF Fits, WroteTo
    <2> QED BY <1>4, <2>1, <2>2
<1>10. WritingFits(y, t.queue, cl, c) /\ BlockedFits(y, s.blocked, cl, c)
    BY ONLY <1>2, <1>5 DEF WritingFits, BlockedFits
<1>11. ReadingFits(y, t.queue, cl, c)
    <2>1. Len(s.queue) + 1 \in 1 .. Len(t.queue)
        BY ONLY <1>4
    <2> QED BY <2>1, <1>4 DEF ReadingFits, HasWritten
<1>12. WireFits(y, cl)
    <2>1. Len(cl.sent) = Len(y.answers) /\ Len(cl.wire) = 0
        BY ONLY <1>3, <1>5 DEF Owes
    <2> QED BY ONLY <2>1, <1>6 DEF WireFits
<1> QED BY ONLY <1>7, <1>8, <1>9, <1>10, <1>11, <1>12

\* An answer that has been written leaves as a whole.
LEMMA WriteLeaves ==
    ASSUME NEW s \in ServerType, NEW c \in Conns, NEW a \in AnswerType,
           NEW t, t = [Sent(s, c, a) EXCEPT !.conn[c].writing = NoAnswer],
           NEW y, y = [s.conn[c] EXCEPT !.answers = Append(@, a), !.writing = NoAnswer]
    PROVE  Kept(s, t, c, y)
<1> DEFINE x == [s.conn[c] EXCEPT !.answers = Append(@, a)]
           v == Put(s, c, x)
<1>1. s.conn[c] \in ConnType
    BY DEF ServerType
<1>2. x \in ConnType /\ y \in ConnType /\ y = [x EXCEPT !.writing = NoAnswer]
    <2>1. Append(s.conn[c].answers, a) \in Seq(AnswerType)
        BY <1>1 DEF ConnType
    <2> QED BY <1>1, <2>1, NoAnswerType DEF ConnType
<1>3. v = Sent(s, c, a)
    BY DEF Sent, Put
<1> HIDE DEF x
<1>4. v \in ServerType /\ v.conn[c] = x
    BY ONLY <1>2, PutOnly, s \in ServerType, c \in Conns DEF v
<1>5. v = Put(s, c, x)
    OBVIOUS
<1> HIDE DEF v
<1>6. t = Put(v, c, y)
    <2>1. t = [v EXCEPT !.conn[c].writing = NoAnswer]
        BY ONLY <1>3, t = [Sent(s, c, a) EXCEPT !.conn[c].writing = NoAnswer]
    <2> QED BY ONLY <2>1, <1>2, <1>4 DEF Put
<1>7. t = Put(s, c, y)
    BY ONLY <1>5, <1>6, PutTwice, s \in ServerType, c \in Conns
<1> QED BY ONLY <1>2, <1>7, PutAround, s \in ServerType, c \in Conns

\* Closing ends the operations of c; an answer is cut off only for a client that has left.
LEMMA CloseBooks ==
    ASSUME NEW s \in ServerType, NEW c \in Conns, NEW cl \in ClientType, Books(s, cl, c),
           s.conn[c].writing = NoAnswer \/ cl.gone, NEW t, t = Close(s, c)
    PROVE  /\ Books(t, cl, c) /\ Around(s, t, c) /\ t.conn[c].writing = NoAnswer
           /\ ~t.conn[c].reading /\ ~t.conn[c].open
           /\ t.conn[c].message_complete = s.conn[c].message_complete
           /\ t.conn[c].continue_requested = s.conn[c].continue_requested
<1> DEFINE r == Interrupted(s, c)
           e == Event("written", c, "error")
           a == [s.conn[c].writing EXCEPT !.body = "cut"]
           w == IF s.conn[c].writing = NoAnswer THEN r ELSE Post(r, e)
           u == CutWrite(w, c)
           y == [u.conn[c] EXCEPT !.open = FALSE, !.reading = FALSE, !.quiet = 0]
<1>1. t = [u EXCEPT !.conn[c].open = FALSE, !.conn[c].reading = FALSE, !.conn[c].quiet = 0]
    BY DEF Close, Interrupted
<1>2. /\ r \in ServerType /\ Around(s, r, c) /\ r.conn = s.conn /\ Books(r, cl, c)
    <2>1. CASE ~s.conn[c].reading
        BY <2>1, AroundSame DEF Interrupted
    <2>2. CASE s.conn[c].reading
        <3> DEFINE f == Event("read", c, "error")
        <3>1. f \in Events /\ f.op = "read" /\ f.conn = c /\ f.what.kind = "error" /\ r = Post(s, f)
            BY <2>2, EventTypes DEF Event, Plain, Interrupted
        <3> HIDE DEF f, r
        <3>2. r \in ServerType /\ Around(s, r, c) /\ r.conn = s.conn /\ r.queue[Len(s.queue) + 1] = f
            BY <3>1, PostAround
        <3>3. Fits(s.conn[c], r.queue, cl, c, Len(s.queue) + 1)
            BY <3>1, <3>2 DEF Fits
        <3>4. Books(r, cl, c)
            BY <3>1, <3>3, PostBooks
        <3> QED BY <3>2, <3>4
    <2> QED BY <2>1, <2>2
<1> HIDE DEF r, y
<1>3. e \in Events /\ WroteTo(e, c) /\ e.conn = c
    BY EventTypes DEF Event, WroteTo
<1> HIDE DEF e
<1>4. /\ u \in ServerType /\ Around(r, u, c) /\ Books(u, cl, c) /\ u.conn[c].writing = NoAnswer
      /\ u.conn[c].message_complete = s.conn[c].message_complete
      /\ u.conn[c].continue_requested = s.conn[c].continue_requested
    <2>1. CASE s.conn[c].writing = NoAnswer
        <3>1. u = r
            BY <2>1, <1>2 DEF CutWrite
        <3> QED BY <2>1, <3>1, <1>2, AroundSame
    <2>2. CASE s.conn[c].writing # NoAnswer
        <3> DEFINE z == [w.conn[c] EXCEPT !.answers = Append(@, a), !.writing = NoAnswer]
        <3>1. w = Post(r, e)
            BY <2>2
        <3> HIDE DEF w
        <3>2. /\ w \in ServerType /\ Around(r, w, c) /\ w.conn = s.conn
              /\ w.queue = Append(r.queue, e) /\ w.blocked = r.blocked /\ w.serving = r.serving
            BY <3>1, <1>2, <1>3, PostAround, PostFields DEF SameTimer
        <3>3. s.conn[c].writing = Answer("medium", "full")
            BY <2>2 DEF Books, WritingFits
        <3>4. a \in AnswerType /\ a.kind = "medium" /\ a.body = "cut" /\ a.body # "empty"
            <4>1. a = [kind |-> "medium", body |-> "cut"]
                BY ONLY <3>3 DEF Answer, a
            <4> HIDE DEF a
            <4> QED BY ONLY <4>1 DEF AnswerType, Kinds, Heads, Files, Errors
        <3>5. u = [Sent(w, c, a) EXCEPT !.conn[c].writing = NoAnswer]
            <4>1. w.conn[c].writing # NoAnswer /\ a = [w.conn[c].writing EXCEPT !.body = "cut"]
                BY ONLY <2>2, <3>2 DEF a
            <4> HIDE DEF a
            <4>2. CutWrite(w, c) = [Sent(w, c, a) EXCEPT !.conn[c].writing = NoAnswer]
                BY ONLY <4>1 DEF CutWrite
            <4> QED BY ONLY <4>2 DEF u
        <3> HIDE DEF a, u
        <3>6. Kept(w, u, c, z)
            BY <3>2, <3>4, <3>5, WriteLeaves
        <3>7. /\ u \in ServerType /\ u.blocked = r.blocked /\ u.serving = r.serving
              /\ u.queue = Append(r.queue, e) /\ Around(w, u, c)
              /\ u.conn[c] = [r.conn[c] EXCEPT !.answers = Append(@, a), !.writing = NoAnswer]
            BY <3>2, <3>6, <1>2 DEF Kept
        <3>8. cl.gone /\ r.conn[c].writing # NoAnswer
            BY ONLY <2>2, <1>2, s.conn[c].writing = NoAnswer \/ cl.gone
        <3>9. Books(u, cl, c)
            BY <3>4, <3>7, <3>8, <1>2, <1>3, WriteEnds
        <3>10. r.conn[c] \in ConnType
            BY <1>2 DEF ServerType
        <3>11. u.conn[c].writing = NoAnswer
               /\ u.conn[c].message_complete = s.conn[c].message_complete
               /\ u.conn[c].continue_requested = s.conn[c].continue_requested
            BY <3>7, <3>10, <1>2 DEF ConnType
        <3> QED BY <3>2, <3>7, <3>9, <3>11, <1>2, AroundTwice
    <2> QED BY <2>1, <2>2
<1> HIDE DEF u
<1>5. t = Put(u, c, y)
    BY ONLY <1>1, <1>4, ShutIs, c \in Conns DEF y
<1>6. u.conn[c] \in ConnType
    BY <1>4 DEF ServerType
<1>7. /\ y \in ConnType /\ Softer(y, u.conn[c]) /\ ~y.open /\ ~y.reading /\ y.writing = u.conn[c].writing
      /\ y.message_complete = u.conn[c].message_complete
      /\ y.continue_requested = u.conn[c].continue_requested
    BY <1>6 DEF y, ConnType, Softer
<1>8. Eased(u, t) /\ t.conn[c] = y
    BY <1>4, <1>5, <1>7, PutEases, PutOnly
<1>9. Around(u, t, c) /\ Books(t, cl, c)
    BY <1>4, <1>8, EasedKeeps
<1>10. Around(s, t, c)
    BY <1>2, <1>4, <1>9, AroundTwice
<1> QED BY <1>4, <1>7, <1>8, <1>9, <1>10

\* What the books say of a client that has left holds as well of a connection whose
\* deadline has closed it.
LEMMA LeaveBooks ==
    ASSUME NEW s, NEW c \in Conns, NEW cl, Books(s, cl, c), NEW gl,
           gl.sent = cl.sent, gl.wire = cl.wire,
           cl.gone => \/ gl.gone
                      \/ s.conn[c].expired /\ s.conn[c].writing = NoAnswer /\ ~s.conn[c].reading
    PROVE  Books(s, gl, c)
<1> DEFINE x == s.conn[c]
<1>1. cl.gone => gl.gone \/ (x.expired /\ x.writing = NoAnswer /\ ~x.reading)
    OBVIOUS
<1>2. \A d : Books(s, d, c) <=>
        /\ Matches(x, d) /\ QueueFits(x, s.queue, d, c) /\ WritingFits(x, s.queue, d, c)
        /\ BlockedFits(x, s.blocked, d, c) /\ ReadingFits(x, s.queue, d, c)
        /\ s.serving = "running" => WireFits(x, d)
    BY DEF Books
<1> HIDE DEF x
<1>3. gl.sent = cl.sent /\ gl.wire = cl.wire
    OBVIOUS
<1>4. Matches(x, gl)
    BY ONLY <1>1, <1>2, <1>3, Books(s, cl, c) DEF Matches, Right
<1>5. QueueFits(x, s.queue, gl, c)
    BY ONLY <1>1, <1>2, <1>3, Books(s, cl, c) DEF QueueFits, Fits, Awaited, Owes
<1>6. WritingFits(x, s.queue, gl, c) /\ BlockedFits(x, s.blocked, gl, c)
      /\ ReadingFits(x, s.queue, gl, c)
    BY ONLY <1>1, <1>2, <1>3, Books(s, cl, c)
       DEF WritingFits, BlockedFits, ReadingFits, Departed, Owes
<1>7. s.serving = "running" => WireFits(x, gl)
    BY ONLY <1>2, <1>3, Books(s, cl, c) DEF WireFits, Owes
<1> QED BY ONLY <1>2, <1>4, <1>5, <1>6, <1>7, Books(s, cl, c)

\* A deadline fires.
LEMMA ExpireBooks ==
    ASSUME NEW s \in ServerType, NEW c \in Conns, NEW cl \in ClientType, Books(s, cl, c),
           NEW t, t = Expire(s, c)
    PROVE  Books(t, cl, c) /\ Around(s, t, c)
<1>1. CASE ~s.conn[c].open
    BY <1>1, AroundSame DEF Expire
<1>2. CASE s.conn[c].open
    <2> DEFINE gl == [cl EXCEPT !.gone = TRUE]
               v == Close(s, c)
               z == [v.conn[c] EXCEPT !.expired = TRUE]
    <2>1. gl \in ClientType /\ gl.sent = cl.sent /\ gl.wire = cl.wire /\ gl.gone
        BY DEF ClientType
    <2> HIDE DEF gl
    <2>2. Books(s, gl, c)
        BY <2>1, LeaveBooks
    <2>3. t = Put(v, c, z)
        BY <1>2 DEF Expire, Put
    <2>4. /\ Books(v, gl, c) /\ Around(s, v, c) /\ v \in ServerType
          /\ v.conn[c].writing = NoAnswer /\ ~v.conn[c].reading
        BY <2>1, <2>2, CloseBooks DEF Around
    <2> HIDE DEF v
    <2>5. /\ z \in ConnType /\ Softer(z, v.conn[c]) /\ z.expired
          /\ z.writing = v.conn[c].writing /\ z.reading = v.conn[c].reading
        <3>1. v.conn[c] \in ConnType
            BY <2>4 DEF ServerType
        <3> QED BY <3>1 DEF ConnType, Softer
    <2> HIDE DEF z
    <2>6. Eased(v, t) /\ t.conn[c] = z
        BY <2>3, <2>4, <2>5, PutEases, PutOnly
    <2>7. Books(t, gl, c) /\ Around(v, t, c)
        BY <2>4, <2>6, EasedKeeps
    <2>8. Books(t, cl, c)
        BY <2>1, <2>4, <2>5, <2>6, <2>7, LeaveBooks
    <2> QED BY <2>4, <2>7, <2>8, AroundTwice
<1> QED BY <1>1, <1>2

LEMMA DoReadBooks ==
    ASSUME NEW s \in ServerType, NEW c \in Conns, NEW cl, Books(s, cl, c),
           Dirty(s.conn[c])
              => HasWritten(s.queue, c) \/ s.conn[c].writing # NoAnswer \/ Departed(cl),
           NEW t, t = DoRead(s, c)
    PROVE  Books(t, cl, c) /\ Around(s, t, c)
<1> DEFINE x == s.conn[c]
           y == [x EXCEPT !.reading = TRUE]
<1>1. x \in ConnType
    BY DEF ServerType
<1>2. /\ y \in ConnType /\ y.writing = x.writing /\ y.answers = x.answers
      /\ y.dropped = x.dropped /\ y.skip_body = x.skip_body /\ y.accepted = x.accepted
      /\ y.expired = x.expired /\ y.message_complete = x.message_complete
      /\ y.continue_requested = x.continue_requested
    BY <1>1 DEF ConnType
<1>3. t = Put(s, c, y)
    BY DEF DoRead, Put
<1> HIDE DEF y
<1>4. Kept(s, t, c, y)
    BY <1>2, <1>3, PutAround
<1>5. /\ t.conn[c] = y /\ t.queue = s.queue /\ t.blocked = s.blocked /\ t.serving = s.serving
      /\ Around(s, t, c)
    BY <1>4 DEF Kept
<1>6. Dirty(x) => HasWritten(s.queue, c) \/ x.writing # NoAnswer \/ Departed(cl)
    OBVIOUS
<1>7. /\ Matches(x, cl) /\ QueueFits(x, s.queue, cl, c) /\ WritingFits(x, s.queue, cl, c)
      /\ BlockedFits(x, s.blocked, cl, c) /\ (s.serving = "running" => WireFits(x, cl))
    BY DEF Books
<1> HIDE DEF x
<1>8. Matches(y, cl)
    BY ONLY <1>2, <1>7 DEF Matches, Right
<1>9. QueueFits(y, s.queue, cl, c)
    BY ONLY <1>2, <1>7 DEF QueueFits, Fits, Awaited, Owes, Dirty
<1>10. WritingFits(y, s.queue, cl, c) /\ BlockedFits(y, s.blocked, cl, c)
       /\ (s.serving = "running" => WireFits(y, cl)) /\ ReadingFits(y, s.queue, cl, c)
    BY ONLY <1>2, <1>6, <1>7 DEF WritingFits, BlockedFits, WireFits, ReadingFits, Owes, Dirty
<1> QED BY ONLY <1>5, <1>8, <1>9, <1>10 DEF Books

LEMMA ReadFailedBooks ==
    ASSUME NEW s \in ServerType, NEW c \in Conns, NEW cl \in ClientType, Books(s, cl, c),
           s.conn[c].writing = NoAnswer \/ cl.gone, NEW t, t = ReadFailed(s, c)
    PROVE  Books(t, cl, c) /\ Around(s, t, c)
<1> DEFINE u == Cancel(s, c)
<1>1. Eased(s, u)
    BY CancelEases
<1>2. t = Close(u, c)
    BY DEF ReadFailed
<1> HIDE DEF u
<1>3. Books(u, cl, c) /\ Around(s, u, c) /\ u \in ServerType /\ u.conn[c].writing = s.conn[c].writing
    BY <1>1, EasedKeeps DEF Eased, Softer
<1>4. Books(t, cl, c) /\ Around(u, t, c)
    BY <1>2, <1>3, CloseBooks
<1> QED BY <1>3, <1>4, AroundTwice

\* The next read is started only if the parser is ready, or a write has to complete first,
\* or nothing can come any more.
LEMMA ReadOnBooks ==
    ASSUME NEW s \in ServerType, NEW c \in Conns, NEW cl \in ClientType, Books(s, cl, c),
           ~s.conn[c].open => s.conn[c].writing = NoAnswer,
           s.conn[c].open /\ ~s.conn[c].close_connection /\ Dirty(s.conn[c])
              => HasWritten(s.queue, c) \/ s.conn[c].writing # NoAnswer \/ Departed(cl),
           NEW t, t = ReadOn(s, c)
    PROVE  Books(t, cl, c) /\ Around(s, t, c)
<1>1. CASE ~s.conn[c].open
    BY <1>1, ReadFailedBooks DEF ReadOn
<1>2. CASE s.conn[c].open /\ s.conn[c].close_connection
    <2>1. t = Cancel(s, c)
        BY <1>2 DEF ReadOn
    <2> QED BY <2>1, CancelEases, EasedKeeps
<1>3. CASE s.conn[c].open /\ ~s.conn[c].close_connection
    <2> DEFINE u == StartDeadline(s, c)
    <2>1. t = DoRead(u, c)
        BY <1>3 DEF ReadOn
    <2>2. Eased(s, u) /\ (Dirty(u.conn[c]) <=> Dirty(s.conn[c]))
        BY StartDeadlineEases
    <2> HIDE DEF u
    <2>3. Books(u, cl, c) /\ Around(s, u, c) /\ u \in ServerType /\ u.queue = s.queue
          /\ u.conn[c].writing = s.conn[c].writing
        BY <2>2, EasedKeeps DEF Eased, Softer
    <2>4. Dirty(u.conn[c]) => HasWritten(u.queue, c) \/ u.conn[c].writing # NoAnswer \/ Departed(cl)
        BY <1>3, <2>2, <2>3
    <2>5. Books(t, cl, c) /\ Around(u, t, c)
        BY <2>1, <2>3, <2>4, DoReadBooks
    <2> QED BY <2>3, <2>5, AroundTwice
<1> QED BY <1>1, <1>2, <1>3
-----------------------------------------------------------------------------
(* The handlers of a connection whose message has been read.               *)

\* What is written to c, whose answer is owed, leaves, is under way, or fails; the end of
\* the write is posted, or will be.
LEMMA DoWriteBooks ==
    ASSUME NEW s \in ServerType, NEW c \in Conns, NEW cl \in ClientType, Books(s, cl, c), Quiet(s, c),
           ~HasWritten(s.queue, c), NEW a \in AnswerType, a.body # "cut",
           s.conn[c].open /\ a.kind # "continue"
              => /\ Owes(s.conn[c], cl, a.kind) /\ cl.wire = <<>>
                 /\ a.kind = "head" => a.body = "empty"
                 /\ a.body = "empty" => /\ a.kind \notin Files \cup Errors
                                       /\ \E j \in 1 .. Len(cl.sent) : cl.sent[j].kind \in Heads,
           NEW t, t = DoWrite(s, c, a)
    PROVE  /\ Books(t, cl, c) /\ Around(s, t, c) /\ t.conn[c].open = s.conn[c].open
           /\ HasWritten(t.queue, c) \/ t.conn[c].writing # NoAnswer
           /\ ~s.conn[c].open => t.conn[c].writing = NoAnswer
<1>0. /\ \A k \in {"ok", "error"} : /\ Event("written", c, k) \in Events
                                    /\ WroteTo(Event("written", c, k), c)
      /\ t.conn[c].open = s.conn[c].open
    <2>1. Unaffected(s, t, c)
        BY DoWriteUnaffected
    <2> QED BY <2>1, EventTypes DEF Unaffected, Alike, Event, WroteTo
<1>1. CASE ~s.conn[c].open
    <2> DEFINE e == Event("written", c, "error")
    <2>1. t = Post(s, e)
        BY <1>1 DEF DoWrite
    <2>2. e \in Events /\ WroteTo(e, c) /\ e.conn = c
        BY <1>0 DEF WroteTo
    <2> HIDE DEF e
    <2>3. Books(t, cl, c) /\ Around(s, t, c) /\ HasWritten(t.queue, c)
        BY <2>1, <2>2, WrittenPosted
    <2>4. t.conn[c].writing = NoAnswer
        BY <2>1, <2>2, PostAround DEF Quiet
    <2> QED BY <1>0, <2>3, <2>4
<1>2. CASE s.conn[c].open /\ a.kind = "medium" /\ a.body = "full"
    <2> DEFINE x == s.conn[c]
               y == [x EXCEPT !.writing = a]
    <2>1. x \in ConnType
        BY DEF ServerType
    <2>2. /\ y \in ConnType /\ y.writing = a /\ y.answers = x.answers
          /\ y.dropped = x.dropped /\ y.skip_body = x.skip_body /\ y.accepted = x.accepted
          /\ y.expired = x.expired /\ y.message_complete = x.message_complete
          /\ y.continue_requested = x.continue_requested /\ y.reading = x.reading
        BY <2>1 DEF ConnType
    <2>3. t = Put(s, c, y)
        BY <1>2 DEF DoWrite, Put
    <2>4. /\ Matches(x, cl) /\ QueueFits(x, s.queue, cl, c) /\ s.blocked.conn # c /\ ~x.reading
          /\ (s.serving = "running" => WireFits(x, cl)) /\ Owes(x, cl, "medium") /\ cl.wire = <<>>
          /\ \A j \in 1 .. Len(s.queue) : ~(s.queue[j].op = "read" /\ s.queue[j].conn = c)
        BY <1>2 DEF Books, Quiet
    <2> HIDE DEF y
    <2>5. Kept(s, t, c, y)
        BY <2>2, <2>3, PutAround
    <2>6. /\ t.conn[c] = y /\ t.queue = s.queue /\ t.blocked = s.blocked /\ t.serving = s.serving
          /\ Around(s, t, c)
        BY <2>5 DEF Kept
    <2> HIDE DEF x
    <2>7. Matches(y, cl)
        BY ONLY <2>2, <2>4 DEF Matches, Right
    <2>8. QueueFits(y, s.queue, cl, c)
        BY ONLY <2>2, <2>4 DEF QueueFits, Fits
    <2>9. a = Answer("medium", "full") /\ a # NoAnswer
        BY ONLY <1>2, a \in AnswerType DEF AnswerType, Answer, NoAnswer, None
    <2>10. WritingFits(y, s.queue, cl, c) /\ BlockedFits(y, s.blocked, cl, c)
           /\ (s.serving = "running" => WireFits(y, cl)) /\ ReadingFits(y, s.queue, cl, c)
        BY ONLY <2>2, <2>4, <2>9, ~HasWritten(s.queue, c)
           DEF WritingFits, BlockedFits, WireFits, ReadingFits, Owes
    <2>11. Books(t, cl, c)
        BY ONLY <2>6, <2>7, <2>8, <2>10 DEF Books
    <2> QED BY <1>0, <1>2, <2>2, <2>6, <2>9, <2>11
<1>3. CASE s.conn[c].open /\ ~(a.kind = "medium" /\ a.body = "full")
    <2> DEFINE u == IF a.kind = "continue" THEN s ELSE Sent(s, c, a)
               e == Event("written", c, "ok")
    <2>1. t = Post(u, e)
        BY <1>3 DEF DoWrite
    <2>2. Books(u, cl, c) /\ Around(s, u, c) /\ Quiet(u, c) /\ u \in ServerType
        <3>1. CASE a.kind = "continue"
            BY <3>1, AroundSame
        <3>2. CASE a.kind # "continue"
            <4>1. cl.sent \in Seq(Messages)
                BY DEF ClientType
            <4>2. Books(Sent(s, c, a), cl, c) /\ Around(s, Sent(s, c, a), c) /\ Quiet(Sent(s, c, a), c)
                BY <1>3, <3>2, <4>1, SentKeeps
            <4> QED BY <3>2, <4>2 DEF Around
        <3> QED BY <3>1, <3>2
    <2>3. e \in Events /\ WroteTo(e, c)
        BY <1>0
    <2> HIDE DEF u, e
    <2>4. Books(t, cl, c) /\ Around(u, t, c) /\ HasWritten(t.queue, c)
        BY <2>1, <2>2, <2>3, WrittenPosted
    <2> QED BY <1>0, <1>3, <2>2, <2>4, AroundTwice
<1> QED BY <1>1, <1>2, <1>3

\* handle and complete_request up to the write.
LEMMA AcceptedBooks ==
    ASSUME NEW s \in ServerType, NEW c \in Conns, NEW cl \in ClientType, Books(s, cl, c), Quiet(s, c),
           ~Dirty(s.conn[c]), NEW r \in Requests, Owes(s.conn[c], cl, r.kind),
           NEW t, t = Accepted(s, c, r)
    PROVE  /\ Books(t, cl, c) /\ Around(s, t, c) /\ Quiet(t, c)
           /\ t.queue = s.queue /\ t.blocked = s.blocked /\ t.conn[c].open = s.conn[c].open
           /\ Owes(t.conn[c], cl, r.kind) /\ ~t.conn[c].continue_requested
           /\ r.kind = "upgrade" => t.conn[c].close_connection
           /\ r.kind \in Heads => t.conn[c].skip_body
<1> DEFINE u == Cancel(s, c)
           x == u.conn[c]
<1>1. /\ Eased(s, u) /\ Alike(x, s.conn[c]) /\ ~Dirty(x) /\ x.skip_body = s.conn[c].skip_body
    BY CancelEases
<1>2. PICK b, k \in BOOLEAN :
          /\ b <=> r.close \/ r.kind = "upgrade"
          /\ k <=> s.conn[c].skip_body \/ r.kind \in Heads
          /\ t = Put(u, c, Completed(u.conn[c], b, k))
    <2>1. u \in ServerType /\ u = Cancel(s, c)
        BY <1>1 DEF Eased
    <2> HIDE DEF u
    <2> QED BY <2>1, AcceptedIs
<1> DEFINE y == Completed(x, b, k)
<1>3. t = Put(u, c, y) /\ (r.kind = "upgrade" => b) /\ (k <=> s.conn[c].skip_body \/ r.kind \in Heads)
    BY <1>2
<1> HIDE DEF u
<1>4. /\ u \in ServerType /\ x \in ConnType /\ Books(u, cl, c) /\ Around(s, u, c) /\ Quiet(u, c)
      /\ u.queue = s.queue /\ u.blocked = s.blocked /\ x.answers = s.conn[c].answers
    <2>1. u \in ServerType /\ u.queue = s.queue /\ u.blocked = s.blocked /\ x.answers = s.conn[c].answers
        BY <1>1 DEF Eased, Softer
    <2> QED BY <1>1, <2>1, EasedKeeps DEF ServerType
<1>6. /\ y \in ConnType /\ y.writing = x.writing /\ y.answers = x.answers
      /\ y.dropped = x.dropped /\ (y.skip_body <=> k) /\ y.accepted = x.accepted
      /\ y.expired = x.expired /\ y.close_connection = b /\ y.open = x.open
      /\ y.continue_requested = x.continue_requested /\ y.reading = x.reading
    BY <1>4 DEF ConnType, Completed
<1> HIDE DEF y
<1>7. Kept(u, t, c, y)
    BY <1>3, <1>4, <1>6, PutAround
<1>8. /\ t.conn[c] = y /\ t.queue = u.queue /\ t.blocked = u.blocked /\ t.serving = u.serving
      /\ Around(u, t, c)
    BY <1>7 DEF Kept
<1>9. /\ Matches(x, cl) /\ QueueFits(x, u.queue, cl, c) /\ u.blocked.conn # c /\ ~x.reading
      /\ (u.serving = "running" => WireFits(x, cl)) /\ Owes(x, cl, r.kind)
      /\ \A j \in 1 .. Len(u.queue) : ~(u.queue[j].op = "read" /\ u.queue[j].conn = c)
      /\ ~x.continue_requested /\ x.writing = NoAnswer
    <2>1. Owes(x, cl, r.kind) /\ ~x.continue_requested
        BY <1>1, <1>4 DEF Owes, Dirty
    <2> QED BY <1>4, <2>1 DEF Books, Quiet
<1> HIDE DEF x
<1>10. Matches(y, cl)
    <2>1. r.kind \in Heads => \E j \in 1 .. Len(cl.sent) : cl.sent[j].kind \in Heads
        <3>1. cl.sent[Len(cl.sent)].kind = r.kind /\ Len(cl.sent) = Len(x.answers) + 1
            BY <1>9 DEF Owes
        <3>2. Len(cl.sent) \in 1 .. Len(cl.sent)
            BY <3>1, <1>4 DEF ConnType
        <3> QED BY <3>1, <3>2
    <2>2. y.skip_body => \E j \in 1 .. Len(cl.sent) : cl.sent[j].kind \in Heads
        <3>1. y.skip_body => x.skip_body \/ r.kind \in Heads
            BY <1>1, <1>3, <1>6
        <3> QED BY <2>1, <3>1, <1>9 DEF Matches
    <2> QED BY ONLY <2>2, <1>6, <1>9 DEF Matches, Right
<1>11. QueueFits(y, u.queue, cl, c)
    BY ONLY <1>6, <1>9 DEF QueueFits, Fits
<1>12. WritingFits(y, u.queue, cl, c) /\ BlockedFits(y, u.blocked, cl, c)
       /\ (u.serving = "running" => WireFits(y, cl)) /\ ReadingFits(y, u.queue, cl, c)
    BY ONLY <1>6, <1>9 DEF WritingFits, BlockedFits, WireFits, ReadingFits, Owes
<1>13. Books(t, cl, c)
    BY ONLY <1>8, <1>10, <1>11, <1>12 DEF Books
<1>14. Around(s, t, c)
    BY <1>4, <1>8, AroundTwice
<1>15. Quiet(t, c) /\ Owes(t.conn[c], cl, r.kind) /\ ~t.conn[c].continue_requested
    BY ONLY <1>6, <1>8, <1>9 DEF Quiet, Owes
<1>16. t.conn[c].open = s.conn[c].open
    BY <1>1, <1>6, <1>8 DEF Alike
<1> QED BY <1>3, <1>4, <1>6, <1>8, <1>13, <1>14, <1>15, <1>16

\* The worker has what it has read of c, and nothing else of c is left to do.
Ready(s, cl, c, what) ==
    /\ s \in ServerType /\ Books(s, cl, c) /\ Quiet(s, c) /\ s.blocked.conn = None
    /\ ~Dirty(s.conn[c]) /\ ~HasWritten(s.queue, c) /\ NoStart(s, c) /\ s.conn[c].accepted
    /\ what \notin Openings => Owes(s.conn[c], cl, what.kind) /\ cl.wire = <<>>

\* handle: each answer is that of its request.
LEMMA HandleBooks ==
    ASSUME NEW s, NEW c \in Conns, NEW cl \in ClientType, NEW r \in Requests, Ready(s, cl, c, r),
           NEW t, t = Handle(s, c, r)
    PROVE  Books(t, cl, c) /\ Around(s, t, c)
<1> DEFINE u == Accepted(s, c, r)
           a == Answer(r.kind, BodyOf(u, c, r.kind))
<1>1. r \notin Openings
    <2>1. r.kind # "part" /\ r.kind # "expect"
        BY DEF Requests, Kinds, Heads, Files, Errors
    <2> QED BY <2>1 DEF Openings, Plain
<1>2. /\ s \in ServerType /\ Books(s, cl, c) /\ Quiet(s, c) /\ s.blocked.conn = None
      /\ ~Dirty(s.conn[c]) /\ ~HasWritten(s.queue, c)
      /\ Owes(s.conn[c], cl, r.kind) /\ cl.wire = <<>>
    BY <1>1 DEF Ready
<1>3. /\ Books(u, cl, c) /\ Around(s, u, c) /\ Quiet(u, c)
      /\ u.queue = s.queue /\ u.blocked = s.blocked /\ u.conn[c].open = s.conn[c].open
      /\ Owes(u.conn[c], cl, r.kind) /\ ~u.conn[c].continue_requested
      /\ r.kind = "upgrade" => u.conn[c].close_connection
      /\ r.kind \in Heads => u.conn[c].skip_body
    BY <1>2, AcceptedBooks
<1>4. u \in ServerType
    BY <1>3 DEF Around
<1>5. a \in AnswerType /\ a.kind = r.kind /\ a.body \in {"full", "empty"} /\ a.kind # "continue"
      /\ (a.kind = "head" => a.body = "empty")
      /\ (a.body = "empty" => u.conn[c].skip_body /\ a.kind \notin Files \cup Errors)
    BY <1>3 DEF Answer, BodyOf, AnswerType, Requests, Kinds, Heads, Files, Errors
<1>6. t = IF ~s.conn[c].open THEN Release(u, c)
          ELSE IF r.kind = "upgrade" THEN Release(ReadOn(u, c), c)
          ELSE IF Synchronous(a)
          THEN [u EXCEPT !.blocked = [conn |-> c, answer |-> a]]
          ELSE ReadOn(DoWrite(u, c, a), c)
    BY DEF Handle
<1> HIDE DEF u, a
<1>7. CASE ~s.conn[c].open
    <2>1. t = Release(u, c)
        BY <1>6, <1>7
    <2>2. Books(t, cl, c) /\ Around(u, t, c)
        BY <1>3, <1>4, <2>1, ReleaseEases, EasedKeeps
    <2> QED BY <1>2, <1>3, <2>2, AroundTwice
<1>8. CASE s.conn[c].open /\ r.kind = "upgrade"
    <2> DEFINE v == ReadOn(u, c)
    <2>1. t = Release(v, c)
        BY <1>6, <1>8
    <2>0. u.conn[c].writing = NoAnswer /\ u.conn[c].open /\ u.conn[c].close_connection
        BY <1>3, <1>8 DEF Quiet
    <2>2. Books(v, cl, c) /\ Around(u, v, c)
        BY <1>3, <1>4, <2>0, ReadOnBooks
    <2> HIDE DEF v
    <2>4. v \in ServerType
        BY <2>2 DEF Around
    <2>3. Books(t, cl, c) /\ Around(v, t, c)
        BY <2>1, <2>2, <2>4, ReleaseEases, EasedKeeps
    <2> QED BY <1>2, <1>3, <1>4, <2>2, <2>3, AroundTwice
<1>9. CASE s.conn[c].open /\ r.kind # "upgrade" /\ Synchronous(a)
    <2>1. t = [u EXCEPT !.blocked = [conn |-> c, answer |-> a]]
        BY <1>6, <1>9
    <2>2. /\ t.conn = u.conn /\ t.queue = u.queue /\ t.serving = u.serving
          /\ t.blocked = [conn |-> c, answer |-> a] /\ t \in ServerType
        BY <1>4, <1>5, <2>1 DEF ServerType
    <2>3. r.kind \in Lasting /\ a = Answer(r.kind, "full")
        <3>1. a.kind \in Lasting /\ a.body # "empty"
            BY ONLY <1>5, <1>9 DEF Synchronous, Lasting
        <3>2. a.body = "full"
            BY ONLY <1>5, <3>1
        <3> QED BY ONLY <1>5, <3>1, <3>2 DEF AnswerType, Answer
    <2>4. BlockedFits(t.conn[c], t.blocked, cl, c)
        BY <1>2, <1>3, <1>9, <2>2, <2>3 DEF BlockedFits, Quiet
    <2>5. Books(t, cl, c)
        BY <1>3, <2>2, <2>4 DEF Books
    <2>6. Around(u, t, c)
        BY <1>2, <1>3, <1>4, <2>2, QueueOf DEF Around, Softer
    <2> QED BY <1>2, <1>3, <2>5, <2>6, AroundTwice
<1>10. CASE s.conn[c].open /\ r.kind # "upgrade" /\ ~Synchronous(a)
    <2> DEFINE v == DoWrite(u, c, a)
    <2>1. t = ReadOn(v, c)
        BY <1>6, <1>10
    <2>2. a.body = "empty" => /\ a.kind \notin Files \cup Errors
                              /\ \E j \in 1 .. Len(cl.sent) : cl.sent[j].kind \in Heads
        BY <1>3, <1>5 DEF Books, Matches
    <2>3. ~HasWritten(u.queue, c)
        BY <1>2, <1>3
    <2>4. /\ Books(v, cl, c) /\ Around(u, v, c) /\ v.conn[c].open = u.conn[c].open
          /\ HasWritten(v.queue, c) \/ v.conn[c].writing # NoAnswer
        BY <1>2, <1>3, <1>4, <1>5, <2>2, <2>3, DoWriteBooks
    <2> HIDE DEF v
    <2>5. v \in ServerType
        BY <2>4 DEF Around
    <2>6. Books(t, cl, c) /\ Around(v, t, c)
        BY <1>3, <1>10, <2>1, <2>4, <2>5, ReadOnBooks
    <2> QED BY <1>2, <1>3, <1>4, <2>4, <2>6, AroundTwice
<1> QED BY <1>7, <1>8, <1>9, <1>10

\* A header that expects 100-continue: the note of it goes with the write that is posted.
LEMMA ContinueBooks ==
    ASSUME NEW s, NEW c \in Conns, NEW cl \in ClientType, NEW what, Ready(s, cl, c, what),
           NEW t, t = [s EXCEPT !.conn[c].continue_requested = TRUE]
    PROVE  /\ Books(t, cl, c) /\ Around(s, t, c) /\ Quiet(t, c) /\ t.queue = s.queue
<1> DEFINE x == s.conn[c]
           y == [x EXCEPT !.continue_requested = TRUE]
<1>1. s \in ServerType /\ x \in ConnType
    BY DEF Ready, ServerType
<1>2. /\ y \in ConnType /\ y.writing = x.writing /\ y.answers = x.answers
      /\ y.dropped = x.dropped /\ y.skip_body = x.skip_body /\ y.accepted = x.accepted
      /\ y.expired = x.expired /\ y.message_complete = x.message_complete /\ y.reading = x.reading
    BY <1>1 DEF ConnType
<1>3. t = Put(s, c, y)
    BY DEF Put
<1>4. /\ Matches(x, cl) /\ QueueFits(x, s.queue, cl, c) /\ s.blocked.conn # c /\ ~x.reading
      /\ (s.serving = "running" => WireFits(x, cl)) /\ x.accepted /\ ~Dirty(x)
      /\ \A j \in 1 .. Len(s.queue) : s.queue[j].conn = c => s.queue[j].op \notin {"read", "start"}
      /\ x.writing = NoAnswer
    BY DEF Ready, Books, Quiet, NoStart
<1> HIDE DEF x, y
<1>5. Kept(s, t, c, y)
    BY <1>1, <1>2, <1>3, PutAround
<1>6. /\ t.conn[c] = y /\ t.queue = s.queue /\ t.blocked = s.blocked /\ t.serving = s.serving
      /\ Around(s, t, c)
    BY <1>5 DEF Kept
<1>7. Matches(y, cl)
    BY ONLY <1>2, <1>4 DEF Matches, Right, Dirty
<1>8. QueueFits(y, s.queue, cl, c)
    BY ONLY <1>2, <1>4 DEF QueueFits, Fits
<1>9. WritingFits(y, s.queue, cl, c) /\ BlockedFits(y, s.blocked, cl, c)
      /\ (s.serving = "running" => WireFits(y, cl)) /\ ReadingFits(y, s.queue, cl, c)
    BY ONLY <1>2, <1>4 DEF WritingFits, BlockedFits, WireFits, ReadingFits, Owes
<1>10. Books(t, cl, c) /\ Quiet(t, c)
    BY ONLY <1>2, <1>4, <1>6, <1>7, <1>8, <1>9 DEF Books, Quiet
<1> QED BY <1>6, <1>10

\* do_read's handler never finds that the parser does not take its message.
LEMMA ReadDoneBooks ==
    ASSUME NEW s \in ServerType, NEW c \in Conns, NEW cl \in ClientType, Books(s, cl, c),
           NEW what \in Messages \cup {Plain("error")},
           what.kind # "error" => Ready(s, cl, c, what),
           what.kind = "error" => s.conn[c].writing = NoAnswer \/ cl.gone,
           NEW t, t = ReadDone(s, c, what)
    PROVE  Books(t, cl, c) /\ Around(s, t, c)
<1>1. what.kind \in Kinds \cup {"part", "expect", "refused", "error"}
    BY DEF Messages, Requests, Openings, Plain
<1>2. what.kind \in Kinds => what \in Requests
    <2>1. CASE what \in Requests
        BY <2>1
    <2>2. CASE what \notin Requests
        <3>1. what.kind \in {"part", "expect", "refused", "error"}
            BY <2>2 DEF Messages, Openings, Plain
        <3> QED BY <3>1, KindsAre
    <2> QED BY <2>1, <2>2
<1>3. CASE what.kind = "error"
    BY <1>3, KindsAre, ReadFailedBooks DEF ReadDone
<1>4. CASE what.kind # "error"
    <2>1. Ready(s, cl, c, what) /\ ~s.conn[c].message_complete /\ Quiet(s, c) /\ ~Dirty(s.conn[c])
          /\ s.conn[c].writing = NoAnswer /\ ~HasWritten(s.queue, c)
        BY <1>4 DEF Ready, Dirty, Quiet
    <2>2. CASE what.kind = "part"
        <3>1. t = ReadOn(s, c)
            BY <2>1, <2>2 DEF ReadDone, Kinds, Heads, Files, Errors
        <3> QED BY <2>1, <3>1, ReadOnBooks
    <2>3. CASE what.kind = "expect"
        <3> DEFINE u == [s EXCEPT !.conn[c].continue_requested = TRUE]
                   a == Answer("continue", "empty")
                   v == DoWrite(u, c, a)
        <3>1. t = ReadOn(v, c)
            BY <2>1, <2>3 DEF ReadDone, Kinds, Heads, Files, Errors
        <3>2. Books(u, cl, c) /\ Around(s, u, c) /\ Quiet(u, c) /\ u.queue = s.queue
            BY <2>1, ContinueBooks
        <3>3. a \in AnswerType /\ a.kind = "continue" /\ a.body # "cut"
            BY DEF Answer, AnswerType
        <3> HIDE DEF u, a
        <3>4. u \in ServerType /\ ~HasWritten(u.queue, c)
            BY <2>1, <3>2 DEF Around
        <3>5. /\ Books(v, cl, c) /\ Around(u, v, c) /\ v.conn[c].open = u.conn[c].open
              /\ HasWritten(v.queue, c) \/ v.conn[c].writing # NoAnswer
              /\ ~u.conn[c].open => v.conn[c].writing = NoAnswer
            BY <3>2, <3>3, <3>4, DoWriteBooks
        <3> HIDE DEF v
        <3>6. v \in ServerType
            BY <3>5 DEF Around
        <3>7. Books(t, cl, c) /\ Around(v, t, c)
            BY <3>1, <3>5, <3>6, ReadOnBooks
        <3> QED BY <3>2, <3>4, <3>5, <3>7, AroundTwice
    <2>4. CASE what.kind = "refused"
        <3> DEFINE a == Answer("refused", "full")
                   v == DoWrite(s, c, a)
        <3>1. t = ReadFailed(v, c)
            BY <2>1, <2>4 DEF ReadDone, Kinds, Heads, Files, Errors
        <3>2. what \notin Openings
            BY <2>4 DEF Openings, Plain
        <3>3. a \in AnswerType /\ a.kind = "refused" /\ a.body = "full"
            BY DEF Answer, AnswerType
        <3> HIDE DEF a
        <3>4. Owes(s.conn[c], cl, a.kind) /\ cl.wire = <<>>
            BY <2>1, <2>4, <3>2, <3>3 DEF Ready
        <3>5. Books(v, cl, c) /\ Around(s, v, c) /\ v.conn[c].writing = NoAnswer
            <4>1. Books(v, cl, c) /\ Around(s, v, c) /\ (~s.conn[c].open => v.conn[c].writing = NoAnswer)
                BY <2>1, <3>3, <3>4, DoWriteBooks
            <4>2. CASE s.conn[c].open
                <5> DEFINE u == Sent(s, c, a)
                <5>1. Quiet(u, c) /\ u \in ServerType
                    <6>1. cl.sent \in Seq(Messages)
                        BY DEF ClientType
                    <6> QED BY <6>1, <2>1, <3>3, <3>4, SentKeeps DEF Around
                <5>2. v = Post(u, Event("written", c, "ok"))
                    <6>1. a.kind # "medium" /\ a.kind # "continue"
                        BY <3>3
                    <6> QED BY ONLY <4>2, <6>1 DEF DoWrite, u, v
                <5> HIDE DEF u, v
                <5>3. v.conn = u.conn
                    <6>1. Event("written", c, "ok") \in Events
                        BY EventTypes
                    <6> QED BY ONLY <5>1, <5>2, <6>1, PostFields
                <5> QED BY <4>1, <5>1, <5>3 DEF Quiet
            <4> QED BY <4>1, <4>2
        <3> HIDE DEF v
        <3>6. v \in ServerType
            BY <3>5 DEF Around
        <3>7. Books(t, cl, c) /\ Around(v, t, c)
            BY <3>1, <3>5, <3>6, ReadFailedBooks
        <3> QED BY <3>5, <3>7, AroundTwice
    <2>5. CASE what.kind \in Kinds
        <3>1. t = Handle(s, c, what)
            BY <2>1, <2>5, KindsAre DEF ReadDone
        <3> QED BY <1>2, <2>1, <2>5, <3>1, HandleBooks
    <2> QED BY <1>1, <1>4, <2>2, <2>3, <2>4, <2>5
<1> QED BY <1>3, <1>4
-----------------------------------------------------------------------------
(* The events of the worker.                                               *)

LEMMA StartBooks ==
    ASSUME NEW s \in ServerType, NEW c \in Conns, NEW cl \in ClientType, Books(s, cl, c),
           ~s.conn[c].continue_requested, NEW t, t = Start(s, c)
    PROVE  Books(t, cl, c) /\ Around(s, t, c)
<1> DEFINE u == StartDeadline(s, c)
           v == ClearParser(u, c)
<1>1. Eased(s, u) /\ u.conn[c].continue_requested = s.conn[c].continue_requested
    BY StartDeadlineEases
<1> HIDE DEF u
<1>2. u \in ServerType
    BY <1>1 DEF Eased
<1>3. Eased(u, v) /\ ~v.conn[c].message_complete
      /\ v.conn[c].continue_requested = u.conn[c].continue_requested
    BY <1>2, ClearParserEases
<1>4. t = DoRead(v, c)
    BY DEF Start, u
<1> HIDE DEF v
<1>5. Eased(s, v) /\ v \in ServerType
    BY <1>1, <1>3, EasedTwice DEF Eased
<1>6. Books(v, cl, c) /\ Around(s, v, c)
    BY <1>5, EasedKeeps
<1>7. ~Dirty(v.conn[c])
    BY <1>1, <1>3 DEF Dirty
<1>8. Books(t, cl, c) /\ Around(v, t, c)
    BY <1>4, <1>5, <1>6, <1>7, DoReadBooks
<1> QED BY <1>6, <1>8, AroundTwice

\* The write handler after it has cleared the parser.
LEMMA WrittenBooks ==
    ASSUME NEW s, NEW c \in Conns, NEW cl \in ClientType, NEW what, NEW u, u = Cleared(s, c),
           u \in ServerType, Books(u, cl, c), u.conn[c].writing = NoAnswer,
           NEW t, t = Written(s, c, what)
    PROVE  Books(t, cl, c) /\ Around(u, t, c)
<1> DEFINE v == IF what.kind = "ok" /\ u.conn[c].close_connection THEN Close(u, c) ELSE u
<1>1. t = Release(v, c)
    BY DEF Written
<1>2. Books(v, cl, c) /\ Around(u, v, c)
    <2>1. Books(Close(u, c), cl, c) /\ Around(u, Close(u, c), c)
        BY CloseBooks
    <2> QED BY <2>1, AroundSame
<1> HIDE DEF v
<1>3. v \in ServerType
    BY <1>2 DEF Around
<1>4. Books(t, cl, c) /\ Around(v, t, c)
    BY <1>1, <1>2, <1>3, ReleaseEases, EasedKeeps
<1> QED BY <1>2, <1>4, AroundTwice

\* What the worker takes is what it has to answer next.
LEMMA ReadReady ==
    ASSUME NEW s, Free(s), s.queue # <<>>, s.blocked.conn = None,
           NEW e, e = Head(s.queue), e.op = "read", e.what.kind # "error",
           NEW c \in Conns, c = e.conn, NEW cl, Books(s, cl, c),
           NEW p, p = [s EXCEPT !.queue = Tail(@)]
    PROVE  Ready(p, cl, c, e.what)
<1>1. Held(p, c) /\ s \in ServerType
    BY PopKeeps DEF Turn, Free
<1>2. NoStart(p, c) /\ ~p.conn[c].reading /\ p.conn[c].accepted /\ p.blocked.conn = None
    BY <1>1, HeldStart
<1>3. \A j \in 1 .. Len(p.queue) : ~(p.queue[j].op = "read" /\ p.queue[j].conn = c)
    BY <1>1 DEF Held, Inv, InvQueue, EventOK, Turn
<1>4. /\ p \in ServerType /\ p.conn = s.conn /\ e = s.queue[1] /\ 1 \in 1 .. Len(s.queue)
      /\ \A i \in 1 .. Len(p.queue) : i + 1 \in 1 .. Len(s.queue) /\ p.queue[i] = s.queue[i + 1]
    BY <1>1, PopFields
<1>5. Books(p, cl, c)
    <2>1. Eased(p, p)
        BY <1>4 DEF Eased, Softer
    <2>2. ~WroteTo(e, c)
        BY DEF WroteTo
    <2> QED BY <1>1, <2>1, <2>2, PopBooks
<1>6. Awaited(s.conn[c], s.queue, cl, c, 1)
    BY <1>4 DEF Books, QueueFits, Fits
<1>7. s.conn[c].writing = NoAnswer /\ ~Dirty(s.conn[c])
      /\ (e.what \notin Openings => Owes(s.conn[c], cl, e.what.kind) /\ cl.wire = <<>>)
    BY <1>4, <1>6 DEF Awaited
<1>8. ~HasWritten(p.queue, c)
    BY <1>4, <1>6 DEF Awaited, HasWritten
<1> QED BY <1>2, <1>3, <1>4, <1>5, <1>7, <1>8, ConnectionAssumption
        DEF Ready, Quiet, ConnectionAssumption

\* The books of all.
AllBooks(s, clients) == \A d \in Conns : Books(s, clients[d], d)

LEMMA HandlerKeepsBooks ==
    ASSUME NEW s \in ServerType, NEW clients, AllBooks(s, clients), NEW c \in Conns,
           NEW t, Around(s, t, c), Books(t, clients[c], c)
    PROVE  AllBooks(t, clients)
<1> SUFFICES ASSUME NEW d \in Conns, d # c PROVE Books(t, clients[d], d)
    BY DEF AllBooks
<1>1. Books(s, clients[d], d)
    BY DEF AllBooks
<1> QED BY <1>1, OthersKeep

\* The deadlines that are due fire one after another.
LEMMA TickBooks ==
    ASSUME NEW s, Free(s), NEW clients \in [Conns -> ClientType], AllBooks(s, clients)
    PROVE  AllBooks(Tick(s), clients)
<1>0. s \in ServerType /\ s.highest_id \in Nat
    BY DEF Free, ServerType
<1>1. PICK f : Ran(s, f) /\ RunDue(s) = f[s.highest_id]
    BY <1>0, RunDueIs
<1> DEFINE Sound(n) == f[n] \in ServerType /\ AllBooks(f[n], clients)
           S == {n \in Nat : n <= s.highest_id => Sound(n)}
<1>2. \A n \in 0 .. s.highest_id :
          f[n] = IF n = 0 THEN s
                 ELSE IF n \in Due(s) THEN Expire(f[n - 1], s.tasks[n].conn) ELSE f[n - 1]
    BY <1>1 DEF Ran
<1>3. 0 \in S
    <2>1. f[0] = s
        BY <1>0, <1>2
    <2> QED BY <1>0, <2>1
<1>4. ASSUME NEW n \in Nat, n \in S PROVE n + 1 \in S
    <2> SUFFICES ASSUME n + 1 <= s.highest_id PROVE Sound(n + 1)
        OBVIOUS
    <2>1. Sound(n)
        BY <1>0, <1>4
    <2>2. n + 1 \in 0 .. s.highest_id /\ n + 1 # 0 /\ (n + 1) - 1 = n
        BY <1>0
    <2>3. f[n + 1] = IF n + 1 \in Due(s) THEN Expire(f[n], s.tasks[n + 1].conn) ELSE f[n]
        BY <1>2, <2>2
    <2>4. CASE n + 1 \in Due(s)
        <3> DEFINE c == s.tasks[n + 1].conn
                   t == f[n]
                   u == f[n + 1]
        <3>1. c \in Conns
            BY <1>0, <2>4, TasksOf DEF Due
        <3>2. u = Expire(t, c) /\ t \in ServerType /\ AllBooks(t, clients)
            BY <2>1, <2>3, <2>4
        <3> HIDE DEF c, t, u
        <3>3. clients[c] \in ClientType /\ Books(t, clients[c], c)
            BY <3>1, <3>2 DEF AllBooks
        <3>4. Books(u, clients[c], c) /\ Around(t, u, c)
            BY <3>1, <3>2, <3>3, ExpireBooks
        <3>5. AllBooks(u, clients) /\ u \in ServerType
            BY <3>1, <3>2, <3>4, HandlerKeepsBooks DEF Around
        <3> QED BY <3>5 DEF u
    <2> QED BY <2>1, <2>3, <2>4
<1>5. s.highest_id \in S
    <2> HIDE DEF S
    <2> QED BY <1>0, <1>3, <1>4, NatSet
<1> DEFINE t == RunDue(s)
           u == Tick(s)
<1>6. t \in ServerType /\ AllBooks(t, clients)
    BY <1>0, <1>1, <1>5
<1> HIDE DEF t
<1>7. u.conn = t.conn /\ u.queue = t.queue /\ u.blocked = t.blocked /\ u.serving = t.serving
    BY <1>6 DEF Tick, ServerType, t
<1>8. u \in ServerType
    BY TickKeeps DEF Free
<1> HIDE DEF u
<1>9. Eased(t, u)
    BY <1>7, <1>8 DEF Eased, Softer
<1>10. AllBooks(u, clients)
    BY <1>6, <1>9, EasedKeeps DEF AllBooks
<1> QED BY <1>10 DEF u

LEMMA WorkBooks ==
    ASSUME NEW s, Free(s), s.queue # <<>>, s.blocked.conn = None,
           NEW clients \in [Conns -> ClientType], AllBooks(s, clients),
           NEW t, t = Handler([s EXCEPT !.queue = Tail(@)], Head(s.queue))
    PROVE  AllBooks(t, clients)
<1> DEFINE p == [s EXCEPT !.queue = Tail(@)]
           e == Head(s.queue)
<1>1. e \in Events /\ p.conn = s.conn /\ (~Turn(e) => Free(p))
    BY PopKeeps
<1>2. s \in ServerType /\ p \in ServerType /\ e = s.queue[1] /\ 1 \in 1 .. Len(s.queue)
    BY PopFields DEF Free
<1>3. t = Handler(p, e)
    OBVIOUS
<1>4. ASSUME NEW u, Eased(p, u), NEW d \in Conns, WroteTo(e, d) => ~Dirty(u.conn[d])
      PROVE  Books(u, clients[d], d)
    <2>1. Books(s, clients[d], d)
        BY DEF AllBooks
    <2> QED BY <1>2, <1>4, <2>1, PopBooks
<1>5. p = [s EXCEPT !.queue = Tail(@)] /\ e = Head(s.queue)
    OBVIOUS
<1> HIDE DEF p, e
<1>6. Eased(p, p)
    BY <1>2 DEF Eased, Softer
<1>7. e.op # "written" => AllBooks(p, clients)
    BY <1>4, <1>6 DEF AllBooks, WroteTo
<1>8. ASSUME e.op # "tick"
      PROVE  /\ e.conn \in Conns /\ clients[e.conn] \in ClientType
             /\ Books(s, clients[e.conn], e.conn) /\ Fits(s.conn[e.conn], s.queue, clients[e.conn], e.conn, 1)
    <2>1. e.conn \in Conns
        BY ONLY <1>2, <1>8, QueueOf
    <2>2. clients[e.conn] \in ClientType /\ Books(s, clients[e.conn], e.conn)
        BY <2>1 DEF AllBooks
    <2> QED BY <1>2, <2>1, <2>2 DEF Books, QueueFits
<1>9. CASE e.op = "start"
    <2>1. t = Start(p, e.conn) /\ ~p.conn[e.conn].continue_requested
        BY ONLY <1>1, <1>2, <1>3, <1>8, <1>9 DEF Handler, Fits
    <2>2. Books(p, clients[e.conn], e.conn)
        BY <1>7, <1>8, <1>9 DEF AllBooks
    <2>3. Books(t, clients[e.conn], e.conn) /\ Around(p, t, e.conn)
        BY <1>2, <1>8, <1>9, <2>1, <2>2, StartBooks
    <2> QED BY <1>2, <1>7, <1>8, <1>9, <2>3, HandlerKeepsBooks
<1>10. CASE e.op = "read"
    <2>1. t = ReadDone(p, e.conn, e.what) /\ e.what \in Messages \cup {Plain("error")}
        BY ONLY <1>1, <1>3, <1>10 DEF Handler, Events
    <2>2. Books(p, clients[e.conn], e.conn)
        BY <1>7, <1>8, <1>10 DEF AllBooks
    <2>3. e.what.kind = "error" => p.conn[e.conn].writing = NoAnswer \/ clients[e.conn].gone
        BY ONLY <1>1, <1>2, <1>8, <1>10 DEF Fits
    <2>4. e.what.kind # "error" => Ready(p, clients[e.conn], e.conn, e.what)
        <3>1. e.op = "read" /\ e.conn \in Conns /\ Books(s, clients[e.conn], e.conn)
            BY <1>8, <1>10
        <3> QED BY <1>5, <3>1, ReadReady
    <2>5. Books(t, clients[e.conn], e.conn) /\ Around(p, t, e.conn)
        BY <1>2, <1>8, <1>10, <2>1, <2>2, <2>3, <2>4, ReadDoneBooks
    <2> QED BY <1>2, <1>7, <1>8, <1>10, <2>5, HandlerKeepsBooks
<1>11. CASE e.op = "written"
    <2> DEFINE c == e.conn
               u == Cleared(p, c)
    <2>1. t = Written(p, c, e.what)
        BY ONLY <1>3, <1>11 DEF Handler
    <2>2. c \in Conns /\ Books(s, clients[c], c) /\ clients[c] \in ClientType
        BY <1>8, <1>11
    <2>3. Matches(p.conn[c], clients[c]) /\ s.conn[c].writing = NoAnswer
        <3>1. HasWritten(s.queue, c)
            BY <1>2, <1>11 DEF HasWritten, WroteTo
        <3> QED BY <1>1, <2>2, <3>1 DEF Books, WritingFits
    <2> HIDE DEF c
    <2>4. Eased(p, u) /\ ~Dirty(u.conn[c])
        BY <1>2, <2>2, <2>3, ClearedEases
    <2>5. u = Cleared(p, c) /\ \A d : WroteTo(e, d) => d = c
        BY DEF WroteTo, c
    <2> HIDE DEF u
    <2>6. AllBooks(u, clients)
        BY <1>4, <2>4, <2>5 DEF AllBooks
    <2>7. u \in ServerType /\ u.conn[c].writing = NoAnswer /\ Books(u, clients[c], c)
        BY <1>1, <2>2, <2>3, <2>4, <2>6 DEF Eased, Softer, AllBooks
    <2>8. Books(t, clients[c], c) /\ Around(u, t, c)
        BY <2>1, <2>2, <2>5, <2>7, WrittenBooks
    <2> QED BY <2>2, <2>6, <2>7, <2>8, HandlerKeepsBooks
<1>12. CASE e.op = "tick"
    <2>1. t = Tick(p) /\ Free(p)
        BY ONLY <1>1, <1>3, <1>12 DEF Handler, Turn
    <2> QED BY <1>7, <1>12, <2>1, TickBooks
<1> QED BY <1>1, <1>9, <1>10, <1>11, <1>12 DEF Events
-----------------------------------------------------------------------------
(* The steps of the system.                                                *)

\* The worker is back from the long answer of c.
LEMMA UnblockedBooks ==
    ASSUME NEW s, Free(s), NEW c \in Conns, s.blocked.conn = c, NEW cl, Books(s, cl, c),
           NEW p, p = Unblocked(s)
    PROVE  /\ p \in ServerType /\ Books(p, cl, c) /\ Around(s, p, c) /\ Quiet(p, c)
           /\ \E k \in Lasting : s.blocked.answer = Answer(k, "full") /\ Owes(p.conn[c], cl, k)
           /\ cl.wire = <<>> /\ ~p.conn[c].continue_requested
<1>1. Held(p, c) /\ p \in ServerType /\ s \in ServerType
    BY UnblockedHeld DEF Held, Free
<1>2. p.conn = s.conn /\ p.queue = s.queue /\ p.serving = s.serving /\ p.blocked.conn = None
    BY <1>1 DEF Unblocked, ServerType
<1>3. None \notin Conns /\ Len(s.queue) \in Nat
    BY <1>1, QueueOf, ConnectionAssumption DEF ConnectionAssumption
<1>4. \A j \in 1 .. Len(p.queue) : ~(p.queue[j].op = "read" /\ p.queue[j].conn = c)
    BY <1>1 DEF Held, Inv, InvQueue, EventOK, Turn
<1>5. ~p.conn[c].reading
    BY <1>1, HeldStart
<1>6. /\ \E k \in Lasting : s.blocked.answer = Answer(k, "full") /\ Owes(s.conn[c], cl, k)
      /\ cl.wire = <<>> /\ ~s.conn[c].continue_requested /\ s.conn[c].writing = NoAnswer
    BY DEF Books, BlockedFits
<1>7. Around(s, p, c)
    BY <1>1, <1>2, <1>3 DEF Around, Softer
<1>8. Books(p, cl, c)
    <2>1. BlockedFits(p.conn[c], p.blocked, cl, c)
        BY <1>2, <1>3 DEF BlockedFits
    <2> QED BY <2>1, <1>2 DEF Books
<1>9. Quiet(p, c)
    BY <1>2, <1>3, <1>4, <1>5, <1>6 DEF Quiet
<1> QED BY <1>1, <1>2, <1>6, <1>7, <1>8, <1>9

LEMMA FinishLongBooks ==
    ASSUME NEW s, Free(s), NEW c \in Conns, s.blocked.conn = c,
           NEW cl \in ClientType, Books(s, cl, c),
           NEW u, u = Untimed(Sent(Unblocked(s), c, s.blocked.answer), c),
           NEW t, t = Release(ReadOn(AfterLong(u, c), c), c)
    PROVE  Books(t, cl, c) /\ Around(s, t, c)
<1> DEFINE p == Unblocked(s)
           a == s.blocked.answer
           q == Sent(p, c, a)
           v == IF u.conn[c].close_connection THEN Close(u, c) ELSE u
           w == ClearParser(v, c)
           r == ReadOn(w, c)
<1>0. s \in ServerType
    BY DEF Free
<1>1. /\ p \in ServerType /\ Books(p, cl, c) /\ Around(s, p, c) /\ Quiet(p, c)
      /\ \E k \in Lasting : a = Answer(k, "full") /\ Owes(p.conn[c], cl, k)
      /\ cl.wire = <<>> /\ ~p.conn[c].continue_requested
    BY UnblockedBooks
<1>2. (u = q \/ u = Cancel(q, c)) /\ t = Release(r, c)
    BY DEF AfterLong, Untimed
<1>3. /\ a \in AnswerType /\ a.kind # "head" /\ a.body = "full" /\ cl.sent \in Seq(Messages)
      /\ Owes(p.conn[c], cl, a.kind)
    <2>1. cl.sent \in Seq(Messages)
        BY DEF ClientType
    <2>2. PICK k \in Lasting : a = Answer(k, "full") /\ Owes(p.conn[c], cl, k)
        BY <1>1
    <2>3. k \in Kinds /\ k # "head"
        BY KindsAre DEF Lasting, Files
    <2>4. a = [kind |-> k, body |-> "full"]
        BY ONLY <2>2 DEF Answer
    <2> HIDE DEF a, p
    <2> QED BY ONLY <2>1, <2>2, <2>3, <2>4 DEF AnswerType
<1> HIDE DEF p, a
<1>4. Books(q, cl, c) /\ Around(p, q, c) /\ Quiet(q, c)
    BY <1>1, <1>3, SentKeeps
<1>5. ~q.conn[c].continue_requested
    BY <1>1 DEF Sent, ServerType, ConnType
<1> HIDE DEF q
<1>6. Eased(q, u) /\ q \in ServerType
    <2>1. q \in ServerType
        BY <1>4 DEF Around
    <2>2. Eased(q, q)
        BY <2>1 DEF Eased, Softer
    <2> QED BY <1>2, <2>1, <2>2, CancelEases
<1>7. Books(u, cl, c) /\ Around(q, u, c) /\ Quiet(u, c)
    BY <1>4, <1>6, EasedKeeps
<1>8. u \in ServerType /\ ~u.conn[c].continue_requested /\ u.conn[c].writing = NoAnswer
    BY <1>5, <1>6, <1>7 DEF Eased, Softer, Quiet
<1>9. Books(v, cl, c) /\ Around(u, v, c) /\ ~v.conn[c].continue_requested /\ v.conn[c].writing = NoAnswer
    <2>1. CASE u.conn[c].close_connection
        <3>1. v = Close(u, c)
            BY <2>1
        <3> HIDE DEF v
        <3> QED BY <3>1, <1>7, <1>8, CloseBooks
    <2>2. CASE ~u.conn[c].close_connection
        <3>1. v = u
            BY <2>2
        <3>2. Around(u, u, c)
            BY <1>8, AroundSame
        <3> HIDE DEF v
        <3> QED BY <3>1, <3>2, <1>7, <1>8
    <2> QED BY <2>1, <2>2
<1> HIDE DEF v
<1>10. v \in ServerType
    BY <1>9 DEF Around
<1>11. Eased(v, w) /\ ~Dirty(w.conn[c])
    BY <1>9, <1>10, ClearParserEases DEF Dirty
<1>12. Books(w, cl, c) /\ Around(v, w, c) /\ w \in ServerType /\ w.conn[c].writing = NoAnswer
    BY <1>9, <1>10, <1>11, EasedKeeps DEF Eased, Softer
<1> HIDE DEF w
<1>13. Books(r, cl, c) /\ Around(w, r, c)
    BY <1>11, <1>12, ReadOnBooks
<1> HIDE DEF r
<1>14. r \in ServerType
    BY <1>13 DEF Around
<1>15. Books(t, cl, c) /\ Around(r, t, c)
    BY <1>2, <1>13, <1>14, ReleaseEases, EasedKeeps
<1>16. Around(s, q, c)
    BY <1>0, <1>1, <1>4, AroundTwice
<1>17. Around(s, v, c)
    BY <1>0, <1>7, <1>9, <1>16, AroundTwice
<1>18. Around(s, r, c)
    BY <1>0, <1>12, <1>13, <1>17, AroundTwice
<1> QED BY <1>0, <1>15, <1>18, AroundTwice

LEMMA BreakLongBooks ==
    ASSUME NEW s, Free(s), NEW c \in Conns, s.blocked.conn = c,
           NEW cl \in ClientType, Books(s, cl, c), cl.gone,
           NEW t,
           t = Release(ReadOn(Sent(Unblocked(s), c, [s.blocked.answer EXCEPT !.body = "cut"]), c), c)
    PROVE  Books(t, cl, c) /\ Around(s, t, c)
<1> DEFINE p == Unblocked(s)
           a == [s.blocked.answer EXCEPT !.body = "cut"]
           q == Sent(p, c, a)
           r == ReadOn(q, c)
<1>0. s \in ServerType
    BY DEF Free
<1>1. /\ p \in ServerType /\ Books(p, cl, c) /\ Around(s, p, c) /\ Quiet(p, c)
      /\ \E k \in Lasting : s.blocked.answer = Answer(k, "full") /\ Owes(p.conn[c], cl, k)
      /\ cl.wire = <<>>
    BY UnblockedBooks
<1>2. t = Release(r, c)
    OBVIOUS
<1>3. /\ a \in AnswerType /\ a.kind # "head" /\ a.body = "cut" /\ cl.sent \in Seq(Messages)
      /\ Owes(p.conn[c], cl, a.kind)
    <2>1. cl.sent \in Seq(Messages)
        BY DEF ClientType
    <2>2. PICK k \in Lasting : s.blocked.answer = Answer(k, "full") /\ Owes(p.conn[c], cl, k)
        BY <1>1
    <2>3. a = [kind |-> k, body |-> "cut"]
        BY ONLY <2>2 DEF Answer, a
    <2> HIDE DEF a
    <2> QED BY ONLY <2>1, <2>2, <2>3 DEF AnswerType, Lasting, Kinds, Heads, Files, Errors
<1> HIDE DEF p, a
<1>4. Books(q, cl, c) /\ Around(p, q, c) /\ q.conn[c].writing = NoAnswer
    BY <1>1, <1>3, SentKeeps DEF Quiet
<1> HIDE DEF q
<1>5. q \in ServerType
    BY <1>4 DEF Around
<1>6. Departed(cl)
    BY <1>1 DEF Departed
<1>7. Books(r, cl, c) /\ Around(q, r, c)
    BY <1>4, <1>5, <1>6, ReadOnBooks
<1> HIDE DEF r
<1>8. r \in ServerType
    BY <1>7 DEF Around
<1>9. Books(t, cl, c) /\ Around(r, t, c)
    BY <1>2, <1>7, <1>8, ReleaseEases, EasedKeeps
<1>10. Around(s, r, c)
    BY <1>0, <1>1, <1>4, <1>5, <1>7, AroundTwice
<1> QED BY <1>0, <1>9, <1>10, AroundTwice

\* An event that ends no write, in the books of all.
LEMMA PostAllBooks ==
    ASSUME NEW s \in ServerType, NEW clients, AllBooks(s, clients),
           NEW e \in Events, e.op # "written", NEW t, t = Post(s, e),
           e.conn \in Conns
              => Fits(s.conn[e.conn], t.queue, clients[e.conn], e.conn, Len(s.queue) + 1)
    PROVE  AllBooks(t, clients)
<1> SUFFICES ASSUME NEW d \in Conns PROVE Books(t, clients[d], d)
    BY DEF AllBooks
<1>1. Books(s, clients[d], d)
    BY DEF AllBooks
<1>2. e.conn = d => Fits(s.conn[d], t.queue, clients[d], d, Len(s.queue) + 1)
    OBVIOUS
<1> QED BY <1>1, <1>2, PostBooks

LEMMA SecondBooks ==
    ASSUME NEW clients, server \in ServerType, AllBooks(server, clients), Second
    PROVE  AllBooks(server', clients)
<1> DEFINE s == [server EXCEPT
                  !.tasks = [i \in DOMAIN server.tasks |->
                                [conn |-> server.tasks[i].conn,
                                 left |-> Earlier(server.tasks[i].left)]],
                  !.conn = [c \in Conns |->
                                IF server.conn[c].open /\ server.conn[c].quiet < Timeout
                                THEN [server.conn[c] EXCEPT !.quiet = @ + 1]
                                ELSE server.conn[c]],
                  !.armed = FALSE]
<1>1. server' = IF server.armed THEN Post(s, TickEvent) ELSE s
    BY DEF Second, TickEvent
<1>2. Aged(server, s)
    BY SecondAges
<1>3. s.serving = server.serving
      /\ \A c \in Conns : s.conn[c] = IF server.conn[c].open /\ server.conn[c].quiet < Timeout
                                      THEN [server.conn[c] EXCEPT !.quiet = @ + 1]
                                      ELSE server.conn[c]
    BY DEF ServerType
<1> HIDE DEF s
<1>4. ASSUME NEW c \in Conns PROVE Softer(s.conn[c], server.conn[c])
    <2>1. server.conn[c] \in ConnType
        BY DEF ServerType
    <2> QED BY <1>3, <2>1 DEF Softer, ConnType
<1>5. Eased(server, s) /\ s \in ServerType
    BY <1>2, <1>3, <1>4 DEF Eased, Aged
<1>6. AllBooks(s, clients)
    BY <1>5, EasedKeeps DEF AllBooks
<1>7. TickEvent \in Events /\ TickEvent.op # "written" /\ TickEvent.conn \notin Conns
    BY EventTypes, ConnectionAssumption DEF TickEvent, Event, ConnectionAssumption
<1>8. AllBooks(Post(s, TickEvent), clients)
    BY <1>5, <1>6, <1>7, PostAllBooks
<1> QED BY <1>1, <1>6, <1>8

LEMMA AcceptBooks ==
    ASSUME NEW clients, server \in ServerType, AllBooks(server, clients), NEW c \in Conns, Accept(c)
    PROVE  AllBooks(server', clients)
<1> DEFINE x == server.conn[c]
           y == [x EXCEPT !.accepted = TRUE, !.open = TRUE]
           u == Put(server, c, y)
           e == Event("start", c, None)
<1>1. x \in ConnType /\ ~x.accepted
    BY DEF ServerType, Accept
<1>2. y \in ConnType /\ Softer(y, x) /\ y.continue_requested = x.continue_requested
    BY <1>1 DEF ConnType, Softer
<1>3. server' = Post(u, e)
    BY DEF Accept, Put
<1>4. ~x.continue_requested
    BY <1>1 DEF AllBooks, Books, Matches
<1> HIDE DEF y
<1>5. Eased(server, u) /\ u.conn[c] = y
    BY <1>2, PutEases, PutOnly
<1> HIDE DEF u, x
<1>6. u \in ServerType /\ AllBooks(u, clients)
    BY <1>5, EasedKeeps DEF Eased, AllBooks
<1>7. e \in Events /\ e.op = "start" /\ e.conn = c
    BY EventTypes DEF Event
<1> HIDE DEF e
<1>8. server'.queue[Len(u.queue) + 1] = e
    BY <1>3, <1>6, <1>7, PostAround
<1>9. Fits(u.conn[c], server'.queue, clients[c], c, Len(u.queue) + 1)
    BY <1>2, <1>4, <1>5, <1>7, <1>8 DEF Fits
<1> QED BY <1>3, <1>6, <1>7, <1>9, PostAllBooks

\* Only c and its client are concerned.
LEMMA OneStepBooks ==
    ASSUME server \in ServerType, AllBooks(server, client), NEW c \in Conns,
           Around(server, server', c), Books(server', client'[c], c),
           \A d \in Conns \ {c} : client'[d] = client[d]
    PROVE  AllBooks(server', client')
<1> SUFFICES ASSUME NEW d \in Conns, d # c PROVE Books(server', client'[d], d)
    BY DEF AllBooks
<1>1. Books(server, client[d], d) /\ client'[d] = client[d]
    BY DEF AllBooks
<1> QED BY <1>1, OthersKeep

\* A message arrives.
LEMMA MessageBooks ==
    ASSUME NEW s, Free(s), s.serving = "running", NEW c \in Conns, s.conn[c].reading,
           NEW cl \in ClientType, Books(s, cl, c), cl.wire # <<>>,
           NEW gl \in ClientType, gl.sent = cl.sent, gl.gone = cl.gone, gl.wire = Tail(cl.wire),
           NEW u, Eased(s, u), ~u.conn[c].reading,
           NEW e \in Events, e.op = "read", e.conn = c, e.what = Head(cl.wire),
           e.what.kind # "error", NEW t, t = Post(u, e)
    PROVE  Books(t, gl, c) /\ Around(s, t, c)
<1> DEFINE x == u.conn[c]
<1>1. s \in ServerType /\ u \in ServerType /\ u.queue = s.queue /\ u.serving = s.serving
      /\ Softer(x, s.conn[c])
    BY DEF Free, Eased
<1>2. Books(u, cl, c) /\ Around(s, u, c)
    BY <1>1, EasedKeeps
<1>3. \A j \in 1 .. Len(u.queue) : ~(u.queue[j].op = "read" /\ u.queue[j].conn = c)
    <2>1. \A j \in 1 .. Len(s.queue) : ~(s.queue[j].op = "read" /\ s.queue[j].conn = c)
        BY DEF Free, Inv, InvQueue, EventOK, Turn
    <2> QED BY <2>1, <1>1
<1>4. /\ Matches(x, cl) /\ QueueFits(x, u.queue, cl, c) /\ WritingFits(x, u.queue, cl, c)
      /\ BlockedFits(x, u.blocked, cl, c) /\ WireFits(x, cl)
    BY <1>1, <1>2 DEF Books
<1>5. x.writing = NoAnswer /\ u.blocked.conn # c
    BY <1>4 DEF WritingFits, BlockedFits
<1>6. Dirty(x) => HasWritten(u.queue, c)
    <2>1. ReadingFits(s.conn[c], s.queue, cl, c) /\ s.conn[c].writing = NoAnswer
        BY <1>1, <1>5 DEF Books, Softer
    <2>2. ~Departed(cl)
        BY DEF Departed
    <2> QED BY <2>1, <2>2, <1>1 DEF ReadingFits, Softer, Dirty
<1>7. /\ cl.wire \in Seq(Messages) /\ Len(cl.wire) \in Nat /\ Len(gl.wire) = Len(cl.wire) - 1
      /\ \A i \in 1 .. Len(gl.wire) : i + 1 \in 1 .. Len(cl.wire) /\ gl.wire[i] = cl.wire[i + 1]
      /\ e.what = cl.wire[1] /\ 1 \in 1 .. Len(cl.wire) /\ (Len(cl.wire) = 1 => gl.wire = <<>>)
      /\ gl.sent = cl.sent /\ gl.gone = cl.gone
    <2> DEFINE w == cl.wire
    <2>1. w \in Seq(Messages) /\ w # <<>> /\ gl.wire = Tail(w) /\ e.what = Head(w)
        BY DEF ClientType
    <2> HIDE DEF w
    <2>2. Len(w) \in Nat /\ Len(w) # 0 /\ Head(w) = w[1]
        BY ONLY <2>1
    <2>3. /\ Tail(w) \in Seq(Messages) /\ Len(Tail(w)) = Len(w) - 1
          /\ \A i \in 1 .. Len(w) - 1 : Tail(w)[i] = w[i + 1]
        BY ONLY <2>1
    <2>4. Len(w) = 1 => Tail(w) = <<>>
        <3>1. \A v \in Seq(Messages) : Len(v) = 0 => v = <<>>
            OBVIOUS
        <3>2. Len(w) = 1 => Len(Tail(w)) = 0
            BY ONLY <2>2, <2>3
        <3> QED BY ONLY <2>3, <3>1, <3>2
    <2>5. \A i \in 1 .. Len(gl.wire) : i + 1 \in 1 .. Len(w) /\ gl.wire[i] = w[i + 1]
        BY ONLY <2>1, <2>2, <2>3
    <2>6. 1 \in 1 .. Len(w)
        BY ONLY <2>2
    <2> QED BY <2>1, <2>2, <2>3, <2>4, <2>5, <2>6 DEF w
<1> HIDE DEF x
<1>8. WireFits(x, gl)
    <2>1. ASSUME NEW i \in 1 .. Len(gl.wire), gl.wire[i] \notin Openings
          PROVE  i = Len(gl.wire) /\ Owes(x, gl, gl.wire[i].kind)
        <3>1. i + 1 \in 1 .. Len(cl.wire) /\ gl.wire[i] = cl.wire[i + 1]
            BY <1>7
        <3>2. i + 1 = Len(cl.wire) /\ Owes(x, cl, cl.wire[i + 1].kind)
            BY <1>4, <2>1, <3>1 DEF WireFits
        <3> QED BY ONLY <1>7, <3>1, <3>2, i \in 1 .. Len(gl.wire) DEF Owes
    <2> QED BY ONLY <1>4, <1>7, <2>1 DEF WireFits
<1>9. Matches(x, gl)
    BY ONLY <1>4, <1>7 DEF Matches, Right
<1>10. QueueFits(x, u.queue, gl, c)
    BY ONLY <1>3, <1>4 DEF QueueFits, Fits
<1>11. Books(u, gl, c)
    <2>1. ReadingFits(x, u.queue, gl, c) /\ WritingFits(x, u.queue, gl, c) /\ BlockedFits(x, u.blocked, gl, c)
        BY <1>5, <1>6 DEF ReadingFits, WritingFits, BlockedFits
    <2> QED BY <2>1, <1>8, <1>9, <1>10 DEF Books, x
<1>12. /\ Around(u, t, c) /\ Len(u.queue) \in Nat /\ t.queue[Len(u.queue) + 1] = e
       /\ \A i \in 1 .. Len(u.queue) : t.queue[i] = u.queue[i]
       /\ \A i \in 1 .. Len(t.queue) : i \in 1 .. Len(u.queue) \/ i = Len(u.queue) + 1
    BY <1>1, PostAround
<1>13. Awaited(x, t.queue, gl, c, Len(u.queue) + 1)
    <2>1. e.what \notin Openings => Owes(x, gl, e.what.kind) /\ gl.wire = <<>>
        <3>1. e.what \notin Openings => 1 = Len(cl.wire) /\ Owes(x, cl, e.what.kind)
            BY ONLY <1>4, <1>7 DEF WireFits
        <3> QED BY ONLY <1>7, <3>1 DEF Owes
    <2>2. \A i \in 1 .. Len(t.queue) : WroteTo(t.queue[i], c) => i < Len(u.queue) + 1
        BY <1>12 DEF WroteTo
    <2>3. Dirty(x) => \E i \in 1 .. ((Len(u.queue) + 1) - 1) : WroteTo(t.queue[i], c)
        BY <1>6, <1>12 DEF HasWritten
    <2> QED BY <1>5, <1>12, <2>1, <2>2, <2>3 DEF Awaited
<1>14. Fits(x, t.queue, gl, c, Len(u.queue) + 1)
    BY <1>12, <1>13 DEF Fits
<1>15. Books(t, gl, c)
    <2>1. e.op # "written" /\ (e.conn = c => Fits(u.conn[c], t.queue, gl, c, Len(u.queue) + 1))
        BY <1>14 DEF x
    <2> QED BY <1>1, <1>11, <2>1, PostBooks
<1> QED BY <1>1, <1>2, <1>12, <1>15, AroundTwice
LEMMA ArriveBooks ==
    ASSUME IInv, AllBooks(server, client), NEW c \in Conns, Arrive(c)
    PROVE  AllBooks(server', client')
<1>1. client[c] \in ClientType /\ Free(server) /\ server \in ServerType /\ server.conn[c] \in ConnType
      /\ Books(server, client[c], c) /\ server.conn[c].reading /\ server.serving = "running"
    BY DEF IInv, Free, AllBooks, ServerType, Arrive, Running
<1>2. CASE /\ client[c].wire # <<>>
           /\ server' = Post([server EXCEPT !.conn[c].reading = FALSE, !.conn[c].quiet = 0],
                             [op |-> "read", conn |-> c, what |-> Head(client[c].wire)])
           /\ client' = [client EXCEPT ![c].wire = Tail(@)]
    <2> DEFINE y == [server.conn[c] EXCEPT !.reading = FALSE, !.quiet = 0]
               u == Put(server, c, y)
               e == [op |-> "read", conn |-> c, what |-> Head(client[c].wire)]
               gl == [client[c] EXCEPT !.wire = Tail(client[c].wire)]
    <2>1. Head(client[c].wire) \in Messages /\ Tail(client[c].wire) \in Seq(Messages)
        BY <1>1, <1>2 DEF ClientType
    <2>2. y \in ConnType /\ Softer(y, server.conn[c]) /\ ~y.reading
        BY <1>1 DEF ConnType, Softer
    <2>3. server' = Post(u, e)
        <3>1. u = [server EXCEPT !.conn[c].reading = FALSE, !.conn[c].quiet = 0]
            BY DEF Put
        <3> HIDE DEF u
        <3> QED BY <1>2, <3>1
    <2> HIDE DEF y
    <2>4. Eased(server, u) /\ u.conn[c] = y
        BY <1>1, <2>2, PutEases, PutOnly
    <2> HIDE DEF u
    <2>5. e \in Events /\ e.op = "read" /\ e.conn = c /\ e.what = Head(client[c].wire)
        BY <2>1 DEF Events
    <2>6. e.what.kind # "error"
        <3>1. e.what.kind \in Kinds \cup {"part", "expect", "refused"}
            BY <2>1, <2>5 DEF Messages, Requests, Openings, Plain
        <3> QED BY <3>1, KindsAre
    <2> HIDE DEF e
    <2>7. gl \in ClientType /\ gl.sent = client[c].sent /\ gl.gone = client[c].gone
          /\ gl.wire = Tail(client[c].wire)
        BY <1>1, <2>1 DEF ClientType
    <2>8. client' = [client EXCEPT ![c] = gl]
        BY <1>2
    <2> HIDE DEF gl
    <2>9. Books(server', gl, c) /\ Around(server, server', c)
        BY <1>1, <1>2, <2>2, <2>3, <2>4, <2>5, <2>6, <2>7, MessageBooks
    <2>10. client'[c] = gl /\ \A d \in Conns \ {c} : client'[d] = client[d]
        BY <2>8 DEF IInv
    <2> QED BY <1>1, <2>9, <2>10, OneStepBooks
<1>3. CASE /\ client[c].gone
           /\ server' = Post([server EXCEPT !.conn[c].reading = FALSE], Event("read", c, "error"))
           /\ UNCHANGED client
    <2> DEFINE y == [server.conn[c] EXCEPT !.reading = FALSE]
               u == Put(server, c, y)
               e == Event("read", c, "error")
    <2>1. y \in ConnType /\ Softer(y, server.conn[c])
        BY <1>1 DEF ConnType, Softer
    <2>2. server' = Post(u, e)
        BY <1>3 DEF Put
    <2> HIDE DEF y
    <2>3. Eased(server, u)
        BY <1>1, <2>1, PutEases
    <2> HIDE DEF u
    <2>4. u \in ServerType /\ AllBooks(u, client)
        BY <1>1, <2>3, EasedKeeps DEF Eased, AllBooks
    <2>5. e \in Events /\ e.op = "read" /\ e.conn = c /\ e.what.kind = "error"
        BY EventTypes DEF Event, Plain
    <2> HIDE DEF e
    <2>6. server'.queue[Len(u.queue) + 1] = e
        BY <2>2, <2>4, <2>5, PostAround
    <2>7. Fits(u.conn[c], server'.queue, client[c], c, Len(u.queue) + 1)
        BY <1>3, <2>5, <2>6 DEF Fits
    <2>8. AllBooks(server', client)
        BY <2>2, <2>4, <2>5, <2>7, PostAllBooks
    <2> QED BY <1>3, <2>8
<1> QED BY <1>2, <1>3 DEF Arrive

\* An asynchronous write completes.
LEMMA TakeBooks ==
    ASSUME IInv, AllBooks(server, client), NEW c \in Conns, Take(c)
    PROVE  AllBooks(server', client')
<1> DEFINE x == server.conn[c]
           cut == [x.writing EXCEPT !.body = "cut"]
           a == IF client[c].gone THEN cut ELSE x.writing
           e == Event("written", c, IF client[c].gone THEN "error" ELSE "ok")
           u == [Sent(server, c, a) EXCEPT !.conn[c].writing = NoAnswer]
           y == [x EXCEPT !.answers = Append(@, a), !.writing = NoAnswer]
<1>1. client[c] \in ClientType /\ server \in ServerType /\ Books(server, client[c], c)
      /\ x.writing # NoAnswer
    BY DEF IInv, Free, AllBooks, Take
<1>2. x.writing = Answer("medium", "full")
    BY <1>1 DEF Books, WritingFits
<1>3. a \in AnswerType /\ a.kind = "medium" /\ a.body # "empty" /\ (a.body = "cut" => client[c].gone)
    <2>1. cut = [kind |-> "medium", body |-> "cut"]
        BY ONLY <1>2 DEF Answer
    <2>2. cut \in AnswerType /\ cut.kind = "medium" /\ cut.body = "cut"
        BY ONLY <2>1 DEF AnswerType, Kinds, Heads, Files, Errors
    <2>3. x.writing \in AnswerType /\ x.writing.kind = "medium" /\ x.writing.body = "full"
        BY ONLY <1>2 DEF Answer, AnswerType, Kinds, Heads, Files, Errors
    <2> HIDE DEF cut, x
    <2> QED BY <2>2, <2>3
<1>4. server' = Post(u, e)
    BY <1>1 DEF Take, CutWrite
<1>5. e \in Events /\ WroteTo(e, c) /\ e.conn = c
    BY EventTypes DEF Event, WroteTo
<1> HIDE DEF a, e
<1>6. Kept(server, u, c, y)
    BY <1>1, <1>3, WriteLeaves
<1> HIDE DEF u
<1>7. /\ u \in ServerType /\ u.conn[c] = y /\ u.queue = server.queue /\ u.blocked = server.blocked
      /\ u.serving = server.serving /\ Around(server, u, c)
    BY <1>6 DEF Kept
<1>8. /\ server' \in ServerType /\ server'.conn = u.conn /\ server'.queue = Append(server.queue, e)
      /\ server'.blocked = server.blocked /\ server'.serving = server.serving
      /\ Around(u, server', c)
    BY <1>4, <1>5, <1>7, PostFields, PostAround DEF SameTimer
<1>9. Books(server', client[c], c)
    <2>1. server.conn[c].writing # NoAnswer
          /\ server'.conn[c] = [server.conn[c] EXCEPT !.answers = Append(@, a), !.writing = NoAnswer]
        BY <1>1, <1>7, <1>8
    <2> QED BY ONLY <1>1, <1>3, <1>5, <1>8, <2>1, WriteEnds, c \in Conns
<1>10. client' = client
    BY DEF Take
<1>11. Around(server, server', c)
    BY <1>1, <1>7, <1>8, AroundTwice
<1>12. client'[c] = client[c] /\ \A d \in Conns \ {c} : client'[d] = client[d]
    BY <1>10
<1> QED BY <1>1, <1>9, <1>11, <1>12, OneStepBooks

\* A server without connections.
LEMMA NewBooks ==
    ASSUME NEW v \in {"running", "stopping", "ended"}, NEW t, t = [NewServer EXCEPT !.serving = v],
           NEW c \in Conns, NEW cl \in ClientType, v = "running" => cl = NewClient
    PROVE  Books(t, cl, c)
<1> DEFINE x == t.conn[c]
<1>1. /\ x = NewConnection /\ t.queue = <<>> /\ t.serving = v
      /\ t.blocked = [conn |-> None, answer |-> NoAnswer]
    BY DEF NewServer
<1>2. /\ ~x.accepted /\ ~x.reading /\ x.writing = NoAnswer /\ ~x.message_complete
      /\ ~x.continue_requested /\ ~x.skip_body /\ x.answers = <<>> /\ ~x.dropped
    BY <1>1 DEF NewConnection
<1> HIDE DEF x
<1>3. Len(x.answers) = 0 /\ Len(t.queue) = 0 /\ t.blocked.conn # c
    <2>1. None \notin Conns
        BY ConnectionAssumption DEF ConnectionAssumption
    <2> QED BY ONLY <1>1, <1>2, <2>1, c \in Conns
<1>4. Len(cl.sent) \in Nat
    BY DEF ClientType
<1>5. Matches(x, cl)
    BY <1>2, <1>3, <1>4 DEF Matches
<1>6. QueueFits(x, t.queue, cl, c) /\ WritingFits(x, t.queue, cl, c)
      /\ BlockedFits(x, t.blocked, cl, c) /\ ReadingFits(x, t.queue, cl, c)
    BY <1>2, <1>3 DEF QueueFits, WritingFits, BlockedFits, ReadingFits
<1>7. t.serving = "running" => WireFits(x, cl)
    <2> SUFFICES ASSUME cl = NewClient PROVE WireFits(x, cl)
        BY <1>1
    <2>1. Len(cl.sent) = 0 /\ Len(cl.wire) = 0
        BY DEF NewClient
    <2> QED BY <2>1, <1>3 DEF WireFits
<1> QED BY <1>5, <1>6, <1>7 DEF Books, x

LEMMA StopBooks ==
    ASSUME IInv, AllBooks(server, client), Stop
    PROVE  AllBooks(server', client)
<1> SUFFICES ASSUME NEW c \in Conns PROVE Books(server', client[c], c)
    BY DEF AllBooks
<1>1. server \in ServerType /\ client[c] \in ClientType /\ Books(server, client[c], c)
    BY DEF IInv, Free, AllBooks
<1>2. CASE Blocked
    <2>1. server' = [server EXCEPT !.serving = "stopping"]
        BY <1>2 DEF Stop
    <2>2. /\ server'.conn = server.conn /\ server'.queue = server.queue
          /\ server'.blocked = server.blocked /\ server'.serving = "stopping"
        BY <1>1, <2>1 DEF ServerType
    <2> QED BY <1>1, <2>2 DEF Books
<1>3. CASE ~Blocked
    <2>1. server' = [NewServer EXCEPT !.serving = "stopping"]
        BY <1>3 DEF Stop
    <2> QED BY <1>1, <2>1, NewBooks
<1> QED BY <1>2, <1>3

\* A client that has its answers sends a message: nothing of it waits anywhere.
LEMMA SendBooks ==
    ASSUME NEW s \in ServerType, NEW c \in Conns, NEW cl \in ClientType, Books(s, cl, c),
           s.serving = "running", ~(Len(cl.sent) > Len(s.conn[c].answers)), ~cl.gone,
           NEW gl, NEW m \in Messages, gl.gone = cl.gone, gl.wire = Append(cl.wire, m),
           gl.sent = IF m \in Openings THEN cl.sent ELSE Append(cl.sent, m)
    PROVE  Books(s, gl, c)
<1> DEFINE x == s.conn[c]
<1>1. /\ cl.sent \in Seq(Messages) /\ cl.wire \in Seq(Messages) /\ Len(x.answers) \in Nat
      /\ Len(cl.sent) \in Nat
    BY DEF ClientType, ServerType, ConnType
<1>2. ~(Len(cl.sent) > Len(x.answers))
    OBVIOUS
<1>3. /\ Matches(x, cl) /\ QueueFits(x, s.queue, cl, c) /\ WritingFits(x, s.queue, cl, c)
      /\ BlockedFits(x, s.blocked, cl, c) /\ ReadingFits(x, s.queue, cl, c) /\ WireFits(x, cl)
    BY DEF Books
<1>4. /\ Len(gl.wire) = Len(cl.wire) + 1 /\ gl.wire[Len(cl.wire) + 1] = m /\ Len(cl.wire) \in Nat
      /\ \A i \in 1 .. Len(cl.wire) : gl.wire[i] = cl.wire[i]
    BY <1>1
<1>5. /\ Len(gl.sent) = IF m \in Openings THEN Len(cl.sent) ELSE Len(cl.sent) + 1
      /\ m \notin Openings => gl.sent[Len(cl.sent) + 1] = m
      /\ \A i \in 1 .. Len(cl.sent) : gl.sent[i] = cl.sent[i]
    <2>1. CASE m \in Openings
        BY <2>1
    <2>2. CASE m \notin Openings
        <3>1. gl.sent = Append(cl.sent, m)
            BY <2>2
        <3> QED BY ONLY <1>1, <2>2, <3>1, m \in Messages
    <2> QED BY <2>1, <2>2
<1>6. gl.gone = cl.gone /\ ~cl.gone
    OBVIOUS
<1>7. Books(s, gl, c) <=>
        /\ Matches(x, gl) /\ QueueFits(x, s.queue, gl, c) /\ WritingFits(x, s.queue, gl, c)
        /\ BlockedFits(x, s.blocked, gl, c) /\ ReadingFits(x, s.queue, gl, c) /\ WireFits(x, gl)
    BY DEF Books
<1> HIDE DEF x
<1>8. Len(cl.sent) = Len(x.answers)
    BY ONLY <1>1, <1>2, <1>3 DEF Matches
<1>9. \A kind : ~Owes(x, cl, kind)
    BY ONLY <1>1, <1>8 DEF Owes
<1>10. Matches(x, gl)
    <2>1. ASSUME NEW i \in 1 .. Len(x.answers) PROVE Right(x, gl, i)
        <3>1. Right(x, cl, i)
            BY ONLY <1>3, i \in 1 .. Len(x.answers) DEF Matches
        <3>2. \A j \in 1 .. i : j \in 1 .. Len(cl.sent)
            BY ONLY <1>1, <1>8, i \in 1 .. Len(x.answers)
        <3>3. gl.sent[i] = cl.sent[i] /\ \A j \in 1 .. i : gl.sent[j] = cl.sent[j]
            BY ONLY <1>5, <1>8, <3>2, i \in 1 .. Len(x.answers)
        <3> QED BY ONLY <1>6, <3>1, <3>3 DEF Right
    <2>2. Len(x.answers) <= Len(gl.sent)
        BY ONLY <1>1, <1>5, <1>8
    <2>3. x.skip_body => \E j \in 1 .. Len(gl.sent) : gl.sent[j].kind \in Heads
        <3>1. \A j \in 1 .. Len(cl.sent) : j \in 1 .. Len(gl.sent)
            BY ONLY <1>1, <1>5
        <3> QED BY ONLY <1>3, <1>5, <3>1 DEF Matches
    <2> QED BY ONLY <2>1, <2>2, <2>3, <1>3 DEF Matches
<1>11. QueueFits(x, s.queue, gl, c)
    BY ONLY <1>3, <1>6, <1>9 DEF QueueFits, Fits, Awaited
<1>12. WritingFits(x, s.queue, gl, c) /\ BlockedFits(x, s.blocked, gl, c)
       /\ ReadingFits(x, s.queue, gl, c)
    BY ONLY <1>3, <1>6, <1>9 DEF WritingFits, BlockedFits, ReadingFits, Departed
<1>13. WireFits(x, gl)
    <2>1. Len(gl.sent) <= Len(x.answers) + 1
        BY ONLY <1>1, <1>5, <1>8
    <2>2. ASSUME NEW i \in 1 .. Len(gl.wire), gl.wire[i] \notin Openings
          PROVE  i = Len(gl.wire) /\ Owes(x, gl, gl.wire[i].kind)
        <3>1. i \notin 1 .. Len(cl.wire)
            BY ONLY <1>3, <1>4, <1>9, <2>2 DEF WireFits
        <3>2. i = Len(cl.wire) + 1
            BY ONLY <1>4, <3>1, i \in 1 .. Len(gl.wire)
        <3>3. m \notin Openings
            BY ONLY <1>4, <2>2, <3>2
        <3>4. Owes(x, gl, m.kind)
            BY ONLY <1>5, <1>8, <3>3 DEF Owes
        <3> QED BY ONLY <1>4, <3>2, <3>4
    <2> QED BY ONLY <2>1, <2>2 DEF WireFits
<1> QED BY ONLY <1>3, <1>7, <1>10, <1>11, <1>12, <1>13
LEMMA ClientBooks ==
    ASSUME IInv, AllBooks(server, client), NEW c \in Conns, Send(c) \/ Leave(c)
    PROVE  AllBooks(server', client')
<1>1. /\ client[c] \in ClientType /\ server \in ServerType /\ Books(server, client[c], c)
      /\ client \in [Conns -> ClientType]
    BY DEF IInv, Free, AllBooks
<1>2. server' = server /\ Around(server, server', c)
    BY <1>1, AroundSame DEF Send, Leave
<1> SUFFICES /\ Books(server, client'[c], c)
             /\ \A d \in Conns \ {c} : client'[d] = client[d]
    BY <1>1, <1>2, OneStepBooks
<1>3. CASE Leave(c)
    <2> DEFINE y == [client[c] EXCEPT !.gone = TRUE]
    <2>1. client' = [client EXCEPT ![c] = y]
        BY <1>3 DEF Leave
    <2>2. y.sent = client[c].sent /\ y.wire = client[c].wire /\ y.gone
        BY <1>1 DEF ClientType
    <2> HIDE DEF y
    <2>3. Books(server, y, c)
        BY <1>1, <2>2, LeaveBooks
    <2> QED BY <1>1, <2>1, <2>3
<1>4. CASE Send(c)
    <2>1. server.serving = "running" /\ ~(Len(client[c].sent) > Len(server.conn[c].answers))
          /\ ~client[c].gone
        BY <1>4 DEF Send, Running, Unanswered
    <2>2. ASSUME NEW m \in Offers[c] \cap Openings,
                 client' = [client EXCEPT ![c].begun = TRUE, ![c].wire = Append(@, m)]
          PROVE  /\ Books(server, client'[c], c)
                 /\ \A d \in Conns \ {c} : client'[d] = client[d]
        <3> DEFINE y == [client[c] EXCEPT !.begun = TRUE, !.wire = Append(client[c].wire, m)]
        <3>1. m \in Messages
            BY OffersAre
        <3>2. y.gone = client[c].gone /\ y.wire = Append(client[c].wire, m) /\ y.sent = client[c].sent
            BY <1>1 DEF ClientType
        <3>3. client' = [client EXCEPT ![c] = y]
            BY <2>2
        <3> HIDE DEF y
        <3>4. Books(server, y, c)
            BY <1>1, <2>1, <3>1, <3>2, SendBooks
        <3> QED BY <1>1, <3>3, <3>4
    <2>3. ASSUME NEW r \in Offers[c] \ Openings,
                 client' = [client EXCEPT ![c].begun = FALSE, ![c].wire = Append(@, r),
                                          ![c].sent = Append(@, r)]
          PROVE  /\ Books(server, client'[c], c)
                 /\ \A d \in Conns \ {c} : client'[d] = client[d]
        <3> DEFINE y == [client[c] EXCEPT !.begun = FALSE, !.wire = Append(client[c].wire, r),
                                          !.sent = Append(client[c].sent, r)]
        <3>1. r \in Messages
            BY OffersAre
        <3>2. y.gone = client[c].gone /\ y.wire = Append(client[c].wire, r)
              /\ y.sent = Append(client[c].sent, r)
            BY <1>1 DEF ClientType
        <3>3. client' = [client EXCEPT ![c] = y]
            BY <2>3
        <3> HIDE DEF y
        <3>4. Books(server, y, c)
            BY <1>1, <2>1, <3>1, <3>2, SendBooks
        <3> QED BY <1>1, <3>3, <3>4
    <2> QED BY <1>4, <2>2, <2>3 DEF Send
<1> QED BY <1>3, <1>4

\* One step per action of the system.
LEMMA NextBooks ==
    ASSUME IInv, AllBooks(server, client), [Next]_vars
    PROVE  AllBooks(server', client')
<1>1. Free(server) /\ server \in ServerType /\ client \in [Conns -> ClientType] /\ None \notin Conns
    BY ConnectionAssumption DEF IInv, Free, ConnectionAssumption
<1>2. \A c \in Conns : client[c] \in ClientType /\ Books(server, client[c], c)
    BY <1>1 DEF AllBooks
<1>3. CASE Work
    <2>1. server.blocked.conn = None
        BY <1>3 DEF Work, Blocked
    <2> QED BY <1>1, <1>3, <2>1, WorkBooks DEF Work
<1>4. CASE Second
    BY <1>1, <1>4, SecondBooks DEF Second
<1>5. CASE Stop
    BY <1>5, StopBooks DEF Stop
<1>6. CASE End
    BY <1>2, <1>6, NewBooks DEF End, AllBooks
<1>7. ASSUME NEW c \in Conns, FinishLong(c) PROVE AllBooks(server', client')
    <2> DEFINE u == Untimed(Sent(Unblocked(server), c, server.blocked.answer), c)
    <2>1. server' = Release(ReadOn(AfterLong(u, c), c), c) /\ server.blocked.conn = c
        BY <1>7 DEF FinishLong
    <2>2. Books(server', client[c], c) /\ Around(server, server', c)
        BY <1>1, <1>2, <2>1, FinishLongBooks
    <2> QED BY <1>1, <1>7, <2>2, HandlerKeepsBooks DEF FinishLong
<1>8. ASSUME NEW c \in Conns, BreakLong(c) PROVE AllBooks(server', client')
    <2>1. /\ server' = Release(ReadOn(Sent(Unblocked(server), c,
                                           [server.blocked.answer EXCEPT !.body = "cut"]), c), c)
          /\ server.blocked.conn = c /\ client[c].gone
        BY <1>8 DEF BreakLong
    <2>2. Books(server', client[c], c) /\ Around(server, server', c)
        BY <1>1, <1>2, <2>1, BreakLongBooks
    <2> QED BY <1>1, <1>8, <2>2, HandlerKeepsBooks DEF BreakLong
<1>9. ASSUME NEW c \in Conns, Accept(c) PROVE AllBooks(server', client')
    BY <1>1, <1>9, AcceptBooks DEF Accept
<1>10. ASSUME NEW c \in Conns, Arrive(c) PROVE AllBooks(server', client')
    BY <1>10, ArriveBooks
<1>11. ASSUME NEW c \in Conns, Take(c) PROVE AllBooks(server', client')
    BY <1>11, TakeBooks
<1>12. ASSUME NEW c \in Conns, Send(c) \/ Leave(c) PROVE AllBooks(server', client')
    BY <1>12, ClientBooks
<1>13. CASE UNCHANGED vars
    BY <1>13 DEF vars
<1> QED BY <1>3, <1>4, <1>5, <1>6, <1>7, <1>8, <1>9, <1>10, <1>11, <1>12, <1>13 DEF Next

\* The inductive invariant of the answers.
BInv == AllBooks(server, client)

LEMMA BooksAtFirst == Init => BInv
<1> SUFFICES ASSUME Init, NEW c \in Conns PROVE Books(server, client[c], c)
    BY DEF BInv, AllBooks
<1>1. NewClient \in ClientType /\ client[c] = NewClient
    BY DEF NewClient, ClientType, Init
<1>2. server = [NewServer EXCEPT !.serving = "running"]
    <2>1. NewServer = [NewServer EXCEPT !.serving = NewServer.serving]
        BY DEF NewServer
    <2>2. NewServer.serving = "running"
        BY DEF NewServer
    <2> QED BY <2>1, <2>2 DEF Init
<1> QED BY <1>1, <1>2, NewBooks

LEMMA BooksImply == IInv /\ BInv => AnswersMatch
<1> SUFFICES ASSUME IInv, BInv, NEW c \in Conns
             PROVE  LET answers == server.conn[c].answers
                        sent == client[c].sent
                    IN /\ ~server.conn[c].dropped
                       /\ Len(answers) <= Len(sent)
                       /\ \A i \in DOMAIN answers :
                             /\ answers[i].kind = sent[i].kind
                             /\ sent[i].kind = "head" => answers[i].body = "empty"
                             /\ answers[i].body = "empty" =>
                                   sent[i].kind \notin Files \cup Errors /\ \E j \in 1..i : sent[j].kind \in Heads
                             /\ answers[i].body = "cut" => client[c].gone \/ server.conn[c].expired
    BY DEF AnswersMatch
<1>1. Matches(server.conn[c], client[c])
    BY DEF BInv, AllBooks, Books
<1>2. server.conn[c].answers \in Seq(AnswerType)
    BY DEF IInv, Free, ServerType, ConnType
<1>3. DOMAIN server.conn[c].answers = 1 .. Len(server.conn[c].answers)
    BY <1>2
<1> QED BY <1>1, <1>3 DEF Matches, Right

\* Every answer belongs to its request, and no message is thrown away, for any number of
\* connections and requests (handle, complete_request, do_write, do_read).
THEOREM AnswersInOrder == Spec => []AnswersMatch
<1>1. Init => IInv /\ BInv
    BY InitIs, BooksAtFirst
<1>2. (IInv /\ BInv) /\ [Next]_vars => (IInv /\ BInv)'
    BY NextKeeps, NextBooks DEF BInv
<1>3. IInv /\ BInv => AnswersMatch
    BY BooksImply
<1> QED BY <1>1, <1>2, <1>3, PTL DEF Spec
=============================================================================
