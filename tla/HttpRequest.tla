----------------------------- MODULE HttpRequest -----------------------------
(***************************************************************************)
(* A client and the parser of one connection: the client sends one text    *)
(* after another, each when the one before has been answered; the           *)
(* connection reads them in pieces of any length (Connection::do_read) and  *)
(* clears the parser when the answer has been written (do_write).           *)
(*                                                                         *)
(* The texts are any bytes.  HttpReference says which of them are requests, *)
(* what they mean, and what the router makes of their URLs.                 *)
(***************************************************************************)
EXTENDS HttpParser

CONSTANTS
    Scripts,    \* for each table of rules, the sequences of texts of a client; the
                \* empty one stands for a server of which only the tables are looked at
    ReadSizes   \* how much a read may return when it does not return everything

\* A text is a record with its characters, a read returns something.
ASSUME RequestAssumption ==
    /\ ReadSizes \subseteq Nat \ {0}
    /\ \A t \in DOMAIN Scripts : \A s \in Scripts[t] :
          /\ s \in Seq({s[i] : i \in DOMAIN s})
          /\ \A i \in DOMAIN s : s[i].text \in Seq(STRING)

VARIABLES
    table,      \* the table of this server
    script,     \* what the client sends
    at,         \* the text that is being sent
    read,       \* how much of it has been read
    cut,        \* a read has ended inside its URL
    before,     \* the parser before its first byte
    p,          \* the parser
    open        \* the connection is open

vars == <<table, script, at, read, cut, before, p, open>>

Text == script[at].text

-----------------------------------------------------------------------------
Init ==
    /\ table \in DOMAIN Scripts
    /\ script \in Scripts[table]
    /\ at = 1 /\ read = 0 /\ cut = FALSE
    /\ p = NewParser
    /\ before = NewParser
    /\ open = TRUE

Waiting == at <= Len(script) /\ read < Len(Text)

NextText(q) == at' = at + 1 /\ read' = 0 /\ cut' = FALSE /\ before' = q

AskedToClose(q) == q.handled # <<>> /\ Last(q.handled).close_connection

\* What the connection makes of n bytes that have been fed; a long answer has been
\* written when feed returns.
Received(n, fed) ==
    LET streamed == Len(fed.p.handled) > Len(p.handled) /\ ~fed.p.message_complete
    IN /\ open' = (fed.ok /\ ~(streamed /\ AskedToClose(fed.p)))
       /\ p' = IF open' THEN fed.p ELSE Done(fed.p)
       /\ IF streamed THEN NextText(fed.p)
          ELSE /\ read' = read + n
               /\ cut' = (cut \/ Remarked(fed.p.state).url)
               /\ UNCHANGED <<at, before>>

\* do_read: whatever has arrived is fed; an error closes the connection.
Read ==
    /\ open /\ Waiting
    /\ \E n \in {m \in ReadSizes : read + m < Len(Text)} \cup {Len(Text) - read} :
          Received(n, Feed(table, p, SubSeq(Text, read + 1, read + n)))
    /\ UNCHANGED <<table, script>>

\* do_write: the answer has been written.
Answer ==
    /\ open /\ p.message_complete
    /\ p' = Clear(p)
    /\ open' = ~AskedToClose(p)
    /\ NextText(Clear(p))
    /\ UNCHANGED <<table, script>>

Next == Read \/ Answer

Spec == Init /\ [][Next]_vars

-----------------------------------------------------------------------------
(* Properties.                                                             *)

\* The counters of the parser keep their width, its method is one of the table, and a
\* message waits for its answer only when one has been handled.  The assertions of the
\* parser hold: no more than one mark is left at the end of a buffer, a chunk begins
\* with the first byte that is counted, a body is read only while bytes of it are
\* missing.
TypeOK ==
    /\ at \in Nat \ {0} /\ read \in Nat /\ cut \in BOOLEAN /\ open \in BOOLEAN
    /\ p.content_length \in 0 .. NoLength
    /\ p.nread \in 0 .. MaxHeaderSize + 1
    /\ p.version \in (0 .. 9) \X (0 .. 9)
    /\ p.method \in MethodStrings
    /\ p.message_complete => p.handled # <<>>
    /\ p.http_errno # "ASSERT"

\* The bytes of the text that have been read, but for the last ones.
ReadBut(n) == SubSeq(Text, 1, read - n)

\* However the bytes of a text are divided into reads, the parser is in the same state
\* behind the same byte, and has the same request, unless a read ends inside the URL or
\* a message ends before the last byte (http_parser_execute, the marks it sets anew).
SplitIndependent ==
    open /\ ~cut /\ read > 0
    /\ Feed(table, before, ReadBut(1)).p.handled = before.handled
    => p = Feed(table, before, ReadBut(0)).p
=============================================================================
