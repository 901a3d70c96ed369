-------------------------- MODULE HttpRequestProofs --------------------------
(***************************************************************************)
(* Theorems about HttpRequest, for every text, every division into reads,  *)
(* every router and every limit of the parser's counters.                  *)
(*                                                                         *)
(* To have read a text in two parts is to have read it in one.  The proof   *)
(* compares two executions of the parser on the same text, of which one has *)
(* begun further back (Twins).  They agree on the parser but for what it    *)
(* has yet to tell the request: the one that began earlier still has in its *)
(* mark what the other has been told when the first part ended.  A step     *)
(* with the same character keeps that (StepTwins), the end of the buffer    *)
(* makes up for the difference (EndIs).  What is true of one execution is   *)
(* what is true of it and itself.                                          *)
(*                                                                         *)
(* The order: types and twins; what the states do with a character, group   *)
(* by group, and all of them; a turn of the loop; the ends of a buffer; the *)
(* loop; feed; the connection.                                             *)
(***************************************************************************)
EXTENDS HttpRequest, WellFoundedInduction, FiniteSetTheorems, TLAPS

-----------------------------------------------------------------------------
(* Types of the parser and of an execution.                                *)

String == Seq(STRING)
QueryType == {<<>>} \cup {UrlParams(u) : u \in String}
CodeType == {RouteCode(t, m, u) : t \in DOMAIN Scripts, m \in MethodStrings, u \in String}
ReqType ==
    [method : MethodStrings, raw_url : String, url : String,
     url_params : QueryType, headers : Seq(String \X String),
     body : String, version : (0 .. 9) \X (0 .. 9), keep_alive : BOOLEAN,
     close_connection : BOOLEAN, upgrade : BOOLEAN]
UrlAll == UrlStates \cup {"req_schema", "req_schema_slash", "req_schema_slash_slash",
                          "req_server_start"}
BodyMarks == {"chunk_data", "chunk_data_almost_done", "body_identity"}
VersionStates == {"req_http_start", "req_http_H", "req_http_HT", "req_http_HTT", "req_http_HTTP",
                  "req_http_major", "req_http_dot", "req_http_minor", "req_http_end"}
PlainStates ==
    {"start_req", "req_method", "req_spaces_before_url", "req_line_almost_done",
     "header_field_start", "header_value_discard_ws", "header_value_discard_ws_almost_done",
     "header_value_discard_lws", "header_almost_done", "header_value_lws", "headers_almost_done",
     "headers_done", "message_done", "chunk_size_start", "chunk_size", "chunk_parameters",
     "chunk_size_almost_done", "chunk_data_done"}
    \cup VersionStates
States == {"dead", "header_field", "header_value"} \cup UrlAll \cup BodyMarks \cup PlainStates
HeaderStates ==
    {"general", "matching", "connection", "content_length", "transfer_encoding", "upgrade",
     "content_length_num", "content_length_ws", "te_chunked", "te_token", "te_token_start",
     "conn_keep_alive", "conn_close", "transfer_encoding_chunked", "connection_keep_alive",
     "connection_close"}
Flags == {"CONTENTLENGTH", "UPGRADE", "KEEP_ALIVE", "CLOSE", "CHUNKED", "TRAILING"}
\* All but "ASSERT".
Errors ==
    {"OK", "CLOSED_CONNECTION", "HEADER_OVERFLOW", "INVALID_CHUNK_SIZE", "INVALID_CONSTANT",
     "INVALID_CONTENT_LENGTH", "INVALID_EOF_STATE", "INVALID_HEADER_TOKEN", "INVALID_METHOD",
     "INVALID_TRANSFER_ENCODING", "INVALID_URL", "INVALID_VERSION", "LF_EXPECTED", "STRICT",
     "UNEXPECTED_CONTENT_LENGTH"}
ParserType ==
    [state : States, header_state : HeaderStates, matched : String, flags : SUBSET Flags,
     uses_transfer_encoding : BOOLEAN, nread : 0 .. MaxHeaderSize + 1,
     content_length : 0 .. NoLength, qs_point : Int, method : MethodStrings,
     version : (0 .. 9) \X (0 .. 9), upgrade : BOOLEAN, http_errno : Errors, req : ReqType,
     header_building_state : {0, 1}, header_field : String, header_value : String,
     message_complete : BOOLEAN, handled : Seq(ReqType),
     refused : Seq(CodeType)]
MarkType == [set : BOOLEAN, text : String]
ExecType ==
    [p : ParserType, table : DOMAIN Scripts, done : BOOLEAN, consumed : Nat, url_start : Nat,
     marks : [url : MarkType, field : MarkType, value : MarkType, body : MarkType]]

-----------------------------------------------------------------------------
(* Two executions of the same text: x has read it from further back than y.  *)

BeforeUrl == {"start_req", "req_method", "req_spaces_before_url"}

\* The assertions of the parser hold where it goes on.
Sound(q) ==
    /\ q.state # "dead"
    /\ q.nread <= MaxHeaderSize
    /\ q.state = "body_identity" => q.content_length \notin {0, NoLength}
    /\ q.state = "chunk_data" => q.content_length # 0
    /\ q.state \in {"header_value", "header_almost_done", "header_value_lws"}
       => q.header_state \notin {"connection", "transfer_encoding"}

\* What is marked, by the state: a mark that is not set has no text.
MarksFit(x) ==
    /\ x.marks.url.set <=> x.p.state \in UrlAll
    /\ x.marks.field.set <=> x.p.state = "header_field"
    /\ x.marks.value.set <=> x.p.state = "header_value"
    /\ x.marks.body.set => x.p.state \in BodyMarks
    /\ ~x.marks.url.set => x.marks.url = NoMark
    /\ ~x.marks.field.set => x.marks.field = NoMark
    /\ ~x.marks.value.set => x.marks.value = NoMark
    /\ ~x.marks.body.set => x.marks.body = NoMark

\* The parser when it has been told what is marked of a header and of a body.
Flushed(x) == BodyCallback(ValueCallback(FieldCallback(x))).p

\* While l messages have been handled, none is complete, and both have come equally far
\* in the URL.
Position(x, y, l) ==
    Len(x.p.handled) = l =>
       /\ ~x.p.message_complete /\ ~x.done
       /\ x.p.state \in BeforeUrl => x.url_start = 0 /\ y.url_start = 0
       /\ x.p.state \in UrlAll => (x.url_start = 0 <=> y.url_start = 0)
       /\ x.p.state \in UrlAll /\ x.url_start # 0
          => x.consumed - x.url_start = y.consumed - y.url_start

Alike(x, y, l) ==
    /\ Sound(x.p) /\ MarksFit(x) /\ MarksFit(y)
    /\ x.done => x.p.state \in PlainStates
    /\ x.marks.url = y.marks.url
    /\ Flushed(x) = Flushed(y)
    /\ Position(x, y, l)

\* Between two characters n is 0, when the present one is counted it is 1.
Twins(x, y, l, n) ==
    /\ x \in ExecType /\ y \in ExecType
    /\ x.table = y.table /\ x.done = y.done /\ x.p.http_errno = y.p.http_errno
    /\ x.p.http_errno = "OK" => Alike(x, y, l) /\ (x.p.state = "chunk_size_start" => x.p.nread = n)
    /\ x.p.http_errno # "OK" => x.done

\* No message has been handled since, or l is none and both have the same positions.
Comparable(x, y, l) ==
    /\ l \in Int
    /\ \/ Len(x.p.handled) = l
       \/ l = -1 /\ x.consumed = y.consumed /\ x.url_start = y.url_start

NoMarks(x) == x.marks = [url |-> NoMark, field |-> NoMark, value |-> NoMark, body |-> NoMark]

\* An execution without marks, in the middle of a character.
Bare(x) == x \in ExecType /\ NoMarks(x) /\ ~x.done /\ x.p.http_errno = "OK"

\* Two of them differ in nothing but their positions.
BarePair(x, y) == Bare(x) /\ Bare(y) /\ x.p = y.p /\ x.table = y.table

LEMMA PlainApart ==
    ASSUME NEW s \in PlainStates
    PROVE  s \notin UrlAll /\ s \notin BodyMarks /\ s # "header_field" /\ s # "header_value" /\ s # "dead"
           /\ s \in States
BY DEF PlainStates, VersionStates, UrlAll, UrlStates, BodyMarks, States

LEMMA Starting ==
    ASSUME NEW s \in BeforeUrl
    PROVE  s \in PlainStates
BY DEF PlainStates, BeforeUrl

\* What x is when its parser has become q.
LEMMA WithParser ==
    ASSUME NEW x \in ExecType, NEW q \in ParserType
    PROVE  LET y == [x EXCEPT !.p = q]
           IN y \in ExecType /\ y.p = q /\ y.marks = x.marks /\ y.done = x.done /\ y.table = x.table
              /\ y.consumed = x.consumed /\ y.url_start = x.url_start
BY DEF ExecType

LEMMA ExecParser ==
    ASSUME NEW x \in ExecType
    PROVE  x.p \in ParserType /\ x.done \in BOOLEAN /\ x.consumed \in Nat /\ x.url_start \in Nat
           /\ x.marks.url \in MarkType /\ x.marks.field \in MarkType
           /\ x.marks.value \in MarkType /\ x.marks.body \in MarkType
BY DEF ExecType

\* Without marks there is nothing to tell the parser.
LEMMA FlushedBare ==
    ASSUME NEW x, ~x.marks.field.set, ~x.marks.value.set, ~x.marks.body.set
    PROVE  Flushed(x) = x.p
BY DEF Flushed, FieldCallback, ValueCallback, BodyCallback

LEMMA ErrorType ==
    ASSUME NEW x \in ExecType, NEW e \in Errors
    PROVE  /\ Error(x, e) \in ExecType /\ Error(x, e).done /\ Error(x, e).table = x.table
           /\ Error(x, e).p.http_errno = e
<1> DEFINE q == [x.p EXCEPT !.http_errno = e]
<1>0. x.p \in ParserType
    BY ExecParser
<1>1. q \in ParserType /\ q.http_errno = e
    BY <1>0 DEF ParserType
<1>2. Error(x, e) = [[x EXCEPT !.p = q] EXCEPT !.done = TRUE]
    BY DEF Error
<1> HIDE DEF q
<1> QED BY <1>1, <1>2 DEF ExecType

\* What the callbacks make of the parser.
TellField(q, t) ==
    IF q.header_building_state = 1 THEN [q EXCEPT !.header_field = @ \o t]
    ELSE [q EXCEPT !.req.headers = IF q.header_value = <<>> THEN @
                                   ELSE Append(@, <<q.header_field, q.header_value>>),
                   !.header_value = <<>>, !.header_field = t, !.header_building_state = 1]
TellValue(q, t) ==
    [q EXCEPT !.header_value = IF q.header_building_state = 1 THEN t ELSE @ \o t,
              !.header_building_state = 0]
TellBody(q, t) == [q EXCEPT !.req.body = @ \o t]

SameCore(q, r) ==
    /\ q.state = r.state /\ q.header_state = r.header_state /\ q.matched = r.matched
    /\ q.flags = r.flags /\ q.uses_transfer_encoding = r.uses_transfer_encoding
    /\ q.nread = r.nread /\ q.content_length = r.content_length
    /\ q.http_errno = r.http_errno /\ q.message_complete = r.message_complete
    /\ q.handled = r.handled

LEMMA Joined ==
    ASSUME NEW s \in String, NEW t \in String
    PROVE  s \o t \in String
BY DEF String

LEMMA TellFieldIs ==
    ASSUME NEW q \in ParserType, NEW t \in String
    PROVE  TellField(q, t) \in ParserType /\ SameCore(TellField(q, t), q)
<1>1. CASE q.header_building_state = 1
    <2>1. q.header_field \o t \in String
        BY Joined DEF ParserType
    <2>2. TellField(q, t) = [q EXCEPT !.header_field = q.header_field \o t]
        BY <1>1 DEF TellField
    <2>3. TellField(q, t) \in ParserType
        BY <2>1, <2>2 DEF ParserType
    <2>4. SameCore(TellField(q, t), q)
        BY <2>2 DEF SameCore
    <2> QED BY <2>3, <2>4
<1>2. CASE q.header_building_state # 1
    <2> DEFINE h == IF q.header_value = <<>> THEN q.req.headers
                    ELSE Append(q.req.headers, <<q.header_field, q.header_value>>)
               r == [q.req EXCEPT !.headers = h]
    <2>1. q.req \in ReqType /\ <<q.header_field, q.header_value>> \in String \X String
        BY DEF ParserType
    <2>2. h \in Seq(String \X String)
        BY <2>1 DEF ReqType
    <2>3. r \in ReqType
        BY <2>1, <2>2 DEF ReqType
    <2>4. <<>> \in String /\ 1 \in {0, 1}
        BY DEF String
    <2>5. TellField(q, t) = [q EXCEPT !.req = r, !.header_value = <<>>, !.header_field = t,
                                      !.header_building_state = 1]
        BY <1>2, Zenon DEF TellField
    <2> HIDE DEF r
    <2>6. TellField(q, t) \in ParserType
        BY <2>3, <2>4, <2>5, ZenonT(40) DEF ParserType
    <2>7. SameCore(TellField(q, t), q)
        BY <2>5 DEF SameCore
    <2> QED BY <2>6, <2>7
<1> QED BY <1>1, <1>2

LEMMA TellValueIs ==
    ASSUME NEW q \in ParserType, NEW t \in String
    PROVE  TellValue(q, t) \in ParserType /\ SameCore(TellValue(q, t), q)
<1> DEFINE v == IF q.header_building_state = 1 THEN t ELSE q.header_value \o t
<1>1. v \in String /\ 0 \in {0, 1}
    BY Joined DEF ParserType
<1>2. TellValue(q, t) = [q EXCEPT !.header_value = v, !.header_building_state = 0]
    BY DEF TellValue
<1> HIDE DEF v
<1>3. TellValue(q, t) \in ParserType
    BY <1>1, <1>2, ZenonT(40) DEF ParserType
<1>4. SameCore(TellValue(q, t), q)
    BY <1>2 DEF SameCore
<1> QED BY <1>3, <1>4

LEMMA TellBodyIs ==
    ASSUME NEW q \in ParserType, NEW t \in String
    PROVE  TellBody(q, t) \in ParserType /\ SameCore(TellBody(q, t), q)
<1> DEFINE r == [q.req EXCEPT !.body = q.req.body \o t]
<1>1. q.req \in ReqType
    BY DEF ParserType
<1>2. q.req.body \o t \in String
    BY <1>1, Joined DEF ReqType
<1>3. r \in ReqType
    BY <1>1, <1>2 DEF ReqType
<1>4. TellBody(q, t) = [q EXCEPT !.req = r]
    BY DEF TellBody
<1> HIDE DEF r
<1>5. TellBody(q, t) \in ParserType
    BY <1>3, <1>4 DEF ParserType
<1>6. SameCore(TellBody(q, t), q)
    BY <1>4 DEF SameCore
<1> QED BY <1>5, <1>6

\* The three callbacks.
LEMMA CallbacksAre ==
    ASSUME NEW x \in ExecType
    PROVE  /\ x.marks.field.set => FieldCallback(x) = [x EXCEPT !.marks.field = NoMark,
                                                               !.p = TellField(x.p, x.marks.field.text)]
           /\ x.marks.value.set => ValueCallback(x) = [x EXCEPT !.marks.value = NoMark,
                                                               !.p = TellValue(x.p, x.marks.value.text)]
           /\ x.marks.body.set => BodyCallback(x) = [x EXCEPT !.marks.body = NoMark,
                                                              !.p = TellBody(x.p, x.marks.body.text)]
           /\ ~x.marks.field.set => FieldCallback(x) = x
           /\ ~x.marks.value.set => ValueCallback(x) = x
           /\ ~x.marks.body.set => BodyCallback(x) = x
<1>1. ASSUME x.marks.field.set
      PROVE  FieldCallback(x) = [x EXCEPT !.marks.field = NoMark,
                                   !.p = TellField(x.p, x.marks.field.text)]
    <2> DEFINE u == [x EXCEPT !.marks.field = NoMark]
               t == x.marks.field.text
    <2>1. u.p = x.p
        BY DEF ExecType
    <2>2. FieldCallback(x) = OnHeaderField(u, t)
        BY <1>1 DEF FieldCallback, Unmark
    <2> HIDE DEF u, t
    <2>3. OnHeaderField(u, t) = [u EXCEPT !.p = TellField(u.p, t)]
        BY DEF OnHeaderField, TellField
    <2> QED BY <2>1, <2>2, <2>3, Zenon DEF u, t
<1>2. ASSUME x.marks.value.set
      PROVE  ValueCallback(x) = [x EXCEPT !.marks.value = NoMark,
                                   !.p = TellValue(x.p, x.marks.value.text)]
    <2> DEFINE u == [x EXCEPT !.marks.value = NoMark]
               t == x.marks.value.text
    <2>1. u.p = x.p
        BY DEF ExecType
    <2>2. ValueCallback(x) = OnHeaderValue(u, t)
        BY <1>2 DEF ValueCallback, Unmark
    <2> HIDE DEF u, t
    <2>3. OnHeaderValue(u, t) = [u EXCEPT !.p = TellValue(u.p, t)]
        BY DEF OnHeaderValue, TellValue
    <2> QED BY <2>1, <2>2, <2>3, Zenon DEF u, t
<1>3. ASSUME x.marks.body.set
      PROVE  BodyCallback(x) = [x EXCEPT !.marks.body = NoMark,
                                   !.p = TellBody(x.p, x.marks.body.text)]
    <2> DEFINE u == [x EXCEPT !.marks.body = NoMark]
               t == x.marks.body.text
    <2>1. u.p = x.p
        BY DEF ExecType
    <2>2. BodyCallback(x) = OnBody(u, t)
        BY <1>3 DEF BodyCallback, Unmark
    <2> HIDE DEF u, t
    <2>3. OnBody(u, t) = [u EXCEPT !.p = TellBody(u.p, t)]
        BY DEF OnBody, TellBody
    <2> QED BY <2>1, <2>2, <2>3, Zenon DEF u, t
<1> QED BY <1>1, <1>2, <1>3 DEF FieldCallback, ValueCallback, BodyCallback

LEMMA SameCoreThrough ==
    ASSUME NEW q, NEW r, NEW u, SameCore(q, r), SameCore(r, u)
    PROVE  SameCore(q, u)
BY DEF SameCore

LEMMA FlushedIs ==
    ASSUME NEW x \in ExecType
    PROVE  Flushed(x) \in ParserType /\ SameCore(Flushed(x), x.p)
<1> DEFINE y == FieldCallback(x)
           z == ValueCallback(y)
<1>0. x.p \in ParserType /\ x.marks.field.text \in String
    BY ExecParser DEF MarkType
<1>1. y \in ExecType /\ SameCore(y.p, x.p) /\ y.marks.value = x.marks.value /\ y.marks.body = x.marks.body
    <2>1. CASE x.marks.field.set
        <3> DEFINE q == TellField(x.p, x.marks.field.text)
        <3>1. q \in ParserType /\ SameCore(q, x.p)
            BY <1>0, TellFieldIs
        <3>2. y = [x EXCEPT !.marks.field = NoMark, !.p = q]
            BY <2>1, CallbacksAre
        <3>3. NoMark \in MarkType
            BY DEF NoMark, MarkType, String
        <3> HIDE DEF q, y
        <3> QED BY <3>1, <3>2, <3>3 DEF ExecType
    <2>2. CASE ~x.marks.field.set
        BY <2>2, CallbacksAre DEF SameCore
    <2> QED BY <2>1, <2>2
<1> HIDE DEF y
<1>2. z \in ExecType /\ SameCore(z.p, x.p) /\ z.marks.body = x.marks.body
    <2>1. CASE y.marks.value.set
        <3> DEFINE q == TellValue(y.p, y.marks.value.text)
        <3>0. y.p \in ParserType /\ y.marks.value.text \in String
            BY <1>1, ExecParser DEF MarkType
        <3>1. q \in ParserType /\ SameCore(q, y.p)
            BY <3>0, TellValueIs
        <3>2. z = [y EXCEPT !.marks.value = NoMark, !.p = q]
            BY <1>1, <2>1, CallbacksAre
        <3>3. NoMark \in MarkType
            BY DEF NoMark, MarkType, String
        <3> HIDE DEF q, z
        <3>4. z \in ExecType /\ z.p = q /\ z.marks.body = y.marks.body
            BY <1>1, <3>1, <3>2, <3>3 DEF ExecType
        <3> QED BY <1>1, <3>1, <3>4, SameCoreThrough
    <2>2. CASE ~y.marks.value.set
        BY <1>1, <2>2, CallbacksAre
    <2> QED BY <2>1, <2>2
<1> HIDE DEF z
<1>3. Flushed(x) = BodyCallback(z).p
    BY DEF Flushed, y, z
<1>4. CASE z.marks.body.set
    <2> DEFINE q == TellBody(z.p, z.marks.body.text)
    <2>0. z.p \in ParserType /\ z.marks.body.text \in String
        BY <1>2, ExecParser DEF MarkType
    <2>1. q \in ParserType /\ SameCore(q, z.p)
        BY <2>0, TellBodyIs
    <2>2. BodyCallback(z) = [z EXCEPT !.marks.body = NoMark, !.p = q]
        BY <1>2, <1>4, CallbacksAre
    <2> HIDE DEF q
    <2>3. BodyCallback(z).p = q
        BY <1>2, <2>2 DEF ExecType
    <2> QED BY <1>2, <1>3, <2>1, <2>3, SameCoreThrough
<1>5. CASE ~z.marks.body.set
    BY <1>2, <1>3, <1>5, CallbacksAre, ExecParser
<1> QED BY <1>4, <1>5

\* What both parsers agree on.
LEMMA SameParts ==
    ASSUME NEW x, NEW y, NEW l, x \in ExecType, y \in ExecType, Alike(x, y, l)
    PROVE  SameCore(x.p, y.p)
BY FlushedIs DEF Alike, SameCore

\* Two executions that have failed alike.
LEMMA ErrorTwins ==
    ASSUME NEW x \in ExecType, NEW y \in ExecType, x.table = y.table, NEW e \in Errors, e # "OK",
           NEW l, NEW n
    PROVE  Twins(Error(x, e), Error(y, e), l, n)
<1>1. /\ Error(x, e) \in ExecType /\ Error(x, e).done /\ Error(x, e).table = x.table
      /\ Error(x, e).p.http_errno = e
    BY ErrorType
<1>2. /\ Error(y, e) \in ExecType /\ Error(y, e).done /\ Error(y, e).table = y.table
      /\ Error(y, e).p.http_errno = e
    BY ErrorType
<1>3. Error(x, e).done = TRUE /\ Error(y, e).done = TRUE
    BY <1>1, <1>2, ExecParser
<1> QED BY <1>1, <1>2, <1>3 DEF Twins

\* Where nothing is marked both have the same parser.
LEMMA TwinsBare ==
    ASSUME NEW x, NEW y, NEW l, NEW n, Twins(x, y, l, n), ~x.done, x.p.state \in PlainStates
    PROVE  BarePair(x, y) /\ Sound(x.p) /\ Position(x, y, l)
<1>0. Alike(x, y, l) /\ x.p.http_errno = "OK" /\ x \in ExecType /\ y \in ExecType /\ ~y.done
      /\ y.p.http_errno = "OK" /\ x.table = y.table
    BY DEF Twins
<1>1. y.p.state \in PlainStates
    BY <1>0, SameParts DEF SameCore
<1>2. ASSUME NEW z \in {x, y}
      PROVE  Bare(z) /\ Flushed(z) = z.p
    <2>1. z \in ExecType /\ MarksFit(z) /\ z.p.state \in PlainStates /\ ~z.done /\ z.p.http_errno = "OK"
        BY <1>0, <1>1 DEF Alike
    <2>2. /\ z.marks.url = NoMark /\ z.marks.field = NoMark
          /\ z.marks.value = NoMark /\ z.marks.body = NoMark
        BY <2>1, PlainApart DEF MarksFit
    <2>3. NoMarks(z)
        BY <2>1, <2>2 DEF NoMarks, ExecType
    <2>4. Flushed(z) = z.p
        BY <2>2, FlushedBare DEF NoMark
    <2> QED BY <2>1, <2>3, <2>4 DEF Bare
<1> QED BY <1>0, <1>2 DEF BarePair, Alike

LEMMA BareParser ==
    ASSUME NEW x, Bare(x)
    PROVE  x.p \in ParserType /\ x \in ExecType /\ x.p.http_errno = "OK" /\ ~x.done
BY DEF Bare, ExecType

\* The parser is q, without an error.
LEMMA BareEdit ==
    ASSUME NEW x, Bare(x), NEW q \in ParserType, q.http_errno = "OK"
    PROVE  LET y == [x EXCEPT !.p = q]
           IN Bare(y) /\ y.p = q /\ y.table = x.table /\ y.consumed = x.consumed
              /\ y.url_start = x.url_start
<1> DEFINE y == [x EXCEPT !.p = q]
<1>1. y \in ExecType /\ y.p = q /\ y.marks = x.marks /\ y.done = x.done /\ y.table = x.table
      /\ y.consumed = x.consumed /\ y.url_start = x.url_start
    BY WithParser DEF Bare
<1> HIDE DEF y
<1>2. Bare(y)
    BY <1>1 DEF Bare, NoMarks
<1> QED BY <1>1, <1>2 DEF y

\* Two executions without marks and with one parser are twins.
LEMMA BareTwins ==
    ASSUME NEW x, NEW y, BarePair(x, y), Sound(x.p),
           x.p.state \in PlainStates \cup BodyMarks,
           NEW l, NEW n, Position(x, y, l), x.p.state = "chunk_size_start" => x.p.nread = n
    PROVE  Twins(x, y, l, n)
<1>1. ASSUME NEW z \in {x, y} PROVE MarksFit(z) /\ Flushed(z) = z.p
    <2>1. /\ z.marks.url = NoMark /\ z.marks.field = NoMark
          /\ z.marks.value = NoMark /\ z.marks.body = NoMark
        BY DEF BarePair, Bare, NoMarks
    <2>2. z.p.state \notin UrlAll /\ z.p.state # "header_field" /\ z.p.state # "header_value"
        <3>1. CASE x.p.state \in PlainStates
            BY <3>1, PlainApart DEF BarePair
        <3>2. CASE x.p.state \in BodyMarks
            BY <3>2 DEF BarePair, BodyMarks, UrlAll, UrlStates
        <3> QED BY <3>1, <3>2
    <2>3. MarksFit(z)
        BY <2>1, <2>2 DEF MarksFit, NoMark
    <2> QED BY <2>1, <2>3, FlushedBare DEF NoMark
<1>2. x.marks.url = y.marks.url
    BY DEF BarePair, Bare, NoMarks
<1>3. Alike(x, y, l)
    BY <1>1, <1>2 DEF Alike, BarePair, Bare
<1>4. x \in ExecType /\ y \in ExecType /\ ~x.done /\ ~y.done /\ x.p.http_errno = "OK"
      /\ x.p = y.p /\ x.table = y.table
    BY DEF BarePair, Bare
<1>5. x.done = FALSE /\ y.done = FALSE
    BY <1>4, ExecParser
<1> QED BY <1>3, <1>4, <1>5 DEF Twins

-----------------------------------------------------------------------------
(* One character, where nothing is marked.                                 *)

\* What the connection is told does not change.
Keeps(q, r) ==
    /\ r.http_errno = q.http_errno /\ r.handled = q.handled
    /\ r.message_complete = q.message_complete

\* Or one more message is handled.
Follows(q, r) ==
    \/ r.handled = q.handled /\ r.message_complete = q.message_complete
    \/ \E m \in ReqType : r.handled = Append(q.handled, m)

\* Two executions of a character, where nothing is marked.
BareAt(x, y, l) ==
    /\ BarePair(x, y) /\ Sound(x.p) /\ x.p.state \in PlainStates
    /\ Position(x, y, l) /\ Comparable(x, y, l)

\* The bodies of both are marked, or neither is.
Even(a, b) == a.p.http_errno = "OK" => (a.marks.body.set <=> b.marks.body.set)

\* And what has become of them.
Result(x, y, a, b, l) == Twins(a, b, l, 0) /\ Follows(x.p, a.p) /\ Even(a, b)

LEMMA BareEven ==
    ASSUME NEW a, NEW b, NoMarks(a), NoMarks(b)
    PROVE  Even(a, b)
BY DEF Even, NoMarks

LEMMA FailEven ==
    ASSUME NEW x \in ExecType, NEW e \in Errors, e # "OK", NEW b
    PROVE  Even(Error(x, e), b)
BY ErrorType DEF Even

LEMMA FollowsOn ==
    ASSUME NEW q, NEW r, NEW s, Keeps(q, r), Follows(r, s)
    PROVE  Follows(q, s)
BY DEF Keeps, Follows

LEMMA ResultOn ==
    ASSUME NEW x, NEW y, NEW u, NEW v, NEW a, NEW b, NEW l, Keeps(x.p, u.p), Result(u, v, a, b, l)
    PROVE  Result(x, y, a, b, l)
BY FollowsOn DEF Result

LEMMA BareAtIs ==
    ASSUME NEW x, NEW y, NEW l, BareAt(x, y, l)
    PROVE  /\ x \in ExecType /\ y \in ExecType /\ x.p \in ParserType /\ y.p = x.p
           /\ x.table = y.table /\ x.table \in DOMAIN Scripts
           /\ x.p.http_errno = "OK" /\ Bare(x) /\ Bare(y)
BY DEF BareAt, BarePair, Bare, ExecType

\* The parser becomes q and goes on.
LEMMA BareGoes ==
    ASSUME NEW x, NEW y, NEW l, BareAt(x, y, l), NEW q \in ParserType, Keeps(x.p, q), Sound(q),
           q.state \in PlainStates, q.state \in BeforeUrl => x.p.state \in BeforeUrl,
           q.state = "chunk_size_start" => q.nread = 0
    PROVE  LET a == [x EXCEPT !.p = q]
               b == [y EXCEPT !.p = q]
           IN BareAt(a, b, l) /\ Result(x, y, a, b, l) /\ Keeps(x.p, a.p) /\ a.p = q /\ b.p = q
<1> DEFINE a == [x EXCEPT !.p = q]
           b == [y EXCEPT !.p = q]
<1>0. q.http_errno = "OK" /\ q.handled = x.p.handled /\ q.message_complete = x.p.message_complete
    BY BareAtIs DEF Keeps
<1>1. Bare(a) /\ a.p = q /\ a.table = x.table /\ a.consumed = x.consumed /\ a.url_start = x.url_start
    BY <1>0, BareAtIs, BareEdit
<1>2. Bare(b) /\ b.p = q /\ b.table = y.table /\ b.consumed = y.consumed /\ b.url_start = y.url_start
    BY <1>0, BareAtIs, BareEdit
<1> HIDE DEF a, b
<1>3. BarePair(a, b)
    BY <1>1, <1>2 DEF BareAt, BarePair
<1>4. Position(a, b, l)
    BY <1>0, <1>1, <1>2, PlainApart DEF BareAt, Position, Bare
<1>5. Comparable(a, b, l)
    BY <1>0, <1>1, <1>2 DEF BareAt, Comparable
<1>6. BareAt(a, b, l)
    BY <1>1, <1>3, <1>4, <1>5 DEF BareAt
<1>7. Twins(a, b, l, 0)
    BY <1>1, <1>3, <1>4, BareTwins
<1>8. Result(x, y, a, b, l)
    BY <1>0, <1>1, <1>2, <1>7, BareEven DEF Result, Follows, Bare
<1> QED BY <1>1, <1>2, <1>6, <1>8 DEF a, b, Keeps

\* An error keeps what the connection has been told.
LEMMA ErrorKeeps ==
    ASSUME NEW x \in ExecType, NEW e \in Errors
    PROVE  /\ Error(x, e).p.handled = x.p.handled
           /\ Error(x, e).p.message_complete = x.p.message_complete
<1> DEFINE q == [x.p EXCEPT !.http_errno = e]
<1>1. q.handled = x.p.handled /\ q.message_complete = x.p.message_complete
    BY ExecParser DEF ParserType
<1>2. Error(x, e) = [[x EXCEPT !.p = q] EXCEPT !.done = TRUE]
    BY DEF Error
<1> HIDE DEF q
<1> QED BY <1>1, <1>2 DEF ExecType

\* An error, after the parser has become q and r.
LEMMA Fails ==
    ASSUME NEW x \in ExecType, NEW y \in ExecType, x.table = y.table, NEW l,
           NEW q \in ParserType, NEW r \in ParserType, NEW e \in Errors, e # "OK", Keeps(x.p, q)
    PROVE  Result(x, y, Error([x EXCEPT !.p = q], e), Error([y EXCEPT !.p = r], e), l)
<1> DEFINE u == [x EXCEPT !.p = q]
           v == [y EXCEPT !.p = r]
<1>1. u \in ExecType /\ v \in ExecType /\ u.p = q /\ u.table = x.table /\ v.table = y.table
    BY WithParser
<1> HIDE DEF u, v
<1>2. Twins(Error(u, e), Error(v, e), l, 0)
    BY <1>1, ErrorTwins
<1>3. Follows(x.p, Error(u, e).p)
    BY <1>1, ErrorKeeps DEF Follows, Keeps
<1>4. Even(Error(u, e), Error(v, e))
    BY <1>1, FailEven
<1> QED BY <1>2, <1>3, <1>4 DEF Result, u, v

\* An error at once.
LEMMA FailsAtOnce ==
    ASSUME NEW x \in ExecType, NEW y \in ExecType, x.table = y.table, NEW l,
           NEW e \in Errors, e # "OK"
    PROVE  Result(x, y, Error(x, e), Error(y, e), l)
BY ErrorTwins, ErrorKeeps, FailEven DEF Result, Follows

\* The state alone changes.
LEMMA ToIs ==
    ASSUME NEW x \in ExecType, NEW s \in States
    PROVE  LET q == [x.p EXCEPT !.state = s]
           IN To(x, s) = [x EXCEPT !.p = q] /\ q \in ParserType /\ Keeps(x.p, q)
<1> DEFINE q == [x.p EXCEPT !.state = s]
<1>1. q \in ParserType /\ Keeps(x.p, q)
    BY ExecParser, ZenonT(40) DEF ParserType, Keeps
<1>2. To(x, s) = [x EXCEPT !.p = q]
    BY DEF To
<1> QED BY <1>1, <1>2

\* The state becomes s, and the parser goes on.
LEMMA BareTo ==
    ASSUME NEW x, NEW y, NEW l, BareAt(x, y, l), NEW s \in PlainStates,
           s \in BeforeUrl => x.p.state \in BeforeUrl, s # "chunk_size_start",
           s \in {"header_almost_done", "header_value_lws"}
             => x.p.header_state \notin {"connection", "transfer_encoding"}
    PROVE  /\ BareAt(To(x, s), To(y, s), l) /\ Result(x, y, To(x, s), To(y, s), l)
           /\ Keeps(x.p, To(x, s).p) /\ To(x, s).p = [x.p EXCEPT !.state = s]
<1> DEFINE q == [x.p EXCEPT !.state = s]
<1>0. s \in States
    BY PlainApart
<1>1. /\ To(x, s) = [x EXCEPT !.p = q] /\ To(y, s) = [y EXCEPT !.p = q]
      /\ q \in ParserType /\ Keeps(x.p, q)
    BY <1>0, BareAtIs, ToIs
<1>2. q.state = s /\ q.nread = x.p.nread /\ q.header_state = x.p.header_state
    BY BareAtIs DEF ParserType
<1>3. Sound(x.p)
    BY DEF BareAt
<1>4. Sound(q)
    <2>1. s # "dead" /\ s \notin BodyMarks /\ s # "header_value"
        BY PlainApart
    <2> QED BY <1>2, <1>3, <2>1 DEF Sound, BodyMarks
<1> HIDE DEF q
<1>5. LET a == [x EXCEPT !.p = q]
          b == [y EXCEPT !.p = q]
      IN BareAt(a, b, l) /\ Result(x, y, a, b, l) /\ Keeps(x.p, a.p) /\ a.p = q /\ b.p = q
    BY <1>1, <1>2, <1>4, BareGoes
<1>6. BareAt(To(x, s), To(y, s), l) /\ Result(x, y, To(x, s), To(y, s), l)
      /\ Keeps(x.p, To(x, s).p) /\ To(x, s).p = q
    BY <1>1, <1>5
<1> QED BY <1>6 DEF q

\* Nothing changes.
LEMMA BareStays ==
    ASSUME NEW x, NEW y, NEW l, BareAt(x, y, l), x.p.state # "chunk_size_start"
    PROVE  Result(x, y, x, y, l)
BY BareTwins, BareEven DEF BareAt, BarePair, Bare, Result, Follows

-----------------------------------------------------------------------------
(* The request line.                                                       *)

LEMMA FirstGuessType ==
    ASSUME NEW ch \in DOMAIN FirstGuess
    PROVE  FirstGuess[ch] \in MethodStrings
BY DEF FirstGuess, MethodStrings

LEMMA OtherGuessType ==
    ASSUME NEW g \in OtherGuess
    PROVE  g[4] \in MethodStrings
BY DEF OtherGuess, MethodStrings

LEMMA SeqOne ==
    ASSUME NEW S, NEW c \in S
    PROVE  <<c>> \in Seq(S)
OBVIOUS

LEMMA SeqOneMore ==
    ASSUME NEW S, NEW s \in Seq(S), NEW c \in S
    PROVE  Append(s, c) \in Seq(S)
OBVIOUS

LEMMA One ==
    ASSUME NEW ch \in STRING
    PROVE  <<ch>> \in String
BY SeqOne, Zenon DEF String

LEMMA OneMore ==
    ASSUME NEW ch \in STRING, NEW s \in String
    PROVE  Append(s, ch) \in String
BY SeqOneMore, Zenon DEF String

LEMMA StartReqResult ==
    ASSUME NEW x, NEW y, NEW l, BareAt(x, y, l), x.p.state = "start_req", NEW ch \in STRING
    PROVE  Result(x, y, StartReq(x, ch), StartReq(y, ch), l)
<1>0. /\ x \in ExecType /\ y \in ExecType /\ x.p \in ParserType /\ y.p = x.p /\ x.table = y.table
      /\ Sound(x.p)
    BY BareAtIs DEF BareAt
<1>1. CASE ch \in {CR, LF}
    BY <1>1, BareStays DEF StartReq
<1>2. CASE ch \notin {CR, LF} /\ ch \in DOMAIN FirstGuess
    <2> DEFINE q == [x.p EXCEPT !.flags = {}, !.uses_transfer_encoding = FALSE,
                                !.content_length = NoLength, !.method = FirstGuess[ch],
                                !.matched = <<ch>>, !.state = "req_method"]
    <2>1. ASSUME NEW z \in {x, y} PROVE StartReq(z, ch) = [z EXCEPT !.p = q]
        <3>1. z.p = x.p
            BY <1>0
        <3> QED BY <1>2, <3>1, Zenon DEF StartReq, To
    <2>2. /\ {} \in SUBSET Flags /\ FALSE \in BOOLEAN /\ NoLength \in 0 .. NoLength
          /\ FirstGuess[ch] \in MethodStrings /\ <<ch>> \in String /\ "req_method" \in States
        BY <1>2, FirstGuessType, One, ParserAssumption DEF States, PlainStates
    <2>3. q \in ParserType
        BY <1>0, <2>2, Zenon DEF ParserType
    <2>4. Keeps(x.p, q) /\ q.state = "req_method" /\ q.nread = x.p.nread
        BY <1>0 DEF ParserType, Keeps
    <2>5. Sound(q)
        BY <1>0, <2>4 DEF Sound
    <2>6. q.state \in PlainStates /\ x.p.state \in BeforeUrl
        BY <2>4 DEF PlainStates, BeforeUrl
    <2> HIDE DEF q
    <2> QED BY <2>1, <2>3, <2>4, <2>5, <2>6, BareGoes
<1>3. CASE ch \notin {CR, LF} /\ ch \notin DOMAIN FirstGuess
    <2> DEFINE q == [x.p EXCEPT !.flags = {}, !.uses_transfer_encoding = FALSE,
                                !.content_length = NoLength]
    <2>1. ASSUME NEW z \in {x, y}
          PROVE  StartReq(z, ch) = Error([z EXCEPT !.p = q], "INVALID_METHOD")
        <3>1. z.p = x.p
            BY <1>0
        <3>2. [z EXCEPT !.p = q] = [z EXCEPT !.p.flags = {}, !.p.uses_transfer_encoding = FALSE,
                                             !.p.content_length = NoLength]
            BY <3>1, Zenon
        <3> QED BY <1>3, <3>2 DEF StartReq
    <2>2. {} \in SUBSET Flags /\ FALSE \in BOOLEAN /\ NoLength \in 0 .. NoLength
        BY ParserAssumption
    <2>3. q \in ParserType
        BY <1>0, <2>2, Zenon DEF ParserType
    <2>4. Keeps(x.p, q) /\ "INVALID_METHOD" \in Errors
        BY <1>0 DEF ParserType, Keeps, Errors
    <2> HIDE DEF q
    <2> QED BY <1>0, <2>1, <2>3, <2>4, Fails
<1> QED BY <1>1, <1>2, <1>3

LEMMA ReqMethodResult ==
    ASSUME NEW x, NEW y, NEW l, BareAt(x, y, l), x.p.state = "req_method", NEW ch \in STRING
    PROVE  Result(x, y, ReqMethod(x, ch), ReqMethod(y, ch), l)
<1> DEFINE name == Chars(x.p.method)
           index == Len(x.p.matched)
           others == {g \in OtherGuess : g[1] = x.p.method /\ g[2] = index /\ g[3] = ch}
           Known(z, guess) == [z EXCEPT !.p.method = guess, !.p.req.method = guess,
                                        !.p.matched = Append(@, ch)]
<1>0. /\ x \in ExecType /\ y \in ExecType /\ x.p \in ParserType /\ y.p = x.p /\ x.table = y.table
      /\ Sound(x.p)
    BY BareAtIs DEF BareAt
<1>1. ASSUME NEW guess \in MethodStrings, NEW u, NEW v, BareAt(u, v, l),
             u.p.state \in {"req_method", "req_spaces_before_url"}
      PROVE  Result(u, v, Known(u, guess), Known(v, guess), l)
    <2> DEFINE r == [u.p.req EXCEPT !.method = guess]
               q == [u.p EXCEPT !.method = guess, !.req = r,
                                !.matched = Append(u.p.matched, ch)]
    <2>0. /\ u \in ExecType /\ v \in ExecType /\ u.p \in ParserType /\ v.p = u.p /\ Sound(u.p)
        BY <1>1, BareAtIs DEF BareAt
    <2>1. ASSUME NEW z \in {u, v} PROVE Known(z, guess) = [z EXCEPT !.p = q]
        <3>1. z.p = u.p
            BY <2>0
        <3> QED BY <3>1, Zenon
    <2>2. r \in ReqType
        <3>1. u.p.req \in ReqType
            BY <2>0 DEF ParserType
        <3> QED BY <3>1 DEF ReqType
    <2>3. Append(u.p.matched, ch) \in String
        BY <2>0, OneMore DEF ParserType
    <2> HIDE DEF r
    <2>4. q \in ParserType
        BY <2>0, <2>2, <2>3, Zenon DEF ParserType
    <2>5. Keeps(u.p, q) /\ q.state = u.p.state /\ q.nread = u.p.nread
        BY <2>0 DEF ParserType, Keeps
    <2>6. Sound(q) /\ q.state \in PlainStates /\ u.p.state \in BeforeUrl
        BY <1>1, <2>0, <2>5 DEF Sound, PlainStates, BeforeUrl
    <2> HIDE DEF q, Known
    <2> QED BY <1>1, <2>1, <2>4, <2>5, <2>6, BareGoes
<1>2. CASE ch = SP /\ index = Len(name)
    <2> DEFINE u == To(x, "req_spaces_before_url")
               v == To(y, "req_spaces_before_url")
    <2>1. ReqMethod(x, ch) = Known(u, x.p.method) /\ ReqMethod(y, ch) = Known(v, x.p.method)
        BY <1>0, <1>2 DEF ReqMethod
    <2>2. "req_spaces_before_url" \in PlainStates /\ x.p.state \in BeforeUrl
        BY DEF PlainStates, BeforeUrl
    <2>3. BareAt(u, v, l) /\ Keeps(x.p, u.p) /\ u.p = [x.p EXCEPT !.state = "req_spaces_before_url"]
        BY <2>2, BareTo
    <2>4. u.p.state = "req_spaces_before_url" /\ x.p.method \in MethodStrings
        BY <1>0, <2>3 DEF ParserType
    <2> HIDE DEF u, v, Known
    <2>5. Result(u, v, Known(u, x.p.method), Known(v, x.p.method), l)
        BY <1>1, <2>3, <2>4
    <2> QED BY <2>1, <2>3, <2>5, ResultOn
<1>3. CASE ~(ch = SP /\ index = Len(name)) /\ index < Len(name) /\ ch = name[index + 1]
    <2>1. ReqMethod(x, ch) = Known(x, x.p.method) /\ ReqMethod(y, ch) = Known(y, x.p.method)
        BY <1>0, <1>3 DEF ReqMethod
    <2>2. x.p.method \in MethodStrings
        BY <1>0 DEF ParserType
    <2> HIDE DEF Known
    <2> QED BY <1>1, <2>1, <2>2
<1>4. CASE /\ ~(ch = SP /\ index = Len(name)) /\ ~(index < Len(name) /\ ch = name[index + 1])
           /\ others # {}
    <2> DEFINE guess == (CHOOSE g \in others : TRUE)[4]
    <2>1. ReqMethod(x, ch) = Known(x, guess) /\ ReqMethod(y, ch) = Known(y, guess)
        <3>1. ReqMethod(x, ch) = Known(x, guess)
            BY <1>4 DEF ReqMethod
        <3>2. y.p = x.p
            BY <1>0
        <3>3. ReqMethod(y, ch) = Known(y, guess)
            BY <1>4, <3>2 DEF ReqMethod
        <3> QED BY <3>1, <3>3
    <2>2. guess \in MethodStrings
        BY <1>4, OtherGuessType
    <2> HIDE DEF Known, guess
    <2> QED BY <1>1, <2>1, <2>2
<1>5. CASE /\ ~(ch = SP /\ index = Len(name)) /\ ~(index < Len(name) /\ ch = name[index + 1])
           /\ others = {}
    <2>1. /\ ReqMethod(x, ch) = Error(x, "INVALID_METHOD")
          /\ ReqMethod(y, ch) = Error(y, "INVALID_METHOD")
        BY <1>0, <1>5 DEF ReqMethod
    <2> QED BY <1>0, <2>1, FailsAtOnce DEF Errors
<1> QED BY <1>2, <1>3, <1>4, <1>5

LEMMA DigitIs ==
    ASSUME NEW c, IsDigit(c)
    PROVE  DigitValue(c) \in 0 .. 9
BY DEF IsDigit, DigitValue

LEMMA VersionEdit ==
    ASSUME NEW v \in (0 .. 9) \X (0 .. 9), NEW d \in 0 .. 9
    PROVE  [v EXCEPT ![1] = d] \in (0 .. 9) \X (0 .. 9) /\ [v EXCEPT ![2] = d] \in (0 .. 9) \X (0 .. 9)
OBVIOUS

\* The state of a line that goes on to the next one.
LEMMA VersionTo ==
    ASSUME NEW x, NEW y, NEW l, BareAt(x, y, l),
           NEW s \in VersionStates \cup {"req_line_almost_done", "header_field_start"}
    PROVE  Result(x, y, To(x, s), To(y, s), l)
<1>1. /\ s \in PlainStates /\ s \notin BeforeUrl /\ s # "chunk_size_start"
      /\ s \notin {"header_almost_done", "header_value_lws"}
    BY DEF PlainStates, VersionStates, BeforeUrl
<1> QED BY <1>1, BareTo

\* The version gets a digit and the state becomes s.
LEMMA VersionDigit ==
    ASSUME NEW x, NEW y, NEW l, BareAt(x, y, l), NEW v \in (0 .. 9) \X (0 .. 9),
           NEW s \in VersionStates \cup {"req_line_almost_done", "header_field_start"}
    PROVE  LET q == [x.p EXCEPT !.version = v, !.state = s]
           IN Result(x, y, [x EXCEPT !.p = q], [y EXCEPT !.p = q], l)
<1> DEFINE q == [x.p EXCEPT !.version = v, !.state = s]
<1>1. s \in PlainStates /\ s \notin BeforeUrl /\ s # "chunk_size_start" /\ s \in States
      /\ s \notin {"body_identity", "chunk_data", "dead"}
      /\ s \notin {"header_value", "header_almost_done", "header_value_lws"}
    BY DEF PlainStates, VersionStates, BeforeUrl, States
<1>2. x.p \in ParserType /\ Sound(x.p)
    BY BareAtIs DEF BareAt
<1>3. q \in ParserType
    BY <1>1, <1>2, Zenon DEF ParserType
<1>4. Keeps(x.p, q) /\ q.state = s /\ q.nread = x.p.nread
    BY <1>2 DEF ParserType, Keeps
<1>5. Sound(q)
    BY <1>1, <1>2, <1>4 DEF Sound
<1> HIDE DEF q
<1>6. LET a == [x EXCEPT !.p = q]
          b == [y EXCEPT !.p = q]
      IN Result(x, y, a, b, l)
    BY <1>1, <1>3, <1>4, <1>5, BareGoes
<1> QED BY <1>6 DEF q

LEMMA HttpVersionResult ==
    ASSUME NEW x, NEW y, NEW l, BareAt(x, y, l), x.p.state \in VersionStates, NEW ch \in STRING
    PROVE  Result(x, y, HttpVersion(x, ch), HttpVersion(y, ch), l)
<1> DEFINE s == x.p.state
           Goal == Result(x, y, HttpVersion(x, ch), HttpVersion(y, ch), l)
<1>0. /\ x \in ExecType /\ y \in ExecType /\ x.p \in ParserType /\ y.p = x.p /\ x.table = y.table
    BY BareAtIs
<1>1. ASSUME NEW e \in Errors, e # "OK"
      PROVE  Result(x, y, Error(x, e), Error(y, e), l)
    BY <1>0, <1>1, FailsAtOnce
<1>2. {"INVALID_CONSTANT", "INVALID_VERSION", "STRICT"} \subseteq Errors
    BY DEF Errors
<1>3. CASE s = "req_http_start"
    <2>1. CASE ch = SP
        <3>1. HttpVersion(x, ch) = x /\ HttpVersion(y, ch) = y
            BY <1>0, <1>3, <2>1 DEF HttpVersion, Constants
        <3> QED BY <1>3, <3>1, BareStays
    <2>2. CASE ch # SP /\ ch = "H"
        <3>1. HttpVersion(x, ch) = To(x, "req_http_H") /\ HttpVersion(y, ch) = To(y, "req_http_H")
            BY <1>0, <1>3, <2>2 DEF HttpVersion, Constants
        <3> QED BY <3>1, VersionTo DEF VersionStates
    <2>3. CASE ch # SP /\ ch # "H"
        <3>1. /\ HttpVersion(x, ch) = Error(x, "INVALID_CONSTANT")
              /\ HttpVersion(y, ch) = Error(y, "INVALID_CONSTANT")
            BY <1>0, <1>3, <2>3 DEF HttpVersion, Constants
        <3> QED BY <1>1, <1>2, <3>1
    <2> QED BY <2>1, <2>2, <2>3
<1>4. CASE s \in DOMAIN Constants
    <2>1. Constants[s][2] \in VersionStates /\ s # "req_http_start"
        BY <1>4 DEF Constants, VersionStates
    <2>2. ASSUME NEW z \in {x, y}
          PROVE  HttpVersion(z, ch) = IF ch = Constants[s][1] THEN To(z, Constants[s][2])
                                      ELSE Error(z, "STRICT")
        BY <1>0, <1>4, <2>1 DEF HttpVersion, Strict, Constants
    <2>3. CASE ch = Constants[s][1]
        BY <2>1, <2>2, <2>3, VersionTo
    <2>4. CASE ch # Constants[s][1]
        BY <1>1, <1>2, <2>2, <2>4
    <2> QED BY <2>3, <2>4
<1>5. CASE s = "req_http_major" /\ IsDigit(ch)
    <2> DEFINE v == [x.p.version EXCEPT ![1] = DigitValue(ch)]
               q == [x.p EXCEPT !.version = v, !.state = "req_http_dot"]
    <2>1. ASSUME NEW z \in {x, y}
          PROVE  HttpVersion(z, ch) = [z EXCEPT !.p = q]
        <3>1. z.p = x.p
            BY <1>0
        <3>2. HttpVersion(z, ch) = To([z EXCEPT !.p.version[1] = DigitValue(ch)], "req_http_dot")
            BY <1>5, <3>1 DEF HttpVersion, Constants
        <3> QED BY <3>1, <3>2, Zenon DEF To
    <2>2. v \in (0 .. 9) \X (0 .. 9)
        BY <1>0, <1>5, DigitIs, VersionEdit DEF ParserType
    <2> HIDE DEF v
    <2>3. "req_http_dot" \in VersionStates
        BY DEF VersionStates
    <2>4. Result(x, y, [x EXCEPT !.p = q], [y EXCEPT !.p = q], l)
        BY <2>2, <2>3, VersionDigit
    <2> HIDE DEF q
    <2> QED BY <2>1, <2>4
<1>6. CASE s = "req_http_minor" /\ IsDigit(ch)
    <2> DEFINE v == [x.p.version EXCEPT ![2] = DigitValue(ch)]
               q == [x.p EXCEPT !.version = v, !.state = "req_http_end"]
    <2>1. ASSUME NEW z \in {x, y}
          PROVE  HttpVersion(z, ch) = [z EXCEPT !.p = q]
        <3>1. z.p = x.p
            BY <1>0
        <3>2. HttpVersion(z, ch) = To([z EXCEPT !.p.version[2] = DigitValue(ch)], "req_http_end")
            BY <1>6, <3>1 DEF HttpVersion, Constants
        <3> QED BY <3>1, <3>2, Zenon DEF To
    <2>2. v \in (0 .. 9) \X (0 .. 9)
        BY <1>0, <1>6, DigitIs, VersionEdit DEF ParserType
    <2> HIDE DEF v
    <2>3. "req_http_end" \in VersionStates
        BY DEF VersionStates
    <2>4. Result(x, y, [x EXCEPT !.p = q], [y EXCEPT !.p = q], l)
        BY <2>2, <2>3, VersionDigit
    <2> HIDE DEF q
    <2> QED BY <2>1, <2>4
<1>7. CASE s = "req_http_dot" /\ ch = "."
    <2>1. HttpVersion(x, ch) = To(x, "req_http_minor") /\ HttpVersion(y, ch) = To(y, "req_http_minor")
        BY <1>0, <1>7 DEF HttpVersion, Constants
    <2> QED BY <2>1, VersionTo DEF VersionStates
<1>8. CASE s = "req_http_end" /\ ch = CR
    <2>1. /\ HttpVersion(x, ch) = To(x, "req_line_almost_done")
          /\ HttpVersion(y, ch) = To(y, "req_line_almost_done")
        BY <1>0, <1>8 DEF HttpVersion, Constants, CR, LF
    <2> QED BY <2>1, VersionTo
<1>9. CASE s = "req_http_end" /\ ch = LF
    <2>1. /\ HttpVersion(x, ch) = To(x, "header_field_start")
          /\ HttpVersion(y, ch) = To(y, "header_field_start")
        BY <1>0, <1>9 DEF HttpVersion, Constants, CR, LF
    <2> QED BY <2>1, VersionTo
<1>10. CASE /\ s # "req_http_start" /\ s \notin DOMAIN Constants
            /\ ~(s = "req_http_major" /\ IsDigit(ch)) /\ ~(s = "req_http_minor" /\ IsDigit(ch))
            /\ ~(s = "req_http_dot" /\ ch = ".")
            /\ ~(s = "req_http_end" /\ ch = CR) /\ ~(s = "req_http_end" /\ ch = LF)
    <2>1. /\ HttpVersion(x, ch) = Error(x, "INVALID_VERSION")
          /\ HttpVersion(y, ch) = Error(y, "INVALID_VERSION")
        BY <1>0, <1>10 DEF HttpVersion
    <2> QED BY <1>1, <1>2, <2>1
<1> QED BY <1>3, <1>4, <1>5, <1>6, <1>7, <1>8, <1>9, <1>10

LEMMA LineAlmostDoneResult ==
    ASSUME NEW x, NEW y, NEW l, BareAt(x, y, l), NEW ch \in STRING
    PROVE  Result(x, y, LineAlmostDone(x, ch), LineAlmostDone(y, ch), l)
<1>1. CASE ch = LF
    BY <1>1, VersionTo DEF LineAlmostDone
<1>2. CASE ch # LF
    BY <1>2, BareAtIs, FailsAtOnce DEF LineAlmostDone, Errors
<1> QED BY <1>1, <1>2

-----------------------------------------------------------------------------
(* The end of a message.                                                   *)

LEMMA ClearType ==
    ASSUME NEW q \in ParserType
    PROVE  /\ Clear(q) \in ParserType /\ Clear(q).state = "start_req" /\ Clear(q).nread = q.nread
           /\ Clear(q).handled = q.handled /\ Clear(q).http_errno = q.http_errno
           /\ Clear(q).message_complete = FALSE
<1>1. NoRequest \in ReqType
    <2>1. <<>> \in String /\ <<>> \in Seq(String \X String) /\ <<>> \in QueryType
          /\ "DELETE" \in MethodStrings /\ <<0, 0>> \in (0 .. 9) \X (0 .. 9) /\ FALSE \in BOOLEAN
        BY DEF String, QueryType, MethodStrings
    <2> QED BY <2>1, Zenon DEF NoRequest, ReqType
<1>2. <<>> \in String /\ 0 \in {0, 1} /\ 0 \in Int /\ FALSE \in BOOLEAN /\ "start_req" \in States
    BY DEF String, States, PlainStates
<1>3. Clear(q) = [q EXCEPT !.req = NoRequest, !.header_field = <<>>, !.header_value = <<>>,
                           !.header_building_state = 0, !.qs_point = 0,
                           !.message_complete = FALSE, !.state = "start_req"]
    BY DEF Clear
<1> DEFINE r == [q EXCEPT !.req = NoRequest, !.header_field = <<>>, !.header_value = <<>>,
                          !.header_building_state = 0]
<1>4. Clear(q) \in ParserType
    <2>1. r \in ParserType
        BY <1>1, <1>2, Zenon DEF ParserType
    <2>2. Clear(q) = [r EXCEPT !.qs_point = 0, !.message_complete = FALSE, !.state = "start_req"]
        BY DEF Clear
    <2> HIDE DEF r
    <2>3. [r EXCEPT !.qs_point = 0, !.message_complete = FALSE, !.state = "start_req"]
            \in ParserType
        BY <1>2, <2>1, Zenon DEF ParserType
    <2> QED BY <2>2, <2>3
<1>5. /\ Clear(q).state = "start_req" /\ Clear(q).nread = q.nread
      /\ Clear(q).handled = q.handled /\ Clear(q).http_errno = q.http_errno
      /\ Clear(q).message_complete = FALSE
    BY <1>3 DEF ParserType
<1> QED BY <1>4, <1>5

\* process_message: one more message, and the executions stay alike.
LEMMA MessageComplete ==
    ASSUME NEW x, NEW y, NEW l, BareAt(x, y, l), x.p.state # "chunk_size_start"
    PROVE  LET a == OnMessageComplete(x)
               b == OnMessageComplete(y)
           IN /\ BarePair(a, b) /\ Sound(a.p) /\ a.p.state \in PlainStates
              /\ a.p.state # "chunk_size_start" /\ Len(a.p.handled) # l /\ Follows(x.p, a.p)
<1> DEFINE q == [x.p EXCEPT !.message_complete = TRUE, !.handled = Append(x.p.handled, x.p.req)]
           r == IF q.req.url \in StreamedUrls THEN Clear(q) ELSE q
           a == [x EXCEPT !.p = r]
           b == [y EXCEPT !.p = r]
<1>0. /\ x \in ExecType /\ y \in ExecType /\ x.p \in ParserType /\ y.p = x.p /\ x.table = y.table
      /\ Sound(x.p) /\ Comparable(x, y, l) /\ x.p.state \in PlainStates /\ Bare(x) /\ Bare(y)
      /\ x.p.http_errno = "OK" /\ x.p.req \in ReqType /\ x.p.handled \in Seq(ReqType)
    BY BareAtIs DEF BareAt, ParserType
<1>1. OnMessageComplete(x) = a /\ OnMessageComplete(y) = b
    BY <1>0 DEF OnMessageComplete
<1>2. Append(x.p.handled, x.p.req) \in Seq(ReqType)
    BY <1>0, SeqOneMore
<1>3. q \in ParserType
    BY <1>0, <1>2 DEF ParserType
<1>4. /\ q.handled = Append(x.p.handled, x.p.req) /\ q.state = x.p.state /\ q.nread = x.p.nread
      /\ q.header_state = x.p.header_state /\ q.http_errno = "OK"
    BY <1>0 DEF ParserType
<1> HIDE DEF q
<1>5. r \in ParserType /\ r.handled = Append(x.p.handled, x.p.req) /\ r.http_errno = "OK"
      /\ (r.state = "start_req" \/ (r.state = x.p.state /\ r.header_state = x.p.header_state))
      /\ r.nread = x.p.nread
    <2>1. CASE q.req.url \in StreamedUrls
        <3>1. r = Clear(q)
            BY <2>1
        <3> HIDE DEF r
        <3>2. /\ Clear(q) \in ParserType /\ Clear(q).state = "start_req"
              /\ Clear(q).nread = q.nread /\ Clear(q).handled = q.handled
              /\ Clear(q).http_errno = q.http_errno
            BY <1>3, ClearType
        <3> QED BY <1>4, <3>1, <3>2
    <2>2. CASE q.req.url \notin StreamedUrls
        <3>1. r = q
            BY <2>2
        <3> HIDE DEF r
        <3> QED BY <1>3, <1>4, <3>1
    <2> QED BY <2>1, <2>2
<1> HIDE DEF r
<1>6. Bare(a) /\ Bare(b) /\ a.p = r /\ b.p = r /\ a.table = x.table /\ b.table = y.table
    BY <1>0, <1>5, BareEdit
<1>7. BarePair(a, b)
    BY <1>0, <1>6 DEF BarePair
<1>8. r.state \in PlainStates /\ r.state # "chunk_size_start"
    BY <1>0, <1>5 DEF PlainStates
<1>9. Sound(r)
    <2>1. r.state \notin {"body_identity", "chunk_data", "dead"} /\ "start_req" \notin
              {"header_value", "header_almost_done", "header_value_lws"}
        BY <1>8, PlainApart DEF BodyMarks
    <2> QED BY <1>0, <1>5, <2>1 DEF Sound
<1>10. Len(r.handled) # l
    BY <1>0, <1>5 DEF Comparable
<1>11. Follows(x.p, r)
    BY <1>0, <1>5 DEF Follows
<1> HIDE DEF a, b
<1> QED BY <1>1, <1>6, <1>7, <1>8, <1>9, <1>10, <1>11

LEMMA MessageCompleteResult ==
    ASSUME NEW x, NEW y, NEW l, BareAt(x, y, l), x.p.state # "chunk_size_start"
    PROVE  Result(x, y, OnMessageComplete(x), OnMessageComplete(y), l)
<1> DEFINE a == OnMessageComplete(x)
           b == OnMessageComplete(y)
<1>1. /\ BarePair(a, b) /\ Sound(a.p) /\ a.p.state \in PlainStates
      /\ a.p.state # "chunk_size_start" /\ Len(a.p.handled) # l /\ Follows(x.p, a.p)
    BY MessageComplete
<1> HIDE DEF a, b
<1>2. Position(a, b, l)
    BY <1>1 DEF Position
<1>3. Twins(a, b, l, 0)
    BY <1>1, <1>2, BareTwins
<1>4. Even(a, b)
    BY <1>1, BareEven DEF BarePair, Bare
<1> QED BY <1>1, <1>3, <1>4 DEF Result, a, b

\* An upgraded connection: the execution returns.
LEMMA UpgradeResult ==
    ASSUME NEW x, NEW y, NEW l, BareAt(x, y, l), x.p.state # "chunk_size_start"
    PROVE  Result(x, y, [OnMessageComplete(x) EXCEPT !.done = TRUE],
                        [OnMessageComplete(y) EXCEPT !.done = TRUE], l)
<1> DEFINE a == OnMessageComplete(x)
           b == OnMessageComplete(y)
           u == [a EXCEPT !.done = TRUE]
           v == [b EXCEPT !.done = TRUE]
<1>1. /\ BarePair(a, b) /\ Sound(a.p) /\ a.p.state \in PlainStates
      /\ a.p.state # "chunk_size_start" /\ Len(a.p.handled) # l /\ Follows(x.p, a.p)
    BY MessageComplete
<1> HIDE DEF a, b
<1>2. a \in ExecType /\ b \in ExecType /\ NoMarks(a) /\ NoMarks(b) /\ a.p.http_errno = "OK"
      /\ a.p = b.p /\ a.table = b.table
    BY <1>1 DEF BarePair, Bare
<1>3. u \in ExecType /\ u.p = a.p /\ u.marks = a.marks /\ u.table = a.table /\ u.done = TRUE
    BY <1>2 DEF ExecType
<1>4. v \in ExecType /\ v.p = b.p /\ v.marks = b.marks /\ v.table = b.table /\ v.done = TRUE
    BY <1>2 DEF ExecType
<1> HIDE DEF u, v
<1>5. ASSUME NEW z \in {u, v} PROVE MarksFit(z) /\ Flushed(z) = z.p /\ z.marks.url = NoMark
    <2>1. /\ z.marks.url = NoMark /\ z.marks.field = NoMark
          /\ z.marks.value = NoMark /\ z.marks.body = NoMark
        BY <1>2, <1>3, <1>4 DEF NoMarks
    <2>2. z.p.state \in PlainStates
        BY <1>1, <1>2, <1>3, <1>4
    <2>3. MarksFit(z)
        BY <2>1, <2>2, PlainApart DEF MarksFit, NoMark
    <2> QED BY <2>1, <2>3, FlushedBare DEF NoMark
<1>6. Alike(u, v, l)
    BY <1>1, <1>2, <1>3, <1>4, <1>5 DEF Alike, Position
<1>7. Twins(u, v, l, 0)
    BY <1>1, <1>2, <1>3, <1>4, <1>6 DEF Twins
<1>8. Even(u, v)
    BY <1>2, <1>3, <1>4 DEF Even, NoMarks
<1> QED BY <1>1, <1>3, <1>7, <1>8 DEF Result, u, v, a, b

-----------------------------------------------------------------------------
(* The headers.                                                            *)

\* The parser becomes q and waits for the body.
LEMMA BareInto ==
    ASSUME NEW x, NEW y, NEW l, BareAt(x, y, l), NEW q \in ParserType, Keeps(x.p, q), Sound(q),
           q.state \in BodyMarks
    PROVE  Result(x, y, [x EXCEPT !.p = q], [y EXCEPT !.p = q], l)
<1> DEFINE a == [x EXCEPT !.p = q]
           b == [y EXCEPT !.p = q]
<1>0. q.http_errno = "OK" /\ q.handled = x.p.handled /\ q.message_complete = x.p.message_complete
    BY BareAtIs DEF Keeps
<1>1. Bare(a) /\ a.p = q /\ a.table = x.table /\ a.consumed = x.consumed /\ a.url_start = x.url_start
    BY <1>0, BareAtIs, BareEdit
<1>2. Bare(b) /\ b.p = q /\ b.table = y.table /\ b.consumed = y.consumed /\ b.url_start = y.url_start
    BY <1>0, BareAtIs, BareEdit
<1> HIDE DEF a, b
<1>3. BarePair(a, b)
    BY <1>1, <1>2 DEF BareAt, BarePair
<1>4. q.state \notin UrlAll /\ q.state \notin BeforeUrl /\ q.state # "chunk_size_start"
    BY DEF BodyMarks, UrlAll, UrlStates, BeforeUrl
<1>5. Position(a, b, l)
    BY <1>0, <1>1, <1>2, <1>4 DEF BareAt, Position, Bare
<1>6. Twins(a, b, l, 0)
    BY <1>1, <1>3, <1>4, <1>5, BareTwins
<1>7. Even(a, b)
    BY <1>1, <1>2, BareEven DEF Bare
<1> QED BY <1>0, <1>1, <1>6, <1>7 DEF Result, Follows, a, b

\* The limit of the header starts again.
LEMMA CountAgain ==
    ASSUME NEW x, NEW y, NEW l, BareAt(x, y, l), x.p.state # "chunk_size_start"
    PROVE  LET q == [x.p EXCEPT !.nread = 0]
               a == [x EXCEPT !.p.nread = 0]
               b == [y EXCEPT !.p.nread = 0]
           IN /\ BareAt(a, b, l) /\ Keeps(x.p, a.p) /\ a.p = q /\ q \in ParserType
              /\ a = [x EXCEPT !.p = q] /\ b = [y EXCEPT !.p = q] /\ Sound(q) /\ Keeps(x.p, q)
<1> DEFINE q == [x.p EXCEPT !.nread = 0]
           a == [x EXCEPT !.p.nread = 0]
           b == [y EXCEPT !.p.nread = 0]
<1>0. x.p \in ParserType /\ Sound(x.p) /\ x.p.state \in PlainStates /\ y.p = x.p
    BY BareAtIs DEF BareAt
<1>1. a = [x EXCEPT !.p = q] /\ b = [y EXCEPT !.p = q]
    BY <1>0
<1>2. 0 \in 0 .. MaxHeaderSize + 1 /\ 0 <= MaxHeaderSize
    BY ParserAssumption
<1>3. q \in ParserType /\ Keeps(x.p, q)
    BY <1>0, <1>2 DEF ParserType, Keeps
<1>4. Sound(q)
    BY <1>0, <1>2 DEF Sound, ParserType
<1>5. q.state = x.p.state
    BY <1>0 DEF ParserType
<1> HIDE DEF q
<1>6. LET u == [x EXCEPT !.p = q]
          v == [y EXCEPT !.p = q]
      IN BareAt(u, v, l) /\ Result(x, y, u, v, l) /\ Keeps(x.p, u.p) /\ u.p = q /\ v.p = q
    BY <1>0, <1>3, <1>4, <1>5, BareGoes
<1> HIDE DEF a, b
<1>7. BareAt(a, b, l) /\ Keeps(x.p, a.p) /\ a.p = q
    BY <1>1, <1>6
<1> QED BY <1>1, <1>3, <1>4, <1>7 DEF q, a, b

LEMMA HeadersDoneResult ==
    ASSUME NEW x, NEW y, NEW l, BareAt(x, y, l), x.p.state # "chunk_size_start", NEW ch \in STRING
    PROVE  Result(x, y, HeadersDone(x, ch), HeadersDone(y, ch), l)
<1> DEFINE a == [x EXCEPT !.p.nread = 0]
           b == [y EXCEPT !.p.nread = 0]
           q == [x.p EXCEPT !.nread = 0]
<1>0. /\ x \in ExecType /\ y \in ExecType /\ x.p \in ParserType /\ y.p = x.p /\ x.table = y.table
      /\ Sound(x.p)
    BY BareAtIs DEF BareAt
<1>1. /\ BareAt(a, b, l) /\ Keeps(x.p, a.p) /\ a.p = q /\ q \in ParserType
      /\ a = [x EXCEPT !.p = q] /\ b = [y EXCEPT !.p = q] /\ Sound(q) /\ Keeps(x.p, q)
    BY CountAgain
<1> HIDE DEF a, b, q
<1>10. a \in ExecType /\ b \in ExecType /\ b.p = q /\ a.table = b.table
    BY <1>1, BareAtIs
<1>11. ASSUME NEW u, NEW v, Result(a, b, u, v, l)
       PROVE  Result(x, y, u, v, l)
    BY <1>1, <1>11, ResultOn
<1> USE DEF a, b, q
<1>2. q.state = x.p.state /\ q.nread = 0 /\ q.content_length = x.p.content_length
    BY <1>0 DEF ParserType
<1>3. CASE ch # LF
    BY <1>0, <1>3, FailsAtOnce DEF HeadersDone, Errors
<1>4. CASE ch = LF /\ x.p.upgrade
    <2>1. /\ HeadersDone(x, ch) = [OnMessageComplete(a) EXCEPT !.done = TRUE]
          /\ HeadersDone(y, ch) = [OnMessageComplete(b) EXCEPT !.done = TRUE]
        BY <1>0, <1>4 DEF HeadersDone
    <2> HIDE DEF a, b, q
    <2>2. Result(a, b, [OnMessageComplete(a) EXCEPT !.done = TRUE],
                       [OnMessageComplete(b) EXCEPT !.done = TRUE], l)
        BY <1>1, <1>2, UpgradeResult
    <2> QED BY <1>11, <2>1, <2>2, Zenon
<1>5. CASE ch = LF /\ ~x.p.upgrade /\ "CHUNKED" \in x.p.flags
    <2>1. /\ HeadersDone(x, ch) = To(a, "chunk_size_start")
          /\ HeadersDone(y, ch) = To(b, "chunk_size_start")
        BY <1>0, <1>5 DEF HeadersDone
    <2> DEFINE r == [q EXCEPT !.state = "chunk_size_start"]
    <2>2. /\ "chunk_size_start" \in States /\ "chunk_size_start" \in PlainStates
          /\ "chunk_size_start" \notin BeforeUrl
        BY DEF States, PlainStates, BeforeUrl
    <2> HIDE DEF a, b, q
    <2>3. To(a, "chunk_size_start") = [a EXCEPT !.p = r] /\ r \in ParserType /\ Keeps(a.p, r)
        BY <1>1, <1>10, <2>2, ToIs
    <2>4. To(b, "chunk_size_start") = [b EXCEPT !.p = r]
        BY <1>10 DEF To
    <2>5. r.state = "chunk_size_start" /\ r.nread = 0
        BY <1>1, <1>2 DEF ParserType
    <2>6. Sound(r)
        BY <2>5, ParserAssumption DEF Sound
    <2> HIDE DEF r
    <2>7. Result(a, b, [a EXCEPT !.p = r], [b EXCEPT !.p = r], l)
        BY <1>1, <2>2, <2>3, <2>5, <2>6, BareGoes
    <2> QED BY <1>11, <2>1, <2>3, <2>4, <2>7, Zenon
<1>6. CASE ch = LF /\ ~x.p.upgrade /\ "CHUNKED" \notin x.p.flags /\ x.p.uses_transfer_encoding
    <2>1. /\ HeadersDone(x, ch) = Error(a, "INVALID_TRANSFER_ENCODING")
          /\ HeadersDone(y, ch) = Error(b, "INVALID_TRANSFER_ENCODING")
        BY <1>0, <1>6 DEF HeadersDone
    <2> HIDE DEF a, b, q
    <2>2. Result(a, b, Error(a, "INVALID_TRANSFER_ENCODING"),
                       Error(b, "INVALID_TRANSFER_ENCODING"), l)
        BY <1>1, BareAtIs, FailsAtOnce DEF Errors
    <2> QED BY <1>11, <2>1, <2>2, Zenon
<1>7. CASE /\ ch = LF /\ ~x.p.upgrade /\ "CHUNKED" \notin x.p.flags
           /\ ~x.p.uses_transfer_encoding /\ x.p.content_length \in {0, NoLength}
    <2>1. HeadersDone(x, ch) = OnMessageComplete(a) /\ HeadersDone(y, ch) = OnMessageComplete(b)
        BY <1>0, <1>7 DEF HeadersDone
    <2> HIDE DEF a, b, q
    <2>2. Result(a, b, OnMessageComplete(a), OnMessageComplete(b), l)
        BY <1>1, <1>2, MessageCompleteResult
    <2> QED BY <1>11, <2>1, <2>2, Zenon
<1>8. CASE /\ ch = LF /\ ~x.p.upgrade /\ "CHUNKED" \notin x.p.flags
           /\ ~x.p.uses_transfer_encoding /\ x.p.content_length \notin {0, NoLength}
    <2>1. HeadersDone(x, ch) = To(a, "body_identity") /\ HeadersDone(y, ch) = To(b, "body_identity")
        BY <1>0, <1>8 DEF HeadersDone
    <2> DEFINE r == [q EXCEPT !.state = "body_identity"]
    <2>2. "body_identity" \in States /\ "body_identity" \in BodyMarks
        BY DEF States, BodyMarks
    <2> HIDE DEF a, b, q
    <2>3. To(a, "body_identity") = [a EXCEPT !.p = r] /\ r \in ParserType /\ Keeps(a.p, r)
        BY <1>1, <1>10, <2>2, ToIs
    <2>4. To(b, "body_identity") = [b EXCEPT !.p = r]
        BY <1>10 DEF To
    <2>5. r.state = "body_identity" /\ r.nread = 0 /\ r.content_length = x.p.content_length
        BY <1>1, <1>2 DEF ParserType
    <2>6. Sound(r)
        BY <1>8, <2>5, ParserAssumption DEF Sound
    <2> HIDE DEF r
    <2>7. Result(a, b, [a EXCEPT !.p = r], [b EXCEPT !.p = r], l)
        BY <1>1, <2>2, <2>3, <2>5, <2>6, BareInto
    <2> QED BY <1>11, <2>1, <2>3, <2>4, <2>7, Zenon
<1> QED BY <1>3, <1>4, <1>5, <1>6, <1>7, <1>8

\* What on_headers_complete makes of the parser.
Completed(q) ==
    LET stored == IF q.header_field = <<>> THEN q.req.headers
                  ELSE Append(q.req.headers, <<q.header_field, q.header_value>>)
        keep == "KEEP_ALIVE" \in q.flags
    IN [q EXCEPT !.req.headers = stored,
                 !.header_field = <<>>, !.header_value = <<>>,
                 !.req.version = q.version,
                 !.req.keep_alive = q.version = <<1, 1>> \/ (q.version = <<1, 0>> /\ keep),
                 !.req.close_connection =
                     \/ q.version = <<1, 1>> /\ "CLOSE" \in q.flags
                     \/ q.version = <<1, 0>> /\ ~keep,
                 !.req.upgrade = q.upgrade]

LEMMA CompletedIs ==
    ASSUME NEW q \in ParserType
    PROVE  /\ Completed(q) \in ParserType /\ Keeps(q, Completed(q))
           /\ Completed(q).state = q.state /\ Completed(q).nread = q.nread
<1> DEFINE stored == IF q.header_field = <<>> THEN q.req.headers
                     ELSE Append(q.req.headers, <<q.header_field, q.header_value>>)
           keep == "KEEP_ALIVE" \in q.flags
           alive == q.version = <<1, 1>> \/ (q.version = <<1, 0>> /\ keep)
           close == \/ q.version = <<1, 1>> /\ "CLOSE" \in q.flags
                    \/ q.version = <<1, 0>> /\ ~keep
           q1 == [q EXCEPT !.req = [q.req EXCEPT !.headers = stored]]
           q2 == [[q1 EXCEPT !.header_field = <<>>] EXCEPT !.header_value = <<>>]
           q3 == [q2 EXCEPT !.req = [q2.req EXCEPT !.version = q.version]]
           q4 == [q3 EXCEPT !.req = [q3.req EXCEPT !.keep_alive = alive]]
           q5 == [q4 EXCEPT !.req = [q4.req EXCEPT !.close_connection = close]]
           q6 == [q5 EXCEPT !.req = [q5.req EXCEPT !.upgrade = q.upgrade]]
           Same(r) == r \in ParserType /\ Keeps(q, r) /\ r.state = q.state /\ r.nread = q.nread
<1>1. Completed(q) = q6
    BY Zenon DEF Completed
<1>2. /\ q.req \in ReqType /\ q.header_field \in String /\ q.header_value \in String
      /\ q.version \in (0 .. 9) \X (0 .. 9) /\ q.upgrade \in BOOLEAN /\ <<>> \in String
    BY DEF ParserType, String
<1>3. stored \in Seq(String \X String)
    BY <1>2 DEF ReqType
<1>4. alive \in BOOLEAN /\ close \in BOOLEAN
    OBVIOUS
<1> HIDE DEF stored, alive, close
<1>5. ASSUME NEW r, Same(r), NEW m \in ReqType
      PROVE  Same([r EXCEPT !.req = m])
    BY <1>5 DEF ParserType, Keeps
<1>6. ASSUME NEW r, Same(r) PROVE r.req \in ReqType
    BY <1>6 DEF ParserType
<1>7. ASSUME NEW m \in ReqType
      PROVE  /\ [m EXCEPT !.headers = stored] \in ReqType
             /\ [m EXCEPT !.version = q.version] \in ReqType
             /\ [m EXCEPT !.keep_alive = alive] \in ReqType
             /\ [m EXCEPT !.close_connection = close] \in ReqType
             /\ [m EXCEPT !.upgrade = q.upgrade] \in ReqType
    BY <1>2, <1>3, <1>4 DEF ReqType
<1>8. Same(q)
    BY DEF Keeps
<1>9. Same(q1)
    <2> HIDE DEF Same
    <2> QED BY <1>5, <1>6, <1>7, <1>8
<1> HIDE DEF q1
<1>10. Same(q2)
    BY <1>2, <1>9 DEF ParserType, Keeps
<1> HIDE DEF q2
<1>11. Same(q3)
    <2> HIDE DEF Same
    <2> QED BY <1>5, <1>6, <1>7, <1>10
<1> HIDE DEF q3
<1>12. Same(q4)
    <2> HIDE DEF Same
    <2> QED BY <1>5, <1>6, <1>7, <1>11
<1> HIDE DEF q4
<1>13. Same(q5)
    <2> HIDE DEF Same
    <2> QED BY <1>5, <1>6, <1>7, <1>12
<1> HIDE DEF q5
<1>14. Same(q6)
    <2> HIDE DEF Same
    <2> QED BY <1>5, <1>6, <1>7, <1>13
<1> HIDE DEF q6
<1> QED BY <1>1, <1>14

LEMMA HeadersCompleteIs ==
    ASSUME NEW x, NEW y, NEW l, BareAt(x, y, l), x.p.state = "headers_done"
    PROVE  LET a == OnHeadersComplete(x)
               b == OnHeadersComplete(y)
           IN BareAt(a, b, l) /\ Keeps(x.p, a.p) /\ a.p.state = "headers_done"
<1> DEFINE r == Completed(x.p)
<1>0. x.p \in ParserType /\ y.p = x.p /\ Sound(x.p)
    BY BareAtIs DEF BareAt
<1>1. ASSUME NEW z PROVE OnHeadersComplete(z) = [z EXCEPT !.p = Completed(z.p)]
    BY Zenon DEF OnHeadersComplete, Completed
<1>2. OnHeadersComplete(x) = [x EXCEPT !.p = r] /\ OnHeadersComplete(y) = [y EXCEPT !.p = r]
    BY <1>0, <1>1
<1>3. r \in ParserType /\ Keeps(x.p, r) /\ r.state = x.p.state /\ r.nread = x.p.nread
    BY <1>0, CompletedIs
<1> HIDE DEF r
<1>4. Sound(r) /\ r.state \in PlainStates /\ r.state \notin BeforeUrl
    BY <1>0, <1>3 DEF Sound, PlainStates, BeforeUrl
<1>5. LET u == [x EXCEPT !.p = r]
          v == [y EXCEPT !.p = r]
      IN BareAt(u, v, l) /\ Result(x, y, u, v, l) /\ Keeps(x.p, u.p) /\ u.p = r /\ v.p = r
    BY <1>3, <1>4, BareGoes
<1> QED BY <1>2, <1>3, <1>5

\* The state and whether the connection is upgraded change.
LEMMA UpgradeTo ==
    ASSUME NEW x, NEW y, NEW l, BareAt(x, y, l), NEW up \in BOOLEAN
    PROVE  LET a == [To(x, "headers_done") EXCEPT !.p.upgrade = up]
               b == [To(y, "headers_done") EXCEPT !.p.upgrade = up]
           IN BareAt(a, b, l) /\ Keeps(x.p, a.p) /\ a.p.state = "headers_done"
<1> DEFINE q == [x.p EXCEPT !.state = "headers_done", !.upgrade = up]
<1>0. x.p \in ParserType /\ Sound(x.p) /\ y.p = x.p
    BY BareAtIs DEF BareAt
<1>1. ASSUME NEW z \in {x, y}
      PROVE  [To(z, "headers_done") EXCEPT !.p.upgrade = up] = [z EXCEPT !.p = q]
    <2>1. z.p = x.p
        BY <1>0
    <2> QED BY <2>1, Zenon DEF To
<1>2. "headers_done" \in States /\ "headers_done" \in PlainStates /\ "headers_done" \notin BeforeUrl
    BY DEF States, PlainStates, BeforeUrl
<1>3. q \in ParserType
    BY <1>0, <1>2, Zenon DEF ParserType
<1>4. Keeps(x.p, q) /\ q.state = "headers_done" /\ q.nread = x.p.nread
    BY <1>0 DEF ParserType, Keeps
<1>5. Sound(q)
    BY <1>0, <1>4 DEF Sound
<1> HIDE DEF q
<1>6. LET u == [x EXCEPT !.p = q]
          v == [y EXCEPT !.p = q]
      IN BareAt(u, v, l) /\ Result(x, y, u, v, l) /\ Keeps(x.p, u.p) /\ u.p = q /\ v.p = q
    BY <1>2, <1>3, <1>4, <1>5, BareGoes
<1> QED BY <1>1, <1>4, <1>6

LEMMA HeadersAlmostDoneResult ==
    ASSUME NEW x, NEW y, NEW l, BareAt(x, y, l), x.p.state # "chunk_size_start", NEW ch \in STRING
    PROVE  Result(x, y, HeadersAlmostDone(x, ch), HeadersAlmostDone(y, ch), l)
<1>0. x \in ExecType /\ y \in ExecType /\ y.p = x.p /\ x.table = y.table
    BY BareAtIs
<1>1. CASE ch # LF
    BY <1>0, <1>1, FailsAtOnce DEF HeadersAlmostDone, Errors
<1>2. CASE ch = LF /\ "TRAILING" \in x.p.flags
    <2>1. /\ HeadersAlmostDone(x, ch) = OnMessageComplete(x)
          /\ HeadersAlmostDone(y, ch) = OnMessageComplete(y)
        BY <1>0, <1>2 DEF HeadersAlmostDone
    <2> QED BY <2>1, MessageCompleteResult
<1>3. CASE ch = LF /\ "TRAILING" \notin x.p.flags /\ ~LengthAllowed(x.p)
    <2>1. /\ HeadersAlmostDone(x, ch) = Error(x, "UNEXPECTED_CONTENT_LENGTH")
          /\ HeadersAlmostDone(y, ch) = Error(y, "UNEXPECTED_CONTENT_LENGTH")
        BY <1>0, <1>3 DEF HeadersAlmostDone
    <2> QED BY <1>0, <2>1, FailsAtOnce DEF Errors
<1>4. CASE ch = LF /\ "TRAILING" \notin x.p.flags /\ LengthAllowed(x.p)
    <2> DEFINE up == "UPGRADE" \in x.p.flags \/ x.p.method = "CONNECT"
               a == [To(x, "headers_done") EXCEPT !.p.upgrade = up]
               b == [To(y, "headers_done") EXCEPT !.p.upgrade = up]
               u == OnHeadersComplete(a)
               v == OnHeadersComplete(b)
    <2>1. HeadersAlmostDone(x, ch) = HeadersDone(u, ch) /\ HeadersAlmostDone(y, ch) = HeadersDone(v, ch)
        BY <1>0, <1>4 DEF HeadersAlmostDone
    <2>2. up \in BOOLEAN
        OBVIOUS
    <2> HIDE DEF up
    <2>3. BareAt(a, b, l) /\ Keeps(x.p, a.p) /\ a.p.state = "headers_done"
        BY <2>2, UpgradeTo
    <2> HIDE DEF a, b
    <2>4. BareAt(u, v, l) /\ Keeps(a.p, u.p) /\ u.p.state = "headers_done"
        BY <2>3, HeadersCompleteIs
    <2> HIDE DEF u, v
    <2>5. Result(u, v, HeadersDone(u, ch), HeadersDone(v, ch), l)
        BY <2>4, HeadersDoneResult
    <2>6. Keeps(x.p, u.p)
        BY <2>3, <2>4 DEF Keeps
    <2>7. Result(x, y, HeadersDone(u, ch), HeadersDone(v, ch), l)
        BY <2>5, <2>6, ResultOn
    <2> QED BY <2>1, <2>7
<1> QED BY <1>1, <1>2, <1>3, <1>4

-----------------------------------------------------------------------------
(* A mark is set.                                                          *)

\* What the callbacks for these marks make of a parser.
ToldField(q, m) == IF m.field.set THEN TellField(q, m.field.text) ELSE q
ToldValue(q, m) == IF m.value.set THEN TellValue(q, m.value.text) ELSE q
ToldBody(q, m) == IF m.body.set THEN TellBody(q, m.body.text) ELSE q
Told(q, m) == ToldBody(ToldValue(ToldField(q, m), m), m)

LEMMA NoMarkType == NoMark \in MarkType /\ Marked \in MarkType
BY DEF NoMark, Marked, MarkType, String

LEMMA FlushedTold ==
    ASSUME NEW x \in ExecType
    PROVE  Flushed(x) = Told(x.p, x.marks)
<1> DEFINE y == FieldCallback(x)
           z == ValueCallback(y)
           w == BodyCallback(z)
<1>0. x.p \in ParserType /\ x.marks.field.text \in String
    BY ExecParser DEF MarkType
<1>1. y \in ExecType /\ y.p = ToldField(x.p, x.marks) /\ y.marks.value = x.marks.value
      /\ y.marks.body = x.marks.body
    <2>1. CASE x.marks.field.set
        <3> DEFINE q == TellField(x.p, x.marks.field.text)
        <3>1. q \in ParserType
            BY <1>0, TellFieldIs
        <3>2. y = [x EXCEPT !.marks.field = NoMark, !.p = q] /\ ToldField(x.p, x.marks) = q
            BY <2>1, CallbacksAre DEF ToldField
        <3> HIDE DEF q, y
        <3> QED BY <3>1, <3>2, NoMarkType DEF ExecType
    <2>2. CASE ~x.marks.field.set
        BY <2>2, CallbacksAre DEF ToldField
    <2> QED BY <2>1, <2>2
<1> HIDE DEF y
<1>2. z \in ExecType /\ z.p = ToldValue(y.p, x.marks) /\ z.marks.body = x.marks.body
    <2>0. y.p \in ParserType /\ y.marks.value.text \in String
        BY <1>1, ExecParser DEF MarkType
    <2>1. CASE y.marks.value.set
        <3> DEFINE q == TellValue(y.p, y.marks.value.text)
        <3>1. q \in ParserType
            BY <2>0, TellValueIs
        <3>2. z = [y EXCEPT !.marks.value = NoMark, !.p = q] /\ ToldValue(y.p, x.marks) = q
            BY <1>1, <2>1, CallbacksAre DEF ToldValue
        <3> HIDE DEF q, z
        <3>3. z \in ExecType /\ z.p = q /\ z.marks.body = y.marks.body
            BY <1>1, <3>1, <3>2, NoMarkType DEF ExecType
        <3> QED BY <1>1, <3>2, <3>3
    <2>2. CASE ~y.marks.value.set
        BY <1>1, <2>2, CallbacksAre DEF ToldValue
    <2> QED BY <2>1, <2>2
<1> HIDE DEF z
<1>3. w.p = ToldBody(z.p, x.marks)
    <2>0. z.p \in ParserType /\ z.marks.body.text \in String
        BY <1>2, ExecParser DEF MarkType
    <2>1. CASE z.marks.body.set
        <3> DEFINE q == TellBody(z.p, z.marks.body.text)
        <3>1. q \in ParserType
            BY <2>0, TellBodyIs
        <3>2. w = [z EXCEPT !.marks.body = NoMark, !.p = q] /\ ToldBody(z.p, x.marks) = q
            BY <1>2, <2>1, CallbacksAre DEF ToldBody
        <3> HIDE DEF q, w
        <3>3. w.p = q
            BY <1>2, <3>1, <3>2 DEF ExecType
        <3> QED BY <3>2, <3>3
    <2>2. CASE ~z.marks.body.set
        BY <1>2, <2>2, CallbacksAre DEF ToldBody
    <2> QED BY <2>1, <2>2
<1>4. Flushed(x) = w.p
    BY DEF Flushed, y, z, w
<1> QED BY <1>1, <1>2, <1>3, <1>4 DEF Told

\* In the states of a text, which are neither plain nor of the URL, twins keep their marks.
TextStates == {"header_field", "header_value"} \cup BodyMarks

\* Twins whose parsers are q and r, and which are in the middle of a character.
LEMMA TextTwins ==
    ASSUME NEW a \in ExecType, NEW b \in ExecType, NEW l, NEW n, a.table = b.table,
           ~a.done, ~b.done, a.p.http_errno = "OK", b.p.http_errno = "OK", Sound(a.p),
           MarksFit(a), MarksFit(b), a.p.state \in TextStates, Flushed(a) = Flushed(b),
           Len(a.p.handled) = l => ~a.p.message_complete
    PROVE  Twins(a, b, l, n)
<1>1. a.p.state \notin UrlAll /\ a.p.state \notin BeforeUrl /\ a.p.state # "chunk_size_start"
    BY DEF TextStates, BodyMarks, UrlAll, UrlStates, BeforeUrl
<1>2. b.p.state = a.p.state
    BY FlushedIs DEF SameCore
<1>3. a.marks.url = NoMark /\ b.marks.url = NoMark
    BY <1>1, <1>2 DEF MarksFit
<1>4. Position(a, b, l)
    BY <1>1 DEF Position
<1>5. Alike(a, b, l)
    BY <1>3, <1>4 DEF Alike
<1>6. a.done = FALSE /\ b.done = FALSE
    BY ExecParser
<1> QED BY <1>1, <1>5, <1>6 DEF Twins

\* The parser becomes q, in a header name or a header value, which is marked here.
LEMMA BareMark ==
    ASSUME NEW x, NEW y, NEW l, BareAt(x, y, l), NEW q \in ParserType, Keeps(x.p, q), Sound(q),
           NEW m \in {"field", "value"},
           q.state = IF m = "field" THEN "header_field" ELSE "header_value"
    PROVE  Result(x, y, [[x EXCEPT !.marks[m] = Marked] EXCEPT !.p = q],
                        [[y EXCEPT !.marks[m] = Marked] EXCEPT !.p = q], l)
<1> DEFINE R(z) == [[z EXCEPT !.marks[m] = Marked] EXCEPT !.p = q]
<1>0. q.http_errno = "OK" /\ q.handled = x.p.handled /\ q.message_complete = x.p.message_complete
    BY BareAtIs DEF Keeps
<1>1. ASSUME NEW z \in {x, y}
      PROVE  /\ R(z) \in ExecType /\ R(z).p = q /\ R(z).table = z.table /\ ~R(z).done
             /\ R(z).marks = [[url |-> NoMark, field |-> NoMark, value |-> NoMark, body |-> NoMark]
                              EXCEPT ![m] = Marked]
    <2>1. z \in ExecType /\ NoMarks(z) /\ ~z.done
        BY DEF BareAt, BarePair, Bare
    <2> DEFINE u == [z EXCEPT !.marks[m] = Marked]
    <2>2. /\ u \in ExecType /\ u.table = z.table /\ ~u.done
          /\ u.marks = [[url |-> NoMark, field |-> NoMark, value |-> NoMark, body |-> NoMark]
                              EXCEPT ![m] = Marked]
        BY <2>1, NoMarkType DEF ExecType, NoMarks
    <2> HIDE DEF u
    <2>3. /\ [u EXCEPT !.p = q] \in ExecType /\ [u EXCEPT !.p = q].p = q
          /\ [u EXCEPT !.p = q].marks = u.marks /\ [u EXCEPT !.p = q].done = u.done
          /\ [u EXCEPT !.p = q].table = u.table
        BY <2>2, WithParser
    <2>4. R(z) = [u EXCEPT !.p = q]
        BY DEF u
    <2> HIDE DEF R
    <2> QED BY <2>2, <2>3, <2>4
<1> HIDE DEF R
<1>2. ASSUME NEW z \in {x, y} PROVE MarksFit(R(z))
    <2>1. q.state \notin UrlAll /\ q.state \notin BodyMarks
        BY DEF UrlAll, UrlStates, BodyMarks
    <2>2. R(z).p = q /\ Marked.set /\ ~NoMark.set
        BY <1>1 DEF Marked, NoMark
    <2>3. CASE m = "field"
        <3>1. /\ R(z).marks.field = Marked /\ R(z).marks.url = NoMark
              /\ R(z).marks.value = NoMark /\ R(z).marks.body = NoMark
            BY <1>1, <2>3
        <3> QED BY <2>1, <2>2, <2>3, <3>1 DEF MarksFit
    <2>4. CASE m = "value"
        <3>1. /\ R(z).marks.field = NoMark /\ R(z).marks.url = NoMark
              /\ R(z).marks.value = Marked /\ R(z).marks.body = NoMark
            BY <1>1, <2>4
        <3> QED BY <2>1, <2>2, <2>4, <3>1 DEF MarksFit
    <2> QED BY <2>3, <2>4
<1>3. Flushed(R(x)) = Flushed(R(y))
    <2>1. R(x).p = R(y).p /\ R(x).marks = R(y).marks
        BY <1>1
    <2> QED BY <1>1, <2>1, FlushedTold
<1>4. R(x).p.state \in TextStates
    BY <1>1 DEF TextStates
<1>5. Len(q.handled) = l => ~q.message_complete
    BY <1>0 DEF BareAt, Position
<1>6. x.table = y.table
    BY BareAtIs
<1>7. Twins(R(x), R(y), l, 0)
    BY <1>0, <1>1, <1>2, <1>3, <1>4, <1>5, <1>6, TextTwins
<1>8. Follows(x.p, R(x).p)
    BY <1>0, <1>1 DEF Follows
<1>9. Even(R(x), R(y))
    BY <1>1 DEF Even
<1> QED BY <1>7, <1>8, <1>9 DEF Result, R

-----------------------------------------------------------------------------
(* The start of a header name and of a header value.                       *)

LEMMA FieldStateType ==
    ASSUME NEW letters
    PROVE  FieldState(letters) \in HeaderStates
<1> DEFINE full == {w \in FieldWords : w[1] = letters}
<1>1. CASE full # {}
    <2>1. (CHOOSE w \in full : TRUE) \in FieldWords
        BY <1>1
    <2>2. \A w \in FieldWords : w[2] \in HeaderStates
        BY DEF FieldWords, HeaderStates
    <2> QED BY <1>1, <2>1, <2>2 DEF FieldState
<1>2. CASE full = {}
    BY <1>2 DEF FieldState, HeaderStates
<1> QED BY <1>1, <1>2

\* What a letter of a header name makes of the parser.
Named(q, letters) ==
    [q EXCEPT !.matched = letters, !.header_state = FieldState(letters),
              !.uses_transfer_encoding = @ \/ FieldState(letters) = "transfer_encoding"]

LEMMA NamedIs ==
    ASSUME NEW q \in ParserType, NEW letters \in String
    PROVE  /\ Named(q, letters) \in ParserType /\ Keeps(q, Named(q, letters))
           /\ Named(q, letters).state = q.state /\ Named(q, letters).nread = q.nread
<1> DEFINE te == q.uses_transfer_encoding \/ FieldState(letters) = "transfer_encoding"
           h == FieldState(letters)
<1>1. te \in BOOLEAN /\ h \in HeaderStates
    BY FieldStateType
<1>2. Named(q, letters) = [q EXCEPT !.matched = letters, !.header_state = h,
                                    !.uses_transfer_encoding = te]
    BY DEF Named
<1> HIDE DEF te, h
<1>3. Named(q, letters) \in ParserType
    <2>1. [q EXCEPT !.matched = letters, !.header_state = h, !.uses_transfer_encoding = te]
            \in ParserType
        BY <1>1, Zenon DEF ParserType
    <2> QED BY <1>2, <2>1
<1>4. Keeps(q, Named(q, letters)) /\ Named(q, letters).state = q.state
      /\ Named(q, letters).nread = q.nread
    BY <1>2 DEF ParserType, Keeps
<1> QED BY <1>3, <1>4

LEMMA MatchFieldIs ==
    ASSUME NEW x, NEW letters
    PROVE  MatchField(x, letters) = [x EXCEPT !.p = Named(x.p, letters)]
BY Zenon DEF MatchField, Named

\* Nothing is marked before.
LEMMA MarkIs ==
    ASSUME NEW x, Bare(x), NEW m \in {"url", "field", "value", "body"}
    PROVE  Mark(x, m) = [x EXCEPT !.marks[m] = Marked]
<1>1. ~x.marks[m].set
    BY DEF Bare, NoMarks, NoMark
<1> QED BY <1>1 DEF Mark

LEMMA HeaderFieldStartResult ==
    ASSUME NEW x, NEW y, NEW l, BareAt(x, y, l), NEW ch \in STRING
    PROVE  Result(x, y, HeaderFieldStart(x, ch), HeaderFieldStart(y, ch), l)
<1> DEFINE s == "headers_almost_done"
<1>0. /\ x \in ExecType /\ y \in ExecType /\ x.p \in ParserType /\ y.p = x.p /\ x.table = y.table
      /\ Bare(x) /\ Bare(y) /\ Sound(x.p)
    BY BareAtIs DEF BareAt
<1>1. /\ BareAt(To(x, s), To(y, s), l) /\ Result(x, y, To(x, s), To(y, s), l)
      /\ Keeps(x.p, To(x, s).p) /\ To(x, s).p = [x.p EXCEPT !.state = s]
    <2>1. s \in PlainStates /\ s \notin BeforeUrl
        BY DEF PlainStates, BeforeUrl
    <2> QED BY <2>1, BareTo
<1>2. CASE ch = CR
    BY <1>1, <1>2 DEF HeaderFieldStart
<1>3. CASE ch = LF
    <2> DEFINE a == To(x, s)
               b == To(y, s)
    <2>1. a.p.state = s
        BY <1>0, <1>1 DEF ParserType
    <2>2. /\ HeaderFieldStart(x, ch) = HeadersAlmostDone(a, ch)
          /\ HeaderFieldStart(y, ch) = HeadersAlmostDone(b, ch)
        BY <1>3 DEF HeaderFieldStart, CR, LF
    <2> HIDE DEF a, b
    <2>3. BareAt(a, b, l) /\ Keeps(x.p, a.p)
        BY <1>1 DEF a, b
    <2>4. Result(a, b, HeadersAlmostDone(a, ch), HeadersAlmostDone(b, ch), l)
        BY <2>1, <2>3, HeadersAlmostDoneResult
    <2>5. Result(x, y, HeadersAlmostDone(a, ch), HeadersAlmostDone(b, ch), l)
        BY <2>3, <2>4, ResultOn
    <2> QED BY <2>2, <2>5
<1>4. CASE ch # CR /\ ch # LF /\ ~Token(ch)
    <2>1. /\ HeaderFieldStart(x, ch) = Error(x, "INVALID_HEADER_TOKEN")
          /\ HeaderFieldStart(y, ch) = Error(y, "INVALID_HEADER_TOKEN")
        BY <1>4 DEF HeaderFieldStart
    <2> QED BY <1>0, <2>1, FailsAtOnce DEF Errors
<1>5. CASE ch # CR /\ ch # LF /\ Token(ch)
    <2> DEFINE r == [x.p EXCEPT !.state = "header_field"]
               q == Named(r, <<ch>>)
    <2>1. ASSUME NEW z \in {x, y}
          PROVE  HeaderFieldStart(z, ch) = [[z EXCEPT !.marks["field"] = Marked] EXCEPT !.p = q]
        <3> DEFINE u == [z EXCEPT !.marks["field"] = Marked]
        <3>1. Mark(z, "field") = u
            BY <1>0, MarkIs
        <3>2. u.p = x.p
            BY <1>0 DEF ExecType
        <3>3. HeaderFieldStart(z, ch) = MatchField(To(u, "header_field"), <<ch>>)
            BY <1>5, <3>1 DEF HeaderFieldStart
        <3> HIDE DEF u
        <3>4. MatchField(To(u, "header_field"), <<ch>>)
              = [To(u, "header_field") EXCEPT !.p = Named(To(u, "header_field").p, <<ch>>)]
            BY MatchFieldIs
        <3>5. u \in ExecType /\ "header_field" \in States
            BY <1>0, NoMarkType DEF ExecType, u, States
        <3>6. To(u, "header_field") = [u EXCEPT !.p = r] /\ r \in ParserType
            BY <3>2, <3>5, ToIs
        <3>7. To(u, "header_field").p = r
            <4> HIDE DEF r
            <4>1. [u EXCEPT !.p = r].p = r
                BY <3>5, <3>6, WithParser
            <4> QED BY <3>6, <4>1
        <3>8. HeaderFieldStart(z, ch) = [[u EXCEPT !.p = r] EXCEPT !.p = q]
            BY <3>3, <3>4, <3>6, <3>7
        <3>9. [[u EXCEPT !.p = r] EXCEPT !.p = q] = [u EXCEPT !.p = q]
            BY Zenon
        <3> QED BY <3>8, <3>9 DEF u
    <2>2. r \in ParserType /\ Keeps(x.p, r) /\ r.state = "header_field" /\ r.nread = x.p.nread
        BY <1>0 DEF ParserType, Keeps, States
    <2> HIDE DEF r
    <2>3. q \in ParserType /\ Keeps(r, q) /\ q.state = r.state /\ q.nread = r.nread
        BY <2>2, One, NamedIs
    <2> HIDE DEF q
    <2>4. Keeps(x.p, q) /\ Sound(q)
        BY <1>0, <2>2, <2>3 DEF Keeps, Sound
    <2>5. Result(x, y, [[x EXCEPT !.marks["field"] = Marked] EXCEPT !.p = q],
                       [[y EXCEPT !.marks["field"] = Marked] EXCEPT !.p = q], l)
        BY <2>2, <2>3, <2>4, BareMark
    <2> QED BY <2>1, <2>5
<1> QED BY <1>2, <1>3, <1>4, <1>5

LEMMA HeaderValueStartResult ==
    ASSUME NEW x, NEW y, NEW l, BareAt(x, y, l), NEW ch \in STRING,
           x.p.header_state = "connection" => ch \notin {SP, HT}
    PROVE  Result(x, y, HeaderValueStart(x, ch), HeaderValueStart(y, ch), l)
<1> DEFINE U(z) == [z EXCEPT !.marks["value"] = Marked]
           X(z) == [To(Mark(z, "value"), "header_value") EXCEPT !.p.matched = <<ch>>]
           r == [x.p EXCEPT !.state = "header_value", !.matched = <<ch>>]
           h == x.p.header_state
           Goal == Result(x, y, HeaderValueStart(x, ch), HeaderValueStart(y, ch), l)
<1>0. /\ x \in ExecType /\ y \in ExecType /\ x.p \in ParserType /\ y.p = x.p /\ x.table = y.table
      /\ Bare(x) /\ Bare(y) /\ Sound(x.p) /\ h \in HeaderStates
    BY BareAtIs DEF BareAt, ParserType
<1>1. r \in ParserType /\ Keeps(x.p, r) /\ r.state = "header_value" /\ r.nread = x.p.nread
      /\ r.header_state = h /\ r.flags = x.p.flags
    <2>1. <<ch>> \in String /\ "header_value" \in States
        BY One DEF States
    <2>2. r \in ParserType
        BY <1>0, <2>1, Zenon DEF ParserType
    <2> QED BY <1>0, <2>2 DEF ParserType, Keeps
<1>2. ASSUME NEW z \in {x, y}
      PROVE  /\ X(z) = [U(z) EXCEPT !.p = r] /\ X(z) \in ExecType /\ X(z).p = r
             /\ X(z).table = z.table /\ U(z) \in ExecType
    <2> DEFINE u == [z EXCEPT !.marks["value"] = Marked]
    <2>1. Mark(z, "value") = u
        BY <1>0, MarkIs
    <2>2. u \in ExecType /\ u.p = x.p /\ u.table = z.table
        BY <1>0, NoMarkType DEF ExecType
    <2>3. X(z) = [To(u, "header_value") EXCEPT !.p.matched = <<ch>>]
        BY <2>1
    <2>4. U(z) = u
        OBVIOUS
    <2> HIDE DEF u, X, U
    <2>5. X(z) = [u EXCEPT !.p = r]
        BY <2>2, <2>3, Zenon DEF To
    <2> HIDE DEF r
    <2>6. [u EXCEPT !.p = r] \in ExecType /\ [u EXCEPT !.p = r].p = r
          /\ [u EXCEPT !.p = r].table = u.table
        BY <1>1, <2>2, WithParser
    <2> QED BY <2>2, <2>4, <2>5, <2>6
<1> HIDE DEF r, X, U
<1>3. ASSUME NEW q \in ParserType, q.state = r.state, q.nread = r.nread, Keeps(r, q),
             q.header_state \notin {"connection", "transfer_encoding"}
      PROVE  Result(x, y, [X(x) EXCEPT !.p = q], [X(y) EXCEPT !.p = q], l)
    <2>1. ASSUME NEW z \in {x, y}
          PROVE  [X(z) EXCEPT !.p = q] = [[z EXCEPT !.marks["value"] = Marked] EXCEPT !.p = q]
        <3>1. [[U(z) EXCEPT !.p = r] EXCEPT !.p = q] = [U(z) EXCEPT !.p = q]
            BY Zenon
        <3> QED BY <1>2, <3>1 DEF U
    <2>2. Sound(q) /\ Keeps(x.p, q) /\ q.state = "header_value"
        BY <1>0, <1>1, <1>3 DEF Sound, Keeps
    <2>3. Result(x, y, [[x EXCEPT !.marks["value"] = Marked] EXCEPT !.p = q],
                       [[y EXCEPT !.marks["value"] = Marked] EXCEPT !.p = q], l)
        BY <2>2, BareMark
    <2> QED BY <2>1, <2>3
<1>4. ASSUME NEW e \in Errors, e # "OK"
      PROVE  Result(x, y, Error(X(x), e), Error(X(y), e), l)
    <2>1. Result(X(x), X(y), Error(X(x), e), Error(X(y), e), l)
        BY <1>0, <1>2, <1>4, FailsAtOnce
    <2>2. Keeps(x.p, X(x).p)
        BY <1>1, <1>2
    <2> QED BY <2>1, <2>2, ResultOn
<1>5. ASSUME NEW g \in HeaderStates, g \notin {"connection", "transfer_encoding"}
      PROVE  Result(x, y, InHeader(X(x), g), InHeader(X(y), g), l)
    <2> DEFINE q == [r EXCEPT !.header_state = g]
    <2>1. q \in ParserType /\ q.state = r.state /\ q.nread = r.nread /\ Keeps(r, q)
          /\ q.header_state = g
        BY <1>1, <1>5 DEF ParserType, Keeps
    <2>2. ASSUME NEW z \in {x, y} PROVE InHeader(X(z), g) = [X(z) EXCEPT !.p = q]
        BY <1>2 DEF InHeader
    <2> HIDE DEF q
    <2>3. Result(x, y, [X(x) EXCEPT !.p = q], [X(y) EXCEPT !.p = q], l)
        BY <1>3, <1>5, <2>1
    <2> QED BY <2>2, <2>3
<1>6. ASSUME NEW z \in {x, y}
      PROVE  HeaderValueStart(z, ch) =
               CASE h = "upgrade" -> InHeader([X(z) EXCEPT !.p.flags = @ \cup {"UPGRADE"}], "general")
                 [] h = "transfer_encoding" -> InHeader(X(z), IF ch = "c" THEN "te_chunked" ELSE "te_token")
                 [] h \in {"te_token_start", "content_length_ws"} -> X(z)
                 [] h = "content_length" -> FirstLength(X(z), ch)
                 [] h = "connection" ->
                      InHeader(X(z), CASE ch = "k" -> "conn_keep_alive" [] ch = "c" -> "conn_close"
                                    [] ch \in {SP, HT} -> h [] OTHER -> "general")
                 [] OTHER -> InHeader(X(z), "general")
    <2>1. X(z).p.header_state = h
        BY <1>1, <1>2
    <2> QED BY <2>1 DEF HeaderValueStart, X
<1>7. CASE h = "upgrade"
    <2> DEFINE f == r.flags \cup {"UPGRADE"}
               q == [r EXCEPT !.flags = f, !.header_state = "general"]
    <2>1. f \in SUBSET Flags /\ "general" \in HeaderStates
        BY <1>1 DEF ParserType, Flags, HeaderStates
    <2>2. ASSUME NEW z \in {x, y} PROVE HeaderValueStart(z, ch) = [X(z) EXCEPT !.p = q]
        <3>1. HeaderValueStart(z, ch) = InHeader([X(z) EXCEPT !.p.flags = @ \cup {"UPGRADE"}], "general")
            BY <1>6, <1>7
        <3>2. X(z).p = r
            BY <1>2
        <3>3. InHeader([X(z) EXCEPT !.p.flags = X(z).p.flags \cup {"UPGRADE"}], "general")
              = [X(z) EXCEPT !.p = q]
            BY <3>2, Zenon DEF InHeader
        <3> QED BY <3>1, <3>3
    <2> HIDE DEF f
    <2>3. q \in ParserType
        BY <1>1, <2>1, Zenon DEF ParserType
    <2>4. q.state = r.state /\ q.nread = r.nread /\ Keeps(r, q)
          /\ q.header_state \notin {"connection", "transfer_encoding"}
        BY <1>1 DEF ParserType, Keeps
    <2> HIDE DEF q
    <2>5. Result(x, y, [X(x) EXCEPT !.p = q], [X(y) EXCEPT !.p = q], l)
        BY <1>3, <2>3, <2>4
    <2> QED BY <2>2, <2>5
<1>8. CASE h = "transfer_encoding"
    <2> DEFINE g == IF ch = "c" THEN "te_chunked" ELSE "te_token"
    <2>1. HeaderValueStart(x, ch) = InHeader(X(x), g) /\ HeaderValueStart(y, ch) = InHeader(X(y), g)
        BY <1>6, <1>8
    <2>2. g \in HeaderStates /\ g \notin {"connection", "transfer_encoding"}
        BY DEF HeaderStates
    <2> HIDE DEF g
    <2> QED BY <1>5, <2>1, <2>2
<1>9. CASE h \in {"te_token_start", "content_length_ws"}
    <2>1. HeaderValueStart(x, ch) = X(x) /\ HeaderValueStart(y, ch) = X(y)
        BY <1>6, <1>9
    <2>2. ASSUME NEW z \in {x, y} PROVE [X(z) EXCEPT !.p = r] = X(z)
        BY <1>2 DEF ExecType
    <2>3. Result(x, y, [X(x) EXCEPT !.p = r], [X(y) EXCEPT !.p = r], l)
        BY <1>1, <1>3, <1>9 DEF Keeps
    <2> QED BY <2>1, <2>2, <2>3
<1>10. CASE h = "content_length"
    <2>1. ASSUME NEW z \in {x, y}
          PROVE  HeaderValueStart(z, ch) = FirstLength(X(z), ch) /\ X(z).p.flags = r.flags
        BY <1>2, <1>6, <1>10
    <2>2. CASE ~IsDigit(ch)
        <3>1. /\ HeaderValueStart(x, ch) = Error(X(x), "INVALID_CONTENT_LENGTH")
              /\ HeaderValueStart(y, ch) = Error(X(y), "INVALID_CONTENT_LENGTH")
            BY <2>1, <2>2 DEF FirstLength
        <3> QED BY <1>4, <3>1 DEF Errors
    <2>3. CASE IsDigit(ch) /\ "CONTENTLENGTH" \in r.flags
        <3>1. /\ HeaderValueStart(x, ch) = Error(X(x), "UNEXPECTED_CONTENT_LENGTH")
              /\ HeaderValueStart(y, ch) = Error(X(y), "UNEXPECTED_CONTENT_LENGTH")
            BY <2>1, <2>3 DEF FirstLength
        <3> QED BY <1>4, <3>1 DEF Errors
    <2>4. CASE IsDigit(ch) /\ "CONTENTLENGTH" \notin r.flags
        <3> DEFINE f == r.flags \cup {"CONTENTLENGTH"}
                   q == [r EXCEPT !.flags = f, !.content_length = DigitValue(ch),
                                  !.header_state = "content_length_num"]
        <3>1. ASSUME NEW z \in {x, y} PROVE HeaderValueStart(z, ch) = [X(z) EXCEPT !.p = q]
            <4>1. X(z).p = r
                BY <1>2
            <4>2. HeaderValueStart(z, ch)
                  = InHeader([X(z) EXCEPT !.p.flags = X(z).p.flags \cup {"CONTENTLENGTH"},
                                          !.p.content_length = DigitValue(ch)], "content_length_num")
                BY <2>1, <2>4 DEF FirstLength
            <4>3. InHeader([X(z) EXCEPT !.p.flags = X(z).p.flags \cup {"CONTENTLENGTH"},
                                        !.p.content_length = DigitValue(ch)], "content_length_num")
                  = [X(z) EXCEPT !.p = q]
                BY <4>1, Zenon DEF InHeader
            <4> QED BY <4>2, <4>3
        <3>2. f \in SUBSET Flags /\ "content_length_num" \in HeaderStates
            BY <1>1 DEF ParserType, Flags, HeaderStates
        <3>3. DigitValue(ch) \in 0 .. NoLength
            BY <2>4, DigitIs, ParserAssumption
        <3> HIDE DEF f
        <3>4. q \in ParserType
            BY <1>1, <3>2, <3>3, Zenon DEF ParserType
        <3>5. q.state = r.state /\ q.nread = r.nread /\ Keeps(r, q)
              /\ q.header_state \notin {"connection", "transfer_encoding"}
            BY <1>1 DEF ParserType, Keeps
        <3> HIDE DEF q
        <3>6. Result(x, y, [X(x) EXCEPT !.p = q], [X(y) EXCEPT !.p = q], l)
            BY <1>3, <3>4, <3>5
        <3> QED BY <3>1, <3>6
    <2> QED BY <2>2, <2>3, <2>4
<1>11. CASE h = "connection"
    <2> DEFINE g == CASE ch = "k" -> "conn_keep_alive" [] ch = "c" -> "conn_close"
                      [] ch \in {SP, HT} -> h [] OTHER -> "general"
    <2>1. HeaderValueStart(x, ch) = InHeader(X(x), g) /\ HeaderValueStart(y, ch) = InHeader(X(y), g)
        BY <1>6, <1>11
    <2>2. g \in HeaderStates /\ g \notin {"connection", "transfer_encoding"}
        BY <1>11 DEF HeaderStates
    <2> HIDE DEF g
    <2> QED BY <1>5, <2>1, <2>2
<1>12. CASE h \notin {"upgrade", "transfer_encoding", "te_token_start", "content_length_ws",
                      "content_length", "connection"}
    <2>1. /\ HeaderValueStart(x, ch) = InHeader(X(x), "general")
          /\ HeaderValueStart(y, ch) = InHeader(X(y), "general")
        BY <1>6, <1>12
    <2> QED BY <1>5, <2>1 DEF HeaderStates
<1> QED BY <1>7, <1>8, <1>9, <1>10, <1>11, <1>12

LEMMA HeaderValueDiscardWsResult ==
    ASSUME NEW x, NEW y, NEW l, BareAt(x, y, l), NEW ch \in STRING,
           x.p.state = "header_value_discard_ws"
    PROVE  Result(x, y, HeaderValueDiscardWs(x, ch), HeaderValueDiscardWs(y, ch), l)
<1>1. CASE ch \in {SP, HT}
    <2>1. HeaderValueDiscardWs(x, ch) = x /\ HeaderValueDiscardWs(y, ch) = y
        BY <1>1 DEF HeaderValueDiscardWs, SP, HT, CR, LF
    <2> QED BY <2>1, BareStays
<1>2. CASE ch = CR
    <2> DEFINE s == "header_value_discard_ws_almost_done"
    <2>1. HeaderValueDiscardWs(x, ch) = To(x, s) /\ HeaderValueDiscardWs(y, ch) = To(y, s)
        BY <1>2 DEF HeaderValueDiscardWs, SP, HT, CR, LF
    <2>2. s \in PlainStates /\ s \notin BeforeUrl
        BY DEF PlainStates, BeforeUrl
    <2> HIDE DEF s
    <2>3. s # "chunk_size_start" /\ s \notin {"header_almost_done", "header_value_lws"}
        BY DEF s
    <2>4. Result(x, y, To(x, s), To(y, s), l)
        BY <2>2, <2>3, BareTo
    <2> QED BY <2>1, <2>4
<1>3. CASE ch = LF
    <2> DEFINE s == "header_value_discard_lws"
    <2>1. HeaderValueDiscardWs(x, ch) = To(x, s) /\ HeaderValueDiscardWs(y, ch) = To(y, s)
        BY <1>3 DEF HeaderValueDiscardWs, SP, HT, CR, LF
    <2>2. s \in PlainStates /\ s \notin BeforeUrl
        BY DEF PlainStates, BeforeUrl
    <2> HIDE DEF s
    <2>3. s # "chunk_size_start" /\ s \notin {"header_almost_done", "header_value_lws"}
        BY DEF s
    <2>4. Result(x, y, To(x, s), To(y, s), l)
        BY <2>2, <2>3, BareTo
    <2> QED BY <2>1, <2>4
<1>4. CASE ch \notin {SP, HT, CR, LF}
    <2>1. /\ HeaderValueDiscardWs(x, ch) = HeaderValueStart(x, ch)
          /\ HeaderValueDiscardWs(y, ch) = HeaderValueStart(y, ch)
        BY <1>4 DEF HeaderValueDiscardWs
    <2> QED BY <1>4, <2>1, HeaderValueStartResult
<1> QED BY <1>1, <1>2, <1>3, <1>4

LEMMA DiscardAlmostDoneResult ==
    ASSUME NEW x, NEW y, NEW l, BareAt(x, y, l), NEW ch \in STRING
    PROVE  Result(x, y, Strict(x, ch = LF, To(x, "header_value_discard_lws")),
                        Strict(y, ch = LF, To(y, "header_value_discard_lws")), l)
<1>1. CASE ch = LF
    <2>1. "header_value_discard_lws" \in PlainStates /\ "header_value_discard_lws" \notin BeforeUrl
        BY DEF PlainStates, BeforeUrl
    <2> QED BY <1>1, <2>1, BareTo DEF Strict
<1>2. CASE ch # LF
    BY <1>2, BareAtIs, FailsAtOnce DEF Strict, Errors
<1> QED BY <1>1, <1>2

\* Two executions that have come to be without marks.
LEMMA BareNext ==
    ASSUME NEW x, NEW y, NEW l, Comparable(x, y, l),
           Len(x.p.handled) = l => ~x.p.message_complete,
           NEW a, NEW b, Bare(a), Bare(b), a.p = b.p, a.table = b.table,
           a.consumed = x.consumed, a.url_start = x.url_start,
           b.consumed = y.consumed, b.url_start = y.url_start,
           Keeps(x.p, a.p), Sound(a.p), a.p.state \in PlainStates, a.p.state \notin BeforeUrl,
           a.p.state = "chunk_size_start" => a.p.nread = 0
    PROVE  BareAt(a, b, l) /\ Result(x, y, a, b, l)
<1>1. BarePair(a, b)
    BY DEF BarePair
<1>2. Position(a, b, l)
    BY PlainApart DEF Position, Bare, Keeps
<1>3. Comparable(a, b, l)
    BY DEF Comparable, Keeps
<1>4. Twins(a, b, l, 0)
    BY <1>1, <1>2, BareTwins
<1>5. Even(a, b)
    BY BareEven DEF Bare
<1> QED BY <1>1, <1>2, <1>3, <1>4, <1>5 DEF BareAt, Result, Follows, Keeps

LEMMA HeaderValueDiscardLwsResult ==
    ASSUME NEW x, NEW y, NEW l, BareAt(x, y, l), NEW ch \in STRING
    PROVE  Result(x, y, HeaderValueDiscardLws(x, ch), HeaderValueDiscardLws(y, ch), l)
<1> DEFINE s == "header_field_start"
           U(z) == To(Mark(z, "value"), s)
           W(z) == ValueCallback(U(z))
           q == [x.p EXCEPT !.state = s]
           r == TellValue(q, <<>>)
<1>0. /\ x \in ExecType /\ y \in ExecType /\ x.p \in ParserType /\ y.p = x.p /\ x.table = y.table
      /\ Bare(x) /\ Bare(y) /\ Sound(x.p)
    BY BareAtIs DEF BareAt
<1>1. CASE ch \in {SP, HT}
    <2>1. "header_value_discard_ws" \in PlainStates /\ "header_value_discard_ws" \notin BeforeUrl
        BY DEF PlainStates, BeforeUrl
    <2> QED BY <1>1, <2>1, BareTo DEF HeaderValueDiscardLws
<1>2. CASE ch \notin {SP, HT}
    <2>1. /\ HeaderValueDiscardLws(x, ch) = HeaderFieldStart(W(x), ch)
          /\ HeaderValueDiscardLws(y, ch) = HeaderFieldStart(W(y), ch)
        BY <1>2 DEF HeaderValueDiscardLws
    <2>2. q \in ParserType /\ Keeps(x.p, q) /\ q.state = s /\ q.nread = x.p.nread
        BY <1>0, ZenonT(40) DEF ParserType, Keeps, States, PlainStates
    <2>3. r \in ParserType /\ SameCore(r, q)
        <3>1. <<>> \in String
            BY DEF String
        <3> HIDE DEF q
        <3> QED BY <2>2, <3>1, TellValueIs
    <2>4. ASSUME NEW z \in {x, y}
          PROVE  /\ Bare(W(z)) /\ W(z).p = r /\ W(z).table = z.table
                 /\ W(z).consumed = z.consumed /\ W(z).url_start = z.url_start
        <3> DEFINE m == [z EXCEPT !.marks["value"] = Marked]
        <3>1. Mark(z, "value") = m
            BY <1>0, MarkIs
        <3>2. z \in ExecType /\ NoMarks(z) /\ ~z.done /\ z.p = x.p
            BY <1>0 DEF Bare
        <3>3. /\ m \in ExecType /\ m.table = z.table /\ ~m.done /\ m.consumed = z.consumed
              /\ m.url_start = z.url_start /\ m.p = x.p
              /\ m.marks = [url |-> NoMark, field |-> NoMark, value |-> Marked, body |-> NoMark]
            BY <3>2, NoMarkType DEF ExecType, NoMarks
        <3> HIDE DEF m
        <3>4. U(z) = [m EXCEPT !.p = q]
            BY <3>1, <3>3 DEF To
        <3> HIDE DEF U, q
        <3>5. /\ U(z) \in ExecType /\ U(z).p = q /\ U(z).table = m.table /\ U(z).marks = m.marks
              /\ U(z).done = m.done /\ U(z).consumed = m.consumed /\ U(z).url_start = m.url_start
            BY <2>2, <3>3, <3>4, WithParser
        <3>6. U(z).marks.value.set /\ U(z).marks.value.text = <<>>
            BY <3>3, <3>5 DEF Marked
        <3>7. W(z) = [U(z) EXCEPT !.marks.value = NoMark, !.p = r]
            BY <3>5, <3>6, CallbacksAre
        <3> HIDE DEF W, r
        <3>8. /\ W(z) \in ExecType /\ W(z).p = r /\ W(z).table = U(z).table /\ W(z).done = U(z).done
              /\ W(z).consumed = U(z).consumed /\ W(z).url_start = U(z).url_start
              /\ W(z).marks = [U(z).marks EXCEPT !.value = NoMark]
            BY <2>3, <3>5, <3>7, NoMarkType DEF ExecType
        <3>9. NoMarks(W(z))
            BY <3>3, <3>5, <3>8 DEF NoMarks
        <3>10. r.http_errno = "OK"
            BY <1>0, <2>2, <2>3 DEF Bare, SameCore, Keeps
        <3> QED BY <3>3, <3>5, <3>8, <3>9, <3>10 DEF Bare
    <2> HIDE DEF W, r, q
    <2>5. Keeps(x.p, r) /\ r.state = s /\ r.nread = x.p.nread
        BY <2>2, <2>3 DEF SameCore, Keeps
    <2>6. Sound(r) /\ s \in PlainStates /\ s \notin BeforeUrl
        BY <1>0, <2>5 DEF Sound, PlainStates, BeforeUrl
    <2>7. Comparable(x, y, l) /\ (Len(x.p.handled) = l => ~x.p.message_complete)
        BY DEF BareAt, Position
    <2>8. BareAt(W(x), W(y), l)
        BY <1>0, <2>4, <2>5, <2>6, <2>7, BareNext
    <2>9. Result(W(x), W(y), HeaderFieldStart(W(x), ch), HeaderFieldStart(W(y), ch), l)
        BY <2>8, HeaderFieldStartResult
    <2>10. Keeps(x.p, W(x).p)
        BY <2>4, <2>5
    <2>11. Result(x, y, HeaderFieldStart(W(x), ch), HeaderFieldStart(W(y), ch), l)
        BY <2>9, <2>10, ResultOn
    <2> QED BY <2>1, <2>11
<1> QED BY <1>1, <1>2

LEMMA HeaderAlmostDoneResult ==
    ASSUME NEW x, NEW y, NEW l, BareAt(x, y, l), NEW ch \in STRING,
           x.p.state = "header_almost_done"
    PROVE  Result(x, y, HeaderAlmostDone(x, ch), HeaderAlmostDone(y, ch), l)
<1>1. CASE ch = LF
    <2>1. "header_value_lws" \in PlainStates /\ "header_value_lws" \notin BeforeUrl
        BY DEF PlainStates, BeforeUrl
    <2>2. x.p.header_state \notin {"connection", "transfer_encoding"}
        BY DEF BareAt, Sound
    <2> QED BY <1>1, <2>1, <2>2, BareTo DEF HeaderAlmostDone
<1>2. CASE ch # LF
    BY <1>2, BareAtIs, FailsAtOnce DEF HeaderAlmostDone, Errors
<1> QED BY <1>1, <1>2

LEMMA HeaderValueLwsResult ==
    ASSUME NEW x, NEW y, NEW l, BareAt(x, y, l), NEW ch \in STRING,
           x.p.state = "header_value_lws"
    PROVE  Result(x, y, HeaderValueLws(x, ch), HeaderValueLws(y, ch), l)
<1> DEFINE h == x.p.header_state
<1>0. /\ x \in ExecType /\ y \in ExecType /\ x.p \in ParserType /\ y.p = x.p /\ Sound(x.p)
      /\ h \notin {"connection", "transfer_encoding"}
    BY BareAtIs DEF BareAt, Sound
<1>1. CASE ch \in {SP, HT} /\ h = "content_length_num"
    <2> DEFINE q == [x.p EXCEPT !.header_state = "content_length_ws"]
               a == [x EXCEPT !.p = q]
               b == [y EXCEPT !.p = q]
    <2>1. HeaderValueLws(x, ch) = HeaderValueStart(a, ch) /\ HeaderValueLws(y, ch) = HeaderValueStart(b, ch)
        BY <1>0, <1>1 DEF HeaderValueLws, InHeader
    <2>2. q \in ParserType /\ Keeps(x.p, q) /\ q.state = x.p.state /\ q.nread = x.p.nread
          /\ q.header_state = "content_length_ws"
        BY <1>0 DEF ParserType, Keeps, HeaderStates
    <2>3. Sound(q) /\ q.state \in PlainStates /\ q.state \notin BeforeUrl
        BY <1>0, <2>2 DEF Sound, PlainStates, BeforeUrl
    <2> HIDE DEF q
    <2>4. BareAt(a, b, l) /\ Keeps(x.p, a.p) /\ a.p = q
        BY <2>2, <2>3, BareGoes
    <2> HIDE DEF a, b
    <2>5. Result(a, b, HeaderValueStart(a, ch), HeaderValueStart(b, ch), l)
        BY <2>2, <2>4, HeaderValueStartResult
    <2>6. Result(x, y, HeaderValueStart(a, ch), HeaderValueStart(b, ch), l)
        BY <2>4, <2>5, ResultOn
    <2> QED BY <2>1, <2>6
<1>2. CASE ch \in {SP, HT} /\ h # "content_length_num"
    <2>1. HeaderValueLws(x, ch) = HeaderValueStart(x, ch) /\ HeaderValueLws(y, ch) = HeaderValueStart(y, ch)
        BY <1>0, <1>2 DEF HeaderValueLws
    <2> QED BY <1>0, <2>1, HeaderValueStartResult
<1>3. CASE ch \notin {SP, HT}
    <2> DEFINE s == "header_field_start"
               f == IF h \in DOMAIN FlagOf THEN x.p.flags \cup {FlagOf[h]} ELSE x.p.flags
               q == [[x.p EXCEPT !.flags = f] EXCEPT !.state = s]
               a == [x EXCEPT !.p = q]
               b == [y EXCEPT !.p = q]
    <2>1. ASSUME NEW z \in {x, y} PROVE HeaderValueLws(z, ch) = HeaderFieldStart([z EXCEPT !.p = q], ch)
        <3>1. z.p = x.p /\ z \in ExecType
            BY <1>0
        <3>2. CASE h \in DOMAIN FlagOf
            <4>1. f = x.p.flags \cup {FlagOf[h]}
                BY <3>2
            <4>2. HeaderValueLws(z, ch) = HeaderFieldStart(To([z EXCEPT !.p.flags = f], s), ch)
                BY <1>3, <3>1, <3>2, <4>1 DEF HeaderValueLws
            <4> HIDE DEF f
            <4>3. To([z EXCEPT !.p.flags = f], s) = [z EXCEPT !.p = q]
                BY <3>1, Zenon DEF To
            <4> QED BY <4>2, <4>3
        <3>3. CASE h \notin DOMAIN FlagOf
            <4>1. f = x.p.flags
                BY <3>3
            <4>2. HeaderValueLws(z, ch) = HeaderFieldStart(To(z, s), ch)
                BY <1>3, <3>1, <3>3 DEF HeaderValueLws
            <4>3. [x.p EXCEPT !.flags = f] = x.p
                BY <1>0, <4>1 DEF ParserType
            <4>4. To(z, s) = [z EXCEPT !.p = q]
                BY <3>1, <4>3 DEF To
            <4> QED BY <4>2, <4>4
        <3> QED BY <3>2, <3>3
    <2>2. f \in SUBSET Flags
        <3>1. x.p.flags \in SUBSET Flags
            BY <1>0 DEF ParserType
        <3> QED BY <3>1 DEF FlagOf, Flags
    <2> HIDE DEF f
    <2>3. q \in ParserType /\ Keeps(x.p, q) /\ q.state = s /\ q.nread = x.p.nread
        BY <1>0, <2>2, ZenonT(40) DEF ParserType, Keeps, States, PlainStates
    <2> HIDE DEF q
    <2>4. Sound(q) /\ q.state \in PlainStates /\ q.state \notin BeforeUrl
        BY <1>0, <2>3 DEF Sound, PlainStates, BeforeUrl
    <2>5. BareAt(a, b, l) /\ Keeps(x.p, a.p)
        BY <2>3, <2>4, BareGoes
    <2> HIDE DEF a, b
    <2>6. Result(a, b, HeaderFieldStart(a, ch), HeaderFieldStart(b, ch), l)
        BY <2>5, HeaderFieldStartResult
    <2>7. Result(x, y, HeaderFieldStart(a, ch), HeaderFieldStart(b, ch), l)
        BY <2>5, <2>6, ResultOn
    <2>8. HeaderValueLws(x, ch) = HeaderFieldStart(a, ch) /\ HeaderValueLws(y, ch) = HeaderFieldStart(b, ch)
        BY <2>1 DEF a, b
    <2> QED BY <2>7, <2>8
<1> QED BY <1>1, <1>2, <1>3

-----------------------------------------------------------------------------
(* In the middle of a header name, of a header value and of a body.        *)

\* What the callbacks for a header and a body read and write, and what none of the
\* characters there changes.
SameRest(q, r) ==
    /\ q.method = r.method /\ q.version = r.version /\ q.upgrade = r.upgrade
    /\ q.qs_point = r.qs_point /\ q.req = r.req
    /\ q.header_building_state = r.header_building_state
    /\ q.header_field = r.header_field /\ q.header_value = r.header_value
    /\ q.refused = r.refused /\ Keeps(q, r)

SameRestBut(q, r) ==
    /\ q.method = r.method /\ q.version = r.version /\ q.upgrade = r.upgrade
    /\ q.qs_point = r.qs_point /\ q.refused = r.refused /\ Keeps(q, r)

LEMMA CoreAndRest ==
    ASSUME NEW q \in ParserType, NEW r \in ParserType, SameCore(q, r), SameRest(q, r)
    PROVE  q = r
<1>1. ASSUME NEW z \in ParserType
      PROVE  z = [state |-> z.state, header_state |-> z.header_state, matched |-> z.matched,
                  flags |-> z.flags, uses_transfer_encoding |-> z.uses_transfer_encoding,
                  nread |-> z.nread, content_length |-> z.content_length, qs_point |-> z.qs_point,
                  method |-> z.method, version |-> z.version, upgrade |-> z.upgrade,
                  http_errno |-> z.http_errno, req |-> z.req,
                  header_building_state |-> z.header_building_state,
                  header_field |-> z.header_field, header_value |-> z.header_value,
                  message_complete |-> z.message_complete, handled |-> z.handled,
                  refused |-> z.refused]
    BY DEF ParserType
<1> QED BY <1>1, Zenon DEF SameCore, SameRest, Keeps

LEMMA TellFieldRest ==
    ASSUME NEW q \in ParserType, NEW r \in ParserType, NEW t \in String, SameRest(q, r)
    PROVE  SameRest(TellField(q, t), TellField(r, t))
<1> DEFINE H(z) == IF z.header_value = <<>> THEN z.req.headers
                   ELSE Append(z.req.headers, <<z.header_field, z.header_value>>)
           M(z) == [z.req EXCEPT !.headers = H(z)]
<1>1. CASE q.header_building_state = 1
    <2>1. /\ TellField(q, t) = [q EXCEPT !.header_field = q.header_field \o t]
          /\ TellField(r, t) = [r EXCEPT !.header_field = r.header_field \o t]
        BY <1>1 DEF TellField, SameRest
    <2> QED BY <2>1 DEF ParserType, SameRest, Keeps
<1>2. CASE q.header_building_state # 1
    <2>1. ASSUME NEW z \in {q, r}
          PROVE  TellField(z, t) = [z EXCEPT !.req = M(z), !.header_value = <<>>, !.header_field = t,
                                             !.header_building_state = 1]
        <3>1. z.header_building_state # 1
            BY <1>2 DEF SameRest
        <3> QED BY <3>1, Zenon DEF TellField
    <2>2. M(q) = M(r)
        BY DEF SameRest
    <2> HIDE DEF M
    <2>3. ASSUME NEW z \in {q, r}
          PROVE  /\ SameRestBut(z, TellField(z, t)) /\ TellField(z, t).req = M(z)
                 /\ TellField(z, t).header_building_state = 1 /\ TellField(z, t).header_field = t
                 /\ TellField(z, t).header_value = <<>>
        <3> DEFINE w == [z EXCEPT !.req = M(z), !.header_value = <<>>, !.header_field = t,
                                  !.header_building_state = 1]
        <3>1. SameRestBut(z, w)
            BY DEF ParserType, SameRestBut, Keeps
        <3>2. w.req = M(z) /\ w.header_building_state = 1 /\ w.header_field = t
              /\ w.header_value = <<>>
            BY DEF ParserType
        <3> HIDE DEF w
        <3>3. TellField(z, t) = w
            BY <2>1 DEF w
        <3> QED BY <3>1, <3>2, <3>3
    <2> QED BY <2>2, <2>3 DEF SameRest, SameRestBut, Keeps
<1> QED BY <1>1, <1>2

LEMMA TellValueRest ==
    ASSUME NEW q \in ParserType, NEW r \in ParserType, NEW t \in String, SameRest(q, r)
    PROVE  SameRest(TellValue(q, t), TellValue(r, t))
<1> DEFINE V(z) == IF z.header_building_state = 1 THEN t ELSE z.header_value \o t
<1>1. ASSUME NEW z PROVE TellValue(z, t) = [z EXCEPT !.header_value = V(z), !.header_building_state = 0]
    BY DEF TellValue
<1>2. V(q) = V(r)
    BY DEF SameRest
<1> HIDE DEF V
<1>3. ASSUME NEW z \in {q, r}
      PROVE  /\ SameRestBut(z, TellValue(z, t)) /\ TellValue(z, t).header_value = V(z)
             /\ TellValue(z, t).header_building_state = 0
             /\ TellValue(z, t).header_field = z.header_field /\ TellValue(z, t).req = z.req
    <2> DEFINE w == [z EXCEPT !.header_value = V(z), !.header_building_state = 0]
    <2>1. SameRestBut(z, w)
        BY DEF ParserType, SameRestBut, Keeps
    <2>2. w.header_value = V(z) /\ w.header_building_state = 0
          /\ w.header_field = z.header_field /\ w.req = z.req
        BY DEF ParserType
    <2> HIDE DEF w
    <2>3. TellValue(z, t) = w
        BY <1>1 DEF w
    <2> QED BY <2>1, <2>2, <2>3
<1> QED BY <1>2, <1>3 DEF SameRest, SameRestBut, Keeps

LEMMA TellBodyRest ==
    ASSUME NEW q \in ParserType, NEW r \in ParserType, NEW t \in String, SameRest(q, r)
    PROVE  SameRest(TellBody(q, t), TellBody(r, t))
<1> DEFINE M(z) == [z.req EXCEPT !.body = z.req.body \o t]
<1>1. ASSUME NEW z PROVE TellBody(z, t) = [z EXCEPT !.req = M(z)]
    BY DEF TellBody
<1>2. M(q) = M(r)
    BY DEF SameRest
<1> HIDE DEF M
<1>3. ASSUME NEW z \in {q, r}
      PROVE  /\ SameRestBut(z, TellBody(z, t)) /\ TellBody(z, t).req = M(z)
             /\ TellBody(z, t).header_building_state = z.header_building_state
             /\ TellBody(z, t).header_field = z.header_field
             /\ TellBody(z, t).header_value = z.header_value
    BY <1>1 DEF ParserType, SameRestBut, Keeps
<1> QED BY <1>2, <1>3 DEF SameRest, SameRestBut, Keeps

LEMMA ToldRest ==
    ASSUME NEW x \in ExecType, NEW q \in ParserType, NEW r \in ParserType, SameRest(q, r)
    PROVE  SameRest(Told(q, x.marks), Told(r, x.marks))
<1> DEFINE m == x.marks
<1>0. m.field.text \in String /\ m.value.text \in String /\ m.body.text \in String
    BY ExecParser DEF MarkType
<1> HIDE DEF m
<1>1. /\ ToldField(q, m) \in ParserType /\ ToldField(r, m) \in ParserType
      /\ SameRest(ToldField(q, m), ToldField(r, m))
    BY <1>0, TellFieldIs, TellFieldRest DEF ToldField
<1>2. ASSUME NEW c \in ParserType, NEW d \in ParserType, SameRest(c, d)
      PROVE  /\ ToldValue(c, m) \in ParserType /\ ToldValue(d, m) \in ParserType
             /\ SameRest(ToldValue(c, m), ToldValue(d, m))
    BY <1>0, <1>2, TellValueIs, TellValueRest DEF ToldValue
<1>3. ASSUME NEW c \in ParserType, NEW d \in ParserType, SameRest(c, d)
      PROVE  SameRest(ToldBody(c, m), ToldBody(d, m))
    BY <1>0, <1>3, TellBodyIs, TellBodyRest DEF ToldBody
<1> QED BY <1>1, <1>2, <1>3 DEF Told, m

\* Two executions in the middle of a text.
TextAt(x, y, l) ==
    /\ x \in ExecType /\ y \in ExecType /\ x.table = y.table /\ ~x.done /\ ~y.done
    /\ x.p.http_errno = "OK" /\ y.p.http_errno = "OK" /\ Sound(x.p)
    /\ MarksFit(x) /\ MarksFit(y) /\ x.p.state \in TextStates /\ Flushed(x) = Flushed(y)
    /\ Len(x.p.handled) = l => ~x.p.message_complete
    /\ Comparable(x, y, l)

LEMMA TwinsText ==
    ASSUME NEW x, NEW y, NEW l, NEW n, Twins(x, y, l, n), ~x.done, x.p.state \in TextStates,
           Comparable(x, y, l)
    PROVE  TextAt(x, y, l)
BY DEF Twins, Alike, Position, TextAt

LEMMA TextParts ==
    ASSUME NEW x, NEW y, NEW l, TextAt(x, y, l)
    PROVE  x.p \in ParserType /\ y.p \in ParserType /\ SameCore(x.p, y.p)
BY FlushedIs, ExecParser DEF TextAt, SameCore

\* Both parsers become the same, as far as the text does not count.
LEMMA TextSame ==
    ASSUME NEW x, NEW y, NEW l, TextAt(x, y, l), NEW q \in ParserType, NEW r \in ParserType,
           SameRest(x.p, q), SameRest(y.p, r), SameCore(q, r)
    PROVE  Flushed([x EXCEPT !.p = q]) = Flushed([y EXCEPT !.p = r])
<1> DEFINE a == [x EXCEPT !.p = q]
           b == [y EXCEPT !.p = r]
<1>0. x \in ExecType /\ y \in ExecType /\ x.p \in ParserType /\ y.p \in ParserType
      /\ Flushed(x) = Flushed(y)
    BY TextParts DEF TextAt
<1>1. a \in ExecType /\ a.p = q /\ a.marks = x.marks /\ b \in ExecType /\ b.p = r /\ b.marks = y.marks
    BY <1>0, WithParser
<1> HIDE DEF a, b
<1>2. SameRest(Flushed(x), Flushed(a)) /\ SameRest(Flushed(y), Flushed(b))
    <2>1. /\ Flushed(x) = Told(x.p, x.marks) /\ Flushed(a) = Told(q, x.marks)
          /\ Flushed(y) = Told(y.p, y.marks) /\ Flushed(b) = Told(r, y.marks)
        BY <1>0, <1>1, FlushedTold
    <2> QED BY <1>0, <2>1, ToldRest
<1>3. SameRest(Flushed(a), Flushed(b))
    BY <1>0, <1>2 DEF SameRest, Keeps
<1>4. Flushed(a) \in ParserType /\ SameCore(Flushed(a), q)
    BY <1>1, FlushedIs
<1>5. Flushed(b) \in ParserType /\ SameCore(Flushed(b), r)
    BY <1>1, FlushedIs
<1>6. SameCore(Flushed(a), Flushed(b))
    BY <1>4, <1>5 DEF SameCore
<1> QED BY <1>3, <1>4, <1>5, <1>6, CoreAndRest DEF a, b

LEMMA TextGoes ==
    ASSUME NEW x, NEW y, NEW l, TextAt(x, y, l), NEW q \in ParserType, NEW r \in ParserType,
           SameRest(x.p, q), SameRest(y.p, r), SameCore(q, r), Sound(q),
           x.marks.body.set <=> y.marks.body.set,
           q.state = x.p.state \/ {q.state, x.p.state} \subseteq BodyMarks
    PROVE  Result(x, y, [x EXCEPT !.p = q], [y EXCEPT !.p = r], l)
<1> DEFINE a == [x EXCEPT !.p = q]
           b == [y EXCEPT !.p = r]
<1>0. x \in ExecType /\ y \in ExecType /\ x.p \in ParserType /\ y.p \in ParserType /\ SameCore(x.p, y.p)
      /\ x.table = y.table /\ ~x.done /\ ~y.done /\ x.p.http_errno = "OK" /\ y.p.http_errno = "OK"
      /\ MarksFit(x) /\ MarksFit(y) /\ x.p.state \in TextStates
      /\ (Len(x.p.handled) = l => ~x.p.message_complete)
    BY TextParts DEF TextAt
<1>1. Keeps(x.p, q) /\ Keeps(y.p, r)
    BY DEF SameRest
<1>2. Flushed(a) = Flushed(b)
    BY TextSame
<1>3. a \in ExecType /\ a.p = q /\ a.marks = x.marks /\ a.table = x.table /\ a.done = x.done
    BY <1>0, WithParser
<1>4. b \in ExecType /\ b.p = r /\ b.marks = y.marks /\ b.table = y.table /\ b.done = y.done
    BY <1>0, WithParser
<1> HIDE DEF a, b
<1>5. q.state \in TextStates
    BY <1>0 DEF TextStates
<1>6. q.state = r.state /\ x.p.state = y.p.state
    BY <1>0 DEF SameCore
<1>7. MarksFit(a) /\ MarksFit(b)
    <2>1. CASE q.state = x.p.state
        BY <1>0, <1>3, <1>4, <1>6, <2>1 DEF MarksFit
    <2>2. CASE {q.state, x.p.state} \subseteq BodyMarks
        <3>1. ASSUME NEW s \in BodyMarks
              PROVE  s \notin UrlAll /\ s # "header_field" /\ s # "header_value"
            BY DEF BodyMarks, UrlAll, UrlStates
        <3> QED BY <1>0, <1>3, <1>4, <1>6, <2>2, <3>1 DEF MarksFit
    <2> QED BY <2>1, <2>2
<1>8. /\ a.table = b.table /\ ~a.done /\ ~b.done /\ a.p.http_errno = "OK" /\ b.p.http_errno = "OK"
      /\ Sound(a.p) /\ a.p.state \in TextStates
      /\ (Len(a.p.handled) = l => ~a.p.message_complete)
    BY <1>0, <1>1, <1>3, <1>4, <1>5 DEF Keeps
<1>9. Twins(a, b, l, 0)
    BY <1>2, <1>3, <1>4, <1>7, <1>8, TextTwins
<1>10. Follows(x.p, a.p)
    BY <1>1, <1>3 DEF Follows, Keeps
<1>11. Even(a, b)
    BY <1>3, <1>4 DEF Even
<1> QED BY <1>9, <1>10, <1>11 DEF Result, a, b

\* Outside of a body none is marked.
LEMMA BodyUnmarked ==
    ASSUME NEW x, NEW y, NEW l, TextAt(x, y, l), x.p.state \in {"header_field", "header_value"}
    PROVE  ~x.marks.body.set /\ ~y.marks.body.set
<1>1. MarksFit(x) /\ MarksFit(y) /\ y.p.state = x.p.state
    BY TextParts DEF TextAt, SameCore
<1> QED BY <1>1 DEF MarksFit, BodyMarks

\* What a callback leaves when it tells everything that is marked.
Flushes(a, u) ==
    /\ u \in ExecType /\ NoMarks(u) /\ u.p = Flushed(a) /\ u.table = a.table /\ u.done = a.done
    /\ u.consumed = a.consumed /\ u.url_start = a.url_start

LEMMA Unmarked ==
    ASSUME NEW a \in ExecType, a.marks.url = NoMark, a.marks.field = NoMark,
           a.marks.value = NoMark, a.marks.body = NoMark
    PROVE  NoMarks(a) /\ Flushed(a) = a.p
<1>1. NoMarks(a)
    BY DEF NoMarks, ExecType
<1> QED BY <1>1, FlushedBare DEF NoMark

LEMMA CallbackFlushes ==
    ASSUME NEW a \in ExecType, a.marks.url = NoMark
    PROVE  /\ a.marks.value = NoMark /\ a.marks.body = NoMark
              /\ (~a.marks.field.set => a.marks.field = NoMark) => Flushes(a, FieldCallback(a))
           /\ a.marks.field = NoMark /\ a.marks.body = NoMark
              /\ (~a.marks.value.set => a.marks.value = NoMark) => Flushes(a, ValueCallback(a))
           /\ a.marks.field = NoMark /\ a.marks.value = NoMark
              /\ (~a.marks.body.set => a.marks.body = NoMark) => Flushes(a, BodyCallback(a))
<1>0. ~NoMark.set /\ a.p \in ParserType /\ a.marks.field.text \in String
      /\ a.marks.value.text \in String /\ a.marks.body.text \in String
    BY ExecParser DEF NoMark, MarkType
<1>1. Flushed(a) = Told(a.p, a.marks)
    BY FlushedTold
<1>2. ASSUME a.marks.value = NoMark, a.marks.body = NoMark,
             ~a.marks.field.set => a.marks.field = NoMark
      PROVE  Flushes(a, FieldCallback(a))
    <2>1. CASE a.marks.field.set
        <3> DEFINE q == TellField(a.p, a.marks.field.text)
                   u == [a EXCEPT !.marks.field = NoMark, !.p = q]
        <3>1. FieldCallback(a) = u
            BY <2>1, CallbacksAre
        <3>2. q \in ParserType /\ Flushed(a) = q
            BY <1>0, <1>1, <1>2, <2>1, TellFieldIs DEF Told, ToldField, ToldValue, ToldBody
        <3> HIDE DEF q
        <3>3. /\ u \in ExecType /\ u.p = q /\ u.table = a.table /\ u.done = a.done
              /\ u.consumed = a.consumed /\ u.url_start = a.url_start
              /\ u.marks.field = NoMark /\ u.marks.url = NoMark
              /\ u.marks.value = NoMark /\ u.marks.body = NoMark
            BY <1>2, <3>2, NoMarkType DEF ExecType
        <3> HIDE DEF u
        <3> QED BY <3>1, <3>2, <3>3, Unmarked DEF Flushes
    <2>2. CASE ~a.marks.field.set
        BY <1>2, <2>2, CallbacksAre, Unmarked DEF Flushes
    <2> QED BY <2>1, <2>2
<1>3. ASSUME a.marks.field = NoMark, a.marks.body = NoMark,
             ~a.marks.value.set => a.marks.value = NoMark
      PROVE  Flushes(a, ValueCallback(a))
    <2>1. CASE a.marks.value.set
        <3> DEFINE q == TellValue(a.p, a.marks.value.text)
                   u == [a EXCEPT !.marks.value = NoMark, !.p = q]
        <3>1. ValueCallback(a) = u
            BY <2>1, CallbacksAre
        <3>2. q \in ParserType /\ Flushed(a) = q
            BY <1>0, <1>1, <1>3, <2>1, TellValueIs DEF Told, ToldField, ToldValue, ToldBody
        <3> HIDE DEF q
        <3>3. /\ u \in ExecType /\ u.p = q /\ u.table = a.table /\ u.done = a.done
              /\ u.consumed = a.consumed /\ u.url_start = a.url_start
              /\ u.marks.field = NoMark /\ u.marks.url = NoMark
              /\ u.marks.value = NoMark /\ u.marks.body = NoMark
            BY <1>3, <3>2, NoMarkType DEF ExecType
        <3> HIDE DEF u
        <3> QED BY <3>1, <3>2, <3>3, Unmarked DEF Flushes
    <2>2. CASE ~a.marks.value.set
        BY <1>3, <2>2, CallbacksAre, Unmarked DEF Flushes
    <2> QED BY <2>1, <2>2
<1>4. ASSUME a.marks.field = NoMark, a.marks.value = NoMark,
             ~a.marks.body.set => a.marks.body = NoMark
      PROVE  Flushes(a, BodyCallback(a))
    <2>1. CASE a.marks.body.set
        <3> DEFINE q == TellBody(a.p, a.marks.body.text)
                   u == [a EXCEPT !.marks.body = NoMark, !.p = q]
        <3>1. BodyCallback(a) = u
            BY <2>1, CallbacksAre
        <3>2. q \in ParserType /\ Flushed(a) = q
            BY <1>0, <1>1, <1>4, <2>1, TellBodyIs DEF Told, ToldField, ToldValue, ToldBody
        <3> HIDE DEF q
        <3>3. /\ u \in ExecType /\ u.p = q /\ u.table = a.table /\ u.done = a.done
              /\ u.consumed = a.consumed /\ u.url_start = a.url_start
              /\ u.marks.field = NoMark /\ u.marks.url = NoMark
              /\ u.marks.value = NoMark /\ u.marks.body = NoMark
            BY <1>4, <3>2, NoMarkType DEF ExecType
        <3> HIDE DEF u
        <3> QED BY <3>1, <3>2, <3>3, Unmarked DEF Flushes
    <2>2. CASE ~a.marks.body.set
        BY <1>4, <2>2, CallbacksAre, Unmarked DEF Flushes
    <2> QED BY <2>1, <2>2
<1> QED BY <1>2, <1>3, <1>4

\* The text has been told, and the state is plain.
LEMMA TextEnds ==
    ASSUME NEW x, NEW y, NEW l, TextAt(x, y, l), NEW a \in ExecType, NEW b \in ExecType,
           NEW u, NEW v, Flushes(a, u), Flushes(b, v), Flushed(a) = Flushed(b),
           a.table = x.table, a.done = x.done, a.consumed = x.consumed, a.url_start = x.url_start,
           b.table = y.table, b.done = y.done, b.consumed = y.consumed, b.url_start = y.url_start,
           Keeps(x.p, a.p), Sound(a.p), a.p.state \in PlainStates, a.p.state \notin BeforeUrl,
           a.p.state # "chunk_size_start"
    PROVE  /\ BareAt(u, v, l) /\ Result(x, y, u, v, l) /\ Keeps(x.p, u.p)
           /\ SameCore(u.p, a.p)
<1>1. /\ x.p.http_errno = "OK" /\ x.table = y.table /\ ~x.done /\ ~y.done /\ Comparable(x, y, l)
      /\ (Len(x.p.handled) = l => ~x.p.message_complete)
    BY DEF TextAt
<1>2. u.p = v.p /\ SameCore(u.p, a.p)
    BY FlushedIs DEF Flushes
<1>3. Keeps(x.p, u.p) /\ u.p.state = a.p.state /\ Sound(u.p) /\ u.p.http_errno = "OK"
    BY <1>1, <1>2 DEF SameCore, Keeps, Sound
<1>4. Bare(u) /\ Bare(v)
    BY <1>1, <1>2, <1>3 DEF Bare, Flushes
<1>5. /\ u.table = v.table /\ u.consumed = x.consumed /\ u.url_start = x.url_start
      /\ v.consumed = y.consumed /\ v.url_start = y.url_start
    BY <1>1 DEF Flushes
<1>6. BareAt(u, v, l) /\ Result(x, y, u, v, l)
    BY <1>1, <1>2, <1>3, <1>4, <1>5, BareNext
<1> QED BY <1>2, <1>3, <1>6

\* The state alone changes.
LEMMA TextTo ==
    ASSUME NEW x, NEW y, NEW l, TextAt(x, y, l), NEW s \in States
    PROVE  LET a == To(x, s)
               b == To(y, s)
           IN /\ a \in ExecType /\ b \in ExecType /\ Flushed(a) = Flushed(b) /\ Keeps(x.p, a.p)
              /\ a.table = x.table /\ a.done = x.done /\ a.consumed = x.consumed
              /\ a.url_start = x.url_start /\ a.marks = x.marks
              /\ b.table = y.table /\ b.done = y.done /\ b.consumed = y.consumed
              /\ b.url_start = y.url_start /\ b.marks = y.marks
              /\ a.p.state = s /\ a.p.nread = x.p.nread /\ a.p.header_state = x.p.header_state
              /\ a.p.content_length = x.p.content_length
<1> DEFINE q == [x.p EXCEPT !.state = s]
           r == [y.p EXCEPT !.state = s]
<1>0. /\ x \in ExecType /\ y \in ExecType /\ x.p \in ParserType /\ y.p \in ParserType
      /\ SameCore(x.p, y.p)
    BY TextParts DEF TextAt
<1>1. /\ To(x, s) = [x EXCEPT !.p = q] /\ q \in ParserType /\ Keeps(x.p, q)
      /\ To(y, s) = [y EXCEPT !.p = r] /\ r \in ParserType
    BY <1>0, ToIs
<1>2. SameRest(x.p, q)
    BY <1>0 DEF ParserType, SameRest, Keeps
<1>3. SameRest(y.p, r)
    BY <1>0 DEF ParserType, SameRest, Keeps
<1>4. q.state = s /\ q.nread = x.p.nread /\ q.header_state = x.p.header_state
      /\ q.content_length = x.p.content_length
    BY <1>0 DEF ParserType
<1>5. SameCore(q, r)
    BY <1>0 DEF ParserType, SameCore
<1> HIDE DEF q, r
<1>6. Flushed([x EXCEPT !.p = q]) = Flushed([y EXCEPT !.p = r])
    BY <1>1, <1>2, <1>3, <1>5, TextSame
<1>7. LET a == [x EXCEPT !.p = q]
      IN a \in ExecType /\ a.p = q /\ a.marks = x.marks /\ a.done = x.done /\ a.table = x.table
         /\ a.consumed = x.consumed /\ a.url_start = x.url_start
    BY <1>0, <1>1, WithParser
<1>8. LET b == [y EXCEPT !.p = r]
      IN b \in ExecType /\ b.p = r /\ b.marks = y.marks /\ b.done = y.done /\ b.table = y.table
         /\ b.consumed = y.consumed /\ b.url_start = y.url_start
    BY <1>0, <1>1, WithParser
<1> QED BY <1>1, <1>4, <1>6, <1>7, <1>8

LEMMA TextFails ==
    ASSUME NEW x, NEW y, NEW l, TextAt(x, y, l), NEW e \in Errors, e # "OK"
    PROVE  Result(x, y, Error(x, e), Error(y, e), l)
BY FailsAtOnce DEF TextAt

LEMMA HeaderFieldResult ==
    ASSUME NEW x, NEW y, NEW l, TextAt(x, y, l), x.p.state = "header_field", NEW ch \in STRING
    PROVE  Result(x, y, HeaderField(x, ch), HeaderField(y, ch), l)
<1>0. /\ x \in ExecType /\ y \in ExecType /\ x.p \in ParserType /\ y.p \in ParserType
      /\ SameCore(x.p, y.p) /\ Sound(x.p)
    BY TextParts DEF TextAt
<1>1. CASE Token(ch)
    <2> DEFINE letters == Append(x.p.matched, ch)
               q == Named(x.p, letters)
               r == Named(y.p, letters)
    <2>1. HeaderField(x, ch) = [x EXCEPT !.p = q] /\ HeaderField(y, ch) = [y EXCEPT !.p = r]
        BY <1>0, <1>1, MatchFieldIs DEF HeaderField, SameCore
    <2>2. letters \in String
        BY <1>0, OneMore DEF ParserType
    <2> HIDE DEF letters
    <2>3. q \in ParserType /\ Keeps(x.p, q) /\ q.state = x.p.state /\ q.nread = x.p.nread
          /\ r \in ParserType /\ Keeps(y.p, r)
        BY <1>0, <2>2, NamedIs
    <2>4. SameRest(x.p, q)
        BY <1>0, <2>3 DEF Named, ParserType, SameRest
    <2>5. SameRest(y.p, r)
        BY <1>0, <2>3 DEF Named, ParserType, SameRest
    <2>6. SameCore(q, r)
        BY <1>0 DEF Named, ParserType, SameCore
    <2> HIDE DEF q, r
    <2>7. Sound(q)
        BY <1>0, <2>3 DEF Sound
    <2>8. Result(x, y, [x EXCEPT !.p = q], [y EXCEPT !.p = r], l)
        BY <2>3, <2>4, <2>5, <2>6, <2>7, TextGoes, BodyUnmarked
    <2> QED BY <2>1, <2>8
<1>2. CASE ~Token(ch) /\ ch = ":"
    <2> DEFINE s == "header_value_discard_ws"
               a == To(x, s)
               b == To(y, s)
               u == FieldCallback(a)
               v == FieldCallback(b)
    <2>1. HeaderField(x, ch) = u /\ HeaderField(y, ch) = v
        BY <1>2 DEF HeaderField
    <2>2. s \in States /\ s \in PlainStates /\ s \notin BeforeUrl
        BY DEF States, PlainStates, BeforeUrl
    <2> HIDE DEF a, b
    <2>3. /\ a \in ExecType /\ b \in ExecType /\ Flushed(a) = Flushed(b) /\ Keeps(x.p, a.p)
          /\ a.table = x.table /\ a.done = x.done /\ a.consumed = x.consumed
          /\ a.url_start = x.url_start /\ a.marks = x.marks
          /\ b.table = y.table /\ b.done = y.done /\ b.consumed = y.consumed
          /\ b.url_start = y.url_start /\ b.marks = y.marks
          /\ a.p.state = s /\ a.p.nread = x.p.nread
        BY <2>2, TextTo DEF a, b
    <2>4. ASSUME NEW z \in {x, y}
          PROVE  /\ z.marks.url = NoMark /\ z.marks.value = NoMark /\ z.marks.body = NoMark
                 /\ (~z.marks.field.set => z.marks.field = NoMark)
        <3>1. MarksFit(z) /\ z.p.state = "header_field"
            BY <1>0 DEF TextAt, SameCore
        <3> QED BY <3>1 DEF MarksFit, UrlAll, UrlStates, BodyMarks
    <2>5. Flushes(a, u) /\ Flushes(b, v)
        BY <2>3, <2>4, CallbackFlushes
    <2>6. Sound(a.p)
        BY <1>0, <2>3 DEF Sound
    <2> HIDE DEF u, v, s
    <2>7. s # "chunk_size_start"
        BY DEF s
    <2>8. Result(x, y, u, v, l)
        BY <2>2, <2>3, <2>5, <2>6, <2>7, TextEnds
    <2> QED BY <2>1, <2>8
<1>3. CASE ~Token(ch) /\ ch # ":"
    BY <1>3, TextFails DEF HeaderField, Errors
<1> QED BY <1>1, <1>2, <1>3

\* In a header value, the parser becomes q and r.
LEMMA ValueGoes ==
    ASSUME NEW x, NEW y, NEW l, TextAt(x, y, l), x.p.state = "header_value",
           NEW q \in ParserType, NEW r \in ParserType,
           SameRest(x.p, q), SameRest(y.p, r), SameCore(q, r),
           q.state = x.p.state, q.nread = x.p.nread,
           q.header_state \notin {"connection", "transfer_encoding"}
    PROVE  Result(x, y, [x EXCEPT !.p = q], [y EXCEPT !.p = r], l)
<1>1. Sound(q)
    BY DEF Sound, TextAt
<1> QED BY <1>1, TextGoes, BodyUnmarked

LEMMA ValueInHeader ==
    ASSUME NEW x, NEW y, NEW l, TextAt(x, y, l), x.p.state = "header_value",
           NEW g \in HeaderStates, g \notin {"connection", "transfer_encoding"}
    PROVE  Result(x, y, InHeader(x, g), InHeader(y, g), l)
<1> DEFINE q == [x.p EXCEPT !.header_state = g]
           r == [y.p EXCEPT !.header_state = g]
<1>0. x.p \in ParserType /\ y.p \in ParserType /\ SameCore(x.p, y.p)
    BY TextParts
<1>1. q \in ParserType /\ SameRest(x.p, q) /\ q.state = x.p.state /\ q.nread = x.p.nread
      /\ q.header_state = g
    BY <1>0 DEF ParserType, SameRest, Keeps
<1>2. r \in ParserType /\ SameRest(y.p, r)
    BY <1>0 DEF ParserType, SameRest, Keeps
<1>3. SameCore(q, r)
    BY <1>0 DEF ParserType, SameCore
<1>4. InHeader(x, g) = [x EXCEPT !.p = q] /\ InHeader(y, g) = [y EXCEPT !.p = r]
    BY DEF InHeader
<1> HIDE DEF q, r
<1>5. Result(x, y, [x EXCEPT !.p = q], [y EXCEPT !.p = r], l)
    BY <1>1, <1>2, <1>3, ValueGoes
<1> QED BY <1>4, <1>5

\* And the letters that have been seen.
LEMMA ValueLetters ==
    ASSUME NEW x, NEW y, NEW l, TextAt(x, y, l), x.p.state = "header_value",
           NEW letters \in String,
           NEW g \in HeaderStates, g \notin {"connection", "transfer_encoding"}
    PROVE  Result(x, y, InHeader([x EXCEPT !.p.matched = letters], g),
                        InHeader([y EXCEPT !.p.matched = letters], g), l)
<1> DEFINE Q(z) == [z.p EXCEPT !.matched = letters, !.header_state = g]
           q == Q(x)
           r == Q(y)
<1>0. x.p \in ParserType /\ y.p \in ParserType /\ SameCore(x.p, y.p)
    BY TextParts
<1>1. q \in ParserType /\ SameRest(x.p, q) /\ q.state = x.p.state /\ q.nread = x.p.nread
      /\ q.header_state = g
    <2>1. q \in ParserType
        BY <1>0, Zenon DEF ParserType
    <2>2. SameRest(x.p, q)
        BY <1>0 DEF ParserType, SameRest, Keeps
    <2>3. q.state = x.p.state /\ q.nread = x.p.nread /\ q.header_state = g
        BY <1>0 DEF ParserType
    <2> QED BY <2>1, <2>2, <2>3
<1>2. r \in ParserType /\ SameRest(y.p, r)
    <2>1. r \in ParserType
        BY <1>0, Zenon DEF ParserType
    <2>2. SameRest(y.p, r)
        BY <1>0 DEF ParserType, SameRest, Keeps
    <2> QED BY <2>1, <2>2
<1>3. SameCore(q, r)
    BY <1>0 DEF ParserType, SameCore
<1>4. ASSUME NEW z PROVE InHeader([z EXCEPT !.p.matched = letters], g) = [z EXCEPT !.p = Q(z)]
    BY Zenon DEF InHeader
<1>5. /\ InHeader([x EXCEPT !.p.matched = letters], g) = [x EXCEPT !.p = q]
      /\ InHeader([y EXCEPT !.p.matched = letters], g) = [y EXCEPT !.p = r]
    BY <1>4
<1> HIDE DEF q, r
<1>6. Result(x, y, [x EXCEPT !.p = q], [y EXCEPT !.p = r], l)
    BY <1>1, <1>2, <1>3, ValueGoes
<1> QED BY <1>5, <1>6

\* The letters alone.
LEMMA ValueLettersOnly ==
    ASSUME NEW x, NEW y, NEW l, TextAt(x, y, l), x.p.state = "header_value",
           NEW letters \in String
    PROVE  Result(x, y, [x EXCEPT !.p.matched = letters], [y EXCEPT !.p.matched = letters], l)
<1> DEFINE q == [x.p EXCEPT !.matched = letters]
           r == [y.p EXCEPT !.matched = letters]
<1>0. x.p \in ParserType /\ y.p \in ParserType /\ SameCore(x.p, y.p)
      /\ x.p.header_state \notin {"connection", "transfer_encoding"}
    BY TextParts DEF TextAt, Sound
<1>1. q \in ParserType /\ SameRest(x.p, q) /\ q.state = x.p.state /\ q.nread = x.p.nread
      /\ q.header_state = x.p.header_state
    BY <1>0 DEF ParserType, SameRest, Keeps
<1>2. r \in ParserType /\ SameRest(y.p, r)
    BY <1>0 DEF ParserType, SameRest, Keeps
<1>3. SameCore(q, r)
    BY <1>0 DEF ParserType, SameCore
<1>4. Result(x, y, [x EXCEPT !.p = q], [y EXCEPT !.p = r], l)
    <2> HIDE DEF q, r
    <2> QED BY <1>0, <1>1, <1>2, <1>3, ValueGoes
<1> QED BY <1>4

\* Nothing changes.
LEMMA ValueStays ==
    ASSUME NEW x, NEW y, NEW l, TextAt(x, y, l), x.p.state = "header_value"
    PROVE  Result(x, y, x, y, l)
BY TextTwins, BodyUnmarked DEF Result, Follows, TextAt, Even

LEMMA LengthStep ==
    ASSUME NEW k \in 0 .. NoLength, NEW d \in Nat
    PROVE  (10 * k + d) % (NoLength + 1) \in 0 .. NoLength
           /\ (16 * k + d) % (NoLength + 1) \in 0 .. NoLength
<1>1. NoLength + 1 \in Nat \ {0} /\ k \in Nat
    BY ParserAssumption
<1>2. ASSUME NEW i \in Nat, NEW w \in Nat \ {0} PROVE i % w \in 0 .. w - 1
    OBVIOUS
<1>3. 10 * k + d \in Nat /\ 16 * k + d \in Nat
    BY <1>1
<1> DEFINE w == NoLength + 1
           i == 10 * k + d
           j == 16 * k + d
<1>4. w - 1 = NoLength
    BY ParserAssumption
<1> HIDE DEF w, i, j
<1>7. w \in Nat \ {0} /\ i \in Nat /\ j \in Nat
    BY <1>1, <1>3 DEF w, i, j
<1>5. i % w \in 0 .. w - 1 /\ j % w \in 0 .. w - 1
    BY <1>2, <1>7
<1>6. i % w \in 0 .. NoLength /\ j % w \in 0 .. NoLength
    BY <1>4, <1>5
<1> QED BY <1>6 DEF w, i, j

LEMMA MoreLengthResult ==
    ASSUME NEW x, NEW y, NEW l, TextAt(x, y, l), x.p.state = "header_value", NEW ch \in STRING
    PROVE  Result(x, y, MoreLength(x, ch), MoreLength(y, ch), l)
<1>0. x.p \in ParserType /\ y.p \in ParserType /\ SameCore(x.p, y.p)
      /\ x.p.content_length \in 0 .. NoLength /\ y.p.content_length = x.p.content_length
    BY TextParts DEF ParserType, SameCore
<1>1. CASE ch = SP
    BY <1>1, ValueInHeader DEF MoreLength, HeaderStates
<1>2. CASE ch # SP /\ (~IsDigit(ch) \/ ~Fits64(x.p.content_length, 10))
    BY <1>0, <1>2, TextFails DEF MoreLength, Errors
<1>3. CASE ch # SP /\ IsDigit(ch) /\ Fits64(x.p.content_length, 10)
    <2> DEFINE k == (10 * x.p.content_length + DigitValue(ch)) % (NoLength + 1)
               g == "content_length_num"
               Q(z) == [z.p EXCEPT !.content_length = k, !.header_state = g]
               q == Q(x)
               r == Q(y)
    <2>1. k \in 0 .. NoLength /\ g \in HeaderStates
        BY <1>0, <1>3, DigitIs, LengthStep, SMTT(30) DEF HeaderStates
    <2>2. ASSUME NEW z \in {x, y} PROVE MoreLength(z, ch) = [z EXCEPT !.p = Q(z)]
        <3>1. MoreLength(z, ch) = InHeader([z EXCEPT !.p.content_length = k], g)
            BY <1>0, <1>3 DEF MoreLength
        <3> HIDE DEF k
        <3>2. InHeader([z EXCEPT !.p.content_length = k], g) = [z EXCEPT !.p = Q(z)]
            BY Zenon DEF InHeader
        <3> QED BY <3>1, <3>2
    <2> HIDE DEF k
    <2>3. q \in ParserType /\ SameRest(x.p, q) /\ q.state = x.p.state /\ q.nread = x.p.nread
          /\ q.header_state = g
        <3>1. q \in ParserType
            BY <1>0, <2>1, Zenon DEF ParserType
        <3>2. SameRest(x.p, q)
            BY <1>0 DEF ParserType, SameRest, Keeps
        <3>3. q.state = x.p.state /\ q.nread = x.p.nread /\ q.header_state = g
            BY <1>0 DEF ParserType
        <3> QED BY <3>1, <3>2, <3>3
    <2>4. r \in ParserType /\ SameRest(y.p, r)
        <3>1. r \in ParserType
            BY <1>0, <2>1, Zenon DEF ParserType
        <3>2. SameRest(y.p, r)
            BY <1>0 DEF ParserType, SameRest, Keeps
        <3> QED BY <3>1, <3>2
    <2>5. SameCore(q, r)
        BY <1>0 DEF ParserType, SameCore
    <2>6. MoreLength(x, ch) = [x EXCEPT !.p = q] /\ MoreLength(y, ch) = [y EXCEPT !.p = r]
        BY <2>2
    <2> HIDE DEF q, r
    <2>7. Result(x, y, [x EXCEPT !.p = q], [y EXCEPT !.p = r], l)
        BY <2>3, <2>4, <2>5, ValueGoes
    <2> QED BY <2>6, <2>7
<1> QED BY <1>1, <1>2, <1>3

LEMMA ValueWordsTo ==
    ASSUME NEW h \in DOMAIN ValueWords
    PROVE  /\ ValueWords[h][2] \in HeaderStates /\ ValueWords[h][3] \in HeaderStates
           /\ ValueWords[h][2] \notin {"connection", "transfer_encoding"}
           /\ ValueWords[h][3] \notin {"connection", "transfer_encoding"}
BY DEF ValueWords, HeaderStates

LEMMA MatchValueResult ==
    ASSUME NEW x, NEW y, NEW l, TextAt(x, y, l), x.p.state = "header_value", NEW ch \in STRING,
           x.p.header_state \in DOMAIN ValueWords
    PROVE  Result(x, y, MatchValue(x, ch), MatchValue(y, ch), l)
<1> DEFINE word == ValueWords[x.p.header_state]
           letters == Append(x.p.matched, ch)
           Y(z) == [z EXCEPT !.p.matched = letters]
<1>0. x.p \in ParserType /\ y.p \in ParserType /\ SameCore(x.p, y.p)
    BY TextParts
<1>1. letters \in String
    BY <1>0, OneMore DEF ParserType
<1>2. /\ word[2] \in HeaderStates /\ word[3] \in HeaderStates
      /\ word[2] \notin {"connection", "transfer_encoding"}
      /\ word[3] \notin {"connection", "transfer_encoding"}
    BY ValueWordsTo
<1>3. ASSUME NEW z \in {x, y}
      PROVE  MatchValue(z, ch) = IF letters = word[1] THEN InHeader(Y(z), word[2])
                                 ELSE IF IsPrefix(letters, word[1]) THEN Y(z)
                                 ELSE InHeader(Y(z), word[3])
    <2>1. z.p.header_state = x.p.header_state /\ z.p.matched = x.p.matched
        BY <1>0 DEF SameCore
    <2> QED BY <2>1 DEF MatchValue
<1> HIDE DEF letters, word
<1>4. Result(x, y, InHeader(Y(x), word[2]), InHeader(Y(y), word[2]), l)
    BY <1>1, <1>2, ValueLetters
<1>5. Result(x, y, InHeader(Y(x), word[3]), InHeader(Y(y), word[3]), l)
    BY <1>1, <1>2, ValueLetters
<1>6. Result(x, y, Y(x), Y(y), l)
    BY <1>1, ValueLettersOnly
<1> HIDE DEF Y
<1>7. CASE letters = word[1]
    BY <1>3, <1>4, <1>7
<1>8. CASE letters # word[1] /\ IsPrefix(letters, word[1])
    BY <1>3, <1>6, <1>8
<1>9. CASE letters # word[1] /\ ~IsPrefix(letters, word[1])
    BY <1>3, <1>5, <1>9
<1> QED BY <1>7, <1>8, <1>9

LEMMA TokenStartResult ==
    ASSUME NEW x, NEW y, NEW l, TextAt(x, y, l), x.p.state = "header_value", NEW ch \in STRING
    PROVE  LET R(z) == CASE ch = "c" -> InHeader([z EXCEPT !.p.matched = <<ch>>], "te_chunked")
                         [] ch \in {SP, HT} -> z
                         [] OTHER -> InHeader(z, IF Token(ch) THEN "te_token" ELSE "general")
           IN Result(x, y, R(x), R(y), l)
<1> DEFINE g == IF Token(ch) THEN "te_token" ELSE "general"
<1>1. {"te_chunked", "te_token", "general"} \subseteq HeaderStates /\ <<ch>> \in String
    BY One DEF HeaderStates
<1>2. CASE ch = "c"
    <2>1. Result(x, y, InHeader([x EXCEPT !.p.matched = <<ch>>], "te_chunked"),
                       InHeader([y EXCEPT !.p.matched = <<ch>>], "te_chunked"), l)
        BY <1>1, ValueLetters
    <2> QED BY <1>2, <2>1 DEF SP, HT
<1>3. CASE ch # "c" /\ ch \in {SP, HT}
    BY <1>3, ValueStays
<1>4. CASE ch # "c" /\ ch \notin {SP, HT}
    <2>1. g \in HeaderStates /\ g \notin {"connection", "transfer_encoding"}
        BY <1>1
    <2> HIDE DEF g
    <2>2. Result(x, y, InHeader(x, g), InHeader(y, g), l)
        BY <2>1, ValueInHeader
    <2> QED BY <1>4, <2>2 DEF g
<1> QED BY <1>2, <1>3, <1>4

LEMMA HeaderValueCharResult ==
    ASSUME NEW x, NEW y, NEW l, TextAt(x, y, l), x.p.state = "header_value", NEW ch \in STRING
    PROVE  Result(x, y, HeaderValueChar(x, ch), HeaderValueChar(y, ch), l)
<1> DEFINE h == x.p.header_state
<1>0. x.p \in ParserType /\ y.p \in ParserType /\ y.p.header_state = h /\ h \in HeaderStates
      /\ h \notin {"connection", "transfer_encoding"}
    BY TextParts DEF TextAt, Sound, SameCore, ParserType
<1> HIDE DEF h
<1>1. {"te_token_start", "te_token", "general"} \subseteq HeaderStates
    BY DEF HeaderStates
<1>2. x.p.header_state = h
    BY DEF h
<1>3. CASE h = "content_length_num"
    BY <1>0, <1>2, <1>3, MoreLengthResult DEF HeaderValueChar, ValueWords
<1>4. CASE h = "content_length_ws"
    BY <1>0, <1>2, <1>4, ValueStays, TextFails DEF HeaderValueChar, ValueWords, Errors
<1>5. CASE h = "te_token_start"
    <2> DEFINE R(z) == CASE ch = "c" -> InHeader([z EXCEPT !.p.matched = <<ch>>], "te_chunked")
                         [] ch \in {SP, HT} -> z
                         [] OTHER -> InHeader(z, IF Token(ch) THEN "te_token" ELSE "general")
    <2>1. HeaderValueChar(x, ch) = R(x) /\ HeaderValueChar(y, ch) = R(y)
        BY <1>0, <1>2, <1>5 DEF HeaderValueChar, ValueWords
    <2>2. Result(x, y, R(x), R(y), l)
        BY TokenStartResult
    <2> HIDE DEF R
    <2> QED BY <2>1, <2>2
<1>6. CASE h \in DOMAIN ValueWords
    <2>1. HeaderValueChar(x, ch) = MatchValue(x, ch) /\ HeaderValueChar(y, ch) = MatchValue(y, ch)
        BY <1>0, <1>2, <1>6 DEF HeaderValueChar, ValueWords
    <2> QED BY <1>2, <1>6, <2>1, MatchValueResult
<1>7. CASE h = "te_token"
    <2>1. ASSUME NEW z \in {x, y}
          PROVE  HeaderValueChar(z, ch) = IF ch = "," THEN InHeader(z, "te_token_start") ELSE z
        BY <1>0, <1>2, <1>7 DEF HeaderValueChar, ValueWords
    <2> QED BY <1>1, <2>1, ValueInHeader, ValueStays
<1>8. CASE h = "transfer_encoding_chunked"
    <2>1. ASSUME NEW z \in {x, y}
          PROVE  HeaderValueChar(z, ch) = IF ch = SP THEN z ELSE InHeader(z, "te_token")
        BY <1>0, <1>2, <1>8 DEF HeaderValueChar, ValueWords
    <2> QED BY <1>1, <2>1, ValueInHeader, ValueStays
<1>9. CASE h \in {"connection_keep_alive", "connection_close"}
    <2>1. ASSUME NEW z \in {x, y}
          PROVE  HeaderValueChar(z, ch) = IF ch = SP THEN z ELSE InHeader(z, "general")
        BY <1>0, <1>2, <1>9 DEF HeaderValueChar, ValueWords
    <2> QED BY <1>1, <2>1, ValueInHeader, ValueStays
<1>10. CASE h \notin {"content_length_num", "content_length_ws", "te_token_start", "te_token",
                      "transfer_encoding_chunked", "connection_keep_alive", "connection_close"}
            /\ h \notin DOMAIN ValueWords
    <2>1. ASSUME NEW z \in {x, y}
          PROVE  HeaderValueChar(z, ch) = InHeader(z, "general")
        BY <1>0, <1>2, <1>10 DEF HeaderValueChar
    <2> QED BY <1>1, <2>1, ValueInHeader
<1> QED BY <1>3, <1>4, <1>5, <1>6, <1>7, <1>8, <1>9, <1>10

\* The value ends: it has been told, and the line is to end.
LEMMA ValueEnds ==
    ASSUME NEW x, NEW y, NEW l, TextAt(x, y, l), x.p.state = "header_value"
    PROVE  LET u == ValueCallback(To(x, "header_almost_done"))
               v == ValueCallback(To(y, "header_almost_done"))
           IN BareAt(u, v, l) /\ Result(x, y, u, v, l) /\ Keeps(x.p, u.p)
              /\ u.p.state = "header_almost_done"
<1> DEFINE s == "header_almost_done"
           a == To(x, s)
           b == To(y, s)
           u == ValueCallback(a)
           v == ValueCallback(b)
<1>0. /\ x \in ExecType /\ y \in ExecType /\ x.p \in ParserType /\ y.p \in ParserType
      /\ SameCore(x.p, y.p) /\ Sound(x.p)
    BY TextParts DEF TextAt
<1>1. s \in States /\ s \in PlainStates /\ s \notin BeforeUrl
    BY DEF States, PlainStates, BeforeUrl
<1> HIDE DEF a, b
<1>2. /\ a \in ExecType /\ b \in ExecType /\ Flushed(a) = Flushed(b) /\ Keeps(x.p, a.p)
      /\ a.table = x.table /\ a.done = x.done /\ a.consumed = x.consumed
      /\ a.url_start = x.url_start /\ a.marks = x.marks
      /\ b.table = y.table /\ b.done = y.done /\ b.consumed = y.consumed
      /\ b.url_start = y.url_start /\ b.marks = y.marks
      /\ a.p.state = s /\ a.p.nread = x.p.nread /\ a.p.header_state = x.p.header_state
    BY <1>1, TextTo DEF a, b
<1>3. ASSUME NEW z \in {x, y}
      PROVE  /\ z.marks.url = NoMark /\ z.marks.field = NoMark /\ z.marks.body = NoMark
             /\ (~z.marks.value.set => z.marks.value = NoMark)
    <2>1. MarksFit(z) /\ z.p.state = "header_value"
        BY <1>0 DEF TextAt, SameCore
    <2> QED BY <2>1 DEF MarksFit, UrlAll, UrlStates, BodyMarks
<1>4. Flushes(a, u) /\ Flushes(b, v)
    BY <1>2, <1>3, CallbackFlushes
<1>5. Sound(a.p)
    BY <1>0, <1>2 DEF Sound
<1> HIDE DEF u, v
<1>6. s # "chunk_size_start"
    OBVIOUS
<1> HIDE DEF s
<1>7. BareAt(u, v, l) /\ Result(x, y, u, v, l) /\ Keeps(x.p, u.p) /\ SameCore(u.p, a.p)
    BY <1>1, <1>2, <1>4, <1>5, <1>6, TextEnds
<1>8. u.p.state = s
    BY <1>2, <1>7 DEF SameCore
<1> QED BY <1>7, <1>8 DEF u, v, a, b, s

LEMMA HeaderValueResult ==
    ASSUME NEW x, NEW y, NEW l, TextAt(x, y, l), x.p.state = "header_value", NEW ch \in STRING
    PROVE  Result(x, y, HeaderValue(x, ch), HeaderValue(y, ch), l)
<1> DEFINE u == ValueCallback(To(x, "header_almost_done"))
           v == ValueCallback(To(y, "header_almost_done"))
<1>1. BareAt(u, v, l) /\ Result(x, y, u, v, l) /\ Keeps(x.p, u.p) /\ u.p.state = "header_almost_done"
    BY ValueEnds
<1>2. CASE ch = CR
    <2>1. HeaderValue(x, ch) = u /\ HeaderValue(y, ch) = v
        BY <1>2 DEF HeaderValue, CR, LF, HeaderChar
    <2> HIDE DEF u, v
    <2> QED BY <1>1, <2>1
<1>3. CASE ch = LF
    <2>1. HeaderValue(x, ch) = HeaderAlmostDone(u, ch) /\ HeaderValue(y, ch) = HeaderAlmostDone(v, ch)
        BY <1>3 DEF HeaderValue, CR, LF, HeaderChar
    <2> HIDE DEF u, v
    <2>2. Result(u, v, HeaderAlmostDone(u, ch), HeaderAlmostDone(v, ch), l)
        BY <1>1, HeaderAlmostDoneResult
    <2>3. Result(x, y, HeaderAlmostDone(u, ch), HeaderAlmostDone(v, ch), l)
        BY <1>1, <2>2, ResultOn
    <2> QED BY <2>1, <2>3
<1>4. CASE ch \notin {CR, LF} /\ ~HeaderChar(ch)
    <2>1. /\ HeaderValue(x, ch) = Error(x, "INVALID_HEADER_TOKEN")
          /\ HeaderValue(y, ch) = Error(y, "INVALID_HEADER_TOKEN")
        BY <1>4 DEF HeaderValue
    <2> QED BY <2>1, TextFails DEF Errors
<1>5. CASE ch \notin {CR, LF} /\ HeaderChar(ch)
    <2>1. HeaderValue(x, ch) = HeaderValueChar(x, ch) /\ HeaderValue(y, ch) = HeaderValueChar(y, ch)
        BY <1>5 DEF HeaderValue
    <2> QED BY <2>1, HeaderValueCharResult
<1> QED BY <1>2, <1>3, <1>4, <1>5

-----------------------------------------------------------------------------
(* What is marked grows by a character.                                    *)

OneMoreJoined(S, s, t, c) == s \o Append(t, c) = Append(s \o t, c)

LEMMA SeqMore ==
    ASSUME NEW S, NEW s \in Seq(S), NEW t \in Seq(S), NEW c \in S
    PROVE  OneMoreJoined(S, s, t, c)
BY DEF OneMoreJoined

LEMMA JoinedMore ==
    ASSUME NEW s \in String, NEW t \in String, NEW c \in STRING
    PROVE  s \o Append(t, c) = Append(s \o t, c)
<1>1. s \in Seq(STRING) /\ t \in Seq(STRING)
    BY DEF String
<1>2. OneMoreJoined(STRING, s, t, c)
    BY <1>1, SeqMore, Zenon
<1> QED BY <1>2, Zenon DEF OneMoreJoined

LEMMA TellFieldMore ==
    ASSUME NEW q \in ParserType, NEW t \in String, NEW c \in STRING
    PROVE  LET r == TellField(q, t)
               s == TellField(q, Append(t, c))
           IN /\ SameRestBut(r, s) /\ s.req = r.req
              /\ s.header_building_state = r.header_building_state
              /\ s.header_value = r.header_value /\ s.header_field = Append(r.header_field, c)
<1>1. CASE q.header_building_state = 1
    <2> DEFINE R(w) == [q EXCEPT !.header_field = q.header_field \o w]
    <2>1. ASSUME NEW w PROVE TellField(q, w) = R(w)
        BY <1>1 DEF TellField
    <2>2. ASSUME NEW w
          PROVE  /\ SameRestBut(q, R(w)) /\ R(w).req = q.req
                 /\ R(w).header_building_state = q.header_building_state
                 /\ R(w).header_value = q.header_value /\ R(w).header_field = q.header_field \o w
        BY DEF ParserType, SameRestBut, Keeps
    <2>3. q.header_field \o Append(t, c) = Append(q.header_field \o t, c)
        BY JoinedMore DEF ParserType
    <2> HIDE DEF R
    <2>4. /\ SameRestBut(q, R(t)) /\ R(t).req = q.req
          /\ R(t).header_building_state = q.header_building_state
          /\ R(t).header_value = q.header_value /\ R(t).header_field = q.header_field \o t
        BY <2>2
    <2> DEFINE w == Append(t, c)
    <2>5. /\ SameRestBut(q, R(w)) /\ R(w).req = q.req
          /\ R(w).header_building_state = q.header_building_state
          /\ R(w).header_value = q.header_value /\ R(w).header_field = q.header_field \o w
        BY <2>2
    <2>6. TellField(q, t) = R(t) /\ TellField(q, w) = R(w)
        BY <2>1
    <2>7. R(w).header_field = Append(R(t).header_field, c)
        BY <2>3, <2>4, <2>5
    <2> HIDE DEF w
    <2> QED BY <2>4, <2>5, <2>6, <2>7 DEF SameRestBut, Keeps, w
<1>2. CASE q.header_building_state # 1
    <2> DEFINE M == [q.req EXCEPT !.headers = IF q.header_value = <<>> THEN q.req.headers
                                   ELSE Append(q.req.headers, <<q.header_field, q.header_value>>)]
               R(w) == [q EXCEPT !.req = M, !.header_value = <<>>, !.header_field = w,
                                 !.header_building_state = 1]
    <2>1. ASSUME NEW w PROVE TellField(q, w) = R(w)
        BY <1>2, Zenon DEF TellField
    <2> HIDE DEF M
    <2>2. ASSUME NEW w PROVE SameRestBut(q, R(w))
        BY DEF ParserType, SameRestBut, Keeps
    <2>3. ASSUME NEW w
          PROVE  /\ R(w).req = M /\ R(w).header_building_state = 1
                 /\ R(w).header_value = <<>> /\ R(w).header_field = w
        BY DEF ParserType
    <2> HIDE DEF R
    <2> DEFINE w == Append(t, c)
    <2>4. SameRestBut(q, R(t)) /\ SameRestBut(q, R(w))
        BY <2>2
    <2>5. /\ R(t).req = M /\ R(t).header_building_state = 1
          /\ R(t).header_value = <<>> /\ R(t).header_field = t
        BY <2>3
    <2>6. /\ R(w).req = M /\ R(w).header_building_state = 1
          /\ R(w).header_value = <<>> /\ R(w).header_field = w
        BY <2>3
    <2>7. TellField(q, t) = R(t) /\ TellField(q, w) = R(w)
        BY <2>1
    <2> QED BY <2>4, <2>5, <2>6, <2>7 DEF SameRestBut, Keeps
<1> QED BY <1>1, <1>2

LEMMA TellValueMore ==
    ASSUME NEW q \in ParserType, NEW t \in String, NEW c \in STRING
    PROVE  LET r == TellValue(q, t)
               s == TellValue(q, Append(t, c))
           IN /\ SameRestBut(r, s) /\ s.req = r.req
              /\ s.header_building_state = r.header_building_state
              /\ s.header_field = r.header_field /\ s.header_value = Append(r.header_value, c)
<1> DEFINE V(w) == IF q.header_building_state = 1 THEN w ELSE q.header_value \o w
           R(w) == [q EXCEPT !.header_value = V(w), !.header_building_state = 0]
<1>1. ASSUME NEW w PROVE TellValue(q, w) = R(w)
    BY DEF TellValue
<1>2. V(Append(t, c)) = Append(V(t), c)
    BY JoinedMore DEF ParserType
<1> HIDE DEF V
<1>3. ASSUME NEW w PROVE SameRestBut(q, R(w))
    BY DEF ParserType, SameRestBut, Keeps
<1>4. ASSUME NEW w
      PROVE  /\ R(w).req = q.req /\ R(w).header_building_state = 0
             /\ R(w).header_value = V(w) /\ R(w).header_field = q.header_field
    BY DEF ParserType
<1> HIDE DEF R
<1> QED BY <1>1, <1>2, <1>3, <1>4 DEF SameRestBut, Keeps

LEMMA TellBodyMore ==
    ASSUME NEW q \in ParserType, NEW t \in String, NEW c \in STRING
    PROVE  LET r == TellBody(q, t)
               s == TellBody(q, Append(t, c))
           IN /\ SameRestBut(r, s) /\ s.req = [r.req EXCEPT !.body = Append(r.req.body, c)]
              /\ s.header_building_state = r.header_building_state
              /\ s.header_field = r.header_field /\ s.header_value = r.header_value
<1> DEFINE M(w) == [q.req EXCEPT !.body = q.req.body \o w]
           R(w) == [q EXCEPT !.req = M(w)]
<1>0. q.req \in ReqType
    BY DEF ParserType
<1>1. ASSUME NEW w PROVE TellBody(q, w) = R(w)
    BY DEF TellBody
<1>2. M(Append(t, c)) = [M(t) EXCEPT !.body = Append(M(t).body, c)]
    <2>1. q.req.body \o Append(t, c) = Append(q.req.body \o t, c)
        BY <1>0, JoinedMore DEF ReqType
    <2>2. M(t).body = q.req.body \o t
        BY <1>0 DEF ReqType
    <2> QED BY <2>1, <2>2, Zenon
<1> HIDE DEF M
<1>3. ASSUME NEW w PROVE SameRestBut(q, R(w))
    BY DEF ParserType, SameRestBut, Keeps
<1>4. ASSUME NEW w
      PROVE  /\ R(w).req = M(w) /\ R(w).header_building_state = q.header_building_state
             /\ R(w).header_value = q.header_value /\ R(w).header_field = q.header_field
    BY DEF ParserType
<1> HIDE DEF R
<1> QED BY <1>1, <1>2, <1>3, <1>4 DEF SameRestBut, Keeps

MarkGrows(z, m, c) == [z EXCEPT !.marks[m].text = Append(@, c)]

OnlyGrows(z, m, c) ==
    LET u == MarkGrows(z, m, c)
    IN /\ u \in ExecType /\ u.p = z.p /\ u.table = z.table /\ u.done = z.done
       /\ u.consumed = z.consumed /\ u.url_start = z.url_start
       /\ u.marks = [z.marks EXCEPT ![m].text = Append(@, c)]

\* Where both have the same mark set, and no other, they stay alike when it grows.
LEMMA TextGrows ==
    ASSUME NEW x \in ExecType, NEW y \in ExecType, Flushed(x) = Flushed(y), NEW c \in STRING,
           NEW m \in {"field", "value", "body"},
           x.marks[m].set, y.marks[m].set,
           \A k \in {"field", "value", "body"} \ {m} : ~x.marks[k].set /\ ~y.marks[k].set
    PROVE  /\ OnlyGrows(x, m, c) /\ OnlyGrows(y, m, c)
           /\ Flushed(MarkGrows(x, m, c)) = Flushed(MarkGrows(y, m, c))
<1> DEFINE G(z) == [z EXCEPT !.marks[m].text = Append(@, c)]
           T(q, t) == IF m = "field" THEN TellField(q, t)
                      ELSE IF m = "value" THEN TellValue(q, t) ELSE TellBody(q, t)
<1>0. /\ x \in ExecType /\ y \in ExecType /\ Flushed(x) = Flushed(y)
      /\ x.p \in ParserType /\ y.p \in ParserType /\ SameCore(x.p, y.p)
    BY FlushedIs, ExecParser DEF SameCore
<1>1. ASSUME NEW z \in {x, y}
      PROVE  /\ z.marks[m].text \in String /\ G(z) \in ExecType /\ G(z).p = z.p
             /\ G(z).table = z.table
             /\ G(z).done = z.done /\ G(z).consumed = z.consumed /\ G(z).url_start = z.url_start
             /\ G(z).marks = [z.marks EXCEPT ![m].text = Append(@, c)]
             /\ G(z).marks[m].text = Append(z.marks[m].text, c)
    <2>1. z.marks[m] \in MarkType /\ z \in ExecType
        BY <1>0, ExecParser
    <2> DEFINE k == [z.marks[m] EXCEPT !.text = Append(z.marks[m].text, c)]
    <2>2. z.marks[m].text \in String
        BY <2>1 DEF MarkType
    <2>3. k \in MarkType /\ k.text = Append(z.marks[m].text, c)
        BY <2>1, <2>2, OneMore DEF MarkType
    <2>4. G(z) = [z EXCEPT !.marks = [z.marks EXCEPT ![m] = k]]
        BY Zenon
    <2>5. G(z).marks = [z.marks EXCEPT ![m] = k]
        BY <2>1, <2>4 DEF ExecType
    <2>6. [z.marks EXCEPT ![m].text = Append(@, c)] = [z.marks EXCEPT ![m] = k]
        BY Zenon
    <2> HIDE DEF k
    <2>7. [z.marks EXCEPT ![m] = k][m] = k
        BY <2>1 DEF ExecType
    <2>8. /\ G(z) \in ExecType /\ G(z).p = z.p /\ G(z).table = z.table
          /\ G(z).done = z.done /\ G(z).consumed = z.consumed /\ G(z).url_start = z.url_start
        <3> HIDE DEF G
        <3> QED BY <2>1, <2>3, <2>4 DEF ExecType
    <2> HIDE DEF G
    <2> QED BY <2>2, <2>3, <2>5, <2>6, <2>7, <2>8
<1>2. ASSUME NEW z \in {x, y}
      PROVE  /\ Flushed(z) = T(z.p, z.marks[m].text)
             /\ Flushed(G(z)) = T(z.p, Append(z.marks[m].text, c))
    <2>1. Flushed(z) = Told(z.p, z.marks) /\ Flushed(G(z)) = Told(z.p, G(z).marks)
        <3> HIDE DEF G
        <3> QED BY <1>0, <1>1, FlushedTold
    <2>2. \A k \in {"field", "value", "body"} : G(z).marks[k].set = z.marks[k].set
        <3>1. z.marks[m] \in MarkType /\ z \in ExecType
            BY <1>0, ExecParser
        <3> QED BY <1>1, <3>1 DEF ExecType, MarkType
    <2>3. G(z).marks[m].text = Append(z.marks[m].text, c)
        BY <1>1
    <2> HIDE DEF G
    <2>4. CASE m = "field"
        BY <2>1, <2>2, <2>3, <2>4 DEF Told, ToldField, ToldValue, ToldBody
    <2>5. CASE m = "value"
        BY <2>1, <2>2, <2>3, <2>5 DEF Told, ToldField, ToldValue, ToldBody
    <2>6. CASE m = "body"
        BY <2>1, <2>2, <2>3, <2>6 DEF Told, ToldField, ToldValue, ToldBody
    <2> QED BY <2>4, <2>5, <2>6
<1>3. SameRest(Flushed(G(x)), Flushed(G(y)))
    <2>1. ASSUME NEW z \in {x, y}
          PROVE  LET r == T(z.p, z.marks[m].text)
                     s == T(z.p, Append(z.marks[m].text, c))
                 IN /\ SameRestBut(r, s)
                    /\ s.req = IF m = "body" THEN [r.req EXCEPT !.body = Append(r.req.body, c)]
                               ELSE r.req
                    /\ s.header_building_state = r.header_building_state
                    /\ s.header_field = IF m = "field" THEN Append(r.header_field, c)
                                        ELSE r.header_field
                    /\ s.header_value = IF m = "value" THEN Append(r.header_value, c)
                                        ELSE r.header_value
        <3>1. z.p \in ParserType /\ z.marks[m].text \in String
            BY <1>0, <1>1
        <3> HIDE DEF G
        <3>2. CASE m = "field"
            BY <3>1, <3>2, TellFieldMore
        <3>3. CASE m = "value"
            BY <3>1, <3>3, TellValueMore
        <3>4. CASE m = "body"
            BY <3>1, <3>4, TellBodyMore, ZenonT(40)
        <3> QED BY <3>2, <3>3, <3>4
    <2> DEFINE r == T(x.p, x.marks[m].text)
               s == T(x.p, Append(x.marks[m].text, c))
               v == T(y.p, Append(y.marks[m].text, c))
    <2> HIDE DEF G
    <2>2. T(y.p, y.marks[m].text) = r /\ Flushed(G(x)) = s /\ Flushed(G(y)) = v
        BY <1>0, <1>2
    <2>3. /\ SameRestBut(r, s)
          /\ s.req = IF m = "body" THEN [r.req EXCEPT !.body = Append(r.req.body, c)] ELSE r.req
          /\ s.header_building_state = r.header_building_state
          /\ s.header_field = IF m = "field" THEN Append(r.header_field, c) ELSE r.header_field
          /\ s.header_value = IF m = "value" THEN Append(r.header_value, c) ELSE r.header_value
        BY <2>1
    <2> DEFINE w == T(y.p, y.marks[m].text)
    <2>4. /\ SameRestBut(w, v)
          /\ v.req = IF m = "body" THEN [w.req EXCEPT !.body = Append(w.req.body, c)] ELSE w.req
          /\ v.header_building_state = w.header_building_state
          /\ v.header_field = IF m = "field" THEN Append(w.header_field, c) ELSE w.header_field
          /\ v.header_value = IF m = "value" THEN Append(w.header_value, c) ELSE w.header_value
        BY <2>1
    <2> HIDE DEF r, s, v, w
    <2>5. w = r
        BY <2>2 DEF w
    <2>6. SameRest(s, v)
        BY <2>3, <2>4, <2>5 DEF SameRest, SameRestBut, Keeps
    <2> QED BY <2>2, <2>6
<1>4. Flushed(G(x)) \in ParserType /\ SameCore(Flushed(G(x)), x.p)
    <2> HIDE DEF G
    <2> QED BY <1>1, FlushedIs
<1>5. Flushed(G(y)) \in ParserType /\ SameCore(Flushed(G(y)), y.p)
    <2> HIDE DEF G
    <2> QED BY <1>1, FlushedIs
<1> HIDE DEF G
<1>6. SameCore(Flushed(G(x)), Flushed(G(y)))
    BY <1>0, <1>4, <1>5 DEF SameCore
<1>7. Flushed(G(x)) = Flushed(G(y))
    BY <1>3, <1>4, <1>5, <1>6, CoreAndRest
<1>8. G(x) = MarkGrows(x, m, c) /\ G(y) = MarkGrows(y, m, c)
    BY DEF G, MarkGrows
<1>9. OnlyGrows(x, m, c)
    BY <1>1, <1>8 DEF OnlyGrows
<1>10. OnlyGrows(y, m, c)
    BY <1>1, <1>8 DEF OnlyGrows
<1> QED BY <1>7, <1>8, <1>9, <1>10

-----------------------------------------------------------------------------
(* The bytes of a body.                                                    *)

LEMMA SeqNothing ==
    ASSUME NEW S, NEW s \in Seq(S)
    PROVE  s \o <<>> = s
OBVIOUS

LEMMA TellNothing ==
    ASSUME NEW q \in ParserType
    PROVE  TellBody(q, <<>>) = q
<1>1. q.req \in ReqType
    BY DEF ParserType
<1>2. q.req.body \o <<>> = q.req.body
    BY <1>1, SeqNothing DEF ReqType, String
<1>3. [q.req EXCEPT !.body = q.req.body] = q.req
    BY <1>1 DEF ReqType
<1>4. TellBody(q, <<>>) = [q EXCEPT !.req = [q.req EXCEPT !.body = q.req.body \o <<>>]]
    BY DEF TellBody
<1>5. [q EXCEPT !.req = q.req] = q
    BY DEF ParserType
<1> QED BY <1>2, <1>3, <1>4, <1>5

\* In a body nothing else is marked.
LEMMA OnlyBody ==
    ASSUME NEW z \in ExecType, MarksFit(z), z.p.state \in BodyMarks
    PROVE  z.marks.url = NoMark /\ z.marks.field = NoMark /\ z.marks.value = NoMark
           /\ ~z.marks.field.set /\ ~z.marks.value.set
<1>1. z.p.state \notin UrlAll /\ z.p.state # "header_field" /\ z.p.state # "header_value"
    BY DEF BodyMarks, UrlAll, UrlStates
<1> QED BY <1>1 DEF MarksFit

LEMMA MarkBody ==
    ASSUME NEW z \in ExecType, MarksFit(z), z.p.state \in BodyMarks
    PROVE  LET u == Mark(z, "body")
           IN /\ u \in ExecType /\ u.p = z.p /\ u.table = z.table /\ u.done = z.done
              /\ u.consumed = z.consumed /\ u.url_start = z.url_start
              /\ u.marks.body.set /\ MarksFit(u) /\ Flushed(u) = Flushed(z)
<1> DEFINE u == Mark(z, "body")
<1>1. CASE z.marks.body.set
    <2>1. u = z
        BY <1>1 DEF Mark
    <2> HIDE DEF u
    <2>2. /\ u \in ExecType /\ u.p = z.p /\ u.table = z.table /\ u.done = z.done
          /\ u.consumed = z.consumed /\ u.url_start = z.url_start
          /\ u.marks.body.set /\ MarksFit(u) /\ Flushed(u) = Flushed(z)
        BY <1>1, <2>1
    <2> QED BY <2>2 DEF u
<1>2. CASE ~z.marks.body.set
    <2>1. u = [z EXCEPT !.marks["body"] = Marked]
        BY <1>2 DEF Mark
    <2> HIDE DEF u
    <2>2. /\ u \in ExecType /\ u.p = z.p /\ u.table = z.table /\ u.done = z.done
          /\ u.consumed = z.consumed /\ u.url_start = z.url_start
          /\ u.marks.body = Marked /\ u.marks.url = z.marks.url /\ u.marks.field = z.marks.field
          /\ u.marks.value = z.marks.value
        BY <2>1, NoMarkType DEF ExecType
    <2>3. Marked.set /\ Marked.text = <<>>
        BY DEF Marked
    <2>4. MarksFit(u)
        BY <2>2, <2>3 DEF MarksFit
    <2>5. Flushed(u) = Told(z.p, u.marks) /\ Flushed(z) = Told(z.p, z.marks)
        BY <2>2, FlushedTold
    <2>6. Told(z.p, u.marks) = TellBody(z.p, <<>>) /\ Told(z.p, z.marks) = z.p
        BY <1>2, <2>2, <2>3, OnlyBody DEF Told, ToldField, ToldValue, ToldBody
    <2>7. TellBody(z.p, <<>>) = z.p
        BY TellNothing, ExecParser
    <2>8. u.marks.body.set /\ Flushed(u) = Flushed(z)
        BY <2>2, <2>3, <2>5, <2>6, <2>7
    <2> QED BY <2>2, <2>4, <2>8 DEF u
<1> QED BY <1>1, <1>2

LEMMA BodyMarked ==
    ASSUME NEW x, NEW y, NEW l, TextAt(x, y, l), x.p.state \in BodyMarks
    PROVE  LET u == Mark(x, "body")
               v == Mark(y, "body")
           IN /\ TextAt(u, v, l) /\ u.p = x.p /\ v.p = y.p /\ Keeps(x.p, u.p)
              /\ u.marks.body.set /\ v.marks.body.set
<1> DEFINE u == Mark(x, "body")
           v == Mark(y, "body")
<1>0. /\ x \in ExecType /\ y \in ExecType /\ MarksFit(x) /\ MarksFit(y) /\ y.p.state \in BodyMarks
    BY TextParts DEF TextAt, SameCore
<1>1. /\ u \in ExecType /\ u.p = x.p /\ u.table = x.table /\ u.done = x.done
      /\ u.consumed = x.consumed /\ u.url_start = x.url_start
      /\ u.marks.body.set /\ MarksFit(u) /\ Flushed(u) = Flushed(x)
    BY <1>0, MarkBody
<1>2. /\ v \in ExecType /\ v.p = y.p /\ v.table = y.table /\ v.done = y.done
      /\ v.consumed = y.consumed /\ v.url_start = y.url_start
      /\ v.marks.body.set /\ MarksFit(v) /\ Flushed(v) = Flushed(y)
    BY <1>0, MarkBody
<1> HIDE DEF u, v
<1>3. Comparable(u, v, l)
    BY <1>1, <1>2 DEF TextAt, Comparable
<1>4. TextAt(u, v, l)
    BY <1>1, <1>2, <1>3 DEF TextAt
<1> QED BY <1>1, <1>2, <1>4 DEF u, v, Keeps

\* The length that is still to come, and the state.
Counted(q, k, s) == [q EXCEPT !.content_length = k, !.state = s]

LEMMA CountedIs ==
    ASSUME NEW q \in ParserType, NEW k \in 0 .. NoLength, NEW s \in States
    PROVE  /\ Counted(q, k, s) \in ParserType /\ SameRest(q, Counted(q, k, s))
           /\ Counted(q, k, s).state = s /\ Counted(q, k, s).content_length = k
           /\ Counted(q, k, s).nread = q.nread
<1>1. Counted(q, k, s) \in ParserType
    BY DEF Counted, ParserType
<1>2. SameRest(q, Counted(q, k, s))
    BY DEF Counted, ParserType, SameRest, Keeps
<1>3. /\ Counted(q, k, s).state = s /\ Counted(q, k, s).content_length = k
      /\ Counted(q, k, s).nread = q.nread
    BY DEF Counted, ParserType
<1> QED BY <1>1, <1>2, <1>3

LEMMA CountedCore ==
    ASSUME NEW q \in ParserType, NEW r \in ParserType, SameCore(q, r), NEW k, NEW s
    PROVE  SameCore(Counted(q, k, s), Counted(r, k, s))
BY DEF Counted, ParserType, SameCore

\* A byte that is not the last of the body or of the chunk.
LEMMA BodyGoes ==
    ASSUME NEW x, NEW y, NEW l, TextAt(x, y, l), x.p.state \in BodyMarks,
           NEW k \in 0 .. NoLength, NEW s \in BodyMarks,
           s = "body_identity" => k \notin {0, NoLength}, s = "chunk_data" => k # 0
    PROVE  Result(x, y, [Mark(x, "body") EXCEPT !.p = Counted(x.p, k, s)],
                        [Mark(y, "body") EXCEPT !.p = Counted(y.p, k, s)], l)
<1> DEFINE u == Mark(x, "body")
           v == Mark(y, "body")
           q == Counted(x.p, k, s)
           r == Counted(y.p, k, s)
<1>0. /\ TextAt(u, v, l) /\ u.p = x.p /\ v.p = y.p /\ Keeps(x.p, u.p)
      /\ u.marks.body.set /\ v.marks.body.set
    BY BodyMarked
<1> HIDE DEF u, v
<1>1. x.p \in ParserType /\ y.p \in ParserType /\ SameCore(x.p, y.p) /\ Sound(x.p)
    BY TextParts DEF TextAt
<1>2. s \in States /\ s # "dead" /\ s \notin {"header_value", "header_almost_done", "header_value_lws"}
    BY DEF BodyMarks, States
<1>3. q \in ParserType /\ SameRest(x.p, q) /\ q.state = s /\ q.content_length = k /\ q.nread = x.p.nread
    BY <1>1, <1>2, CountedIs
<1>4. r \in ParserType /\ SameRest(y.p, r)
    BY <1>1, <1>2, CountedIs
<1>5. SameCore(q, r)
    BY <1>1, CountedCore
<1> HIDE DEF q, r
<1>6. Sound(q)
    BY <1>1, <1>2, <1>3 DEF Sound
<1>7. {q.state, u.p.state} \subseteq BodyMarks
    BY <1>0, <1>3
<1>8. Result(u, v, [u EXCEPT !.p = q], [v EXCEPT !.p = r], l)
    BY <1>0, <1>3, <1>4, <1>5, <1>6, <1>7, TextGoes
<1>9. Result(x, y, [u EXCEPT !.p = q], [v EXCEPT !.p = r], l)
    BY <1>0, <1>8, ResultOn
<1> QED BY <1>9 DEF u, v, q, r

\* What has been read of a body grows by a byte.
LEMMA BodyGrows ==
    ASSUME NEW x, NEW y, NEW l, TextAt(x, y, l), x.p.state \in BodyMarks,
           x.marks.body.set, y.marks.body.set, NEW c \in STRING
    PROVE  LET G(z) == [z EXCEPT !.marks["body"].text = Append(@, c)]
           IN /\ TextAt(G(x), G(y), l) /\ G(x).p = x.p /\ G(y).p = y.p
              /\ G(x).marks.body.set /\ G(y).marks.body.set
<1> DEFINE G(z) == [z EXCEPT !.marks["body"].text = Append(@, c)]
<1>0. /\ x \in ExecType /\ y \in ExecType /\ MarksFit(x) /\ MarksFit(y) /\ y.p.state \in BodyMarks
      /\ Flushed(x) = Flushed(y)
    BY TextParts DEF TextAt, SameCore
<1>1. ASSUME NEW z \in {x, y}
      PROVE  z.marks.url = NoMark /\ z.marks.field = NoMark /\ z.marks.value = NoMark
             /\ ~z.marks.field.set /\ ~z.marks.value.set
    BY <1>0, OnlyBody
<1>2. \A k \in {"field", "value", "body"} \ {"body"} : ~x.marks[k].set /\ ~y.marks[k].set
    <2>1. ASSUME NEW k \in {"field", "value", "body"} \ {"body"}
          PROVE  ~x.marks[k].set /\ ~y.marks[k].set
        <3>1. k = "field" \/ k = "value"
            OBVIOUS
        <3>2. CASE k = "field"
            BY <1>1, <3>2
        <3>3. CASE k = "value"
            BY <1>1, <3>3
        <3> QED BY <3>1, <3>2, <3>3
    <2> QED BY <2>1
<1>3. /\ \A z \in {x, y} :
            /\ G(z) \in ExecType /\ G(z).p = z.p /\ G(z).table = z.table
            /\ G(z).done = z.done /\ G(z).consumed = z.consumed
            /\ G(z).url_start = z.url_start
            /\ G(z).marks = [z.marks EXCEPT !["body"].text = Append(@, c)]
      /\ Flushed(G(x)) = Flushed(G(y))
    <2>1. "body" \in {"field", "value", "body"} /\ x.marks["body"].set /\ y.marks["body"].set
        OBVIOUS
    <2>2. \A z \in {x, y} : G(z) = MarkGrows(z, "body", c)
        BY DEF MarkGrows
    <2> HIDE DEF G
    <2>3. /\ OnlyGrows(x, "body", c) /\ OnlyGrows(y, "body", c)
          /\ Flushed(MarkGrows(x, "body", c)) = Flushed(MarkGrows(y, "body", c))
        BY <1>0, <1>2, <2>1, TextGrows
    <2>4. ASSUME NEW z \in {x, y}
          PROVE  /\ G(z) \in ExecType /\ G(z).p = z.p /\ G(z).table = z.table
                 /\ G(z).done = z.done /\ G(z).consumed = z.consumed
                 /\ G(z).url_start = z.url_start
                 /\ G(z).marks = [z.marks EXCEPT !["body"].text = Append(@, c)]
        <3>1. OnlyGrows(z, "body", c) /\ G(z) = MarkGrows(z, "body", c)
            BY <2>2, <2>3
        <3> QED BY <3>1 DEF OnlyGrows
    <2>5. Flushed(G(x)) = Flushed(G(y))
        BY <2>2, <2>3
    <2> QED BY <2>4, <2>5
<1>4. ASSUME NEW z \in {x, y}
      PROVE  /\ G(z).marks.url = z.marks.url /\ G(z).marks.field = z.marks.field
             /\ G(z).marks.value = z.marks.value /\ G(z).marks.body.set
    <2>1. z \in ExecType /\ z.marks.body \in MarkType /\ z.marks.body.set
        BY <1>0, ExecParser
    <2>2. G(z).marks = [z.marks EXCEPT !["body"].text = Append(@, c)]
        BY <1>3
    <2> HIDE DEF G
    <2> QED BY <2>1, <2>2 DEF ExecType, MarkType
<1> HIDE DEF G
<1>5. MarksFit(G(x)) /\ MarksFit(G(y))
    <2>1. ASSUME NEW z \in {x, y} PROVE MarksFit(G(z))
        <3>1. z.p.state \in BodyMarks /\ MarksFit(z) /\ G(z).p = z.p
            BY <1>0, <1>3
        <3> QED BY <1>4, <3>1 DEF MarksFit
    <2> QED BY <2>1
<1>6. Comparable(G(x), G(y), l)
    BY <1>3 DEF TextAt, Comparable
<1>7. TextAt(G(x), G(y), l)
    BY <1>3, <1>5, <1>6 DEF TextAt
<1> QED BY <1>3, <1>4, <1>7 DEF G

\* The last byte of a body: it is told, and the message is done.
LEMMA BodyEndsAll ==
    ASSUME NEW x, NEW y, NEW l, TextAt(x, y, l), x.p.state \in BodyMarks, NEW k \in 0 .. NoLength,
           NEW c \in STRING
    PROVE  LET A(z) == [[Mark(z, "body") EXCEPT !.marks["body"].text = Append(@, c)]
                           EXCEPT !.p = Counted(z.p, k, "message_done")]
               u == BodyCallback(A(x))
               v == BodyCallback(A(y))
           IN BareAt(u, v, l) /\ Keeps(x.p, u.p) /\ u.p.state = "message_done"
<1> DEFINE X == Mark(x, "body")
           Y == Mark(y, "body")
           G(z) == [z EXCEPT !.marks["body"].text = Append(@, c)]
           q == Counted(x.p, k, "message_done")
           r == Counted(y.p, k, "message_done")
           a == [G(X) EXCEPT !.p = q]
           b == [G(Y) EXCEPT !.p = r]
           u == BodyCallback(a)
           v == BodyCallback(b)
<1>0. x.p \in ParserType /\ y.p \in ParserType /\ SameCore(x.p, y.p) /\ Sound(x.p)
    BY TextParts DEF TextAt
<1>1. /\ TextAt(X, Y, l) /\ X.p = x.p /\ Y.p = y.p
      /\ X.marks.body.set /\ Y.marks.body.set
    BY BodyMarked
<1> HIDE DEF X, Y
<1>2. /\ TextAt(G(X), G(Y), l) /\ G(X).p = x.p /\ G(Y).p = y.p
      /\ G(X).marks.body.set /\ G(Y).marks.body.set
    BY <1>1, BodyGrows
<1> HIDE DEF G
<1>3. "message_done" \in States /\ "message_done" \in PlainStates /\ "message_done" \notin BeforeUrl
    BY DEF PlainStates, States, BeforeUrl
<1>4. q \in ParserType /\ SameRest(x.p, q) /\ q.state = "message_done" /\ q.nread = x.p.nread
    BY <1>0, <1>3, CountedIs
<1>5. r \in ParserType /\ SameRest(y.p, r)
    BY <1>0, <1>3, CountedIs
<1>6. SameCore(q, r)
    BY <1>0, CountedCore
<1> HIDE DEF q, r
<1>7. Flushed(a) = Flushed(b)
    BY <1>2, <1>4, <1>5, <1>6, TextSame
<1>8. G(X) \in ExecType /\ G(Y) \in ExecType /\ MarksFit(G(X)) /\ MarksFit(G(Y))
      /\ G(X).p.state \in BodyMarks /\ G(Y).p.state \in BodyMarks
    BY <1>0, <1>2 DEF TextAt, SameCore
<1>9. a \in ExecType /\ a.p = q /\ a.marks = G(X).marks /\ a.table = G(X).table
      /\ a.done = G(X).done /\ a.consumed = G(X).consumed /\ a.url_start = G(X).url_start
    BY <1>4, <1>8, WithParser
<1>10. b \in ExecType /\ b.p = r /\ b.marks = G(Y).marks /\ b.table = G(Y).table
      /\ b.done = G(Y).done /\ b.consumed = G(Y).consumed /\ b.url_start = G(Y).url_start
    BY <1>5, <1>8, WithParser
<1> HIDE DEF a, b
<1>11. a.marks.url = NoMark /\ a.marks.field = NoMark /\ a.marks.value = NoMark /\ a.marks.body.set
    BY <1>2, <1>8, <1>9, OnlyBody
<1>12. b.marks.url = NoMark /\ b.marks.field = NoMark /\ b.marks.value = NoMark /\ b.marks.body.set
    BY <1>2, <1>8, <1>10, OnlyBody
<1>13. Flushes(a, u)
    BY <1>9, <1>11, CallbackFlushes
<1>14. Flushes(b, v)
    BY <1>10, <1>12, CallbackFlushes
<1> HIDE DEF u, v
<1>15. Keeps(x.p, q)
    BY <1>4 DEF SameRest
<1>16. Sound(q)
    BY <1>0, <1>4 DEF Sound
<1>17. BareAt(u, v, l) /\ Keeps(G(X).p, u.p) /\ SameCore(u.p, a.p)
    <2>1. a.p.state \in PlainStates /\ a.p.state \notin BeforeUrl /\ a.p.state # "chunk_size_start"
        BY <1>3, <1>4, <1>9
    <2>2. Keeps(G(X).p, a.p) /\ Sound(a.p)
        BY <1>2, <1>9, <1>15, <1>16
    <2> QED BY <1>2, <1>7, <1>9, <1>10, <1>13, <1>14, <2>1, <2>2, TextEnds
<1>18. Keeps(x.p, u.p) /\ u.p.state = "message_done"
    BY <1>2, <1>4, <1>9, <1>17 DEF SameCore
<1> QED BY <1>17, <1>18 DEF u, v, a, b, q, r, G, X, Y

\* What is marked and the parser change in either order.
LEMMA EitherOrder ==
    ASSUME NEW z \in ExecType, NEW q, NEW m
    PROVE  [[z EXCEPT !.p = q] EXCEPT !.marks = m] = [[z EXCEPT !.marks = m] EXCEPT !.p = q]
BY DEF ExecType

LEMMA BodyIdentityResult ==
    ASSUME NEW x, NEW y, NEW l, TextAt(x, y, l), x.p.state = "body_identity", NEW ch \in STRING
    PROVE  Result(x, y, BodyIdentity(x, ch), BodyIdentity(y, ch), l)
<1> DEFINE k == x.p.content_length - 1
<1>0. x.p \in ParserType /\ y.p \in ParserType /\ SameCore(x.p, y.p) /\ Sound(x.p)
      /\ x \in ExecType /\ y \in ExecType /\ MarksFit(x) /\ MarksFit(y)
    BY TextParts DEF TextAt
<1>1. x.p.content_length \in 0 .. NoLength /\ x.p.content_length \notin {0, NoLength}
      /\ y.p.content_length = x.p.content_length /\ y.p.state = x.p.state
    BY <1>0 DEF Sound, ParserType, SameCore
<1>2. k \in 0 .. NoLength /\ k # NoLength
    BY <1>1, ParserAssumption
<1>3. x.p.state \in BodyMarks /\ y.p.state \in BodyMarks
    BY <1>1 DEF BodyMarks
<1>4. ASSUME NEW z \in {x, y}
      PROVE  /\ Mark(z, "body") \in ExecType /\ Mark(z, "body").p = z.p
             /\ z.p.content_length = x.p.content_length /\ z.p \in ParserType
             /\ z.p.state = "body_identity"
    BY <1>0, <1>1, <1>3, MarkBody
<1>5. CASE k # 0
    <2>1. ASSUME NEW z \in {x, y}
          PROVE  BodyIdentity(z, ch)
                   = [Mark(z, "body") EXCEPT !.p = Counted(z.p, k, "body_identity")]
        <3> DEFINE Z == Mark(z, "body")
                   w == [Z EXCEPT !.p.content_length = @ - 1]
                   q == [z.p EXCEPT !.content_length = k]
        <3>1. Z \in ExecType /\ Z.p = z.p /\ z.p.content_length = x.p.content_length
              /\ z.p \in ParserType /\ z.p.state = "body_identity"
            BY <1>4
        <3> HIDE DEF Z
        <3>2. w = [Z EXCEPT !.p = q]
            BY <3>1
        <3>3. q = Counted(z.p, k, "body_identity")
            BY <3>1 DEF Counted, ParserType
        <3>4. q.content_length = k
            BY <3>1 DEF ParserType
        <3> HIDE DEF q, w
        <3>5. w.p = q
            BY <3>1, <3>2 DEF ExecType
        <3>6. ~BodyEnds(w.p)
            BY <1>5, <3>4, <3>5 DEF BodyEnds
        <3>7. BodyIdentity(z, ch) = w
            BY <1>1, <3>1, <3>6 DEF BodyIdentity, w, Z
        <3> QED BY <3>2, <3>3, <3>7 DEF Z
    <2>2. "body_identity" \in BodyMarks
        BY DEF BodyMarks
    <2>3. Result(x, y, [Mark(x, "body") EXCEPT !.p = Counted(x.p, k, "body_identity")],
                       [Mark(y, "body") EXCEPT !.p = Counted(y.p, k, "body_identity")], l)
        <3> HIDE DEF k
        <3> QED BY <1>2, <1>3, <1>5, <2>2, BodyGoes
    <2> QED BY <2>1, <2>3
<1>6. CASE k = 0
    <2> DEFINE A(z) == [[Mark(z, "body") EXCEPT !.marks["body"].text = Append(@, ch)]
                           EXCEPT !.p = Counted(z.p, k, "message_done")]
               u == BodyCallback(A(x))
               v == BodyCallback(A(y))
    <2>1. ASSUME NEW z \in {x, y}
          PROVE  BodyIdentity(z, ch) = OnMessageComplete(BodyCallback(A(z)))
        <3> DEFINE Z == Mark(z, "body")
                   w == [Z EXCEPT !.p.content_length = @ - 1]
                   q == [z.p EXCEPT !.content_length = k]
                   r == [q EXCEPT !.state = "message_done"]
                   m == [Z.marks EXCEPT !["body"].text = Append(@, ch)]
                   B == [To(w, "message_done") EXCEPT !.marks["body"].text = Append(@, ch)]
        <3>1. Z \in ExecType /\ Z.p = z.p /\ z.p.content_length = x.p.content_length
              /\ z.p \in ParserType /\ z.p.state = "body_identity"
            BY <1>4
        <3> HIDE DEF Z
        <3>2. w = [Z EXCEPT !.p = q]
            BY <3>1
        <3>3. r = Counted(z.p, k, "message_done")
            BY Zenon DEF Counted
        <3>4. q.content_length = k
            BY <3>1 DEF ParserType
        <3> HIDE DEF q, w
        <3>5. w.p = q
            BY <3>1, <3>2 DEF ExecType
        <3>6. BodyEnds(w.p)
            BY <1>6, <3>4, <3>5 DEF BodyEnds
        <3>7. BodyIdentity(z, ch) = OnMessageComplete(BodyCallback(B))
            BY <1>1, <3>1, <3>6 DEF BodyIdentity, w, Z
        <3>8. To(w, "message_done") = [Z EXCEPT !.p = r]
            BY <3>2, <3>5, Zenon DEF To
        <3>9. [Z EXCEPT !.p = r].marks = Z.marks
            BY <3>1 DEF ExecType
        <3>10. B = [[Z EXCEPT !.p = r] EXCEPT !.marks = m]
            BY <3>8, <3>9, Zenon
        <3>11. [[Z EXCEPT !.p = r] EXCEPT !.marks = m] = [[Z EXCEPT !.marks = m] EXCEPT !.p = r]
            BY <3>1, EitherOrder
        <3>12. A(z) = [[Z EXCEPT !.marks = m] EXCEPT !.p = r]
            BY <3>3, Zenon DEF Z
        <3> QED BY <3>7, <3>10, <3>11, <3>12
    <2>2. BareAt(u, v, l) /\ Keeps(x.p, u.p) /\ u.p.state = "message_done"
        <3> HIDE DEF k
        <3> QED BY <1>2, <1>3, BodyEndsAll
    <2> HIDE DEF u, v
    <2>3. Result(u, v, OnMessageComplete(u), OnMessageComplete(v), l)
        BY <2>2, MessageCompleteResult
    <2>4. Result(x, y, OnMessageComplete(u), OnMessageComplete(v), l)
        BY <2>2, <2>3, ResultOn
    <2> QED BY <2>1, <2>4 DEF u, v
<1> QED BY <1>5, <1>6

LEMMA ChunkDataResult ==
    ASSUME NEW x, NEW y, NEW l, TextAt(x, y, l), x.p.state = "chunk_data", NEW ch \in STRING
    PROVE  Result(x, y, ChunkData(x, ch), ChunkData(y, ch), l)
<1> DEFINE k == x.p.content_length - 1
           s == IF k = 0 THEN "chunk_data_almost_done" ELSE "chunk_data"
<1>0. x.p \in ParserType /\ y.p \in ParserType /\ SameCore(x.p, y.p) /\ Sound(x.p)
      /\ x \in ExecType /\ y \in ExecType /\ MarksFit(x) /\ MarksFit(y)
    BY TextParts DEF TextAt
<1>1. x.p.content_length \in 0 .. NoLength /\ x.p.content_length # 0
      /\ y.p.content_length = x.p.content_length /\ y.p.state = x.p.state
    BY <1>0 DEF Sound, ParserType, SameCore
<1>2. k \in 0 .. NoLength
    BY <1>1, ParserAssumption
<1>3. x.p.state \in BodyMarks /\ y.p.state \in BodyMarks /\ s \in BodyMarks
    BY <1>1 DEF BodyMarks
<1>4. ASSUME NEW z \in {x, y}
      PROVE  ChunkData(z, ch) = [Mark(z, "body") EXCEPT !.p = Counted(z.p, k, s)]
    <2> DEFINE Z == Mark(z, "body")
               w == [Z EXCEPT !.p.content_length = @ - 1]
               q == [z.p EXCEPT !.content_length = k]
    <2>1. Z \in ExecType /\ Z.p = z.p /\ z.p.content_length = x.p.content_length
          /\ z.p \in ParserType /\ z.p.state = "chunk_data"
        BY <1>0, <1>1, <1>3, MarkBody
    <2> HIDE DEF Z
    <2>2. w = [Z EXCEPT !.p = q]
        BY <2>1
    <2>3. q.content_length = k
        BY <2>1 DEF ParserType
    <2>4. [q EXCEPT !.state = s] = Counted(z.p, k, s)
        BY Zenon DEF Counted
    <2>5. s = "chunk_data" => q = [q EXCEPT !.state = s]
        BY <2>1 DEF ParserType
    <2> HIDE DEF q, w
    <2>6. w.p = q
        BY <2>1, <2>2 DEF ExecType
    <2>7. ChunkData(z, ch) = IF k = 0 THEN To(w, "chunk_data_almost_done") ELSE w
        BY <1>1, <2>1, <2>3, <2>6 DEF ChunkData, w, Z
    <2>8. To(w, "chunk_data_almost_done") = [Z EXCEPT !.p = [q EXCEPT !.state = "chunk_data_almost_done"]]
        BY <2>2, <2>6, Zenon DEF To
    <2> HIDE DEF k
    <2> QED BY <2>2, <2>4, <2>5, <2>7, <2>8 DEF Z
<1>5. Result(x, y, [Mark(x, "body") EXCEPT !.p = Counted(x.p, k, s)],
                   [Mark(y, "body") EXCEPT !.p = Counted(y.p, k, s)], l)
    <2>1. (s = "body_identity" => k \notin {0, NoLength}) /\ (s = "chunk_data" => k # 0)
        OBVIOUS
    <2> HIDE DEF k, s
    <2> QED BY <1>2, <1>3, <2>1, BodyGoes
<1> QED BY <1>4, <1>5

LEMMA ChunkDataAlmostDoneResult ==
    ASSUME NEW x, NEW y, NEW l, TextAt(x, y, l), x.p.state = "chunk_data_almost_done",
           NEW ch \in STRING
    PROVE  LET R(z) == Strict(z, ch = CR, BodyCallback(To(z, "chunk_data_done")))
           IN Result(x, y, R(x), R(y), l)
<1>1. CASE ch = CR
    <2> DEFINE s == "chunk_data_done"
               a == To(x, s)
               b == To(y, s)
               u == BodyCallback(a)
               v == BodyCallback(b)
    <2>0. x.p \in ParserType /\ y.p \in ParserType /\ SameCore(x.p, y.p) /\ Sound(x.p)
        BY TextParts DEF TextAt
    <2>1. s \in States /\ s \in PlainStates /\ s \notin BeforeUrl
        BY DEF States, PlainStates, BeforeUrl
    <2>2. /\ a \in ExecType /\ b \in ExecType /\ Flushed(a) = Flushed(b) /\ Keeps(x.p, a.p)
          /\ a.table = x.table /\ a.done = x.done /\ a.consumed = x.consumed
          /\ a.url_start = x.url_start /\ a.marks = x.marks
          /\ b.table = y.table /\ b.done = y.done /\ b.consumed = y.consumed
          /\ b.url_start = y.url_start /\ b.marks = y.marks
          /\ a.p.state = s /\ a.p.nread = x.p.nread
        <3> HIDE DEF s
        <3> QED BY <2>1, TextTo
    <2> HIDE DEF a, b
    <2>3. ASSUME NEW z \in {x, y}
          PROVE  /\ z.marks.url = NoMark /\ z.marks.field = NoMark /\ z.marks.value = NoMark
                 /\ (~z.marks.body.set => z.marks.body = NoMark)
        <3>1. MarksFit(z) /\ z.p.state \in BodyMarks /\ z \in ExecType
            BY <2>0 DEF TextAt, SameCore, BodyMarks
        <3> QED BY <3>1, OnlyBody DEF MarksFit
    <2>4. Flushes(a, u) /\ Flushes(b, v)
        BY <2>2, <2>3, CallbackFlushes
    <2>5. Sound(a.p)
        BY <2>0, <2>2 DEF Sound
    <2> HIDE DEF u, v, s
    <2>6. s # "chunk_size_start"
        BY DEF s
    <2>7. Result(x, y, u, v, l)
        BY <2>1, <2>2, <2>4, <2>5, <2>6, TextEnds
    <2> QED BY <1>1, <2>7 DEF Strict, u, v, a, b, s
<1>2. CASE ch # CR
    BY <1>2, TextFails DEF Strict, Errors
<1> QED BY <1>1, <1>2

-----------------------------------------------------------------------------
(* The sizes of the chunks.                                                *)

LEMMA HexDigitIs ==
    ASSUME NEW c \in DOMAIN HexDigits
    PROVE  HexDigits[c] \in 0 .. 15
<1>1. c \in Numbers \cup ToSet(HexLetters)
    BY DEF HexDigits
<1>2. HexDigits[c] = IF IsDigit(c) THEN DigitValue(c) ELSE 9 + CHOOSE d \in 1 .. 6 : HexLetters[d] = c
    BY <1>1 DEF HexDigits
<1>3. CASE IsDigit(c)
    BY <1>2, <1>3, DigitIs
<1>4. CASE ~IsDigit(c)
    <2>1. c \notin Numbers
        BY <1>4 DEF Numbers, ToSet, IsDigit, Digits
    <2>2. c \in ToSet(HexLetters)
        BY <1>1, <2>1
    <2>3. \E d \in 1 .. 6 : HexLetters[d] = c
        BY <2>2 DEF ToSet, HexLetters
    <2> DEFINE e == CHOOSE d \in 1 .. 6 : HexLetters[d] = c
    <2>4. e \in 1 .. 6
        BY <2>3
    <2>5. HexDigits[c] = 9 + e
        BY <1>2, <1>4
    <2> HIDE DEF e
    <2> QED BY <2>4, <2>5
<1> QED BY <1>3, <1>4

LEMMA NumbersAre ==
    ASSUME NEW d \in Numbers
    PROVE  d \in {"0", "1", "2", "3", "4", "5", "6", "7", "8", "9"}
BY DEF Numbers, ToSet, Digits

LEMMA HexLettersAre ==
    ASSUME NEW d \in ToSet(HexLetters)
    PROVE  d \in {"a", "b", "c", "d", "e", "f"}
BY DEF ToSet, HexLetters

\* What ends the digits is none.
LEMMA NoHexDigit ==
    ASSUME NEW c \in {CR, SP, ";"}
    PROVE  c \notin DOMAIN HexDigits
<1>1. DOMAIN HexDigits = Numbers \cup ToSet(HexLetters)
    BY DEF HexDigits
<1>2. c \notin {"0", "1", "2", "3", "4", "5", "6", "7", "8", "9"} /\ c \notin {"a", "b", "c", "d", "e", "f"}
    BY DEF CR, SP
<1> QED BY <1>1, <1>2, NumbersAre, HexLettersAre

\* The length and the state change.
LEMMA LengthTo ==
    ASSUME NEW x, NEW y, NEW l, BareAt(x, y, l), NEW k \in 0 .. NoLength,
           NEW s \in {"chunk_size", "chunk_parameters", "chunk_size_almost_done"}
    PROVE  LET q == Counted(x.p, k, s)
           IN Result(x, y, [x EXCEPT !.p = q], [y EXCEPT !.p = q], l)
<1> DEFINE q == Counted(x.p, k, s)
<1>0. x.p \in ParserType /\ Sound(x.p)
    BY BareAtIs DEF BareAt
<1>1. /\ s \in PlainStates /\ s \in States /\ s \notin BeforeUrl /\ s # "chunk_size_start"
      /\ s \notin {"dead", "body_identity", "chunk_data", "header_value", "header_almost_done",
                   "header_value_lws"}
    BY DEF PlainStates, States, BeforeUrl
<1>2. q \in ParserType /\ SameRest(x.p, q) /\ q.state = s /\ q.nread = x.p.nread
    BY <1>0, <1>1, CountedIs
<1> HIDE DEF q
<1>3. Keeps(x.p, q)
    BY <1>2 DEF SameRest
<1>4. Sound(q)
    BY <1>0, <1>1, <1>2 DEF Sound
<1>5. LET a == [x EXCEPT !.p = q]
          b == [y EXCEPT !.p = q]
      IN Result(x, y, a, b, l)
    BY <1>1, <1>2, <1>3, <1>4, BareGoes
<1> QED BY <1>5 DEF q

LEMMA ChunkTo ==
    ASSUME NEW x, NEW y, NEW l, BareAt(x, y, l),
           NEW s \in {"chunk_size", "chunk_parameters", "chunk_size_almost_done"}
    PROVE  Result(x, y, To(x, s), To(y, s), l)
<1>1. s \in PlainStates /\ s \notin BeforeUrl /\ s # "chunk_size_start"
      /\ s \notin {"header_almost_done", "header_value_lws"}
    BY DEF PlainStates, BeforeUrl
<1> QED BY <1>1, BareTo

LEMMA ChunkSizeStartResult ==
    ASSUME NEW x, NEW y, NEW l, BareAt(x, y, l), x.p.nread = 1, NEW ch \in STRING
    PROVE  LET R(z) == IF z.p.nread # 1 THEN Error(z, "ASSERT")
                       ELSE IF ch \notin DOMAIN HexDigits THEN Error(z, "INVALID_CHUNK_SIZE")
                       ELSE To([z EXCEPT !.p.content_length = HexDigits[ch]], "chunk_size")
           IN Result(x, y, R(x), R(y), l)
<1> DEFINE R(z) == IF z.p.nread # 1 THEN Error(z, "ASSERT")
                   ELSE IF ch \notin DOMAIN HexDigits THEN Error(z, "INVALID_CHUNK_SIZE")
                   ELSE To([z EXCEPT !.p.content_length = HexDigits[ch]], "chunk_size")
<1>0. y.p = x.p
    BY BareAtIs
<1>1. CASE ch \notin DOMAIN HexDigits
    <2>1. R(x) = Error(x, "INVALID_CHUNK_SIZE") /\ R(y) = Error(y, "INVALID_CHUNK_SIZE")
        BY <1>0, <1>1
    <2> HIDE DEF R
    <2>2. Result(x, y, R(x), R(y), l)
        BY <2>1, BareAtIs, FailsAtOnce DEF Errors
    <2> QED BY <2>2 DEF R
<1>2. CASE ch \in DOMAIN HexDigits
    <2> DEFINE k == HexDigits[ch]
               q == Counted(x.p, k, "chunk_size")
    <2>1. k \in 0 .. NoLength
        BY <1>2, HexDigitIs, ParserAssumption
    <2> HIDE DEF k
    <2>2. ASSUME NEW z \in {x, y} PROVE R(z) = [z EXCEPT !.p = q]
        <3>1. z.p = x.p
            BY <1>0
        <3>2. R(z) = To([z EXCEPT !.p.content_length = k], "chunk_size")
            BY <1>2, <3>1 DEF k
        <3> QED BY <3>1, <3>2, Zenon DEF To, Counted
    <2> HIDE DEF R
    <2>3. Result(x, y, [x EXCEPT !.p = q], [y EXCEPT !.p = q], l)
        BY <2>1, LengthTo
    <2> HIDE DEF q
    <2>4. Result(x, y, R(x), R(y), l)
        BY <2>2, <2>3
    <2> QED BY <2>4 DEF R
<1> QED BY <1>1, <1>2

LEMMA ChunkSizeResult ==
    ASSUME NEW x, NEW y, NEW l, BareAt(x, y, l), x.p.state = "chunk_size", NEW ch \in STRING
    PROVE  Result(x, y, ChunkSize(x, ch), ChunkSize(y, ch), l)
<1>0. y.p = x.p /\ x.p \in ParserType /\ x.p.content_length \in 0 .. NoLength
    BY BareAtIs DEF ParserType
<1>1. CASE ch = CR
    <2>1. ch \notin DOMAIN HexDigits /\ ch \notin {";", SP}
        BY <1>1, NoHexDigit DEF CR, SP
    <2>2. ChunkSize(x, ch) = To(x, "chunk_size_almost_done")
          /\ ChunkSize(y, ch) = To(y, "chunk_size_almost_done")
        BY <1>1, <2>1 DEF ChunkSize
    <2> QED BY <2>2, ChunkTo
<1>2. CASE ch \in {";", SP}
    <2>1. ch \notin DOMAIN HexDigits /\ ch # CR
        BY <1>2, NoHexDigit DEF CR, SP
    <2>2. ChunkSize(x, ch) = To(x, "chunk_parameters") /\ ChunkSize(y, ch) = To(y, "chunk_parameters")
        BY <1>2, <2>1 DEF ChunkSize
    <2> QED BY <2>2, ChunkTo
<1>3. CASE ch \notin {CR, ";", SP} /\ ch \in DOMAIN HexDigits /\ Fits64(x.p.content_length, 16)
    <2> DEFINE k == (16 * x.p.content_length + HexDigits[ch]) % (NoLength + 1)
               q == Counted(x.p, k, "chunk_size")
               r == [x.p EXCEPT !.content_length = k]
    <2>1. k \in 0 .. NoLength
        <3>1. HexDigits[ch] \in Nat
            <4>1. HexDigits[ch] \in 0 .. 15
                BY <1>3, HexDigitIs
            <4> HIDE DEF k
            <4> QED BY <4>1
        <3> QED BY <1>0, <3>1, LengthStep
    <2>2. ASSUME NEW z \in {x, y} PROVE ChunkSize(z, ch) = [z EXCEPT !.p = r]
        <3>1. z.p = x.p
            BY <1>0
        <3>2. ChunkSize(z, ch) = [z EXCEPT !.p.content_length = k]
            BY <1>3, <3>1 DEF ChunkSize
        <3> HIDE DEF k
        <3> QED BY <3>1, <3>2, Zenon
    <2> HIDE DEF k
    <2>3. r = q
        BY <1>0 DEF Counted, ParserType
    <2>4. Result(x, y, [x EXCEPT !.p = q], [y EXCEPT !.p = q], l)
        BY <2>1, LengthTo
    <2> HIDE DEF q, r
    <2> QED BY <2>2, <2>3, <2>4
<1>4. CASE ch \notin {CR, ";", SP} /\ ch \in DOMAIN HexDigits /\ ~Fits64(x.p.content_length, 16)
    <2>1. /\ ChunkSize(x, ch) = Error(x, "INVALID_CONTENT_LENGTH")
          /\ ChunkSize(y, ch) = Error(y, "INVALID_CONTENT_LENGTH")
        BY <1>0, <1>4 DEF ChunkSize
    <2> QED BY <2>1, BareAtIs, FailsAtOnce DEF Errors
<1>5. CASE ch \notin {CR, ";", SP} /\ ch \notin DOMAIN HexDigits
    <2>1. /\ ChunkSize(x, ch) = Error(x, "INVALID_CHUNK_SIZE")
          /\ ChunkSize(y, ch) = Error(y, "INVALID_CHUNK_SIZE")
        BY <1>5 DEF ChunkSize
    <2> QED BY <2>1, BareAtIs, FailsAtOnce DEF Errors
<1> QED BY <1>1, <1>2, <1>3, <1>4, <1>5

LEMMA ChunkParametersResult ==
    ASSUME NEW x, NEW y, NEW l, BareAt(x, y, l), x.p.state = "chunk_parameters", NEW ch \in STRING
    PROVE  LET R(z) == IF ch = CR THEN To(z, "chunk_size_almost_done") ELSE z
           IN Result(x, y, R(x), R(y), l)
BY ChunkTo, BareStays

LEMMA ChunkSizeAlmostDoneResult ==
    ASSUME NEW x, NEW y, NEW l, BareAt(x, y, l), x.p.state = "chunk_size_almost_done",
           NEW ch \in STRING
    PROVE  Result(x, y, ChunkSizeAlmostDone(x, ch), ChunkSizeAlmostDone(y, ch), l)
<1> DEFINE q == [x.p EXCEPT !.nread = 0]
           a == [x EXCEPT !.p.nread = 0]
           b == [y EXCEPT !.p.nread = 0]
<1>0. y.p = x.p /\ x.p \in ParserType
    BY BareAtIs
<1>1. CASE ch # LF
    BY <1>1, BareAtIs, FailsAtOnce DEF ChunkSizeAlmostDone, Strict, Errors
<1>2. /\ BareAt(a, b, l) /\ Keeps(x.p, a.p) /\ a.p = q /\ q \in ParserType /\ Sound(q)
      /\ a = [x EXCEPT !.p = q] /\ b = [y EXCEPT !.p = q]
    BY CountAgain
<1>3. q.nread = 0 /\ q.content_length = x.p.content_length /\ q.state = "chunk_size_almost_done"
      /\ q.flags \in SUBSET Flags
    BY <1>0 DEF ParserType
<1>4. 0 <= MaxHeaderSize
    BY ParserAssumption
<1>5. CASE ch = LF /\ x.p.content_length = 0
    <2> DEFINE r == [q EXCEPT !.flags = q.flags \cup {"TRAILING"}, !.state = "header_field_start"]
    <2>1. q.flags \cup {"TRAILING"} \in SUBSET Flags /\ "header_field_start" \in States
        BY <1>3 DEF Flags, States, PlainStates
    <2>2. r \in ParserType
        BY <1>2, <2>1, Zenon DEF ParserType
    <2>3. Keeps(q, r) /\ r.state = "header_field_start" /\ r.nread = 0
        BY <1>2, <1>3 DEF ParserType, Keeps
    <2>4. Sound(r) /\ r.state \in PlainStates /\ r.state \notin BeforeUrl
        BY <1>4, <2>3 DEF Sound, PlainStates, BeforeUrl
    <2>5. ASSUME NEW z \in {x, y}
          PROVE  ChunkSizeAlmostDone(z, ch)
                   = [[z EXCEPT !.p.nread = 0] EXCEPT !.p = r]
        <3> DEFINE u == [z EXCEPT !.p.nread = 0]
        <3>1. z.p = x.p /\ z \in {x, y}
            BY <1>0
        <3>2. ChunkSizeAlmostDone(z, ch)
                = To([u EXCEPT !.p.flags = @ \cup {"TRAILING"}], "header_field_start")
            BY <1>5, <3>1 DEF ChunkSizeAlmostDone, Strict
        <3>3. u.p = q
            BY <1>0, <1>2, BareAtIs
        <3> HIDE DEF u, q
        <3>4. To([u EXCEPT !.p.flags = @ \cup {"TRAILING"}], "header_field_start") = [u EXCEPT !.p = r]
            BY <3>3, Zenon DEF To
        <3> QED BY <3>2, <3>4 DEF u
    <2> HIDE DEF r
    <2>6. Result(a, b, [a EXCEPT !.p = r], [b EXCEPT !.p = r], l)
        BY <1>2, <2>2, <2>3, <2>4, BareGoes, ZenonT(40)
    <2>7. Result(x, y, [a EXCEPT !.p = r], [b EXCEPT !.p = r], l)
        BY <1>2, <2>6, ResultOn
    <2> QED BY <2>5, <2>7
<1>6. CASE ch = LF /\ x.p.content_length # 0
    <2> DEFINE r == [q EXCEPT !.state = "chunk_data"]
    <2>1. "chunk_data" \in States
        BY DEF States, BodyMarks
    <2>2. r \in ParserType
        BY <1>2, <2>1, Zenon DEF ParserType
    <2>3. Keeps(q, r) /\ r.state = "chunk_data" /\ r.nread = 0 /\ r.content_length # 0
        BY <1>2, <1>3, <1>6 DEF ParserType, Keeps
    <2>4. Sound(r) /\ r.state \in BodyMarks
        BY <1>4, <2>3 DEF Sound, BodyMarks
    <2>5. ASSUME NEW z \in {x, y}
          PROVE  ChunkSizeAlmostDone(z, ch)
                   = [[z EXCEPT !.p.nread = 0] EXCEPT !.p = r]
        <3> DEFINE u == [z EXCEPT !.p.nread = 0]
        <3>1. z.p = x.p /\ z \in {x, y}
            BY <1>0
        <3>2. ChunkSizeAlmostDone(z, ch) = To(u, "chunk_data")
            BY <1>6, <3>1 DEF ChunkSizeAlmostDone, Strict
        <3>3. u.p = q
            BY <1>0, <1>2, BareAtIs
        <3> HIDE DEF u, q
        <3>4. To(u, "chunk_data") = [u EXCEPT !.p = r]
            BY <3>3, Zenon DEF To
        <3> QED BY <3>2, <3>4 DEF u
    <2> HIDE DEF r
    <2>6. Result(a, b, [a EXCEPT !.p = r], [b EXCEPT !.p = r], l)
        BY <1>2, <2>2, <2>3, <2>4, BareInto
    <2>7. Result(x, y, [a EXCEPT !.p = r], [b EXCEPT !.p = r], l)
        BY <1>2, <2>6, ResultOn
    <2> QED BY <2>5, <2>7
<1> QED BY <1>1, <1>5, <1>6

LEMMA ChunkDataDoneResult ==
    ASSUME NEW x, NEW y, NEW l, BareAt(x, y, l), x.p.state = "chunk_data_done", NEW ch \in STRING
    PROVE  Result(x, y, Strict(x, ch = LF, NextChunk(x)), Strict(y, ch = LF, NextChunk(y)), l)
<1> DEFINE r == [x.p EXCEPT !.nread = 0, !.state = "chunk_size_start"]
<1>0. y.p = x.p /\ x.p \in ParserType
    BY BareAtIs
<1>1. CASE ch # LF
    BY <1>1, BareAtIs, FailsAtOnce DEF Strict, Errors
<1>2. CASE ch = LF
    <2>1. 0 \in 0 .. MaxHeaderSize + 1 /\ 0 <= MaxHeaderSize /\ "chunk_size_start" \in States
        BY ParserAssumption DEF States, PlainStates
    <2>2. r \in ParserType
        BY <1>0, <2>1, Zenon DEF ParserType
    <2>3. Keeps(x.p, r) /\ r.state = "chunk_size_start" /\ r.nread = 0
        BY <1>0 DEF ParserType, Keeps
    <2>4. Sound(r) /\ r.state \in PlainStates /\ r.state \notin BeforeUrl
        BY <2>1, <2>3 DEF Sound, PlainStates, BeforeUrl
    <2>5. ASSUME NEW z \in {x, y} PROVE NextChunk(z) = [z EXCEPT !.p = r]
        <3>1. z.p = x.p
            BY <1>0
        <3> QED BY <3>1, Zenon DEF NextChunk, To
    <2> HIDE DEF r
    <2>6. Result(x, y, [x EXCEPT !.p = r], [y EXCEPT !.p = r], l)
        BY <2>2, <2>3, <2>4, BareGoes
    <2> QED BY <1>2, <2>5, <2>6 DEF Strict
<1> QED BY <1>1, <1>2

-----------------------------------------------------------------------------
(* The URL.                                                                *)

\* Two executions in which the same part of the URL is marked, and nothing else.
UrlPair(x, y, l) ==
    /\ x \in ExecType /\ y \in ExecType /\ x.table = y.table /\ ~x.done /\ ~y.done
    /\ x.p.http_errno = "OK" /\ x.p = y.p /\ Sound(x.p)
    /\ x.marks.url.set /\ x.marks.url = y.marks.url
    /\ \A z \in {x, y} : z.marks.field = NoMark /\ z.marks.value = NoMark /\ z.marks.body = NoMark
    /\ Len(x.p.handled) = l => ~x.p.message_complete
    /\ x.url_start = 0 <=> y.url_start = 0
    /\ x.url_start # 0 => x.consumed - x.url_start = y.consumed - y.url_start
    /\ Comparable(x, y, l)

LEMMA UrlStatesAre ==
    ASSUME NEW s \in UrlAll
    PROVE  /\ s \in States /\ s # "dead" /\ s \notin BeforeUrl /\ s \notin BodyMarks
           /\ s \notin {"header_field", "header_value", "header_almost_done", "header_value_lws",
                        "chunk_size_start"}
           /\ s \notin PlainStates
BY DEF UrlAll, UrlStates, States, BeforeUrl, BodyMarks, PlainStates, VersionStates

LEMMA TwinsUrl ==
    ASSUME NEW x, NEW y, NEW l, NEW n, Twins(x, y, l, n), ~x.done, x.p.state \in UrlAll,
           Comparable(x, y, l)
    PROVE  UrlPair(x, y, l)
<1>0. /\ x \in ExecType /\ y \in ExecType /\ x.table = y.table /\ x.done = y.done
      /\ x.p.http_errno = "OK" /\ Alike(x, y, l)
    BY DEF Twins
<1>1. y.p.state = x.p.state
    BY <1>0, SameParts DEF SameCore
<1>2. ASSUME NEW z \in {x, y}
      PROVE  /\ z.marks.field = NoMark /\ z.marks.value = NoMark /\ z.marks.body = NoMark
             /\ Flushed(z) = z.p
    <2>1. MarksFit(z) /\ z.p.state \in UrlAll
        BY <1>0, <1>1 DEF Alike
    <2>2. z.marks.field = NoMark /\ z.marks.value = NoMark /\ z.marks.body = NoMark
        BY <2>1, UrlStatesAre DEF MarksFit
    <2> QED BY <2>2, FlushedBare DEF NoMark
<1>3. x.p = y.p /\ x.marks.url.set
    BY <1>0, <1>2 DEF Alike, MarksFit
<1>4. Position(x, y, l) /\ Sound(x.p) /\ x.marks.url = y.marks.url
    BY <1>0 DEF Alike
<1>5. CASE Len(x.p.handled) = l
    BY <1>0, <1>2, <1>3, <1>4, <1>5 DEF UrlPair, Position
<1>6. CASE Len(x.p.handled) # l
    <2>1. x.consumed = y.consumed /\ x.url_start = y.url_start
        BY <1>6 DEF Comparable
    <2> QED BY <1>0, <1>2, <1>3, <1>4, <1>6, <2>1 DEF UrlPair
<1> QED BY <1>5, <1>6

\* The parser becomes q, in the URL.
LEMMA UrlGoes ==
    ASSUME NEW x, NEW y, NEW l, UrlPair(x, y, l), NEW q \in ParserType, Keeps(x.p, q), Sound(q),
           q.state \in UrlAll
    PROVE  Result(x, y, [x EXCEPT !.p = q], [y EXCEPT !.p = q], l)
<1> DEFINE a == [x EXCEPT !.p = q]
           b == [y EXCEPT !.p = q]
<1>1. a \in ExecType /\ a.p = q /\ a.marks = x.marks /\ a.done = x.done /\ a.table = x.table
      /\ a.consumed = x.consumed /\ a.url_start = x.url_start
    BY WithParser DEF UrlPair
<1>2. b \in ExecType /\ b.p = q /\ b.marks = y.marks /\ b.done = y.done /\ b.table = y.table
      /\ b.consumed = y.consumed /\ b.url_start = y.url_start
    BY WithParser DEF UrlPair
<1> HIDE DEF a, b
<1>3. q.http_errno = "OK" /\ q.handled = x.p.handled /\ q.message_complete = x.p.message_complete
    BY DEF UrlPair, Keeps
<1>4. ASSUME NEW z \in {a, b}
      PROVE  MarksFit(z) /\ Flushed(z) = q
    <2>1. /\ z.p = q /\ z.marks.url.set /\ z.marks.field = NoMark /\ z.marks.value = NoMark
          /\ z.marks.body = NoMark
        BY <1>1, <1>2 DEF UrlPair
    <2>2. ~NoMark.set
        BY DEF NoMark
    <2>3. MarksFit(z)
        BY <2>1, <2>2, UrlStatesAre DEF MarksFit
    <2> QED BY <2>1, <2>2, <2>3, FlushedBare
<1>5. Position(a, b, l)
    BY <1>1, <1>2, <1>3, UrlStatesAre DEF UrlPair, Position
<1>6. Alike(a, b, l)
    BY <1>1, <1>2, <1>4, <1>5 DEF UrlPair, Alike
<1>7. a.done = b.done
    BY <1>1, <1>2, ExecParser DEF UrlPair
<1>8. Twins(a, b, l, 0)
    BY <1>1, <1>2, <1>3, <1>6, <1>7, UrlStatesAre DEF UrlPair, Twins
<1>9. Follows(x.p, a.p)
    BY <1>1, <1>3 DEF Follows
<1>10. Even(a, b)
    BY <1>1, <1>2 DEF Even, UrlPair
<1> QED BY <1>8, <1>9, <1>10 DEF Result, a, b

LEMMA NextUrlStateIs ==
    ASSUME NEW s, NEW ch
    PROVE  NextUrlState(s, ch) \in UrlAll \cup {"dead"}
BY DEF NextUrlState, UrlAll, UrlStates

LEMMA UrlCharsResult ==
    ASSUME NEW x, NEW y, NEW l, UrlPair(x, y, l), NEW ch \in STRING
    PROVE  Result(x, y, UrlChars(x, ch), UrlChars(y, ch), l)
<1> DEFINE s == NextUrlState(x.p.state, ch)
           K(z) == IF ch = "?" /\ s = "req_query_string_start"
                   THEN IF z.url_start = 0 THEN Beyond ELSE z.consumed + 1 - z.url_start
                   ELSE z.p.qs_point
           k == K(x)
           q == [x.p EXCEPT !.qs_point = k, !.state = s]
<1>0. /\ x \in ExecType /\ y \in ExecType /\ x.p \in ParserType /\ y.p = x.p /\ x.table = y.table
      /\ Sound(x.p)
    BY ExecParser DEF UrlPair
<1>1. s \in UrlAll \cup {"dead"} /\ s \in States
    BY NextUrlStateIs, UrlStatesAre DEF States
<1>2. k \in Int /\ K(y) = k
    <2>1. x.consumed \in Nat /\ x.url_start \in Nat /\ y.consumed \in Nat /\ y.url_start \in Nat
          /\ x.p.qs_point \in Int
        BY <1>0 DEF ExecType, ParserType
    <2>2. K(y) = k
        <3>1. x.url_start = 0 <=> y.url_start = 0
            BY DEF UrlPair
        <3>2. CASE x.url_start = 0
            BY <1>0, <3>1, <3>2
        <3>3. CASE x.url_start # 0
            <4>1. x.consumed - x.url_start = y.consumed - y.url_start
                BY <3>3 DEF UrlPair
            <4>2. x.consumed + 1 - x.url_start = y.consumed + 1 - y.url_start
                BY <2>1, <4>1
            <4> QED BY <1>0, <3>1, <3>3, <4>2
        <3> QED BY <3>2, <3>3
    <2>3. k \in Int
        BY <2>1 DEF Beyond
    <2> QED BY <2>2, <2>3
<1>3. ASSUME NEW z \in {x, y}
      PROVE  UrlChars(z, ch) = IF s = "dead" THEN Error([z EXCEPT !.p = q], "INVALID_URL")
                               ELSE [z EXCEPT !.p = q]
    <2> DEFINE Y == IF ch = "?" /\ s = "req_query_string_start"
                    THEN [z EXCEPT !.p.qs_point =
                             IF z.url_start = 0 THEN Beyond ELSE z.consumed + 1 - z.url_start]
                    ELSE z
    <2>1. z.p = x.p /\ K(z) = k /\ z \in ExecType
        BY <1>0, <1>2
    <2>2. UrlChars(z, ch) = IF s = "dead" THEN Error(To(Y, s), "INVALID_URL") ELSE To(Y, s)
        BY <2>1 DEF UrlChars
    <2>3. To(Y, s) = [z EXCEPT !.p = q]
        <3> DEFINE r == [x.p EXCEPT !.qs_point = k]
        <3>1. Y = [z EXCEPT !.p = r]
            <4>1. CASE ch = "?" /\ s = "req_query_string_start"
                <5>1. Y = [z EXCEPT !.p.qs_point = k]
                    BY <2>1, <4>1
                <5> HIDE DEF k, s
                <5> QED BY <2>1, <5>1, Zenon
            <4>2. CASE ~(ch = "?" /\ s = "req_query_string_start")
                <5>1. k = x.p.qs_point /\ Y = z
                    BY <4>2
                <5>2. r = x.p
                    BY <1>0, <5>1 DEF ParserType
                <5> HIDE DEF r, Y
                <5> QED BY <2>1, <5>1, <5>2 DEF ExecType
            <4> QED BY <4>1, <4>2
        <3> HIDE DEF Y, k, s
        <3>2. Y.p = r
            BY <2>1, <3>1 DEF ExecType
        <3> QED BY <3>1, <3>2, Zenon DEF To
    <2> HIDE DEF q, Y, s
    <2> QED BY <2>2, <2>3
<1> HIDE DEF k, s, K
<1>4. q \in ParserType
    BY <1>0, <1>1, <1>2, Zenon DEF ParserType
<1>5. Keeps(x.p, q) /\ q.state = s /\ q.nread = x.p.nread
    BY <1>0 DEF ParserType, Keeps
<1> HIDE DEF q
<1>6. CASE s = "dead"
    <2>1. Result(x, y, Error([x EXCEPT !.p = q], "INVALID_URL"),
                       Error([y EXCEPT !.p = q], "INVALID_URL"), l)
        BY <1>0, <1>4, <1>5, Fails DEF Errors
    <2> QED BY <1>3, <1>6, <2>1
<1>7. CASE s # "dead"
    <2>1. s \in UrlAll
        BY <1>1, <1>7
    <2>2. Sound(q)
        BY <1>0, <1>5, <2>1, UrlStatesAre DEF Sound, BodyMarks
    <2>3. Result(x, y, [x EXCEPT !.p = q], [y EXCEPT !.p = q], l)
        BY <1>4, <1>5, <2>1, <2>2, UrlGoes
    <2> QED BY <1>3, <1>7, <2>3
<1> QED BY <1>6, <1>7

\* The URL begins: it is marked here.
LEMMA UrlBegins ==
    ASSUME NEW x, NEW y, NEW l, BareAt(x, y, l), x.p.state \in BeforeUrl
    PROVE  LET B(z) == [Mark(z, "url") EXCEPT !.url_start = IF @ = 0 THEN z.consumed + 1 ELSE @]
           IN UrlPair(B(x), B(y), l) /\ B(x).p = x.p /\ B(y).p = x.p
<1> DEFINE M(z) == [z EXCEPT !.marks["url"] = Marked]
           S(z) == IF z.url_start = 0 THEN z.consumed + 1 ELSE z.url_start
           B(z) == [Mark(z, "url") EXCEPT !.url_start = IF @ = 0 THEN z.consumed + 1 ELSE @]
<1>0. /\ x \in ExecType /\ y \in ExecType /\ x.p \in ParserType /\ y.p = x.p /\ x.table = y.table
      /\ x.p.http_errno = "OK" /\ Bare(x) /\ Bare(y) /\ Sound(x.p) /\ Position(x, y, l)
      /\ Comparable(x, y, l)
    BY BareAtIs DEF BareAt
<1>1. ASSUME NEW z \in {x, y}
      PROVE  /\ B(z) \in ExecType /\ B(z).p = z.p /\ B(z).table = z.table /\ B(z).done = z.done
             /\ B(z).consumed = z.consumed /\ B(z).url_start = S(z)
             /\ B(z).marks.url = Marked /\ B(z).marks.field = NoMark
             /\ B(z).marks.value = NoMark /\ B(z).marks.body = NoMark
    <2>1. Mark(z, "url") = M(z)
        BY <1>0, MarkIs
    <2>2. z \in ExecType /\ NoMarks(z)
        BY <1>0 DEF Bare
    <2>3. /\ M(z) \in ExecType /\ M(z).p = z.p /\ M(z).table = z.table /\ M(z).done = z.done
          /\ M(z).consumed = z.consumed /\ M(z).url_start = z.url_start
          /\ M(z).marks.url = Marked /\ M(z).marks.field = NoMark
          /\ M(z).marks.value = NoMark /\ M(z).marks.body = NoMark
        BY <2>2, NoMarkType DEF ExecType, NoMarks
    <2> HIDE DEF M
    <2>4. S(z) \in Nat
        BY <2>2 DEF ExecType
    <2>5. B(z) = [M(z) EXCEPT !.url_start = S(z)]
        BY <2>1, <2>3
    <2> HIDE DEF B, S
    <2> QED BY <2>3, <2>4, <2>5 DEF ExecType
<1> HIDE DEF B
<1>2. x.consumed \in Nat /\ y.consumed \in Nat /\ x.url_start \in Nat /\ y.url_start \in Nat
    BY <1>0, ExecParser
<1>3. /\ S(x) = 0 <=> S(y) = 0
      /\ S(x) # 0 => x.consumed - S(x) = y.consumed - S(y)
      /\ Len(x.p.handled) = l => ~x.p.message_complete
    <2>1. CASE Len(x.p.handled) = l
        BY <1>0, <1>2, <2>1 DEF Position
    <2>2. CASE Len(x.p.handled) # l
        <3>1. x.consumed = y.consumed /\ x.url_start = y.url_start
            BY <1>0, <2>2 DEF Comparable
        <3> QED BY <1>2, <2>2, <3>1
    <2> QED BY <2>1, <2>2
<1>4. Comparable(B(x), B(y), l)
    <2>1. CASE Len(x.p.handled) = l
        BY <1>0, <1>1, <2>1 DEF Comparable
    <2>2. CASE Len(x.p.handled) # l
        <3>1. l = -1 /\ x.consumed = y.consumed /\ x.url_start = y.url_start
            BY <1>0, <2>2 DEF Comparable
        <3>2. S(x) = S(y)
            BY <3>1
        <3> QED BY <1>1, <3>1, <3>2 DEF Comparable
    <2> QED BY <2>1, <2>2
<1>5. Marked.set
    BY DEF Marked
<1>6. ~x.done /\ ~y.done
    BY <1>0 DEF Bare
<1> HIDE DEF S
<1>7. UrlPair(B(x), B(y), l)
    BY <1>0, <1>1, <1>3, <1>4, <1>5, <1>6 DEF UrlPair
<1> QED BY <1>0, <1>1, <1>7 DEF B

LEMMA UrlTo ==
    ASSUME NEW x, NEW y, NEW l, UrlPair(x, y, l), NEW s \in UrlAll
    PROVE  UrlPair(To(x, s), To(y, s), l) /\ Keeps(x.p, To(x, s).p)
<1> DEFINE q == [x.p EXCEPT !.state = s]
           a == [x EXCEPT !.p = q]
           b == [y EXCEPT !.p = q]
<1>0. /\ x \in ExecType /\ y \in ExecType /\ x.p \in ParserType /\ y.p = x.p /\ Sound(x.p)
    BY ExecParser DEF UrlPair
<1>1. To(x, s) = a /\ To(y, s) = b /\ q \in ParserType /\ Keeps(x.p, q)
    BY <1>0, UrlStatesAre, ToIs
<1>2. q.state = s /\ q.nread = x.p.nread
    BY <1>0 DEF ParserType
<1>3. Sound(q)
    BY <1>0, <1>2, UrlStatesAre DEF Sound, BodyMarks
<1> HIDE DEF q
<1>4. a \in ExecType /\ a.p = q /\ a.marks = x.marks /\ a.done = x.done /\ a.table = x.table
      /\ a.consumed = x.consumed /\ a.url_start = x.url_start
    BY <1>0, <1>1, WithParser
<1>5. b \in ExecType /\ b.p = q /\ b.marks = y.marks /\ b.done = y.done /\ b.table = y.table
      /\ b.consumed = y.consumed /\ b.url_start = y.url_start
    BY <1>0, <1>1, WithParser
<1> HIDE DEF a, b
<1>6. Comparable(a, b, l)
    BY <1>1, <1>4, <1>5 DEF UrlPair, Comparable, Keeps
<1>7. UrlPair(a, b, l)
    BY <1>1, <1>3, <1>4, <1>5, <1>6 DEF UrlPair, Keeps
<1> QED BY <1>1, <1>4, <1>7

LEMMA SpacesBeforeUrlResult ==
    ASSUME NEW x, NEW y, NEW l, BareAt(x, y, l), x.p.state = "req_spaces_before_url",
           NEW ch \in STRING
    PROVE  Result(x, y, SpacesBeforeUrl(x, ch), SpacesBeforeUrl(y, ch), l)
<1> DEFINE B(z) == [Mark(z, "url") EXCEPT !.url_start = IF @ = 0 THEN z.consumed + 1 ELSE @]
           u == B(x)
           v == B(y)
           s == "req_server_start"
<1>0. y.p = x.p
    BY BareAtIs
<1>1. CASE ch = SP
    BY <1>1, BareStays DEF SpacesBeforeUrl
<1>2. UrlPair(u, v, l) /\ u.p = x.p /\ v.p = x.p
    BY UrlBegins DEF BeforeUrl
<1>3. Keeps(x.p, u.p)
    BY <1>2 DEF Keeps
<1>4. CASE ch # SP /\ x.p.method = "CONNECT"
    <2>1. ASSUME NEW z \in {x, y} PROVE SpacesBeforeUrl(z, ch) = UrlChars(To(B(z), s), ch)
        BY <1>0, <1>4, Zenon DEF SpacesBeforeUrl
    <2> HIDE DEF u, v
    <2>2. UrlPair(To(u, s), To(v, s), l) /\ Keeps(u.p, To(u, s).p)
        BY <1>2, UrlTo DEF UrlAll
    <2>3. Result(To(u, s), To(v, s), UrlChars(To(u, s), ch), UrlChars(To(v, s), ch), l)
        BY <2>2, UrlCharsResult
    <2>4. Result(u, v, UrlChars(To(u, s), ch), UrlChars(To(v, s), ch), l)
        BY <2>2, <2>3, ResultOn
    <2>5. Result(x, y, UrlChars(To(u, s), ch), UrlChars(To(v, s), ch), l)
        BY <1>3, <2>4, ResultOn
    <2>6. SpacesBeforeUrl(x, ch) = UrlChars(To(u, s), ch) /\ SpacesBeforeUrl(y, ch) = UrlChars(To(v, s), ch)
        BY <2>1 DEF u, v
    <2> QED BY <2>5, <2>6
<1>5. CASE ch # SP /\ x.p.method # "CONNECT"
    <2>1. ASSUME NEW z \in {x, y} PROVE SpacesBeforeUrl(z, ch) = UrlChars(B(z), ch)
        BY <1>0, <1>5, Zenon DEF SpacesBeforeUrl
    <2>2. SpacesBeforeUrl(x, ch) = UrlChars(u, ch) /\ SpacesBeforeUrl(y, ch) = UrlChars(v, ch)
        BY <2>1
    <2> HIDE DEF u, v
    <2>3. Result(u, v, UrlChars(u, ch), UrlChars(v, ch), l)
        BY <1>2, UrlCharsResult
    <2>4. Result(x, y, UrlChars(u, ch), UrlChars(v, ch), l)
        BY <1>3, <2>3, ResultOn
    <2> QED BY <2>2, <2>4
<1> QED BY <1>1, <1>4, <1>5

LEMMA UrlFails ==
    ASSUME NEW x, NEW y, NEW l, UrlPair(x, y, l), NEW e \in Errors, e # "OK"
    PROVE  Result(x, y, Error(x, e), Error(y, e), l)
BY FailsAtOnce DEF UrlPair

LEMMA InSchemaResult ==
    ASSUME NEW x, NEW y, NEW l, UrlPair(x, y, l), NEW ch \in STRING
    PROVE  Result(x, y, InSchema(x, ch), InSchema(y, ch), l)
<1>1. CASE ch \in {SP, CR, LF}
    BY <1>1, UrlFails DEF InSchema, Errors
<1>2. CASE ch \notin {SP, CR, LF}
    BY <1>2, UrlCharsResult DEF InSchema
<1> QED BY <1>1, <1>2

-----------------------------------------------------------------------------
(* The URL is looked up.                                                   *)

LEMMA StartOfSeq ==
    ASSUME NEW S, NEW s \in Seq(S), NEW n \in Int, n < Len(s)
    PROVE  SubSeq(s, 1, n) \in Seq(S)
<1>1. CASE n \in Nat
    BY <1>1
<1>2. CASE n \notin Nat
    <2>1. SubSeq(s, 1, n) = <<>>
        BY <1>2
    <2> QED BY <2>1
<1> QED BY <1>1, <1>2

LEMMA PathOfIs ==
    ASSUME NEW q \in ParserType, NEW raw \in String
    PROVE  PathOf(q, raw) \in String
BY StartOfSeq DEF PathOf, ParserType, String

\* What the URL and the answer make of the parser.
LookedUp(t, q, text) ==
    LET raw == q.req.raw_url \o text
        url == PathOf(q, raw)
        r == [q EXCEPT !.req.raw_url = raw, !.req.url = url, !.req.url_params = UrlParams(raw)]
    IN Answered(r, RouteCode(t, r.req.method, url))

LEMMA DoneIs ==
    ASSUME NEW q \in ParserType, q.http_errno = "OK"
    PROVE  LET r == Done(q)
           IN /\ r \in ParserType /\ r.http_errno \in {"OK", "INVALID_EOF_STATE"}
              /\ r.handled = q.handled /\ r.message_complete = q.message_complete
              /\ SameCore([r EXCEPT !.http_errno = "OK"], q)
<1> DEFINE r == [q EXCEPT !.http_errno = "INVALID_EOF_STATE"]
<1>1. "INVALID_EOF_STATE" \in Errors
    BY DEF Errors
<1>2. r \in ParserType
    BY <1>1 DEF ParserType
<1>3. r.handled = q.handled /\ r.message_complete = q.message_complete
      /\ r.http_errno = "INVALID_EOF_STATE" /\ SameCore([r EXCEPT !.http_errno = "OK"], q)
    BY DEF ParserType, SameCore
<1>4. SameCore([q EXCEPT !.http_errno = "OK"], q)
    BY DEF ParserType, SameCore
<1>5. Done(q) = q \/ Done(q) = r
    BY DEF Done
<1> HIDE DEF r
<1> QED BY <1>2, <1>3, <1>4, <1>5

LEMMA LookedUpIs ==
    ASSUME NEW q \in ParserType, q.http_errno = "OK", NEW t \in DOMAIN Scripts, NEW text \in String
    PROVE  LET r == LookedUp(t, q, text)
           IN /\ r \in ParserType /\ r.http_errno \in {"OK", "INVALID_EOF_STATE"}
              /\ r.handled = q.handled /\ r.message_complete = q.message_complete
              /\ SameCore([r EXCEPT !.http_errno = "OK"], q)
<1> DEFINE raw == q.req.raw_url \o text
           url == PathOf(q, raw)
           m == [q.req EXCEPT !.raw_url = raw, !.url = url, !.url_params = UrlParams(raw)]
           r == [q EXCEPT !.req = m]
           code == RouteCode(t, r.req.method, url)
           u == [r EXCEPT !.refused = Append(@, code)]
<1>0. q.req \in ReqType /\ q.req.raw_url \in String
    BY DEF ParserType, ReqType
<1>1. raw \in String
    BY <1>0, Joined
<1> HIDE DEF raw
<1>2. url \in String
    BY <1>1, PathOfIs
<1>3. UrlParams(raw) \in QueryType
    BY <1>1 DEF QueryType
<1> HIDE DEF url
<1>4. m \in ReqType
    BY <1>0, <1>1, <1>2, <1>3, Zenon DEF ReqType
<1>5. r = [q EXCEPT !.req.raw_url = raw, !.req.url = url, !.req.url_params = UrlParams(raw)]
    BY Zenon
<1> HIDE DEF m
<1>6. /\ r \in ParserType /\ r.req = m /\ r.http_errno = "OK" /\ r.handled = q.handled
      /\ r.message_complete = q.message_complete /\ SameCore(r, q)
    BY <1>4 DEF ParserType, SameCore
<1>7. r.req.method \in MethodStrings
    BY <1>4, <1>6 DEF ReqType
<1> HIDE DEF r
<1>8. code \in CodeType
    BY <1>2, <1>7 DEF CodeType
<1> HIDE DEF code
<1>9. Append(r.refused, code) \in Seq(CodeType)
    BY <1>6, <1>8, SeqOneMore DEF ParserType
<1>10. u \in ParserType
    BY <1>6, <1>9 DEF ParserType
<1>11. u.http_errno = "OK" /\ u.handled = r.handled /\ u.message_complete = r.message_complete
       /\ SameCore(u, r)
    BY <1>6 DEF ParserType, SameCore
<1>12. LookedUp(t, q, text) = IF code = 0 THEN r ELSE Done(u)
    <2> DEFINE o == [q EXCEPT !.req.raw_url = raw, !.req.url = url, !.req.url_params = UrlParams(raw)]
    <2>1. LookedUp(t, q, text) = Answered(o, RouteCode(t, o.req.method, url))
        BY Zenon DEF LookedUp, url, raw
    <2>2. r = o
        BY <1>5
    <2> HIDE DEF o
    <2>3. LookedUp(t, q, text) = Answered(r, code)
        BY <2>1, <2>2, Zenon DEF code
    <2> QED BY <2>3, Zenon DEF Answered
<1>13. CASE code = 0
    <2>1. SameCore([r EXCEPT !.http_errno = "OK"], r)
        BY <1>6 DEF ParserType, SameCore
    <2> QED BY <1>6, <1>12, <1>13, <2>1, SameCoreThrough
<1>14. CASE code # 0
    <2> HIDE DEF u
    <2> DEFINE d == Done(u)
    <2>1. /\ d \in ParserType /\ d.http_errno \in {"OK", "INVALID_EOF_STATE"}
          /\ d.handled = u.handled /\ d.message_complete = u.message_complete
          /\ SameCore([d EXCEPT !.http_errno = "OK"], u)
        BY <1>10, <1>11, DoneIs
    <2>2. LookedUp(t, q, text) = d
        BY <1>12, <1>14
    <2> HIDE DEF d
    <2>3. SameCore([d EXCEPT !.http_errno = "OK"], q)
        BY <1>6, <1>11, <2>1, SameCoreThrough
    <2> QED BY <1>6, <1>11, <2>1, <2>2, <2>3
<1> QED BY <1>13, <1>14

\* Where the URL is told: without marks, the parser is r.
UrlTold(z, r) == [[z EXCEPT !.marks = [url |-> NoMark, field |-> NoMark, value |-> NoMark,
                                       body |-> NoMark]] EXCEPT !.p = r]

LEMMA UrlCallbackIs ==
    ASSUME NEW z \in ExecType, NEW q \in ParserType, z.marks.url.set,
           z.marks.field = NoMark, z.marks.value = NoMark, z.marks.body = NoMark
    PROVE  UrlCallback([z EXCEPT !.p = q])
             = After(UrlTold(z, LookedUp(z.table, q, z.marks.url.text)))
<1> DEFINE w == [z EXCEPT !.p = q]
           n == [w EXCEPT !.marks["url"] = NoMark]
           text == z.marks.url.text
           m == [url |-> NoMark, field |-> NoMark, value |-> NoMark, body |-> NoMark]
<1>1. w \in ExecType /\ w.p = q /\ w.marks = z.marks /\ w.table = z.table
    BY WithParser
<1>2. UrlCallback(w) = OnUrl(n, text)
    <2> HIDE DEF w
    <2> QED BY <1>1 DEF UrlCallback, Unmark
<1>3. n = [w EXCEPT !.marks = m]
    <2>1. [z.marks EXCEPT !["url"] = NoMark] = m
        BY DEF ExecType
    <2> HIDE DEF w
    <2> QED BY <1>1, <2>1, Zenon
<1>4. n.p = q /\ n.table = z.table
    <2> HIDE DEF w, m
    <2> QED BY <1>1, <1>3 DEF ExecType
<1>5. OnUrl(n, text) = After([n EXCEPT !.p = LookedUp(n.table, n.p, text)])
    <2> HIDE DEF n
    <2> QED BY Zenon DEF OnUrl, LookedUp
<1> DEFINE r == LookedUp(z.table, q, text)
<1>6. OnUrl(n, text) = After([n EXCEPT !.p = r])
    BY <1>4, <1>5
<1> HIDE DEF r, text, n
<1>7. [n EXCEPT !.p = r] = UrlTold(z, r)
    <2> HIDE DEF m
    <2>1. [[w EXCEPT !.marks = m] EXCEPT !.p = r] = [[z EXCEPT !.marks = m] EXCEPT !.p = r]
        BY Zenon
    <2> QED BY <1>3, <2>1, Zenon DEF UrlTold, m
<1> QED BY <1>2, <1>6, <1>7 DEF w, r, text

LEMMA UrlEnds ==
    ASSUME NEW x, NEW y, NEW l, UrlPair(x, y, l), NEW q \in ParserType, Keeps(x.p, q), Sound(q),
           q.state \in PlainStates, q.state \notin BeforeUrl, q.state # "chunk_size_start"
    PROVE  Result(x, y, UrlCallback([x EXCEPT !.p = q]), UrlCallback([y EXCEPT !.p = q]), l)
<1> DEFINE r == LookedUp(x.table, q, x.marks.url.text)
           a == UrlTold(x, r)
           b == UrlTold(y, r)
<1>0. /\ x \in ExecType /\ y \in ExecType /\ x.table = y.table /\ x.table \in DOMAIN Scripts
      /\ x.marks.url.text \in String /\ x.marks.url = y.marks.url /\ q.http_errno = "OK"
      /\ q.handled = x.p.handled /\ q.message_complete = x.p.message_complete
    <2>1. x \in ExecType /\ y \in ExecType /\ x.table = y.table /\ x.marks.url = y.marks.url
        BY DEF UrlPair
    <2>2. x.table \in DOMAIN Scripts /\ x.marks.url \in MarkType
        BY <2>1 DEF ExecType
    <2>3. x.marks.url.text \in String
        BY <2>2 DEF MarkType
    <2> QED BY <2>1, <2>2, <2>3 DEF UrlPair, Keeps
<1>1. UrlCallback([x EXCEPT !.p = q]) = After(a) /\ UrlCallback([y EXCEPT !.p = q]) = After(b)
    <2>1. UrlCallback([x EXCEPT !.p = q]) = After(a)
        BY UrlCallbackIs DEF UrlPair
    <2>2. UrlCallback([y EXCEPT !.p = q]) = After(UrlTold(y, LookedUp(y.table, q, y.marks.url.text)))
        BY <1>0, UrlCallbackIs DEF UrlPair
    <2> QED BY <1>0, <2>1, <2>2
<1>2. /\ r \in ParserType /\ r.http_errno \in {"OK", "INVALID_EOF_STATE"}
      /\ r.handled = q.handled /\ r.message_complete = q.message_complete
      /\ SameCore([r EXCEPT !.http_errno = "OK"], q)
    BY <1>0, LookedUpIs
<1> HIDE DEF r
<1>3. ASSUME NEW z \in {x, y}
      PROVE  LET c == UrlTold(z, r)
             IN /\ c \in ExecType /\ c.p = r /\ NoMarks(c) /\ c.table = z.table /\ c.done = z.done
                /\ c.consumed = z.consumed /\ c.url_start = z.url_start
    <2> DEFINE n == [z EXCEPT !.marks = [url |-> NoMark, field |-> NoMark, value |-> NoMark,
                                         body |-> NoMark]]
    <2>1. n \in ExecType /\ NoMarks(n) /\ n.table = z.table /\ n.done = z.done
          /\ n.consumed = z.consumed /\ n.url_start = z.url_start
        BY <1>0, NoMarkType DEF ExecType, NoMarks
    <2>2. UrlTold(z, r) = [n EXCEPT !.p = r]
        BY DEF UrlTold
    <2> HIDE DEF n
    <2>3. LET c == [n EXCEPT !.p = r]
          IN c \in ExecType /\ c.p = r /\ c.marks = n.marks /\ c.done = n.done /\ c.table = n.table
             /\ c.consumed = n.consumed /\ c.url_start = n.url_start
        BY <1>2, <2>1, WithParser
    <2> QED BY <2>1, <2>2, <2>3 DEF NoMarks
<1> HIDE DEF a, b
<1>4. /\ a \in ExecType /\ a.p = r /\ NoMarks(a) /\ a.table = x.table /\ a.done = x.done
      /\ a.consumed = x.consumed /\ a.url_start = x.url_start
    BY <1>3 DEF a
<1>5. /\ b \in ExecType /\ b.p = r /\ NoMarks(b) /\ b.table = y.table /\ b.done = y.done
      /\ b.consumed = y.consumed /\ b.url_start = y.url_start
    BY <1>3 DEF b
<1>6. CASE r.http_errno = "OK"
    <2>1. After(a) = a /\ After(b) = b
        BY <1>4, <1>5, <1>6 DEF After
    <2>2. [r EXCEPT !.http_errno = "OK"] = r
        BY <1>2, <1>6 DEF ParserType
    <2>3. SameCore(r, q)
        BY <1>2, <2>2
    <2>4. Sound(r) /\ r.state = q.state /\ Keeps(x.p, r)
        BY <1>0, <1>2, <1>6, <2>3 DEF SameCore, Sound, Keeps, UrlPair
    <2>5. Bare(a) /\ Bare(b)
        BY <1>4, <1>5, <1>6 DEF Bare, UrlPair
    <2>6. Result(x, y, a, b, l)
        BY <1>0, <1>4, <1>5, <2>4, <2>5, BareNext DEF UrlPair
    <2> QED BY <1>1, <2>1, <2>6
<1>7. CASE r.http_errno # "OK"
    <2> DEFINE u == [a EXCEPT !.done = TRUE]
               v == [b EXCEPT !.done = TRUE]
    <2>1. After(a) = u /\ After(b) = v
        BY <1>4, <1>5, <1>7 DEF After
    <2>2. u \in ExecType /\ u.p = r /\ u.done = TRUE /\ u.table = x.table
        BY <1>4 DEF ExecType
    <2>3. v \in ExecType /\ v.p = r /\ v.done = TRUE /\ v.table = y.table
        BY <1>5 DEF ExecType
    <2> HIDE DEF u, v
    <2>4. Twins(u, v, l, 0)
        BY <1>0, <1>7, <2>2, <2>3 DEF Twins
    <2>5. Follows(x.p, u.p)
        BY <1>0, <1>2, <2>2 DEF Follows
    <2>6. Even(u, v)
        BY <1>7, <2>2 DEF Even
    <2> QED BY <1>1, <2>1, <2>4, <2>5, <2>6 DEF Result
<1> QED BY <1>6, <1>7

LEMMA InUrlResult ==
    ASSUME NEW x, NEW y, NEW l, UrlPair(x, y, l), NEW ch \in STRING
    PROVE  Result(x, y, InUrl(x, ch), InUrl(y, ch), l)
<1>0. /\ x \in ExecType /\ y \in ExecType /\ x.table = y.table /\ x.p \in ParserType /\ y.p = x.p
      /\ Sound(x.p)
    BY ExecParser DEF UrlPair
<1>1. CASE ch \notin {SP, CR, LF}
    <2>1. InUrl(x, ch) = UrlChars(x, ch) /\ InUrl(y, ch) = UrlChars(y, ch)
        BY <1>1 DEF InUrl
    <2> QED BY <2>1, UrlCharsResult
<1>2. CASE ch \in {CR, LF} /\ x.p.method # "GET"
    <2>1. /\ InUrl(x, ch) = Error(To(x, "dead"), "INVALID_VERSION")
          /\ InUrl(y, ch) = Error(To(y, "dead"), "INVALID_VERSION")
        BY <1>0, <1>2 DEF InUrl
    <2> DEFINE q == [x.p EXCEPT !.state = "dead"]
    <2>2. "dead" \in States
        BY DEF States
    <2>3. To(x, "dead") = [x EXCEPT !.p = q] /\ To(y, "dead") = [y EXCEPT !.p = q]
          /\ q \in ParserType /\ Keeps(x.p, q)
        BY <1>0, <2>2, ToIs
    <2> HIDE DEF q
    <2>4. Result(x, y, Error([x EXCEPT !.p = q], "INVALID_VERSION"),
                       Error([y EXCEPT !.p = q], "INVALID_VERSION"), l)
        BY <1>0, <2>3, Fails DEF Errors
    <2> QED BY <2>1, <2>3, <2>4
<1>3. CASE ch \in {SP, CR, LF} /\ ~(ch \in {CR, LF} /\ x.p.method # "GET")
    <2> DEFINE s == IF ch = SP THEN "req_http_start"
                    ELSE IF ch = CR THEN "req_line_almost_done" ELSE "header_field_start"
               e == IF ch = SP THEN x.p.version ELSE <<0, 9>>
               q == [x.p EXCEPT !.version = e, !.state = s]
    <2>1. ASSUME NEW z \in {x, y}
          PROVE  InUrl(z, ch) = UrlCallback([z EXCEPT !.p = q])
        <3>1. z.p = x.p
            BY <1>0
        <3>2. CASE ch = SP
            <4>1. InUrl(z, ch) = UrlCallback(To(z, "req_http_start"))
                BY <1>3, <3>1, <3>2 DEF InUrl, SP, CR, LF
            <4>2. To(z, "req_http_start") = [z EXCEPT !.p = [x.p EXCEPT !.state = "req_http_start"]]
                BY <3>1, Zenon DEF To
            <4>3. s = "req_http_start" /\ e = x.p.version
                BY <3>2
            <4>4. [x.p EXCEPT !.version = x.p.version, !.state = "req_http_start"]
                    = [x.p EXCEPT !.state = "req_http_start"]
                BY <1>0 DEF ParserType
            <4> HIDE DEF s, e
            <4> QED BY <4>1, <4>2, <4>3, <4>4
        <3>3. CASE ch # SP
            <4>1. InUrl(z, ch) = UrlCallback(To([z EXCEPT !.p.version = e], s))
                BY <1>3, <3>1, <3>3 DEF InUrl
            <4> HIDE DEF s, e
            <4>2. To([z EXCEPT !.p.version = e], s) = [z EXCEPT !.p = q]
                BY <3>1, Zenon DEF To
            <4> QED BY <4>1, <4>2
        <3> QED BY <3>2, <3>3
    <2>2. /\ s \in PlainStates /\ s \in States /\ s \notin BeforeUrl /\ s # "chunk_size_start"
          /\ s \notin {"dead", "body_identity", "chunk_data", "header_value",
                       "header_almost_done", "header_value_lws"}
        BY DEF PlainStates, VersionStates, States, BeforeUrl
    <2>3. e \in (0 .. 9) \X (0 .. 9)
        BY <1>0 DEF ParserType
    <2> HIDE DEF s, e
    <2>4. q \in ParserType
        BY <1>0, <2>2, <2>3, Zenon DEF ParserType
    <2>5. Keeps(x.p, q) /\ q.state = s /\ q.nread = x.p.nread
        BY <1>0 DEF ParserType, Keeps
    <2>6. Sound(q)
        BY <1>0, <2>2, <2>5 DEF Sound
    <2> HIDE DEF q
    <2>7. Result(x, y, UrlCallback([x EXCEPT !.p = q]), UrlCallback([y EXCEPT !.p = q]), l)
        BY <2>2, <2>4, <2>5, <2>6, UrlEnds
    <2> QED BY <2>1, <2>7
<1> QED BY <1>1, <1>2, <1>3

-----------------------------------------------------------------------------
(* The end of a turn: what is marked has grown.                            *)

\* The end of a turn: what is marked has grown.
Grow(a, ch) ==
    [a EXCEPT !.consumed = @ + 1,
              !.marks = [url |-> Grown(@.url, ch), field |-> Grown(@.field, ch),
                         value |-> Grown(@.value, ch), body |-> Grown(@.body, ch)]]

LEMMA GrownIs ==
    ASSUME NEW m \in MarkType, NEW ch \in STRING
    PROVE  /\ Grown(m, ch) \in MarkType /\ Grown(m, ch).set = m.set
           /\ ~m.set => Grown(m, ch) = m
           /\ m.set => Grown(m, ch) = [m EXCEPT !.text = Append(@, ch)]
<1>1. m.text \in String
    BY DEF MarkType
<1>2. Append(m.text, ch) \in String
    BY <1>1, OneMore
<1> QED BY <1>2 DEF Grown, MarkType

LEMMA GrowIs ==
    ASSUME NEW a \in ExecType, NEW ch \in STRING
    PROVE  LET u == Grow(a, ch)
           IN /\ u \in ExecType /\ u.p = a.p /\ u.table = a.table /\ u.done = a.done
              /\ u.consumed = a.consumed + 1 /\ u.url_start = a.url_start
              /\ u.marks = [url |-> Grown(a.marks.url, ch), field |-> Grown(a.marks.field, ch),
                            value |-> Grown(a.marks.value, ch), body |-> Grown(a.marks.body, ch)]
<1> DEFINE m == [url |-> Grown(a.marks.url, ch), field |-> Grown(a.marks.field, ch),
                 value |-> Grown(a.marks.value, ch), body |-> Grown(a.marks.body, ch)]
           u == [a EXCEPT !.consumed = a.consumed + 1, !.marks = m]
<1>1. m \in [url : MarkType, field : MarkType, value : MarkType, body : MarkType]
    BY ExecParser, GrownIs
<1>2. Grow(a, ch) = u
    BY DEF Grow
<1> HIDE DEF m
<1>3. a.consumed + 1 \in Nat
    BY ExecParser
<1>4. /\ u \in ExecType /\ u.p = a.p /\ u.table = a.table /\ u.done = a.done
      /\ u.consumed = a.consumed + 1 /\ u.url_start = a.url_start /\ u.marks = m
    BY <1>1, <1>3 DEF ExecType
<1> HIDE DEF u
<1> QED BY <1>2, <1>4 DEF m

LEMMA GrowFits ==
    ASSUME NEW a \in ExecType, NEW ch \in STRING, MarksFit(a)
    PROVE  MarksFit(Grow(a, ch))
<1> DEFINE u == Grow(a, ch)
<1>1. /\ u.p = a.p
      /\ u.marks = [url |-> Grown(a.marks.url, ch), field |-> Grown(a.marks.field, ch),
                    value |-> Grown(a.marks.value, ch), body |-> Grown(a.marks.body, ch)]
    BY GrowIs
<1> HIDE DEF u
<1>2. /\ u.marks.url.set = a.marks.url.set /\ (~a.marks.url.set => u.marks.url = a.marks.url)
      /\ u.marks.field.set = a.marks.field.set /\ (~a.marks.field.set => u.marks.field = a.marks.field)
      /\ u.marks.value.set = a.marks.value.set /\ (~a.marks.value.set => u.marks.value = a.marks.value)
      /\ u.marks.body.set = a.marks.body.set /\ (~a.marks.body.set => u.marks.body = a.marks.body)
    BY <1>1, ExecParser, GrownIs
<1>3. MarksFit(u)
    BY <1>1, <1>2 DEF MarksFit
<1> QED BY <1>3 DEF u

\* With m alone marked of a header and of a body, the growth is that of m.
LEMMA GrowOne ==
    ASSUME NEW a \in ExecType, NEW ch \in STRING, NEW m \in {"field", "value", "body"},
           a.marks[m].set, ~a.marks.url.set,
           \A k \in {"field", "value", "body"} \ {m} : ~a.marks[k].set,
           OnlyGrows(a, m, ch)
    PROVE  Flushed(Grow(a, ch)) = Flushed(MarkGrows(a, m, ch))
<1> DEFINE u == Grow(a, ch)
           v == MarkGrows(a, m, ch)
<1>1. /\ u.p = a.p /\ u \in ExecType
      /\ u.marks = [url |-> Grown(a.marks.url, ch), field |-> Grown(a.marks.field, ch),
                    value |-> Grown(a.marks.value, ch), body |-> Grown(a.marks.body, ch)]
    BY GrowIs
<1>2. v \in ExecType /\ v.p = a.p /\ v.marks = [a.marks EXCEPT ![m].text = Append(@, ch)]
    BY DEF OnlyGrows
<1> HIDE DEF u, v
<1>3. /\ a.marks.url \in MarkType /\ a.marks.field \in MarkType /\ a.marks.value \in MarkType
      /\ a.marks.body \in MarkType /\ DOMAIN a.marks = {"url", "field", "value", "body"}
    BY DEF ExecType
<1>4. /\ Grown(a.marks.url, ch) = a.marks.url
      /\ Grown(a.marks.field, ch) = IF m = "field" THEN [a.marks.field EXCEPT !.text = Append(@, ch)]
                                    ELSE a.marks.field
      /\ Grown(a.marks.value, ch) = IF m = "value" THEN [a.marks.value EXCEPT !.text = Append(@, ch)]
                                    ELSE a.marks.value
      /\ Grown(a.marks.body, ch) = IF m = "body" THEN [a.marks.body EXCEPT !.text = Append(@, ch)]
                                    ELSE a.marks.body
    BY <1>3, GrownIs, ZenonT(40)
<1>5. u.marks.field = v.marks.field /\ u.marks.value = v.marks.value /\ u.marks.body = v.marks.body
    <2>1. CASE m = "field"
        BY <1>1, <1>2, <1>3, <1>4, <2>1
    <2>2. CASE m = "value"
        BY <1>1, <1>2, <1>3, <1>4, <2>2
    <2>3. CASE m = "body"
        BY <1>1, <1>2, <1>3, <1>4, <2>3
    <2> QED BY <2>1, <2>2, <2>3
<1>6. Flushed(u) = Told(a.p, u.marks) /\ Flushed(v) = Told(a.p, v.marks)
    BY <1>1, <1>2, FlushedTold
<1>7. Flushed(u) = Flushed(v)
    BY <1>5, <1>6 DEF Told, ToldField, ToldValue, ToldBody
<1> QED BY <1>7 DEF u, v

\* No more than one text is marked.
LEMMA OneMark ==
    ASSUME NEW z, MarksFit(z), NEW m \in {"field", "value", "body"}, z.marks[m].set
    PROVE  ~z.marks.url.set /\ (\A k \in {"field", "value", "body"} \ {m} : ~z.marks[k].set)
<1> DEFINE s == z.p.state
<1>0. /\ z.marks.url.set <=> s \in UrlAll
      /\ z.marks.field.set <=> s = "header_field"
      /\ z.marks.value.set <=> s = "header_value"
      /\ z.marks.body.set => s \in BodyMarks
    BY DEF MarksFit
<1> HIDE DEF s
<1>1. CASE m = "field"
    <2>1. s = "header_field"
        BY <1>0, <1>1
    <2>2. ~z.marks.url.set /\ ~z.marks.value.set /\ ~z.marks.body.set
        BY <1>0, <2>1 DEF UrlAll, UrlStates, BodyMarks
    <2> QED BY <1>1, <2>2
<1>2. CASE m = "value"
    <2>1. s = "header_value"
        BY <1>0, <1>2
    <2>2. ~z.marks.url.set /\ ~z.marks.field.set /\ ~z.marks.body.set
        BY <1>0, <2>1 DEF UrlAll, UrlStates, BodyMarks
    <2> QED BY <1>2, <2>2
<1>3. CASE m = "body"
    <2>1. s \in BodyMarks
        BY <1>0, <1>3
    <2>2. ~z.marks.url.set /\ ~z.marks.field.set /\ ~z.marks.value.set
        BY <1>0, <2>1 DEF UrlAll, UrlStates, BodyMarks
    <2> QED BY <1>3, <2>2
<1> QED BY <1>1, <1>2, <1>3

LEMMA GrowFlushed ==
    ASSUME NEW a, NEW b, NEW l, a \in ExecType, b \in ExecType, Alike(a, b, l), Even(a, b),
           a.p.http_errno = "OK", NEW ch \in STRING
    PROVE  Flushed(Grow(a, ch)) = Flushed(Grow(b, ch))
<1>0. MarksFit(a) /\ MarksFit(b) /\ Flushed(a) = Flushed(b) /\ b.p.state = a.p.state
      /\ (a.marks.body.set <=> b.marks.body.set)
    BY SameParts DEF Alike, SameCore, Even
<1>1. /\ a.marks.field.set <=> b.marks.field.set
      /\ a.marks.value.set <=> b.marks.value.set
      /\ a.marks.url.set <=> b.marks.url.set
    BY <1>0 DEF MarksFit
<1>2. ASSUME NEW m \in {"field", "value", "body"}, a.marks[m].set
      PROVE  Flushed(Grow(a, ch)) = Flushed(Grow(b, ch))
    <2>4. b.marks[m].set
        BY <1>0, <1>1, <1>2
    <2>11. ~a.marks.url.set /\ (\A k \in {"field", "value", "body"} \ {m} : ~a.marks[k].set)
        BY <1>0, <1>2, OneMark
    <2>6. ~b.marks.url.set /\ (\A k \in {"field", "value", "body"} \ {m} : ~b.marks[k].set)
        BY <1>0, <2>4, OneMark
    <2>2. \A k \in {"field", "value", "body"} \ {m} : ~a.marks[k].set /\ ~b.marks[k].set
        BY <2>11, <2>6
    <2>3. ~a.marks.url.set /\ ~b.marks.url.set
        BY <2>11, <2>6
    <2>5. OnlyGrows(a, m, ch) /\ OnlyGrows(b, m, ch)
          /\ Flushed(MarkGrows(a, m, ch)) = Flushed(MarkGrows(b, m, ch))
        BY <1>0, <1>2, <2>2, <2>4, TextGrows
    <2>7. Flushed(Grow(a, ch)) = Flushed(MarkGrows(a, m, ch))
        BY <1>2, <2>11, <2>5, GrowOne
    <2>8. Flushed(Grow(b, ch)) = Flushed(MarkGrows(b, m, ch))
        BY <2>4, <2>5, <2>6, GrowOne
    <2> QED BY <2>5, <2>7, <2>8
<1>3. ASSUME ~a.marks.field.set, ~a.marks.value.set, ~a.marks.body.set
      PROVE  Flushed(Grow(a, ch)) = Flushed(Grow(b, ch))
    <2>1. ASSUME NEW z \in {a, b} PROVE Flushed(Grow(z, ch)) = z.p /\ Flushed(z) = z.p
        <3>1. z \in ExecType /\ ~z.marks.field.set /\ ~z.marks.value.set /\ ~z.marks.body.set
            BY <1>0, <1>1, <1>3
        <3> DEFINE u == Grow(z, ch)
        <3>2. /\ u.p = z.p
              /\ u.marks = [url |-> Grown(z.marks.url, ch), field |-> Grown(z.marks.field, ch),
                            value |-> Grown(z.marks.value, ch), body |-> Grown(z.marks.body, ch)]
            BY <3>1, GrowIs
        <3> HIDE DEF u
        <3>3. ~u.marks.field.set /\ ~u.marks.value.set /\ ~u.marks.body.set
            BY <3>1, <3>2, ExecParser, GrownIs
        <3> QED BY <3>1, <3>2, <3>3, FlushedBare DEF u
    <2> QED BY <1>0, <2>1
<1> QED BY <1>2, <1>3

LEMMA GrowTwins ==
    ASSUME NEW x, NEW y, NEW a, NEW b, NEW l, Result(x, y, a, b, l), NEW ch \in STRING
    PROVE  Twins(Grow(a, ch), Grow(b, ch), l, 0) /\ Follows(x.p, Grow(a, ch).p)
<1> DEFINE u == Grow(a, ch)
           v == Grow(b, ch)
<1>0. Twins(a, b, l, 0) /\ Even(a, b) /\ Follows(x.p, a.p) /\ a \in ExecType /\ b \in ExecType
    BY DEF Result, Twins
<1>1. /\ u \in ExecType /\ u.p = a.p /\ u.table = a.table /\ u.done = a.done
      /\ u.consumed = a.consumed + 1 /\ u.url_start = a.url_start
      /\ u.marks.url = Grown(a.marks.url, ch)
    <2>1. a \in ExecType
        BY <1>0
    <2>2. u.marks = [url |-> Grown(a.marks.url, ch), field |-> Grown(a.marks.field, ch),
                      value |-> Grown(a.marks.value, ch), body |-> Grown(a.marks.body, ch)]
        BY <2>1, GrowIs
    <2>3. /\ u \in ExecType /\ u.p = a.p /\ u.table = a.table /\ u.done = a.done
          /\ u.consumed = a.consumed + 1 /\ u.url_start = a.url_start
        BY <2>1, GrowIs
    <2> HIDE DEF u
    <2> QED BY <2>2, <2>3
<1>2. /\ v \in ExecType /\ v.p = b.p /\ v.table = b.table /\ v.done = b.done
      /\ v.consumed = b.consumed + 1 /\ v.url_start = b.url_start
      /\ v.marks.url = Grown(b.marks.url, ch)
    <2>1. b \in ExecType
        BY <1>0
    <2>2. v.marks = [url |-> Grown(b.marks.url, ch), field |-> Grown(b.marks.field, ch),
                      value |-> Grown(b.marks.value, ch), body |-> Grown(b.marks.body, ch)]
        BY <2>1, GrowIs
    <2>3. /\ v \in ExecType /\ v.p = b.p /\ v.table = b.table /\ v.done = b.done
          /\ v.consumed = b.consumed + 1 /\ v.url_start = b.url_start
        BY <2>1, GrowIs
    <2> HIDE DEF v
    <2> QED BY <2>2, <2>3
<1>3. ASSUME a.p.http_errno = "OK" PROVE Alike(u, v, l)
    <2>1. Alike(a, b, l)
        BY <1>0, <1>3 DEF Twins
    <2>2. Flushed(u) = Flushed(v)
        BY <1>0, <1>3, <2>1, GrowFlushed
    <2>3. MarksFit(u) /\ MarksFit(v)
        BY <1>0, <2>1, GrowFits DEF Alike
    <2> HIDE DEF u, v
    <2>4. a.consumed \in Nat /\ b.consumed \in Nat /\ a.url_start \in Nat /\ b.url_start \in Nat
        BY <1>0, ExecParser
    <2>5. Position(u, v, l)
        <3>1. Position(a, b, l)
            BY <2>1 DEF Alike
        <3>2. a.consumed - a.url_start = b.consumed - b.url_start
              => u.consumed - u.url_start = v.consumed - v.url_start
            BY <1>1, <1>2, <2>4
        <3> QED BY <1>1, <1>2, <3>1, <3>2 DEF Position
    <2> QED BY <1>1, <1>2, <2>1, <2>2, <2>3, <2>5 DEF Alike
<1> HIDE DEF u, v
<1>4. Twins(u, v, l, 0)
    BY <1>0, <1>1, <1>2, <1>3 DEF Twins
<1> QED BY <1>0, <1>1, <1>4 DEF u, v

-----------------------------------------------------------------------------
(* All states together.                                                    *)

ChunkSizeStart(z, ch) ==
    IF z.p.nread # 1 THEN Error(z, "ASSERT")
    ELSE IF ch \notin DOMAIN HexDigits THEN Error(z, "INVALID_CHUNK_SIZE")
    ELSE To([z EXCEPT !.p.content_length = HexDigits[ch]], "chunk_size")
ChunkParameters(z, ch) == IF ch = CR THEN To(z, "chunk_size_almost_done") ELSE z
ChunkDataAlmostDone(z, ch) == Strict(z, ch = CR, BodyCallback(To(z, "chunk_data_done")))
ChunkDataDone(z, ch) == Strict(z, ch = LF, NextChunk(z))
DiscardAlmostDone(z, ch) == Strict(z, ch = LF, To(z, "header_value_discard_lws"))

LEMMA DispatchUrls ==
    ASSUME NEW z, NEW ch
    PROVE  /\ z.p.state \in UrlStates => Dispatch(z, ch) = InUrl(z, ch)
           /\ z.p.state \in UrlAll \ UrlStates => Dispatch(z, ch) = InSchema(z, ch)
<1>1. CASE z.p.state \in UrlStates
    <2>1. Dispatch(z, ch) = InUrl(z, ch)
        BY <1>1 DEF Dispatch, UrlStates, Constants
    <2> QED BY <1>1, <2>1
<1>2. CASE z.p.state \in UrlAll \ UrlStates
    BY <1>2 DEF Dispatch, UrlAll, UrlStates, Constants
<1> QED BY <1>1, <1>2 

LEMMA DispatchLine ==
    ASSUME NEW z, NEW ch
    PROVE  /\ z.p.state = "start_req" => Dispatch(z, ch) = StartReq(z, ch)
           /\ z.p.state = "req_method" => Dispatch(z, ch) = ReqMethod(z, ch)
           /\ z.p.state = "req_spaces_before_url" => Dispatch(z, ch) = SpacesBeforeUrl(z, ch)
           /\ z.p.state \in VersionStates => Dispatch(z, ch) = HttpVersion(z, ch)
           /\ z.p.state = "req_line_almost_done" => Dispatch(z, ch) = LineAlmostDone(z, ch)
<1>1. /\ z.p.state = "start_req" => Dispatch(z, ch) = StartReq(z, ch)
      /\ z.p.state = "req_method" => Dispatch(z, ch) = ReqMethod(z, ch)
    BY DEF Dispatch, UrlStates, Constants
<1>2. z.p.state = "req_spaces_before_url" => Dispatch(z, ch) = SpacesBeforeUrl(z, ch)
    BY DEF Dispatch, UrlStates, Constants
<1>3. z.p.state \in VersionStates => Dispatch(z, ch) = HttpVersion(z, ch)
    BY DEF Dispatch, UrlStates, Constants, VersionStates
<1>4. z.p.state = "req_line_almost_done" => Dispatch(z, ch) = LineAlmostDone(z, ch)
    BY DEF Dispatch, UrlStates, Constants
<1> QED BY <1>1, <1>2, <1>3, <1>4

LEMMA DispatchHeaders ==
    ASSUME NEW z, NEW ch
    PROVE  /\ z.p.state = "header_field_start" => Dispatch(z, ch) = HeaderFieldStart(z, ch)
           /\ z.p.state = "header_field" => Dispatch(z, ch) = HeaderField(z, ch)
           /\ z.p.state = "header_value_discard_ws" => Dispatch(z, ch) = HeaderValueDiscardWs(z, ch)
           /\ z.p.state = "header_value_discard_ws_almost_done"
              => Dispatch(z, ch) = DiscardAlmostDone(z, ch)
           /\ z.p.state = "header_value_discard_lws" => Dispatch(z, ch) = HeaderValueDiscardLws(z, ch)
           /\ z.p.state = "header_value" => Dispatch(z, ch) = HeaderValue(z, ch)
           /\ z.p.state = "header_almost_done" => Dispatch(z, ch) = HeaderAlmostDone(z, ch)
           /\ z.p.state = "header_value_lws" => Dispatch(z, ch) = HeaderValueLws(z, ch)
           /\ z.p.state = "headers_almost_done" => Dispatch(z, ch) = HeadersAlmostDone(z, ch)
           /\ z.p.state = "headers_done" => Dispatch(z, ch) = HeadersDone(z, ch)
<1>1. /\ z.p.state = "header_field_start" => Dispatch(z, ch) = HeaderFieldStart(z, ch)
      /\ z.p.state = "header_field" => Dispatch(z, ch) = HeaderField(z, ch)
    BY DEF Dispatch, UrlStates, Constants
<1>2. /\ z.p.state = "header_value_discard_ws" => Dispatch(z, ch) = HeaderValueDiscardWs(z, ch)
      /\ z.p.state = "header_value_discard_ws_almost_done"
              => Dispatch(z, ch) = DiscardAlmostDone(z, ch)
    BY DEF Dispatch, UrlStates, Constants, DiscardAlmostDone
<1>3. /\ z.p.state = "header_value_discard_lws" => Dispatch(z, ch) = HeaderValueDiscardLws(z, ch)
      /\ z.p.state = "header_value" => Dispatch(z, ch) = HeaderValue(z, ch)
    BY DEF Dispatch, UrlStates, Constants
<1>4. /\ z.p.state = "header_almost_done" => Dispatch(z, ch) = HeaderAlmostDone(z, ch)
      /\ z.p.state = "header_value_lws" => Dispatch(z, ch) = HeaderValueLws(z, ch)
    BY DEF Dispatch, UrlStates, Constants
<1>5. /\ z.p.state = "headers_almost_done" => Dispatch(z, ch) = HeadersAlmostDone(z, ch)
      /\ z.p.state = "headers_done" => Dispatch(z, ch) = HeadersDone(z, ch)
    BY DEF Dispatch, UrlStates, Constants
<1> QED BY <1>1, <1>2, <1>3, <1>4, <1>5

LEMMA DispatchBody ==
    ASSUME NEW z, NEW ch
    PROVE  /\ z.p.state = "body_identity" => Dispatch(z, ch) = BodyIdentity(z, ch)
           /\ z.p.state = "message_done" => Dispatch(z, ch) = OnMessageComplete(z)
           /\ z.p.state = "chunk_size_start" => Dispatch(z, ch) = ChunkSizeStart(z, ch)
           /\ z.p.state = "chunk_size" => Dispatch(z, ch) = ChunkSize(z, ch)
           /\ z.p.state = "chunk_parameters" => Dispatch(z, ch) = ChunkParameters(z, ch)
           /\ z.p.state = "chunk_size_almost_done" => Dispatch(z, ch) = ChunkSizeAlmostDone(z, ch)
           /\ z.p.state = "chunk_data" => Dispatch(z, ch) = ChunkData(z, ch)
           /\ z.p.state = "chunk_data_almost_done" => Dispatch(z, ch) = ChunkDataAlmostDone(z, ch)
           /\ z.p.state = "chunk_data_done" => Dispatch(z, ch) = ChunkDataDone(z, ch)
<1>1. /\ z.p.state = "body_identity" => Dispatch(z, ch) = BodyIdentity(z, ch)
      /\ z.p.state = "message_done" => Dispatch(z, ch) = OnMessageComplete(z)
    BY DEF Dispatch, UrlStates, Constants
<1>2. z.p.state \in {"chunk_size_start", "chunk_size", "chunk_parameters", "chunk_size_almost_done",
                     "chunk_data", "chunk_data_almost_done", "chunk_data_done"}
      => Dispatch(z, ch) = Chunks(z, ch)
    BY DEF Dispatch, UrlStates, Constants
<1>3. /\ z.p.state = "chunk_size_start" => Chunks(z, ch) = ChunkSizeStart(z, ch)
      /\ z.p.state = "chunk_size" => Chunks(z, ch) = ChunkSize(z, ch)
      /\ z.p.state = "chunk_parameters" => Chunks(z, ch) = ChunkParameters(z, ch)
    BY DEF Chunks, ChunkSizeStart, ChunkParameters
<1>4. /\ z.p.state = "chunk_size_almost_done" => Chunks(z, ch) = ChunkSizeAlmostDone(z, ch)
      /\ z.p.state = "chunk_data" => Chunks(z, ch) = ChunkData(z, ch)
    BY DEF Chunks
<1>5. /\ z.p.state = "chunk_data_almost_done" => Chunks(z, ch) = ChunkDataAlmostDone(z, ch)
      /\ z.p.state = "chunk_data_done" => Chunks(z, ch) = ChunkDataDone(z, ch)
    BY DEF Chunks, ChunkDataAlmostDone, ChunkDataDone
<1> QED BY <1>1, <1>2, <1>3, <1>4, <1>5

LEMMA DispatchBare ==
    ASSUME NEW x, NEW y, NEW l, BareAt(x, y, l), NEW ch \in STRING,
           x.p.state = "chunk_size_start" => x.p.nread = 1
    PROVE  Result(x, y, Dispatch(x, ch), Dispatch(y, ch), l)
<1>0. x.p = y.p /\ x.p.state \in PlainStates
    BY BareAtIs DEF BareAt
<1>1. CASE x.p.state = "start_req"
    <2>1. Result(x, y, StartReq(x, ch), StartReq(y, ch), l)
        BY <1>1, StartReqResult
    <2> QED BY <1>0, <1>1, <2>1, DispatchLine
<1>2. CASE x.p.state = "req_method"
    <2>1. Result(x, y, ReqMethod(x, ch), ReqMethod(y, ch), l)
        BY <1>2, ReqMethodResult
    <2> QED BY <1>0, <1>2, <2>1, DispatchLine
<1>3. CASE x.p.state = "req_spaces_before_url"
    <2>1. Result(x, y, SpacesBeforeUrl(x, ch), SpacesBeforeUrl(y, ch), l)
        BY <1>3, SpacesBeforeUrlResult
    <2> QED BY <1>0, <1>3, <2>1, DispatchLine
<1>4. CASE x.p.state \in VersionStates
    <2>1. Result(x, y, HttpVersion(x, ch), HttpVersion(y, ch), l)
        BY <1>4, HttpVersionResult
    <2> QED BY <1>0, <1>4, <2>1, DispatchLine
<1>5. CASE x.p.state = "req_line_almost_done"
    <2>1. Result(x, y, LineAlmostDone(x, ch), LineAlmostDone(y, ch), l)
        BY <1>5, LineAlmostDoneResult
    <2> QED BY <1>0, <1>5, <2>1, DispatchLine
<1>6. CASE x.p.state = "header_field_start"
    <2>1. Result(x, y, HeaderFieldStart(x, ch), HeaderFieldStart(y, ch), l)
        BY <1>6, HeaderFieldStartResult
    <2> QED BY <1>0, <1>6, <2>1, DispatchHeaders
<1>7. CASE x.p.state = "header_value_discard_ws"
    <2>1. Result(x, y, HeaderValueDiscardWs(x, ch), HeaderValueDiscardWs(y, ch), l)
        BY <1>7, HeaderValueDiscardWsResult
    <2> QED BY <1>0, <1>7, <2>1, DispatchHeaders
<1>8. CASE x.p.state = "header_value_discard_ws_almost_done"
    <2>1. Result(x, y, DiscardAlmostDone(x, ch), DiscardAlmostDone(y, ch), l)
        BY <1>8, DiscardAlmostDoneResult DEF DiscardAlmostDone
    <2> QED BY <1>0, <1>8, <2>1, DispatchHeaders
<1>9. CASE x.p.state = "header_value_discard_lws"
    <2>1. Result(x, y, HeaderValueDiscardLws(x, ch), HeaderValueDiscardLws(y, ch), l)
        BY <1>9, HeaderValueDiscardLwsResult
    <2> QED BY <1>0, <1>9, <2>1, DispatchHeaders
<1>10. CASE x.p.state = "header_almost_done"
    <2>1. Result(x, y, HeaderAlmostDone(x, ch), HeaderAlmostDone(y, ch), l)
        BY <1>10, HeaderAlmostDoneResult
    <2> QED BY <1>0, <1>10, <2>1, DispatchHeaders
<1>11. CASE x.p.state = "header_value_lws"
    <2>1. Result(x, y, HeaderValueLws(x, ch), HeaderValueLws(y, ch), l)
        BY <1>11, HeaderValueLwsResult
    <2> QED BY <1>0, <1>11, <2>1, DispatchHeaders
<1>12. CASE x.p.state = "headers_almost_done"
    <2>1. Result(x, y, HeadersAlmostDone(x, ch), HeadersAlmostDone(y, ch), l)
        BY <1>12, HeadersAlmostDoneResult
    <2> QED BY <1>0, <1>12, <2>1, DispatchHeaders
<1>13. CASE x.p.state = "headers_done"
    <2>1. Result(x, y, HeadersDone(x, ch), HeadersDone(y, ch), l)
        BY <1>13, HeadersDoneResult
    <2> QED BY <1>0, <1>13, <2>1, DispatchHeaders
<1>14. CASE x.p.state = "message_done"
    <2>1. Result(x, y, OnMessageComplete(x), OnMessageComplete(y), l)
        BY <1>14, MessageCompleteResult
    <2> QED BY <1>0, <1>14, <2>1, DispatchBody
<1>15. CASE x.p.state = "chunk_size_start"
    <2>1. Result(x, y, ChunkSizeStart(x, ch), ChunkSizeStart(y, ch), l)
        BY <1>15, ChunkSizeStartResult DEF ChunkSizeStart
    <2> QED BY <1>0, <1>15, <2>1, DispatchBody
<1>16. CASE x.p.state = "chunk_size"
    <2>1. Result(x, y, ChunkSize(x, ch), ChunkSize(y, ch), l)
        BY <1>16, ChunkSizeResult
    <2> QED BY <1>0, <1>16, <2>1, DispatchBody
<1>17. CASE x.p.state = "chunk_parameters"
    <2>1. Result(x, y, ChunkParameters(x, ch), ChunkParameters(y, ch), l)
        BY <1>17, ChunkParametersResult DEF ChunkParameters
    <2> QED BY <1>0, <1>17, <2>1, DispatchBody
<1>18. CASE x.p.state = "chunk_size_almost_done"
    <2>1. Result(x, y, ChunkSizeAlmostDone(x, ch), ChunkSizeAlmostDone(y, ch), l)
        BY <1>18, ChunkSizeAlmostDoneResult
    <2> QED BY <1>0, <1>18, <2>1, DispatchBody
<1>19. CASE x.p.state = "chunk_data_done"
    <2>1. Result(x, y, ChunkDataDone(x, ch), ChunkDataDone(y, ch), l)
        BY <1>19, ChunkDataDoneResult DEF ChunkDataDone
    <2> QED BY <1>0, <1>19, <2>1, DispatchBody
<1>20. \/ x.p.state \in VersionStates
       \/ x.p.state \in {"start_req", "req_method", "req_spaces_before_url", "req_line_almost_done"}
       \/ x.p.state \in {"header_field_start", "header_value_discard_ws",
              "header_value_discard_ws_almost_done", "header_value_discard_lws",
              "header_almost_done", "header_value_lws", "headers_almost_done"}
       \/ x.p.state \in {"headers_done", "message_done", "chunk_size_start", "chunk_size",
              "chunk_parameters", "chunk_size_almost_done", "chunk_data_done"}
    BY <1>0 DEF PlainStates
<1> QED BY <1>1, <1>2, <1>3, <1>4, <1>5, <1>6, <1>7, <1>8, <1>9, <1>10, <1>11, <1>12, <1>13, <1>14,
           <1>15, <1>16, <1>17, <1>18, <1>19, <1>20

LEMMA DispatchText ==
    ASSUME NEW x, NEW y, NEW l, TextAt(x, y, l), NEW ch \in STRING
    PROVE  Result(x, y, Dispatch(x, ch), Dispatch(y, ch), l)
<1>0. y.p.state = x.p.state /\ x.p.state \in TextStates
    BY TextParts DEF SameCore, TextAt
<1>1. CASE x.p.state = "header_field"
    <2>1. Result(x, y, HeaderField(x, ch), HeaderField(y, ch), l)
        BY <1>1, HeaderFieldResult
    <2> QED BY <1>0, <1>1, <2>1, DispatchHeaders
<1>2. CASE x.p.state = "header_value"
    <2>1. Result(x, y, HeaderValue(x, ch), HeaderValue(y, ch), l)
        BY <1>2, HeaderValueResult
    <2> QED BY <1>0, <1>2, <2>1, DispatchHeaders
<1>3. CASE x.p.state = "body_identity"
    <2>1. Result(x, y, BodyIdentity(x, ch), BodyIdentity(y, ch), l)
        BY <1>3, BodyIdentityResult
    <2> QED BY <1>0, <1>3, <2>1, DispatchBody
<1>4. CASE x.p.state = "chunk_data"
    <2>1. Result(x, y, ChunkData(x, ch), ChunkData(y, ch), l)
        BY <1>4, ChunkDataResult
    <2> QED BY <1>0, <1>4, <2>1, DispatchBody
<1>5. CASE x.p.state = "chunk_data_almost_done"
    <2>1. Result(x, y, ChunkDataAlmostDone(x, ch), ChunkDataAlmostDone(y, ch), l)
        BY <1>5, ChunkDataAlmostDoneResult DEF ChunkDataAlmostDone
    <2> QED BY <1>0, <1>5, <2>1, DispatchBody
<1> QED BY <1>0, <1>1, <1>2, <1>3, <1>4, <1>5 DEF TextStates, BodyMarks

LEMMA DispatchUrl ==
    ASSUME NEW x, NEW y, NEW l, UrlPair(x, y, l), x.p.state \in UrlAll, NEW ch \in STRING
    PROVE  Result(x, y, Dispatch(x, ch), Dispatch(y, ch), l)
<1>0. y.p = x.p
    BY DEF UrlPair
<1>1. Result(x, y, InSchema(x, ch), InSchema(y, ch), l)
    BY InSchemaResult
<1>2. Result(x, y, InUrl(x, ch), InUrl(y, ch), l)
    BY InUrlResult
<1> QED BY <1>0, <1>1, <1>2, DispatchUrls

-----------------------------------------------------------------------------
(* One turn of the loop.                                                   *)

\* The parser when the character is counted.
OneCounted(q) == [q EXCEPT !.nread = @ + 1]
Count(z) == [z EXCEPT !.p.nread = @ + 1]

LEMMA OneCountedIs ==
    ASSUME NEW q \in ParserType, q.nread <= MaxHeaderSize
    PROVE  LET r == OneCounted(q)
           IN /\ r \in ParserType /\ SameRest(q, r) /\ r.nread = q.nread + 1
              /\ r.state = q.state /\ r.header_state = q.header_state
              /\ r.content_length = q.content_length
<1> DEFINE r == OneCounted(q)
<1>1. q.nread + 1 \in 0 .. MaxHeaderSize + 1
    BY ParserAssumption DEF ParserType
<1>2. r \in ParserType
    BY <1>1 DEF ParserType, OneCounted
<1>3. SameRest(q, r)
    BY DEF OneCounted, SameRest, Keeps
<1>4. /\ r.nread = q.nread + 1
      /\ r.state = q.state /\ r.header_state = q.header_state
      /\ r.content_length = q.content_length
    BY DEF ParserType, OneCounted
<1> QED BY <1>2, <1>3, <1>4

LEMMA CountIs ==
    ASSUME NEW z \in ExecType, z.p.nread <= MaxHeaderSize
    PROVE  Count(z) = [z EXCEPT !.p = OneCounted(z.p)] /\ Count(z) \in ExecType
           /\ Count(z).p = OneCounted(z.p) /\ Count(z).table = z.table
<1>1. Count(z) = [z EXCEPT !.p = OneCounted(z.p)]
    BY Zenon DEF Count, OneCounted
<1>2. OneCounted(z.p) \in ParserType
    BY ExecParser, OneCountedIs
<1> QED BY <1>1, <1>2, WithParser

LEMMA CountedSound ==
    ASSUME NEW q \in ParserType, Sound(q), q.nread + 1 <= MaxHeaderSize
    PROVE  Sound(OneCounted(q))
<1> DEFINE r == OneCounted(q)
<1>0. q.nread <= MaxHeaderSize
    BY DEF Sound
<1>1. /\ r.nread = q.nread + 1 /\ r.state = q.state /\ r.header_state = q.header_state
      /\ r.content_length = q.content_length
    BY <1>0, OneCountedIs
<1> HIDE DEF r
<1>2. Sound(r)
    BY <1>1 DEF Sound
<1> QED BY <1>2 DEF r

\* Too long a header.
LEMMA CountFails ==
    ASSUME NEW x \in ExecType, NEW y \in ExecType, x.table = y.table, NEW l,
           x.p.nread <= MaxHeaderSize, y.p.nread <= MaxHeaderSize
    PROVE  Result(x, y, Error(Count(x), "HEADER_OVERFLOW"), Error(Count(y), "HEADER_OVERFLOW"), l)
<1>1. /\ Count(x) = [x EXCEPT !.p = OneCounted(x.p)] /\ Count(y) = [y EXCEPT !.p = OneCounted(y.p)]
    BY CountIs
<1>2. OneCounted(x.p) \in ParserType /\ OneCounted(y.p) \in ParserType /\ Keeps(x.p, OneCounted(x.p))
    BY ExecParser, OneCountedIs DEF SameRest
<1>3. "HEADER_OVERFLOW" \in Errors
    BY DEF Errors
<1> QED BY <1>1, <1>2, <1>3, Fails

LEMMA BareCounts ==
    ASSUME NEW x, NEW y, NEW l, BareAt(x, y, l), x.p.nread + 1 <= MaxHeaderSize
    PROVE  /\ BareAt(Count(x), Count(y), l) /\ Keeps(x.p, Count(x).p)
           /\ Count(x).p.state = x.p.state /\ Count(x).p.nread = x.p.nread + 1
<1> DEFINE q == OneCounted(x.p)
           a == [x EXCEPT !.p = q]
           b == [y EXCEPT !.p = q]
<1>0. /\ x.p \in ParserType /\ x \in ExecType /\ y \in ExecType /\ y.p = x.p /\ Sound(x.p)
      /\ x.p.nread <= MaxHeaderSize
    BY BareAtIs DEF BareAt, Sound
<1>1. Count(x) = a /\ Count(y) = b
    BY <1>0, CountIs
<1>2. /\ q \in ParserType /\ Keeps(x.p, q) /\ q.nread = x.p.nread + 1 /\ q.state = x.p.state
      /\ Sound(q)
    BY <1>0, OneCountedIs, CountedSound DEF SameRest
<1>3. q.http_errno = "OK" /\ q.handled = x.p.handled /\ q.message_complete = x.p.message_complete
    BY <1>2, BareAtIs DEF Keeps
<1> HIDE DEF q
<1>4. Bare(a) /\ a.p = q /\ a.table = x.table /\ a.consumed = x.consumed /\ a.url_start = x.url_start
    BY <1>2, <1>3, BareAtIs, BareEdit
<1>5. Bare(b) /\ b.p = q /\ b.table = y.table /\ b.consumed = y.consumed /\ b.url_start = y.url_start
    BY <1>2, <1>3, BareAtIs, BareEdit
<1> HIDE DEF a, b
<1>6. BarePair(a, b)
    BY <1>4, <1>5 DEF BareAt, BarePair
<1>7. Position(a, b, l)
    BY <1>2, <1>3, <1>4, <1>5, PlainApart DEF BareAt, Position, Bare
<1>8. Comparable(a, b, l)
    BY <1>3, <1>4, <1>5 DEF BareAt, Comparable
<1>9. BareAt(a, b, l)
    BY <1>2, <1>4, <1>6, <1>7, <1>8 DEF BareAt
<1> QED BY <1>1, <1>2, <1>4, <1>9

LEMMA TextCounts ==
    ASSUME NEW x, NEW y, NEW l, TextAt(x, y, l), x.p.nread + 1 <= MaxHeaderSize
    PROVE  TextAt(Count(x), Count(y), l) /\ Keeps(x.p, Count(x).p)
<1> DEFINE q == OneCounted(x.p)
           r == OneCounted(y.p)
           a == [x EXCEPT !.p = q]
           b == [y EXCEPT !.p = r]
<1>0. /\ x.p \in ParserType /\ y.p \in ParserType /\ x \in ExecType /\ y \in ExecType
      /\ SameCore(x.p, y.p) /\ Sound(x.p)
      /\ x.p.nread <= MaxHeaderSize /\ y.p.nread = x.p.nread
    BY TextParts DEF TextAt, Sound, SameCore
<1>1. Count(x) = a /\ Count(y) = b
    BY <1>0, CountIs
<1>2. /\ q \in ParserType /\ SameRest(x.p, q) /\ Keeps(x.p, q) /\ q.state = x.p.state
      /\ Sound(q)
    BY <1>0, OneCountedIs, CountedSound DEF SameRest
<1>3. /\ r \in ParserType /\ SameRest(y.p, r) /\ Keeps(y.p, r) /\ r.state = y.p.state
    BY <1>0, OneCountedIs DEF SameRest
<1>4. SameCore(q, r)
    BY <1>0 DEF SameCore, OneCounted
<1> HIDE DEF q, r
<1>5. Flushed(a) = Flushed(b)
    BY <1>2, <1>3, <1>4, TextSame
<1>6. a \in ExecType /\ a.p = q /\ a.marks = x.marks /\ a.done = x.done /\ a.table = x.table
      /\ a.consumed = x.consumed /\ a.url_start = x.url_start
    BY <1>0, <1>2, WithParser
<1>7. b \in ExecType /\ b.p = r /\ b.marks = y.marks /\ b.done = y.done /\ b.table = y.table
      /\ b.consumed = y.consumed /\ b.url_start = y.url_start
    BY <1>0, <1>3, WithParser
<1> HIDE DEF a, b
<1>8. MarksFit(a) /\ MarksFit(b)
    BY <1>2, <1>3, <1>6, <1>7 DEF TextAt, MarksFit
<1>9. Comparable(a, b, l)
    BY <1>2, <1>6, <1>7 DEF TextAt, Comparable, Keeps
<1>10. TextAt(a, b, l)
    BY <1>2, <1>3, <1>5, <1>6, <1>7, <1>8, <1>9 DEF TextAt, Keeps
<1> QED BY <1>1, <1>2, <1>6, <1>10

LEMMA UrlCounts ==
    ASSUME NEW x, NEW y, NEW l, UrlPair(x, y, l), x.p.nread + 1 <= MaxHeaderSize
    PROVE  /\ UrlPair(Count(x), Count(y), l) /\ Keeps(x.p, Count(x).p)
           /\ Count(x).p.state = x.p.state
<1> DEFINE q == OneCounted(x.p)
           a == [x EXCEPT !.p = q]
           b == [y EXCEPT !.p = q]
<1>0. /\ x.p \in ParserType /\ x \in ExecType /\ y \in ExecType /\ y.p = x.p /\ Sound(x.p)
      /\ x.p.nread <= MaxHeaderSize
    BY ExecParser DEF UrlPair, Sound
<1>1. Count(x) = a /\ Count(y) = b
    BY <1>0, CountIs
<1>2. q \in ParserType /\ Keeps(x.p, q) /\ q.state = x.p.state /\ Sound(q)
    BY <1>0, OneCountedIs, CountedSound DEF SameRest
<1> HIDE DEF q
<1>4. a \in ExecType /\ a.p = q /\ a.marks = x.marks /\ a.done = x.done /\ a.table = x.table
      /\ a.consumed = x.consumed /\ a.url_start = x.url_start
    BY <1>0, <1>2, WithParser
<1>5. b \in ExecType /\ b.p = q /\ b.marks = y.marks /\ b.done = y.done /\ b.table = y.table
      /\ b.consumed = y.consumed /\ b.url_start = y.url_start
    BY <1>0, <1>2, WithParser
<1> HIDE DEF a, b
<1>6. Comparable(a, b, l)
    BY <1>2, <1>4, <1>5 DEF UrlPair, Comparable, Keeps
<1>7. UrlPair(a, b, l)
    BY <1>2, <1>4, <1>5, <1>6 DEF UrlPair, Keeps
<1> QED BY <1>1, <1>2, <1>4, <1>7

\* One turn of the loop before the marks grow.
Turn(z, ch) ==
    LET counted == IF z.p.state \in BodyStates THEN z ELSE Count(z)
    IN IF counted.p.nread > MaxHeaderSize THEN Error(counted, "HEADER_OVERFLOW")
       ELSE Dispatch(counted, ch)

LEMMA StepIs ==
    ASSUME NEW z, NEW ch
    PROVE  Step(z, ch) = Grow(Turn(z, ch), ch)
BY DEF Step, Turn, Grow, Count

LEMMA TurnIs ==
    ASSUME NEW z \in ExecType, NEW ch, z.p.nread <= MaxHeaderSize
    PROVE  /\ z.p.state \in BodyStates => Turn(z, ch) = Dispatch(z, ch)
           /\ z.p.state \notin BodyStates /\ z.p.nread + 1 > MaxHeaderSize
              => Turn(z, ch) = Error(Count(z), "HEADER_OVERFLOW")
           /\ z.p.state \notin BodyStates /\ z.p.nread + 1 <= MaxHeaderSize
              => Turn(z, ch) = Dispatch(Count(z), ch)
<1>1. z.p.nread \in Nat
    BY ExecParser, ParserAssumption DEF ParserType
<1>2. Count(z).p.nread = z.p.nread + 1
    BY CountIs, ExecParser, OneCountedIs
<1> QED BY <1>1, <1>2, ParserAssumption DEF Turn

\* Either too long a header or the pair goes on with the character counted.
LEMMA TurnBare ==
    ASSUME NEW x, NEW y, NEW l, BareAt(x, y, l), x.p.state = "chunk_size_start" => x.p.nread = 0,
           NEW ch \in STRING
    PROVE  Result(x, y, Turn(x, ch), Turn(y, ch), l)
<1>0. /\ x \in ExecType /\ y \in ExecType /\ x.table = y.table /\ y.p = x.p /\ x.p \in ParserType
      /\ x.p.nread <= MaxHeaderSize /\ x.p.nread \in Nat
    BY BareAtIs, ParserAssumption DEF BareAt, Sound, ParserType
<1>1. CASE x.p.state \in BodyStates
    <2>1. x.p.state # "chunk_size_start"
        BY <1>1 DEF BodyStates
    <2>2. Result(x, y, Dispatch(x, ch), Dispatch(y, ch), l)
        BY <2>1, DispatchBare
    <2> QED BY <1>0, <1>1, <2>2, TurnIs
<1>2. CASE x.p.state \notin BodyStates /\ x.p.nread + 1 > MaxHeaderSize
    BY <1>0, <1>2, CountFails, TurnIs
<1>3. CASE x.p.state \notin BodyStates /\ x.p.nread + 1 <= MaxHeaderSize
    <2>1. /\ BareAt(Count(x), Count(y), l) /\ Keeps(x.p, Count(x).p)
          /\ Count(x).p.state = "chunk_size_start" => Count(x).p.nread = 1
        BY <1>3, BareCounts
    <2>2. Result(Count(x), Count(y), Dispatch(Count(x), ch), Dispatch(Count(y), ch), l)
        BY <2>1, DispatchBare
    <2>3. Result(x, y, Dispatch(Count(x), ch), Dispatch(Count(y), ch), l)
        BY <2>1, <2>2, ResultOn
    <2> QED BY <1>0, <1>3, <2>3, TurnIs
<1>4. x.p.nread + 1 > MaxHeaderSize \/ x.p.nread + 1 <= MaxHeaderSize
    BY <1>0, ParserAssumption
<1> QED BY <1>1, <1>2, <1>3, <1>4

LEMMA TurnText ==
    ASSUME NEW x, NEW y, NEW l, TextAt(x, y, l), NEW ch \in STRING
    PROVE  Result(x, y, Turn(x, ch), Turn(y, ch), l)
<1>0. /\ x \in ExecType /\ y \in ExecType /\ x.table = y.table /\ y.p.state = x.p.state
      /\ x.p \in ParserType /\ y.p.nread = x.p.nread
      /\ x.p.nread <= MaxHeaderSize /\ x.p.nread \in Nat
    BY TextParts, ParserAssumption DEF TextAt, Sound, ParserType, SameCore
<1>1. CASE x.p.state \in BodyStates
    <2>2. Result(x, y, Dispatch(x, ch), Dispatch(y, ch), l)
        BY DispatchText
    <2> QED BY <1>0, <1>1, <2>2, TurnIs
<1>2. CASE x.p.state \notin BodyStates /\ x.p.nread + 1 > MaxHeaderSize
    BY <1>0, <1>2, CountFails, TurnIs
<1>3. CASE x.p.state \notin BodyStates /\ x.p.nread + 1 <= MaxHeaderSize
    <2>1. TextAt(Count(x), Count(y), l) /\ Keeps(x.p, Count(x).p)
        BY <1>3, TextCounts
    <2>2. Result(Count(x), Count(y), Dispatch(Count(x), ch), Dispatch(Count(y), ch), l)
        BY <2>1, DispatchText
    <2>3. Result(x, y, Dispatch(Count(x), ch), Dispatch(Count(y), ch), l)
        BY <2>1, <2>2, ResultOn
    <2> QED BY <1>0, <1>3, <2>3, TurnIs
<1>4. x.p.nread + 1 > MaxHeaderSize \/ x.p.nread + 1 <= MaxHeaderSize
    BY <1>0, ParserAssumption
<1> QED BY <1>1, <1>2, <1>3, <1>4

LEMMA TurnUrl ==
    ASSUME NEW x, NEW y, NEW l, UrlPair(x, y, l), x.p.state \in UrlAll, NEW ch \in STRING
    PROVE  Result(x, y, Turn(x, ch), Turn(y, ch), l)
<1>0. /\ x \in ExecType /\ y \in ExecType /\ x.table = y.table /\ y.p = x.p
      /\ x.p \in ParserType /\ x.p.nread <= MaxHeaderSize /\ x.p.nread \in Nat
    BY ExecParser, ParserAssumption DEF UrlPair, Sound, ParserType
<1>1. x.p.state \notin BodyStates
    BY DEF UrlAll, UrlStates, BodyStates
<1>2. CASE x.p.nread + 1 > MaxHeaderSize
    BY <1>0, <1>1, <1>2, CountFails, TurnIs
<1>3. CASE x.p.nread + 1 <= MaxHeaderSize
    <2>1. UrlPair(Count(x), Count(y), l) /\ Keeps(x.p, Count(x).p) /\ Count(x).p.state \in UrlAll
        BY <1>3, UrlCounts
    <2>2. Result(Count(x), Count(y), Dispatch(Count(x), ch), Dispatch(Count(y), ch), l)
        BY <2>1, DispatchUrl
    <2>3. Result(x, y, Dispatch(Count(x), ch), Dispatch(Count(y), ch), l)
        BY <2>1, <2>2, ResultOn
    <2> QED BY <1>0, <1>1, <1>3, <2>3, TurnIs
<1>4. x.p.nread + 1 > MaxHeaderSize \/ x.p.nread + 1 <= MaxHeaderSize
    BY <1>0, ParserAssumption
<1> QED BY <1>2, <1>3, <1>4

\* A character takes twins to twins.
LEMMA StepTwins ==
    ASSUME NEW x, NEW y, NEW l, Twins(x, y, l, 0), ~x.done, Comparable(x, y, l), NEW ch \in STRING
    PROVE  Twins(Step(x, ch), Step(y, ch), l, 0) /\ Follows(x.p, Step(x, ch).p)
<1>0. /\ x.p.http_errno = "OK" /\ Alike(x, y, l) /\ Sound(x.p)
      /\ x.p.state = "chunk_size_start" => x.p.nread = 0
    BY DEF Twins, Alike
<1>1. Result(x, y, Turn(x, ch), Turn(y, ch), l)
    <2>1. CASE x.p.state \in PlainStates
        <3>1. BarePair(x, y) /\ Sound(x.p) /\ Position(x, y, l)
            BY <2>1, TwinsBare
        <3>2. BareAt(x, y, l)
            BY <2>1, <3>1 DEF BareAt
        <3> QED BY <1>0, <3>2, TurnBare
    <2>2. CASE x.p.state \in TextStates
        BY <2>2, TwinsText, TurnText
    <2>3. CASE x.p.state \in UrlAll
        BY <2>3, TwinsUrl, TurnUrl
    <2>4. x.p.state \in States /\ x.p.state # "dead"
        BY <1>0, ExecParser DEF Twins, ParserType, Sound
    <2> QED BY <2>1, <2>2, <2>3, <2>4 DEF States, TextStates
<1>2. Step(x, ch) = Grow(Turn(x, ch), ch) /\ Step(y, ch) = Grow(Turn(y, ch), ch)
    BY StepIs
<1> QED BY <1>1, <1>2, GrowTwins

-----------------------------------------------------------------------------
(* The ends of a buffer.                                                   *)

\* The assertion at the end of a buffer holds.
LEMMA MarksFew ==
    ASSUME NEW z \in ExecType, MarksFit(z)
    PROVE  ~(Cardinality({m \in DOMAIN z.marks : z.marks[m].set}) > 1)
<1> DEFINE S == {m \in DOMAIN z.marks : z.marks[m].set}
<1>1. DOMAIN z.marks = {"url", "field", "value", "body"}
    BY DEF ExecType
<1>2. ASSUME NEW s \in BodyMarks PROVE s \notin UrlAll /\ s # "header_field" /\ s # "header_value"
    BY DEF BodyMarks, UrlAll, UrlStates
<1>3. ASSUME NEW s \in UrlAll PROVE s # "header_field" /\ s # "header_value"
    BY DEF UrlAll, UrlStates
<1>4. /\ z.marks["url"].set => ~z.marks["field"].set /\ ~z.marks["value"].set /\ ~z.marks["body"].set
      /\ z.marks["field"].set => ~z.marks["value"].set /\ ~z.marks["body"].set
      /\ z.marks["value"].set => ~z.marks["body"].set
    BY <1>2, <1>3 DEF MarksFit
<1>5. S = {} \/ \E m : S = {m}
    BY <1>1, <1>4
<1> HIDE DEF S
<1>6. Cardinality(S) = 0 \/ Cardinality(S) = 1
    BY <1>5, FS_EmptySet, FS_Singleton
<1> QED BY <1>6 DEF S

\* What is left when the buffer ends.
LEMMA LeftoverTold ==
    ASSUME NEW z \in ExecType, MarksFit(z), z.p.state \notin UrlAll
    PROVE  Leftover(z).p = Flushed(z)
<1>0. Leftover(z) = BodyCallback(UrlCallback(ValueCallback(FieldCallback(z))))
    BY MarksFew DEF Leftover
<1>1. z.marks.url = NoMark
    BY DEF MarksFit
<1>2. ASSUME NEW u, NoMarks(u)
      PROVE  FieldCallback(u) = u /\ ValueCallback(u) = u /\ BodyCallback(u) = u /\ UrlCallback(u) = u
    BY <1>2 DEF NoMarks, NoMark, FieldCallback, ValueCallback, BodyCallback, UrlCallback
<1>3. CASE z.p.state = "header_field"
    <2>1. z.marks.value = NoMark /\ z.marks.body = NoMark /\ (~z.marks.field.set => z.marks.field = NoMark)
        BY <1>3 DEF MarksFit, BodyMarks
    <2>2. Flushes(z, FieldCallback(z))
        BY <1>1, <2>1, CallbackFlushes
    <2>3. NoMarks(FieldCallback(z)) /\ FieldCallback(z).p = Flushed(z)
        BY <2>2 DEF Flushes
    <2> QED BY <1>0, <1>2, <2>3
<1>4. CASE z.p.state = "header_value"
    <2>1. z.marks.field = NoMark /\ z.marks.body = NoMark /\ (~z.marks.value.set => z.marks.value = NoMark)
        BY <1>4 DEF MarksFit, BodyMarks
    <2>2. Flushes(z, ValueCallback(z)) /\ FieldCallback(z) = z
        BY <1>1, <2>1, CallbackFlushes DEF FieldCallback, NoMark
    <2>3. NoMarks(ValueCallback(z)) /\ ValueCallback(z).p = Flushed(z)
        BY <2>2 DEF Flushes
    <2> QED BY <1>0, <1>2, <2>2, <2>3
<1>5. CASE z.p.state \notin {"header_field", "header_value"}
    <2>1. z.marks.field = NoMark /\ z.marks.value = NoMark /\ (~z.marks.body.set => z.marks.body = NoMark)
        BY <1>5 DEF MarksFit
    <2>2. Flushes(z, BodyCallback(z))
        BY <1>1, <2>1, CallbackFlushes
    <2>3. FieldCallback(z) = z /\ ValueCallback(z) = z /\ UrlCallback(z) = z
        BY <1>1, <2>1 DEF FieldCallback, ValueCallback, UrlCallback, NoMark
    <2> QED BY <1>0, <2>2, <2>3 DEF Flushes
<1> QED BY <1>3, <1>4, <1>5

LEMMA LeftoverUrl ==
    ASSUME NEW z \in ExecType, MarksFit(z), z.p.state \in UrlAll
    PROVE  Leftover(z).p = LookedUp(z.table, z.p, z.marks.url.text) /\ Flushed(z) = z.p
<1> DEFINE r == LookedUp(z.table, z.p, z.marks.url.text)
           c == UrlTold(z, r)
           u == UrlCallback(z)
<1>0. Leftover(z) = BodyCallback(UrlCallback(ValueCallback(FieldCallback(z))))
    BY MarksFew DEF Leftover
<1>1. z.marks.url.set /\ z.marks.field = NoMark /\ z.marks.value = NoMark /\ z.marks.body = NoMark
    BY UrlStatesAre DEF MarksFit
<1>2. FieldCallback(z) = z /\ ValueCallback(z) = z
    BY <1>1 DEF FieldCallback, ValueCallback, NoMark
<1>3. [z EXCEPT !.p = z.p] = z
    BY DEF ExecType
<1>4. u = After(c)
    <2>1. z.p \in ParserType
        BY ExecParser
    <2>2. UrlCallback([z EXCEPT !.p = z.p]) = After(c)
        BY <1>1, <2>1, UrlCallbackIs
    <2> QED BY <1>3, <2>2
<1> HIDE DEF r
<1>5. c.p = r /\ NoMarks(c)
    BY DEF UrlTold, ExecType, NoMarks
<1> HIDE DEF c, u
<1>6. After(c).p = r /\ NoMarks(After(c))
    <2>1. CASE c.p.http_errno = "OK"
        BY <1>5, <2>1 DEF After
    <2>2. CASE c.p.http_errno # "OK"
        <3>1. After(c) = [c EXCEPT !.done = TRUE]
            BY <2>2 DEF After
        <3>2. After(c).p = c.p /\ After(c).marks = c.marks
            BY <3>1
        <3> QED BY <1>5, <3>2 DEF NoMarks
    <2> QED BY <2>1, <2>2
<1>7. BodyCallback(u) = u
    BY <1>4, <1>6 DEF NoMarks, NoMark, BodyCallback
<1>8. Flushed(z) = z.p
    BY <1>1, FlushedBare DEF NoMark
<1>9. Leftover(z) = u
    BY <1>0, <1>2, <1>7 DEF u
<1> QED BY <1>4, <1>6, <1>8, <1>9 DEF r

\* What the parser is when the buffer has ended.
LEMMA EndIs ==
    ASSUME NEW x, NEW y, NEW l, Twins(x, y, l, 0)
    PROVE  LET q == EndOfBuffer(x).p
               r == EndOfBuffer(y).p
           IN /\ q \in ParserType /\ q.handled = x.p.handled
              /\ q.message_complete = x.p.message_complete
              /\ q.http_errno = "OK" => x.p.http_errno = "OK"
              /\ x.p.http_errno = "OK" => q = r /\ SameCore([q EXCEPT !.http_errno = "OK"], x.p)
<1> DEFINE q == EndOfBuffer(x).p
           r == EndOfBuffer(y).p
<1>0. x \in ExecType /\ y \in ExecType /\ x.p \in ParserType /\ x.table = y.table /\ x.done = y.done
    BY ExecParser DEF Twins
<1>1. CASE x.p.http_errno # "OK"
    <2>1. q = x.p
        BY <1>1 DEF Twins, EndOfBuffer
    <2> QED BY <1>0, <1>1, <2>1
<1>2. ASSUME x.p.http_errno = "OK" PROVE Alike(x, y, l)
    BY <1>2 DEF Twins
<1>3. CASE x.p.http_errno = "OK" /\ x.done
    <2>1. x.p.state \in PlainStates /\ MarksFit(x) /\ MarksFit(y) /\ Flushed(x) = Flushed(y)
          /\ y.p.state = x.p.state
        BY <1>0, <1>2, <1>3, SameParts DEF Alike, SameCore
    <2>2. ASSUME NEW z \in {x, y} PROVE Flushed(z) = z.p
        BY <2>1, PlainApart, FlushedBare DEF MarksFit
    <2>3. q = x.p /\ r = y.p
        BY <1>0, <1>3 DEF EndOfBuffer
    <2>4. q = r
        BY <2>1, <2>2, <2>3
    <2>5. SameCore([x.p EXCEPT !.http_errno = "OK"], x.p)
        BY <1>0, <1>3 DEF SameCore, ParserType
    <2> QED BY <1>0, <1>3, <2>3, <2>4, <2>5
<1>4. CASE x.p.http_errno = "OK" /\ ~x.done /\ x.p.state \notin UrlAll
    <2>1. MarksFit(x) /\ MarksFit(y) /\ Flushed(x) = Flushed(y) /\ y.p.state = x.p.state
        BY <1>0, <1>2, <1>4, SameParts DEF Alike, SameCore
    <2>2. q = Flushed(x) /\ r = Flushed(y)
        BY <1>0, <1>4, <2>1, LeftoverTold DEF EndOfBuffer
    <2>3. Flushed(x) \in ParserType /\ SameCore(Flushed(x), x.p)
        BY <1>0, FlushedIs
    <2> HIDE DEF q, r
    <2>4. SameCore([q EXCEPT !.http_errno = "OK"], x.p)
        BY <1>4, <2>2, <2>3 DEF SameCore, ParserType
    <2>5. q \in ParserType /\ q.handled = x.p.handled /\ q.message_complete = x.p.message_complete
        BY <2>2, <2>3 DEF SameCore
    <2> QED BY <1>4, <2>1, <2>2, <2>4, <2>5 DEF q, r
<1>5. CASE x.p.http_errno = "OK" /\ ~x.done /\ x.p.state \in UrlAll
    <2>1. MarksFit(x) /\ MarksFit(y) /\ Flushed(x) = Flushed(y) /\ y.p.state = x.p.state
          /\ x.marks.url = y.marks.url
        BY <1>0, <1>2, <1>5, SameParts DEF Alike, SameCore
    <2>2. /\ q = LookedUp(x.table, x.p, x.marks.url.text) /\ Flushed(x) = x.p
          /\ r = LookedUp(y.table, y.p, y.marks.url.text) /\ Flushed(y) = y.p
        BY <1>0, <1>5, <2>1, LeftoverUrl DEF EndOfBuffer
    <2>3. x.table \in DOMAIN Scripts /\ x.marks.url.text \in String
        <3>1. x.marks.url \in MarkType
            BY <1>0, ExecParser
        <3> QED BY <1>0, <3>1 DEF ExecType, MarkType
    <2> HIDE DEF q, r
    <2>4. /\ q \in ParserType /\ q.handled = x.p.handled /\ q.message_complete = x.p.message_complete
          /\ SameCore([q EXCEPT !.http_errno = "OK"], x.p)
        BY <1>0, <1>5, <2>2, <2>3, LookedUpIs
    <2> QED BY <1>0, <1>5, <2>1, <2>2, <2>4 DEF q, r
<1> QED BY <1>1, <1>3, <1>4, <1>5

\* Where a parser may go on reading.
Ready(q) ==
    /\ q \in ParserType /\ q.http_errno = "OK" /\ Sound(q)
    /\ q.state = "chunk_size_start" => q.nread = 0

LEMMA UrlRemarked ==
    ASSUME NEW s
    PROVE  Remarked(s).url <=> s \in UrlAll
BY DEF Remarked, UrlAll

\* The marks of a new buffer.
LEMMA BeginIs ==
    ASSUME NEW t \in DOMAIN Scripts, NEW q \in ParserType, q.state # "dead"
    PROVE  LET z == Begin(t, q)
           IN /\ z \in ExecType /\ z.p = q /\ z.table = t /\ z.done = FALSE /\ z.consumed = 0
              /\ z.url_start = 0 /\ MarksFit(z)
              /\ z.marks.url = (IF q.state \in UrlAll THEN Marked ELSE NoMark)
              /\ z.marks.field = (IF q.state = "header_field" THEN Marked ELSE NoMark)
              /\ z.marks.value = (IF q.state = "header_value" THEN Marked ELSE NoMark)
              /\ z.marks.body = NoMark
<1> DEFINE m == Remarked(q.state)
           u == IF m.url THEN Marked ELSE NoMark
           f == IF m.field THEN Marked ELSE NoMark
           v == IF m.value THEN Marked ELSE NoMark
           z == Begin(t, q)
<1>1. u \in MarkType /\ f \in MarkType /\ v \in MarkType /\ NoMark \in MarkType
    BY NoMarkType
<1>2. /\ u = (IF q.state \in UrlAll THEN Marked ELSE NoMark)
      /\ f = (IF q.state = "header_field" THEN Marked ELSE NoMark)
      /\ v = (IF q.state = "header_value" THEN Marked ELSE NoMark)
    BY UrlRemarked DEF Remarked
<1>3. z = [p |-> q, table |-> t, done |-> FALSE, consumed |-> 0, url_start |-> 0,
           marks |-> [url |-> u, field |-> f, value |-> v, body |-> NoMark]]
    BY DEF Begin
<1> HIDE DEF u, f, v, z, m
<1>4. z \in ExecType
    BY <1>1, <1>3 DEF ExecType
<1>5. /\ z.p = q /\ z.table = t /\ z.done = FALSE /\ z.consumed = 0 /\ z.url_start = 0
      /\ z.marks.url = u /\ z.marks.field = f /\ z.marks.value = v /\ z.marks.body = NoMark
    BY <1>3
<1>6. MarksFit(z)
    <2>1. Marked.set = TRUE /\ NoMark.set = FALSE
        BY DEF Marked, NoMark
    <2> HIDE DEF Marked, NoMark
    <2> QED BY <1>2, <1>5, <2>1 DEF MarksFit
<1> QED BY <1>2, <1>4, <1>5, <1>6 DEF z

\* A buffer begins: an execution is its own twin.
LEMMA BeginTwins ==
    ASSUME NEW t \in DOMAIN Scripts, NEW q, Ready(q), NEW l,
           Len(q.handled) = l => ~q.message_complete
    PROVE  Twins(Begin(t, q), Begin(t, q), l, 0)
<1> DEFINE z == Begin(t, q)
<1>1. /\ z \in ExecType /\ z.p = q /\ z.table = t /\ z.done = FALSE /\ z.consumed = 0
      /\ z.url_start = 0 /\ MarksFit(z)
    BY BeginIs DEF Ready, Sound
<1> HIDE DEF z
<1>2. Position(z, z, l)
    BY <1>1 DEF Position
<1>3. Alike(z, z, l)
    BY <1>1, <1>2 DEF Alike, Ready
<1> QED BY <1>1, <1>3 DEF Twins, z, Ready

\* The telling of no more text.
LEMMA TellNoMore ==
    ASSUME NEW q \in ParserType
    PROVE  /\ q.header_building_state = 1 => TellField(q, <<>>) = q
           /\ q.header_building_state = 0 => TellValue(q, <<>>) = q
<1>1. q.header_field \o <<>> = q.header_field /\ q.header_value \o <<>> = q.header_value
    BY SeqNothing DEF ParserType, String
<1>2. ASSUME q.header_building_state = 1 PROVE TellField(q, <<>>) = q
    <2>1. TellField(q, <<>>) = [q EXCEPT !.header_field = q.header_field \o <<>>]
        BY <1>2 DEF TellField
    <2> QED BY <1>1, <2>1 DEF ParserType
<1>3. ASSUME q.header_building_state = 0 PROVE TellValue(q, <<>>) = q
    <2>1. TellValue(q, <<>>) = [q EXCEPT !.header_value = q.header_value \o <<>>,
                                         !.header_building_state = 0]
        BY <1>3 DEF TellValue
    <2> QED BY <1>1, <1>3, <2>1 DEF ParserType
<1> QED BY <1>2, <1>3

\* What the callback leaves in header_building_state.
LEMMA ToldBuilding ==
    ASSUME NEW z \in ExecType, MarksFit(z)
    PROVE  /\ z.p.state = "header_field" => Flushed(z).header_building_state = 1
           /\ z.p.state = "header_value" => Flushed(z).header_building_state = 0
<1>0. Flushed(z) = Told(z.p, z.marks)
    BY FlushedTold
<1>1. z.p \in ParserType /\ z.marks.field.text \in String /\ z.marks.value.text \in String
    BY ExecParser DEF MarkType
<1>2. ASSUME z.p.state = "header_field" PROVE Flushed(z).header_building_state = 1
    <2>1. z.marks.field.set /\ ~z.marks.value.set /\ ~z.marks.body.set
        BY <1>2 DEF MarksFit, BodyMarks
    <2>2. Flushed(z) = TellField(z.p, z.marks.field.text)
        BY <1>0, <2>1 DEF Told, ToldField, ToldValue, ToldBody
    <2>3. TellField(z.p, z.marks.field.text).header_building_state = 1
        <3>1. DOMAIN z.p = {"state", "header_state", "matched", "flags", "uses_transfer_encoding",
                            "nread", "content_length", "qs_point", "method", "version", "upgrade",
                            "http_errno", "req", "header_building_state", "header_field",
                            "header_value", "message_complete", "handled", "refused"}
            BY <1>1 DEF ParserType
        <3> QED BY <3>1 DEF TellField
    <2> QED BY <2>2, <2>3
<1>3. ASSUME z.p.state = "header_value" PROVE Flushed(z).header_building_state = 0
    <2>1. z.marks.value.set /\ ~z.marks.field.set /\ ~z.marks.body.set
        BY <1>3 DEF MarksFit, BodyMarks
    <2>2. Flushed(z) = TellValue(z.p, z.marks.value.text)
        BY <1>0, <2>1 DEF Told, ToldField, ToldValue, ToldBody
    <2>3. TellValue(z.p, z.marks.value.text).header_building_state = 0
        BY <1>1 DEF TellValue, ParserType
    <2> QED BY <2>2, <2>3
<1> QED BY <1>2, <1>3

\* An execution that has come to the end of its buffer, not inside a URL, is the twin of
\* the one that begins the next buffer.
LEMMA BeginAgain ==
    ASSUME NEW x, NEW l, Twins(x, x, l, 0), x.p.http_errno = "OK", ~x.done, Len(x.p.handled) = l,
           x.p.state \notin UrlAll
    PROVE  Twins(x, Begin(x.table, EndOfBuffer(x).p), l, 0)
<1> DEFINE q == Flushed(x)
           y == Begin(x.table, q)
<1>0. x \in ExecType /\ x.table \in DOMAIN Scripts /\ Alike(x, x, l) /\ MarksFit(x) /\ Sound(x.p)
    BY DEF Twins, Alike, ExecType
<1>1. EndOfBuffer(x).p = q
    BY <1>0, LeftoverTold DEF EndOfBuffer
<1>2. q \in ParserType /\ SameCore(q, x.p)
    BY <1>0, FlushedIs
<1>3. /\ q.state = x.p.state /\ q.http_errno = "OK" /\ q.state # "dead"
    BY <1>0, <1>2 DEF SameCore, Sound
<1>4. /\ x.p.state = "header_field" => q.header_building_state = 1
      /\ x.p.state = "header_value" => q.header_building_state = 0
    BY <1>0, ToldBuilding
<1> HIDE DEF q
<1>5. /\ y \in ExecType /\ y.p = q /\ y.table = x.table /\ y.done = FALSE /\ y.consumed = 0
      /\ y.url_start = 0 /\ MarksFit(y)
      /\ y.marks.url = NoMark
      /\ y.marks.field = (IF q.state = "header_field" THEN Marked ELSE NoMark)
      /\ y.marks.value = (IF q.state = "header_value" THEN Marked ELSE NoMark)
      /\ y.marks.body = NoMark
    BY <1>0, <1>2, <1>3, BeginIs
<1> HIDE DEF y
<1>6. Flushed(y) = q
    <2>1. Flushed(y) = Told(q, y.marks)
        BY <1>5, FlushedTold
    <2>2. NoMark.set = FALSE /\ Marked.set = TRUE /\ Marked.text = <<>>
        BY DEF NoMark, Marked
    <2>3. CASE q.state = "header_field"
        <3>1. Told(q, y.marks) = TellField(q, <<>>)
            BY <1>5, <2>2, <2>3 DEF Told, ToldField, ToldValue, ToldBody
        <3> QED BY <1>2, <1>3, <1>4, <2>1, <2>3, <3>1, TellNoMore
    <2>4. CASE q.state = "header_value"
        <3>1. Told(q, y.marks) = TellValue(q, <<>>)
            BY <1>5, <2>2, <2>4 DEF Told, ToldField, ToldValue, ToldBody
        <3> QED BY <1>2, <1>3, <1>4, <2>1, <2>4, <3>1, TellNoMore
    <2>5. CASE q.state \notin {"header_field", "header_value"}
        BY <1>5, <2>1, <2>2, <2>5 DEF Told, ToldField, ToldValue, ToldBody
    <2> QED BY <2>3, <2>4, <2>5
<1>7. x.marks.url = y.marks.url
    BY <1>0, <1>5 DEF MarksFit
<1>8. Position(x, x, l)
    BY <1>0 DEF Alike
<1>9. Position(x, y, l)
    BY <1>5, <1>8 DEF Position
<1>10. Alike(x, y, l)
    BY <1>0, <1>5, <1>6, <1>7, <1>9 DEF Alike, q
<1>11. x.done = FALSE
    BY <1>0, ExecParser
<1>12. x.p.state = "chunk_size_start" => x.p.nread = 0
    BY DEF Twins
<1>13. Twins(x, y, l, 0)
    BY <1>0, <1>3, <1>5, <1>10, <1>11, <1>12 DEF Twins
<1> QED BY <1>1, <1>13 DEF y

-----------------------------------------------------------------------------
(* The loop over a buffer, as the sequence of the executions it goes through. *)

\* Induction, for a set.
LEMMA NatSet ==
    ASSUME NEW S, 0 \in S, \A n \in Nat : n \in S => n + 1 \in S
    PROVE  Nat \subseteq S
<1> SUFFICES ASSUME NEW m \in Nat, m \notin S PROVE FALSE
    OBVIOUS
<1> DEFINE R == {ss \in Nat \X Nat : ss[1] < ss[2]}
           T == {n \in Nat : n \notin S}
<1>1. IsWellFoundedOn(R, Nat)
    BY NatLessThanWellFounded DEF OpToRel
<1>2. T \subseteq Nat /\ T # {}
    OBVIOUS
<1>3. \A x, y \in Nat : y < x => <<y, x>> \in R
    OBVIOUS
<1> HIDE DEF R
<1>4. PICK x \in T : \A y \in T : ~(<<y, x>> \in R)
    BY <1>1, <1>2, WFMin
<1>5. x \in Nat /\ x # 0 /\ x - 1 \in Nat /\ x - 1 < x
    BY <1>4
<1>6. x - 1 \notin T
    BY <1>3, <1>4, <1>5
<1> QED BY <1>4, <1>5, <1>6

\* One character, unless the execution has returned.
Onward(z, ch) == IF z.done THEN z ELSE Step(z, ch)

\* The executions f[0], f[1], ... over the first N characters of s.
Walks(f, s, N) == \A k \in 1 .. N : f[k] = Onward(f[k - 1], s[k])

LEMMA WalkOne ==
    ASSUME NEW f, NEW s, NEW N \in Nat, Walks(f, s, N), NEW k \in Nat, k + 1 <= N
    PROVE  f[k + 1] = Onward(f[k], s[k + 1])
<1>1. k + 1 \in 1 .. N /\ (k + 1) - 1 = k
    OBVIOUS
<1> QED BY <1>1 DEF Walks

\* Bytes is the last of them.
Ran(x, data, f) ==
    f = [n \in 0 .. Len(data) |->
            IF n = 0 THEN x
            ELSE LET y == f[n - 1] IN IF y.done THEN y ELSE Step(y, data[n])]

Chain(x, s, n, f) == f = [k \in 0 .. n |-> IF k = 0 THEN x ELSE Onward(f[k - 1], s[k])]

LEMMA WalkExists ==
    ASSUME NEW x, NEW s, NEW N, N \in Nat
    PROVE  \E f : Chain(x, s, N, f)
<1> DEFINE Up(n, f) ==
               f = [k \in 0 .. n |-> IF k = 0 THEN x ELSE Onward(f[k - 1], s[k])]
           S == {n \in Nat : \E f : Up(n, f)}
<1>1. 0 \in S
    <2>1. Up(0, [k \in 0 .. 0 |-> x])
        OBVIOUS
    <2> QED BY <2>1
<1>2. ASSUME NEW n \in Nat, n \in S PROVE n + 1 \in S
    <2>1. PICK f : Up(n, f)
        BY <1>2
    <2> DEFINE last == Onward(f[n], s[n + 1])
               g == [k \in 0 .. n + 1 |-> IF k = n + 1 THEN last ELSE f[k]]
    <2> HIDE DEF last
    <2>2. \A k \in 0 .. n + 1 : k \in 0 .. n \/ k = n + 1
        OBVIOUS
    <2>3. ASSUME NEW k \in 0 .. n + 1
          PROVE  g[k] = IF k = 0 THEN x ELSE Onward(g[k - 1], s[k])
        <3>1. CASE k = 0
            BY <2>1, <3>1
        <3>2. CASE k = n + 1
            <4>1. g[k] = last /\ g[k - 1] = f[n] /\ k # 0
                BY <3>2
            <4> QED BY <3>2, <4>1 DEF last
        <3>3. CASE k # 0 /\ k # n + 1
            <4>1. k \in 0 .. n /\ k - 1 \in 0 .. n /\ k - 1 # n + 1 /\ k - 1 \in 0 .. n + 1
                BY <3>3
            <4>2. g[k] = f[k] /\ g[k - 1] = f[k - 1]
                BY <4>1
            <4>3. f[k] = IF k = 0 THEN x ELSE Onward(f[k - 1], s[k])
                BY <2>1, <4>1
            <4> QED BY <4>2, <4>3
        <3> QED BY <3>1, <3>2, <3>3
    <2>4. DOMAIN g = 0 .. n + 1 /\ g = [k \in 0 .. n + 1 |-> g[k]]
        OBVIOUS
    <2> HIDE DEF g
    <2>5. Up(n + 1, g)
        BY <2>3, <2>4
    <2> QED BY <2>5
<1>3. N \in S
    <2> HIDE DEF S, Up
    <2> QED BY <1>1, <1>2, NatSet
<1> QED BY <1>3 DEF Chain

LEMMA BytesIs ==
    ASSUME NEW x, NEW data, Len(data) \in Nat
    PROVE  \E f : f[0] = x /\ Walks(f, data, Len(data)) /\ Bytes(x, data) = f[Len(data)]
<1> DEFINE N == Len(data)
<1>1. \E f : Ran(x, data, f)
    <2>1. PICK f : Chain(x, data, N, f)
        BY WalkExists
    <2>3. Ran(x, data, f)
        BY <2>1, Zenon DEF Ran, Chain, Onward
    <2> QED BY <2>3
<1>2. Bytes(x, data) = (CHOOSE f : Ran(x, data, f))[N]
    BY Zenon DEF Bytes, Ran
<1>3. PICK f : Ran(x, data, f) /\ Bytes(x, data) = f[N]
    BY <1>1, <1>2
<1>4. f[0] = x
    BY <1>3 DEF Ran
<1>5. ASSUME NEW k \in 1 .. N PROVE f[k] = Onward(f[k - 1], data[k])
    <2>1. k \in 0 .. N /\ k # 0
        OBVIOUS
    <2> QED BY <1>3, <2>1 DEF Ran, Onward
<1>6. Walks(f, data, N)
    BY <1>5 DEF Walks
<1> QED BY <1>3, <1>4, <1>6

\* There is one such sequence.
LEMMA WalkIs ==
    ASSUME NEW f, NEW g, NEW s, NEW t, NEW N \in Nat, Walks(f, s, N), Walks(g, t, N),
           f[0] = g[0], \A k \in 1 .. N : s[k] = t[k]
    PROVE  \A k \in 0 .. N : f[k] = g[k]
<1> DEFINE S == {k \in Nat : k <= N => f[k] = g[k]}
<1>1. 0 \in S
    OBVIOUS
<1>2. ASSUME NEW k \in Nat, k \in S PROVE k + 1 \in S
    <2> SUFFICES ASSUME k + 1 <= N PROVE f[k + 1] = g[k + 1]
        OBVIOUS
    <2>1. f[k] = g[k] /\ s[k + 1] = t[k + 1]
        BY <1>2
    <2>2. f[k + 1] = Onward(f[k], s[k + 1]) /\ g[k + 1] = Onward(g[k], t[k + 1])
        BY WalkOne
    <2> QED BY <2>1, <2>2
<1>3. Nat \subseteq S
    <2> HIDE DEF S
    <2> QED BY <1>1, <1>2, NatSet
<1> QED BY <1>3

LEMMA BytesLast ==
    ASSUME NEW x, NEW t \in String, NEW g, g[0] = x, Walks(g, t, Len(t))
    PROVE  Bytes(x, t) = g[Len(t)]
<1>1. Len(t) \in Nat
    BY DEF String
<1>2. PICK h : h[0] = x /\ Walks(h, t, Len(t)) /\ Bytes(x, t) = h[Len(t)]
    BY <1>1, BytesIs
<1>3. \A k \in 0 .. Len(t) : h[k] = g[k]
    BY <1>1, <1>2, WalkIs
<1> QED BY <1>1, <1>2, <1>3

LEMMA PartOfSeq ==
    ASSUME NEW S, NEW s \in Seq(S), NEW r \in Nat, NEW n \in Nat, r <= n, n <= Len(s)
    PROVE  LET t == SubSeq(s, r + 1, n)
           IN t \in Seq(S) /\ Len(t) = n - r /\ \A k \in 1 .. n - r : t[k] = s[r + k]
OBVIOUS

LEMMA PartOf ==
    ASSUME NEW s \in String, NEW r \in Nat, NEW n \in Nat, r <= n, n <= Len(s)
    PROVE  LET t == SubSeq(s, r + 1, n)
           IN t \in String /\ Len(t) = n - r /\ \A k \in 1 .. n - r : t[k] = s[r + k]
<1> DEFINE t == SubSeq(s, r + 1, n)
<1>1. s \in Seq(STRING)
    BY DEF String
<1>2. t \in Seq(STRING) /\ Len(t) = n - r /\ \A k \in 1 .. n - r : t[k] = s[r + k]
    BY <1>1, PartOfSeq
<1> QED BY <1>2 DEF String

LEMMA CharOf ==
    ASSUME NEW s \in String, NEW k \in 1 .. Len(s)
    PROVE  s[k] \in STRING
BY DEF String

\* The bytes from r to n, read at once from where f is after r of them.
LEMMA BytesOf ==
    ASSUME NEW f, NEW s \in String, NEW N \in Nat, N <= Len(s), Walks(f, s, N),
           NEW r \in Nat, NEW n \in Nat, r <= n, n <= N, NEW x, x = f[r]
    PROVE  Bytes(x, SubSeq(s, r + 1, n)) = f[n]
<1> DEFINE t == SubSeq(s, r + 1, n)
           M == n - r
           g == [k \in 0 .. M |-> f[r + k]]
<1>1. M \in Nat /\ t \in String /\ Len(t) = M /\ \A k \in 1 .. M : t[k] = s[r + k]
    BY PartOf
<1>2. ASSUME NEW k \in 1 .. M PROVE g[k] = Onward(g[k - 1], t[k])
    <2>1. r + k \in 1 .. N /\ k \in 0 .. M /\ k - 1 \in 0 .. M /\ (r + k) - 1 = r + (k - 1)
        OBVIOUS
    <2>2. f[r + k] = Onward(f[(r + k) - 1], s[r + k])
        BY <2>1 DEF Walks
    <2>3. t[k] = s[r + k]
        BY <1>1
    <2> QED BY <2>1, <2>2, <2>3
<1>3. Walks(g, t, M) /\ g[0] = x /\ g[M] = f[n]
    BY <1>1, <1>2 DEF Walks
<1> HIDE DEF g, t
<1>4. Walks(g, t, Len(t)) /\ g[Len(t)] = f[n]
    BY <1>1, <1>3
<1>5. Bytes(x, t) = g[Len(t)]
    BY <1>1, <1>3, <1>4, BytesLast
<1> QED BY <1>4, <1>5 DEF t

\* Twins stay twins while they can be compared.
LEMMA WalkTwins ==
    ASSUME NEW f, NEW g, NEW s, NEW t, NEW N \in Nat, NEW l, Walks(f, s, N), Walks(g, t, N),
           Twins(f[0], g[0], l, 0), \A k \in 1 .. N : s[k] = t[k] /\ s[k] \in STRING,
           \A k \in 0 .. N : k < N => (Twins(f[k], g[k], l, 0) => Comparable(f[k], g[k], l))
    PROVE  /\ \A k \in 0 .. N : Twins(f[k], g[k], l, 0)
           /\ \A k \in 0 .. N : k < N => Follows(f[k].p, f[k + 1].p)
<1> DEFINE S == {k \in Nat : k <= N => Twins(f[k], g[k], l, 0)}
<1>0. ASSUME NEW k \in Nat, k + 1 <= N, Twins(f[k], g[k], l, 0)
      PROVE  Twins(f[k + 1], g[k + 1], l, 0) /\ Follows(f[k].p, f[k + 1].p)
    <2>1. k + 1 \in 1 .. N /\ k \in 0 .. N /\ k < N
        BY <1>0
    <2>2. s[k + 1] = t[k + 1] /\ s[k + 1] \in STRING
        BY <2>1
    <2>3. f[k + 1] = Onward(f[k], s[k + 1]) /\ g[k + 1] = Onward(g[k], t[k + 1])
        BY <1>0, WalkOne
    <2>4. Comparable(f[k], g[k], l) /\ f[k].done = g[k].done
        BY <1>0, <2>1 DEF Twins
    <2>5. CASE f[k].done
        BY <1>0, <2>3, <2>4, <2>5 DEF Onward, Follows
    <2>6. CASE ~f[k].done
        <3>1. f[k + 1] = Step(f[k], s[k + 1]) /\ g[k + 1] = Step(g[k], s[k + 1])
            BY <2>2, <2>3, <2>4, <2>6 DEF Onward
        <3> QED BY <1>0, <2>2, <2>4, <2>6, <3>1, StepTwins
    <2> QED BY <2>5, <2>6
<1>1. 0 \in S
    OBVIOUS
<1>2. ASSUME NEW k \in Nat, k \in S PROVE k + 1 \in S
    BY <1>0, <1>2
<1>3. Nat \subseteq S
    <2> HIDE DEF S
    <2> QED BY <1>1, <1>2, NatSet
<1>4. \A k \in 0 .. N : Twins(f[k], g[k], l, 0)
    BY <1>3
<1>5. ASSUME NEW k \in 0 .. N, k < N PROVE Follows(f[k].p, f[k + 1].p)
    BY <1>0, <1>4, <1>5
<1> QED BY <1>4, <1>5

\* An execution by itself: it is sound all along, and what has been handled grows.
LEMMA WalkAlone ==
    ASSUME NEW f, NEW s, NEW N \in Nat, Walks(f, s, N), Twins(f[0], f[0], -1, 0),
           \A k \in 1 .. N : s[k] \in STRING
    PROVE  /\ \A k \in 0 .. N : Twins(f[k], f[k], -1, 0)
           /\ \A k \in 0 .. N : k < N => Follows(f[k].p, f[k + 1].p)
<1>1. \A k \in 0 .. N : Comparable(f[k], f[k], -1)
    BY DEF Comparable
<1> QED BY <1>1, WalkTwins

LEMMA FollowsGrow ==
    ASSUME NEW q \in ParserType, NEW r \in ParserType, Follows(q, r)
    PROVE  /\ Len(q.handled) \in Nat /\ Len(r.handled) \in Nat
           /\ Len(q.handled) <= Len(r.handled)
           /\ Len(q.handled) = Len(r.handled) => r.handled = q.handled
           /\ r.message_complete /\ r.handled = <<>> => q.message_complete /\ q.handled = <<>>
<1>1. q.handled \in Seq(ReqType) /\ r.handled \in Seq(ReqType)
    BY DEF ParserType
<1>2. CASE r.handled = q.handled /\ r.message_complete = q.message_complete
    BY <1>1, <1>2
<1>3. CASE \E m \in ReqType : r.handled = Append(q.handled, m)
    <2>1. PICK m \in ReqType : r.handled = Append(q.handled, m)
        BY <1>3
    <2>2. Len(r.handled) = Len(q.handled) + 1
        BY <1>1, <2>1
    <2>3. r.handled # <<>>
        BY <1>1, <2>1
    <2> QED BY <1>1, <2>2, <2>3
<1> QED BY <1>2, <1>3 DEF Follows

LEMMA WalkGrows ==
    ASSUME NEW f, NEW N \in Nat, \A k \in 0 .. N : f[k].p \in ParserType,
           \A k \in 0 .. N : k < N => Follows(f[k].p, f[k + 1].p),
           NEW j \in 0 .. N
    PROVE  \A k \in j .. N :
              /\ Len(f[j].p.handled) \in Nat /\ Len(f[k].p.handled) \in Nat
              /\ Len(f[j].p.handled) <= Len(f[k].p.handled)
              /\ Len(f[j].p.handled) = Len(f[k].p.handled) => f[k].p.handled = f[j].p.handled
              /\ f[k].p.message_complete /\ f[k].p.handled = <<>>
                 => f[j].p.message_complete /\ f[j].p.handled = <<>>
<1> DEFINE L(k) == Len(f[k].p.handled)
           Good(k) == /\ L(j) \in Nat /\ L(k) \in Nat /\ L(j) <= L(k)
                      /\ L(j) = L(k) => f[k].p.handled = f[j].p.handled
                      /\ f[k].p.message_complete /\ f[k].p.handled = <<>>
                         => f[j].p.message_complete /\ f[j].p.handled = <<>>
           S == {d \in Nat : j + d <= N => Good(j + d)}
<1>1. 0 \in S
    <2>1. Len(f[j].p.handled) \in Nat
        BY DEF ParserType
    <2> QED BY <2>1
<1>2. ASSUME NEW d \in Nat, d \in S PROVE d + 1 \in S
    <2> SUFFICES ASSUME j + (d + 1) <= N PROVE Good(j + (d + 1))
        OBVIOUS
    <2>1. j + d \in 0 .. N /\ (j + d) + 1 \in 0 .. N /\ j + d < N /\ (j + d) + 1 = j + (d + 1)
        OBVIOUS
    <2>2. Good(j + d)
        BY <1>2, <2>1
    <2>3. f[j + d].p \in ParserType /\ f[j + (d + 1)].p \in ParserType
          /\ Follows(f[j + d].p, f[j + (d + 1)].p)
        BY <2>1
    <2> DEFINE q == f[j + d].p
               r == f[j + (d + 1)].p
    <2>4. /\ Len(q.handled) \in Nat /\ Len(r.handled) \in Nat
          /\ Len(q.handled) <= Len(r.handled)
          /\ Len(q.handled) = Len(r.handled) => r.handled = q.handled
          /\ r.message_complete /\ r.handled = <<>> => q.message_complete /\ q.handled = <<>>
        BY <2>3, FollowsGrow
    <2> HIDE DEF q, r
    <2>5. L(j) \in Nat /\ L(j + d) \in Nat /\ L(j) <= L(j + d) /\ L(j + (d + 1)) \in Nat
          /\ L(j + d) = Len(q.handled) /\ L(j + (d + 1)) = Len(r.handled)
        BY <2>2, <2>4 DEF q, r
    <2>6. L(j) <= L(j + (d + 1))
        BY <2>4, <2>5, SMTT(30)
    <2>7. ASSUME L(j) = L(j + (d + 1)) PROVE r.handled = f[j].p.handled
        <3>1. L(j) = L(j + d) /\ Len(q.handled) = Len(r.handled)
            BY <2>4, <2>5, <2>7
        <3>2. q.handled = f[j].p.handled
            BY <2>2, <3>1 DEF q
        <3> QED BY <2>4, <3>1, <3>2
    <2>8. r.message_complete /\ r.handled = <<>> => f[j].p.message_complete /\ f[j].p.handled = <<>>
        BY <2>2, <2>4 DEF q
    <2> QED BY <2>5, <2>6, <2>7, <2>8 DEF r
<1>3. Nat \subseteq S
    <2> HIDE DEF S
    <2> QED BY <1>1, <1>2, NatSet
<1>4. ASSUME NEW k \in j .. N PROVE Good(k)
    <2>1. k - j \in Nat /\ j + (k - j) = k /\ k <= N
        OBVIOUS
    <2> HIDE DEF Good
    <2>2. k - j \in S
        BY <1>3, <2>1
    <2> QED BY <2>1, <2>2
<1> QED BY <1>4

-----------------------------------------------------------------------------
(* An execution keeps its table.                                           *)

Of(z, t) == "table" \in DOMAIN z /\ z.table = t

LEMMA OfParts ==
    ASSUME NEW z, NEW t, Of(z, t), NEW v
    PROVE  /\ Of([z EXCEPT !.p = v], t) /\ Of([z EXCEPT !.marks = v], t)
           /\ Of([z EXCEPT !.done = v], t) /\ Of([z EXCEPT !.url_start = v], t)
           /\ Of([z EXCEPT !.consumed = v], t)
BY DEF Of

LEMMA OfBasics ==
    ASSUME NEW z, NEW t, Of(z, t), NEW v
    PROVE  /\ Of(Error(z, v), t) /\ Of(To(z, v), t) /\ Of(Mark(z, v), t) /\ Of(After(z), t)
           /\ Of(Unmark(z, v), t) /\ Of(InHeader(z, v), t) /\ Of(Count(z), t) /\ Of(Grow(z, v), t)
           /\ Of(MatchField(z, v), t) /\ Of(NextChunk(z), t) /\ Of(OnMessageComplete(z), t)
           /\ Of(OnHeadersComplete(z), t)
<1>1. Of(Error(z, v), t)
    BY DEF Of, Error
<1>2. Of(To(z, v), t) /\ Of(InHeader(z, v), t)
    BY DEF Of, To, InHeader
<1>3. Of(Mark(z, v), t) /\ Of(Unmark(z, v), t)
    BY DEF Of, Mark, Unmark
<1>4. Of(After(z), t) /\ Of(Count(z), t) /\ Of(Grow(z, v), t)
    BY DEF Of, After, Count, Grow
<1>5. Of(MatchField(z, v), t) /\ Of(NextChunk(z), t)
    BY DEF Of, MatchField, NextChunk, To
<1>6. Of(OnMessageComplete(z), t)
    BY DEF Of, OnMessageComplete
<1>7. Of(OnHeadersComplete(z), t)
    BY DEF Of, OnHeadersComplete
<1> QED BY <1>1, <1>2, <1>3, <1>4, <1>5, <1>6, <1>7

LEMMA OfCallbacks ==
    ASSUME NEW z, NEW t, Of(z, t)
    PROVE  Of(UrlCallback(z), t) /\ Of(FieldCallback(z), t) /\ Of(ValueCallback(z), t)
           /\ Of(BodyCallback(z), t)
<1>1. ASSUME NEW u, Of(u, t), NEW text
      PROVE  Of(OnUrl(u, text), t)
    <2> DEFINE raw == u.p.req.raw_url \o text
               url == PathOf(u.p, raw)
               q == [u.p EXCEPT !.req.raw_url = raw, !.req.url = url,
                                !.req.url_params = UrlParams(raw)]
               r == Answered(q, RouteCode(u.table, q.req.method, url))
    <2>1. OnUrl(u, text) = After([u EXCEPT !.p = r])
        BY Zenon DEF OnUrl
    <2> HIDE DEF r
    <2> QED BY <1>1, <2>1, OfParts, OfBasics
<1>2. ASSUME NEW u, Of(u, t), NEW text
      PROVE  Of(OnHeaderField(u, text), t) /\ Of(OnHeaderValue(u, text), t) /\ Of(OnBody(u, text), t)
    BY <1>2 DEF Of, OnHeaderField, OnHeaderValue, OnBody
<1> QED BY <1>1, <1>2, OfBasics DEF UrlCallback, FieldCallback, ValueCallback, BodyCallback

LEMMA OfLine ==
    ASSUME NEW z, NEW t, Of(z, t), NEW ch
    PROVE  /\ Of(StartReq(z, ch), t) /\ Of(ReqMethod(z, ch), t) /\ Of(SpacesBeforeUrl(z, ch), t)
           /\ Of(InSchema(z, ch), t) /\ Of(InUrl(z, ch), t) /\ Of(HttpVersion(z, ch), t)
           /\ Of(LineAlmostDone(z, ch), t)
<1>1. Of(StartReq(z, ch), t)
    BY DEF Of, StartReq, Error, To
<1>2. Of(ReqMethod(z, ch), t)
    <2> DEFINE Known(g, u) == [u EXCEPT !.p.method = g, !.p.req.method = g,
                                        !.p.matched = Append(@, ch)]
    <2>1. ASSUME NEW u, Of(u, t), NEW g PROVE Of(Known(g, u), t)
        BY <2>1 DEF Of
    <2>2. \/ \E g : ReqMethod(z, ch) = Known(g, z) \/ ReqMethod(z, ch) = Known(g, To(z, "req_spaces_before_url"))
          \/ \E e : ReqMethod(z, ch) = Error(z, e)
        BY Zenon DEF ReqMethod
    <2> HIDE DEF Known
    <2> QED BY <2>1, <2>2, OfBasics
<1>3. ASSUME NEW u, Of(u, t) PROVE Of(UrlChars(u, ch), t)
    <2> DEFINE s == NextUrlState(u.p.state, ch)
               w == IF ch = "?" /\ s = "req_query_string_start"
                    THEN [u EXCEPT !.p.qs_point =
                             IF u.url_start = 0 THEN Beyond ELSE u.consumed + 1 - u.url_start]
                    ELSE u
    <2>1. Of(w, t)
        BY <1>3 DEF Of
    <2>2. UrlChars(u, ch) = IF s = "dead" THEN Error(To(w, s), "INVALID_URL") ELSE To(w, s)
        BY DEF UrlChars
    <2> HIDE DEF w, s
    <2> QED BY <2>1, <2>2, OfBasics
<1>4. Of(SpacesBeforeUrl(z, ch), t)
    <2> DEFINE w == [Mark(z, "url") EXCEPT !.url_start = IF @ = 0 THEN z.consumed + 1 ELSE @]
    <2>1. Of(w, t)
        BY OfBasics, OfParts
    <2> HIDE DEF w
    <2> QED BY <1>3, <2>1, OfBasics DEF SpacesBeforeUrl, w
<1>5. Of(InSchema(z, ch), t)
    BY <1>3, OfBasics DEF InSchema
<1>6. Of(InUrl(z, ch), t)
    <2>1. Of([z EXCEPT !.p.version = <<0, 9>>], t)
        BY DEF Of
    <2> DEFINE u == IF ch = SP THEN To(z, "req_http_start")
                    ELSE To([z EXCEPT !.p.version = <<0, 9>>],
                            IF ch = CR THEN "req_line_almost_done" ELSE "header_field_start")
    <2>2. Of(u, t)
        BY <2>1, OfBasics
    <2>3. InUrl(z, ch) \in {UrlChars(z, ch), Error(To(z, "dead"), "INVALID_VERSION"), UrlCallback(u)}
        <3> HIDE DEF u
        <3>1. CASE ch \notin {SP, CR, LF}
            BY <3>1 DEF InUrl, SP, CR, LF
        <3>2. CASE ch \in {CR, LF} /\ z.p.method # "GET"
            BY <3>2 DEF InUrl, SP, CR, LF
        <3>3. CASE ch \in {SP, CR, LF} /\ ~(ch \in {CR, LF} /\ z.p.method # "GET")
            BY <3>3 DEF InUrl, u
        <3> QED BY <3>1, <3>2, <3>3 DEF SP, CR, LF
    <2> HIDE DEF u
    <2>4. Of(UrlCallback(u), t)
        BY <2>2, OfCallbacks
    <2>5. Of(UrlChars(z, ch), t)
        BY <1>3
    <2>6. Of(Error(To(z, "dead"), "INVALID_VERSION"), t)
        <3>1. Of(To(z, "dead"), t)
            BY OfBasics
        <3> QED BY <3>1, OfBasics
    <2> QED BY <2>3, <2>4, <2>5, <2>6
<1>7. Of(HttpVersion(z, ch), t)
    <2>1. Of([z EXCEPT !.p.version[1] = DigitValue(ch)], t) /\ Of([z EXCEPT !.p.version[2] = DigitValue(ch)], t)
        BY DEF Of
    <2> QED BY <2>1, OfBasics DEF HttpVersion, Strict
<1>8. Of(LineAlmostDone(z, ch), t)
    BY OfBasics DEF LineAlmostDone
<1> QED BY <1>1, <1>2, <1>4, <1>5, <1>6, <1>7, <1>8

LEMMA OfHeaders ==
    ASSUME NEW z, NEW t, Of(z, t), NEW ch
    PROVE  /\ Of(HeadersDone(z, ch), t) /\ Of(HeadersAlmostDone(z, ch), t)
           /\ Of(HeaderFieldStart(z, ch), t) /\ Of(HeaderField(z, ch), t)
           /\ Of(HeaderValueStart(z, ch), t) /\ Of(HeaderValueDiscardWs(z, ch), t)
           /\ Of(DiscardAlmostDone(z, ch), t) /\ Of(HeaderValueDiscardLws(z, ch), t)
           /\ Of(HeaderAlmostDone(z, ch), t) /\ Of(HeaderValueLws(z, ch), t)
<1>1. ASSUME NEW u, Of(u, t) PROVE Of(HeadersDone(u, ch), t)
    <2>1. Of([u EXCEPT !.p.nread = 0], t)
        BY <1>1 DEF Of
    <2>2. Of([OnMessageComplete([u EXCEPT !.p.nread = 0]) EXCEPT !.done = TRUE], t)
        BY <2>1, OfBasics, OfParts
    <2> QED BY <1>1, <2>1, <2>2, OfBasics DEF HeadersDone
<1>2. ASSUME NEW u, Of(u, t) PROVE Of(HeadersAlmostDone(u, ch), t)
    <2> DEFINE upgrade == "UPGRADE" \in u.p.flags \/ u.p.method = "CONNECT"
               w == [To(u, "headers_done") EXCEPT !.p.upgrade = upgrade]
    <2>1. Of(w, t)
        BY <1>2 DEF Of, To
    <2>2. Of(HeadersDone(OnHeadersComplete(w), ch), t)
        <3> HIDE DEF w
        <3> QED BY <1>1, <2>1, OfBasics
    <2>3. \/ HeadersAlmostDone(u, ch) = HeadersDone(OnHeadersComplete(w), ch)
          \/ HeadersAlmostDone(u, ch) = OnMessageComplete(u)
          \/ \E e : HeadersAlmostDone(u, ch) = Error(u, e)
        BY DEF HeadersAlmostDone
    <2> HIDE DEF w
    <2> QED BY <1>2, <2>2, <2>3, OfBasics
<1>3. ASSUME NEW u, Of(u, t) PROVE Of(HeaderFieldStart(u, ch), t)
    BY <1>2, <1>3, OfBasics DEF HeaderFieldStart
<1>4. Of(HeaderField(z, ch), t)
    BY OfBasics, OfCallbacks DEF HeaderField
<1>5. ASSUME NEW u, Of(u, t) PROVE Of(HeaderValueStart(u, ch), t)
    <2> DEFINE w == [To(Mark(u, "value"), "header_value") EXCEPT !.p.matched = <<ch>>]
    <2>1. Of(w, t)
        <3>1. Of(To(Mark(u, "value"), "header_value"), t)
            BY <1>5, OfBasics
        <3> QED BY <3>1, OfParts
    <2> HIDE DEF w
    <2>2. Of([w EXCEPT !.p.flags = @ \cup {"UPGRADE"}], t)
        BY <2>1, OfParts
    <2>3. Of(FirstLength(w, ch), t)
        <3>1. Of([w EXCEPT !.p.flags = @ \cup {"CONTENTLENGTH"},
                           !.p.content_length = DigitValue(ch)], t)
            BY <2>1, OfParts
        <3> QED BY <2>1, <3>1, OfBasics DEF FirstLength
    <2> QED BY <2>1, <2>2, <2>3, OfBasics DEF HeaderValueStart, w
<1>6. Of(HeaderValueDiscardWs(z, ch), t)
    BY <1>5, OfBasics DEF HeaderValueDiscardWs
<1>7. Of(DiscardAlmostDone(z, ch), t)
    BY OfBasics DEF DiscardAlmostDone, Strict
<1>8. Of(HeaderValueDiscardLws(z, ch), t)
    BY <1>3, OfBasics, OfCallbacks DEF HeaderValueDiscardLws
<1>9. Of(HeaderAlmostDone(z, ch), t)
    BY OfBasics DEF HeaderAlmostDone
<1>10. Of(HeaderValueLws(z, ch), t)
    <2>1. Of([z EXCEPT !.p.flags = @ \cup {FlagOf[z.p.header_state]}], t)
        BY OfParts
    <2> QED BY <1>3, <1>5, <2>1, OfBasics DEF HeaderValueLws
<1> QED BY <1>1, <1>2, <1>3, <1>4, <1>5, <1>6, <1>7, <1>8, <1>9, <1>10

LEMMA OfValue ==
    ASSUME NEW z, NEW t, Of(z, t), NEW ch
    PROVE  Of(HeaderValue(z, ch), t)
<1>1. Of(MoreLength(z, ch), t)
    <2>1. Of([z EXCEPT !.p.content_length = (10 * @ + DigitValue(ch)) % (NoLength + 1)], t)
        BY OfParts
    <2> QED BY <2>1, OfBasics DEF MoreLength
<1>2. Of(MatchValue(z, ch), t)
    <2> DEFINE letters == Append(z.p.matched, ch)
    <2>1. Of([z EXCEPT !.p.matched = letters], t)
        BY OfParts
    <2> QED BY <2>1, OfBasics DEF MatchValue
<1>3. Of(HeaderValueChar(z, ch), t)
    <2>1. Of([z EXCEPT !.p.matched = <<ch>>], t)
        BY OfParts
    <2> QED BY <1>1, <1>2, <2>1, OfBasics DEF HeaderValueChar
<1>4. Of(HeaderAlmostDone(ValueCallback(To(z, "header_almost_done")), ch), t)
    BY OfBasics, OfCallbacks DEF HeaderAlmostDone
<1> QED BY <1>3, <1>4, OfBasics, OfCallbacks DEF HeaderValue

LEMMA OfBody ==
    ASSUME NEW z, NEW t, Of(z, t), NEW ch
    PROVE  /\ Of(BodyIdentity(z, ch), t) /\ Of(ChunkSizeStart(z, ch), t) /\ Of(ChunkSize(z, ch), t)
           /\ Of(ChunkParameters(z, ch), t) /\ Of(ChunkSizeAlmostDone(z, ch), t)
           /\ Of(ChunkData(z, ch), t) /\ Of(ChunkDataAlmostDone(z, ch), t)
           /\ Of(ChunkDataDone(z, ch), t)
<1> DEFINE w == [Mark(z, "body") EXCEPT !.p.content_length = @ - 1]
<1>0. Of(w, t)
    BY OfBasics, OfParts
<1>1. Of(BodyIdentity(z, ch), t)
    <2> HIDE DEF w
    <2>1. Of([To(w, "message_done") EXCEPT !.marks["body"].text = Append(@, ch)], t)
        BY <1>0, OfBasics, OfParts
    <2> QED BY <1>0, <2>1, OfBasics, OfCallbacks, ZenonT(40) DEF BodyIdentity, w
<1>2. Of(ChunkSizeStart(z, ch), t)
    <2>1. Of([z EXCEPT !.p.content_length = HexDigits[ch]], t)
        BY OfParts
    <2> QED BY <2>1, OfBasics DEF ChunkSizeStart
<1>3. Of(ChunkSize(z, ch), t)
    <2>1. Of([z EXCEPT !.p.content_length = (16 * @ + HexDigits[ch]) % (NoLength + 1)], t)
        BY OfParts
    <2> QED BY <2>1, OfBasics DEF ChunkSize
<1>4. Of(ChunkParameters(z, ch), t)
    BY OfBasics DEF ChunkParameters
<1>5. Of(ChunkSizeAlmostDone(z, ch), t)
    <2> DEFINE u == [z EXCEPT !.p.nread = 0]
    <2>1. Of(u, t) /\ Of([u EXCEPT !.p.flags = @ \cup {"TRAILING"}], t)
        <3>1. Of(u, t)
            BY OfParts
        <3> HIDE DEF u
        <3> QED BY <3>1, OfParts
    <2> HIDE DEF u
    <2> QED BY <2>1, OfBasics DEF ChunkSizeAlmostDone, Strict, u
<1>6. Of(ChunkData(z, ch), t)
    <2> HIDE DEF w
    <2> QED BY <1>0, OfBasics DEF ChunkData, w
<1>7. Of(ChunkDataAlmostDone(z, ch), t) /\ Of(ChunkDataDone(z, ch), t)
    BY OfBasics, OfCallbacks DEF ChunkDataAlmostDone, ChunkDataDone, Strict
<1> QED BY <1>1, <1>2, <1>3, <1>4, <1>5, <1>6, <1>7

LEMMA StepOf ==
    ASSUME NEW z \in ExecType, z.p.state # "dead", NEW t, z.table = t, NEW ch
    PROVE  Step(z, ch).table = t
<1>1. Of(z, t)
    BY DEF Of, ExecType
<1>2. ASSUME NEW u, Of(u, t), u.p.state = z.p.state PROVE Of(Dispatch(u, ch), t)
    <2>0. u.p.state \in States \ {"dead"}
        BY <1>2, ExecParser DEF ParserType
    <2>1. CASE u.p.state \in UrlAll
        BY <1>2, <2>1, DispatchUrls, OfLine
    <2>2. CASE u.p.state \in {"start_req", "req_method", "req_spaces_before_url",
                              "req_line_almost_done"} \cup VersionStates
        BY <1>2, <2>2, DispatchLine, OfLine
    <2>3. CASE u.p.state \in {"header_field_start", "header_field", "header_value_discard_ws",
                  "header_value_discard_ws_almost_done", "header_value_discard_lws", "header_value",
                  "header_almost_done", "header_value_lws", "headers_almost_done", "headers_done"}
        BY <1>2, <2>3, DispatchHeaders, OfHeaders, OfValue
    <2>4. CASE u.p.state \in {"message_done", "chunk_size_start", "chunk_size", "chunk_parameters",
                  "chunk_size_almost_done", "chunk_data_done"} \cup BodyMarks
        BY <1>2, <2>4, DispatchBody, OfBody, OfBasics DEF BodyMarks
    <2> QED BY <2>0, <2>1, <2>2, <2>3, <2>4 DEF States, PlainStates
<1>3. Count(z).p.state = z.p.state
    BY DEF Count, ExecType, ParserType
<1>4. Of(Turn(z, ch), t)
    BY <1>1, <1>2, <1>3, OfBasics DEF Turn
<1>5. Of(Step(z, ch), t)
    BY <1>4, StepIs, OfBasics
<1> QED BY <1>5 DEF Of

-----------------------------------------------------------------------------
(* Feeding the parser.                                                     *)

\* The executions of a parser q that is given s.
Run(t, q, s, f) == f[0] = Begin(t, q) /\ Walks(f, s, Len(s))

LEMMA RunExists ==
    ASSUME NEW t, NEW q, NEW s \in String
    PROVE  \E f : Run(t, q, s, f)
<1>1. Len(s) \in Nat
    BY DEF String
<1>2. PICK f : f[0] = Begin(t, q) /\ Walks(f, s, Len(s))
    BY <1>1, BytesIs
<1> QED BY <1>2 DEF Run

\* Nothing else happens to it: the run is its own twin.
LEMMA RunAlone ==
    ASSUME NEW t \in DOMAIN Scripts, NEW q, Ready(q), NEW s \in String, NEW f, Run(t, q, s, f)
    PROVE  /\ \A k \in 0 .. Len(s) : Twins(f[k], f[k], -1, 0)
           /\ \A k \in 0 .. Len(s) : f[k].p \in ParserType
           /\ \A j \in 0 .. Len(s) : \A k \in j .. Len(s) :
                /\ Len(f[j].p.handled) \in Nat /\ Len(f[k].p.handled) \in Nat
                /\ Len(f[j].p.handled) <= Len(f[k].p.handled)
                /\ Len(f[j].p.handled) = Len(f[k].p.handled) => f[k].p.handled = f[j].p.handled
                /\ f[k].p.message_complete /\ f[k].p.handled = <<>>
                   => f[j].p.message_complete /\ f[j].p.handled = <<>>
<1> DEFINE N == Len(s)
<1>1. N \in Nat /\ \A k \in 1 .. N : s[k] \in STRING
    BY CharOf DEF String
<1>2. Twins(f[0], f[0], -1, 0)
    <2>1. Len(q.handled) # -1
        <3>1. Len(q.handled) \in Nat
            BY DEF Ready, ParserType
        <3> QED BY <3>1
    <2> QED BY <2>1, BeginTwins DEF Run
<1>3. Walks(f, s, N)
    BY DEF Run
<1>4. /\ \A k \in 0 .. N : Twins(f[k], f[k], -1, 0)
      /\ \A k \in 0 .. N : k < N => Follows(f[k].p, f[k + 1].p)
    BY <1>1, <1>2, <1>3, WalkAlone
<1>5. \A k \in 0 .. N : f[k].p \in ParserType
    BY <1>4, ExecParser DEF Twins
<1> HIDE DEF N
<1>6. ASSUME NEW j \in 0 .. N
      PROVE  \A k \in j .. N :
                /\ Len(f[j].p.handled) \in Nat /\ Len(f[k].p.handled) \in Nat
                /\ Len(f[j].p.handled) <= Len(f[k].p.handled)
                /\ Len(f[j].p.handled) = Len(f[k].p.handled) => f[k].p.handled = f[j].p.handled
                /\ f[k].p.message_complete /\ f[k].p.handled = <<>>
                   => f[j].p.message_complete /\ f[j].p.handled = <<>>
    BY <1>1, <1>4, <1>5, WalkGrows
<1> QED BY <1>4, <1>5, <1>6 DEF N

\* The table is that of the connection.
LEMMA RunTable ==
    ASSUME NEW t \in DOMAIN Scripts, NEW q, Ready(q), NEW s \in String, NEW f, Run(t, q, s, f)
    PROVE  \A k \in 0 .. Len(s) : f[k].table = t
<1> DEFINE N == Len(s)
           S == {k \in Nat : k <= N => f[k].table = t}
<1>0. N \in Nat /\ Walks(f, s, N)
    BY DEF String, Run
<1>1. 0 \in S
    <2>1. f[0].table = t
        BY DEF Run, Begin
    <2> QED BY <2>1
<1>2. ASSUME NEW k \in Nat, k \in S PROVE k + 1 \in S
    <2> SUFFICES ASSUME k + 1 <= N PROVE f[k + 1].table = t
        OBVIOUS
    <2>1. k \in 0 .. N /\ f[k].table = t
        BY <1>0, <1>2
    <2>2. f[k + 1] = Onward(f[k], s[k + 1])
        BY <1>0, WalkOne
    <2>3. Twins(f[k], f[k], -1, 0)
        BY <2>1, RunAlone
    <2>4. CASE f[k].done
        BY <2>1, <2>2, <2>4 DEF Onward
    <2>5. CASE ~f[k].done
        <3>1. f[k] \in ExecType /\ f[k].p.state # "dead"
            BY <2>3, <2>5 DEF Twins, Alike, Sound
        <3>2. f[k + 1] = Step(f[k], s[k + 1])
            BY <2>2, <2>5 DEF Onward
        <3> QED BY <2>1, <3>1, <3>2, StepOf
    <2> QED BY <2>4, <2>5
<1>3. Nat \subseteq S
    <2> HIDE DEF S
    <2> QED BY <1>1, <1>2, NatSet
<1> QED BY <1>0, <1>3

\* What is fed is what the run comes to.
LEMMA FeedIs ==
    ASSUME NEW t \in DOMAIN Scripts, NEW q, Ready(q), ~q.message_complete, NEW s \in String,
           NEW f, Run(t, q, s, f), NEW n \in 0 .. Len(s)
    PROVE  LET r == Feed(t, q, SubSeq(s, 1, n))
           IN r.p = EndOfBuffer(f[n]).p /\ (r.ok => r.p.http_errno = "OK")
<1> DEFINE d == SubSeq(s, 1, n)
<1>1. Bytes(Begin(t, q), d) = f[n]
    <2>1. Len(s) \in Nat /\ Len(s) <= Len(s) /\ 0 \in Nat /\ n \in Nat /\ 0 <= n /\ n <= Len(s)
        BY DEF String
    <2>2. Walks(f, s, Len(s)) /\ Begin(t, q) = f[0]
        BY DEF Run
    <2>3. Bytes(Begin(t, q), SubSeq(s, 0 + 1, n)) = f[n]
        BY <2>1, <2>2, BytesOf
    <2> QED BY <2>3
<1>2. Feed(t, q, d) = Fed(EndOfBuffer(f[n]), d)
    BY <1>1 DEF Feed, Execute, Ready
<1> HIDE DEF d
<1>3. Feed(t, q, d).p = EndOfBuffer(f[n]).p /\ (Feed(t, q, d).ok => EndOfBuffer(f[n]).p.http_errno = "OK")
    <2> DEFINE x == EndOfBuffer(f[n])
    <2>1. Feed(t, q, d) = [p |-> x.p, ok |-> x.p.http_errno = "OK" /\ x.consumed = Len(d)]
        BY <1>2 DEF Fed
    <2> HIDE DEF x
    <2>2. Feed(t, q, d).p = x.p /\ Feed(t, q, d).ok = (x.p.http_errno = "OK" /\ x.consumed = Len(d))
        BY <2>1
    <2> QED BY <2>2 DEF x
<1> QED BY <1>3 DEF d

LEMMA WholeOf ==
    ASSUME NEW s \in String
    PROVE  SubSeq(s, 1, Len(s)) = s /\ Len(s) \in Nat
<1>1. s \in Seq(STRING)
    BY DEF String
<1> QED BY <1>1

\* Where the parser goes on it is sound; a message is complete when one has been handled.
LEMMA FeedSafe ==
    ASSUME NEW t \in DOMAIN Scripts, NEW q, Ready(q), NEW s \in String,
           q.message_complete => q.handled # <<>>
    PROVE  LET r == Feed(t, q, s)
           IN /\ r.p \in ParserType /\ (r.ok => Ready(r.p))
              /\ (r.p.message_complete => r.p.handled # <<>>)
<1> DEFINE r == Feed(t, q, s)
           N == Len(s)
<1>1. CASE q.message_complete
    <2>1. r.p = q
        BY <1>1 DEF Feed
    <2> QED BY <1>1, <2>1 DEF Ready
<1>2. CASE ~q.message_complete
    <2>1. PICK f : Run(t, q, s, f)
        BY RunExists
    <2>2. N \in Nat /\ 0 \in 0 .. N /\ N \in 0 .. N /\ N \in 0 .. Len(s) /\ SubSeq(s, 1, N) = s
        BY WholeOf
    <2>3. r.p = EndOfBuffer(f[N]).p /\ (r.ok => r.p.http_errno = "OK")
        <3>1. LET u == Feed(t, q, SubSeq(s, 1, N))
              IN u.p = EndOfBuffer(f[N]).p /\ (u.ok => u.p.http_errno = "OK")
            BY <1>2, <2>1, <2>2, FeedIs
        <3> QED BY <2>2, <3>1
    <2>4. Twins(f[N], f[N], -1, 0)
        BY <2>1, <2>2, RunAlone
    <2> DEFINE x == f[N]
    <2>5. /\ r.p \in ParserType /\ r.p.handled = x.p.handled
          /\ r.p.message_complete = x.p.message_complete
          /\ r.p.http_errno = "OK" => x.p.http_errno = "OK"
          /\ x.p.http_errno = "OK" => SameCore([r.p EXCEPT !.http_errno = "OK"], x.p)
        BY <2>3, <2>4, EndIs
    <2>6. f[0].p = q
        BY <2>1, BeginIs, ZenonT(40) DEF Run, Ready, Sound
    <2>7. x.p.message_complete /\ x.p.handled = <<>> => q.message_complete /\ q.handled = <<>>
        BY <2>1, <2>2, <2>6, RunAlone
    <2> HIDE DEF x, r
    <2>8. ASSUME r.ok PROVE Ready(r.p)
        <3>1. r.p.http_errno = "OK" /\ x.p.http_errno = "OK"
            BY <2>3, <2>5, <2>8
        <3>2. [r.p EXCEPT !.http_errno = "OK"] = r.p
            BY <2>5, <3>1 DEF ParserType
        <3>3. SameCore(r.p, x.p)
            BY <2>5, <3>1, <3>2
        <3>4. Sound(x.p) /\ (x.p.state = "chunk_size_start" => x.p.nread = 0)
            BY <2>4, <3>1 DEF x, Twins, Alike
        <3> QED BY <2>5, <3>1, <3>3, <3>4 DEF Ready, SameCore, Sound
    <2> QED BY <1>2, <2>5, <2>7, <2>8 DEF r
<1> QED BY <1>1, <1>2

\* As long as no message has been handled: fed with more, the parser is where it would be
\* if it had been fed with all at once.
LEMMA FeedSplit ==
    ASSUME NEW t \in DOMAIN Scripts, NEW b, Ready(b), ~b.message_complete, NEW s \in String,
           NEW r \in Nat, NEW m \in Nat, r < m, m <= Len(s),
           Feed(t, b, SubSeq(s, 1, m - 1)).p.handled = b.handled
    PROVE  /\ r > 0 => Feed(t, b, SubSeq(s, 1, r - 1)).p.handled = b.handled
           /\ LET q == Feed(t, b, SubSeq(s, 1, r)).p
                  d == SubSeq(s, r + 1, m)
              IN Ready(q) /\ q.state \notin UrlAll /\ Feed(t, q, d).ok
                 => ~q.message_complete /\ Feed(t, q, d).p = Feed(t, b, SubSeq(s, 1, m)).p
<1> DEFINE N == Len(s)
           l == Len(b.handled)
           q == Feed(t, b, SubSeq(s, 1, r)).p
           d == SubSeq(s, r + 1, m)
<1>0. /\ N \in Nat /\ l \in Nat /\ b \in ParserType
      /\ r \in 0 .. N /\ m \in 0 .. N /\ m - 1 \in 0 .. N /\ 0 \in 0 .. N
    BY DEF String, Ready, ParserType
<1>1. PICK f : Run(t, b, s, f)
    BY RunExists
<1>2. ASSUME NEW k \in 0 .. N
      PROVE  /\ Feed(t, b, SubSeq(s, 1, k)).p = EndOfBuffer(f[k]).p
             /\ Feed(t, b, SubSeq(s, 1, k)).p.handled = f[k].p.handled
    <2>1. Feed(t, b, SubSeq(s, 1, k)).p = EndOfBuffer(f[k]).p
        BY <1>1, FeedIs
    <2>2. Twins(f[k], f[k], -1, 0)
        BY <1>1, RunAlone
    <2>3. EndOfBuffer(f[k]).p.handled = f[k].p.handled
        BY <2>2, EndIs
    <2> QED BY <2>1, <2>3
<1>3. f[0].p = b /\ f[0] = Begin(t, b)
    BY <1>1, BeginIs, ZenonT(40) DEF Run, Ready, Sound
<1>4. f[m - 1].p.handled = b.handled
    BY <1>0, <1>2
<1>5. ASSUME NEW k \in 0 .. N, k < m PROVE f[k].p.handled = b.handled
    <2>1. k \in 0 .. N /\ m - 1 \in k .. N
        BY <1>0, <1>5
    <2>2. Len(f[0].p.handled) <= Len(f[k].p.handled) /\ Len(f[k].p.handled) \in Nat
          /\ (Len(f[0].p.handled) = Len(f[k].p.handled) => f[k].p.handled = f[0].p.handled)
        BY <1>0, <1>1, RunAlone
    <2>3. Len(f[k].p.handled) <= Len(f[m - 1].p.handled)
        BY <1>0, <1>1, <2>1, RunAlone
    <2> QED BY <1>0, <1>3, <1>4, <2>2, <2>3
<1>6. ASSUME r > 0 PROVE Feed(t, b, SubSeq(s, 1, r - 1)).p.handled = b.handled
    <2>1. r - 1 \in 0 .. N /\ r - 1 < m
        BY <1>0, <1>6
    <2> QED BY <1>2, <1>5, <2>1
<1>7. ASSUME Ready(q), q.state \notin UrlAll, Feed(t, q, d).ok
      PROVE  ~q.message_complete /\ Feed(t, q, d).p = Feed(t, b, SubSeq(s, 1, m)).p
    <2> DEFINE M == m - r
               x == f[r]
               h == [k \in 0 .. M |-> f[r + k]]
    <2>1. M \in Nat /\ d \in String /\ Len(d) = M /\ \A k \in 1 .. M : d[k] = s[r + k]
        BY <1>0, PartOf
    <2>2. \A k \in 0 .. m : Twins(f[k], f[k], l, 0)
        <3>1. Twins(f[0], f[0], l, 0)
            BY <1>3, BeginTwins
        <3>2. ASSUME NEW k \in 0 .. m, k < m PROVE Comparable(f[k], f[k], l)
            BY <1>0, <1>5, <3>2 DEF Comparable
        <3>3. Walks(f, s, m) /\ \A k \in 1 .. m : s[k] \in STRING
            <4>1. \A k \in 1 .. m : k \in 1 .. N
                BY <1>0
            <4> QED BY <1>1, <4>1, CharOf DEF Run, Walks
        <3> QED BY <3>1, <3>2, <3>3, WalkTwins
    <2>3. q = EndOfBuffer(x).p /\ x.p.handled = b.handled /\ Twins(x, x, l, 0) /\ x.table = t
        BY <1>0, <1>1, <1>2, <1>5, <2>2, RunTable
    <2> HIDE DEF q, d, x
    <2>4. /\ q.http_errno = "OK" => x.p.http_errno = "OK"
          /\ q.message_complete = x.p.message_complete /\ q \in ParserType
          /\ x.p.http_errno = "OK" => SameCore([q EXCEPT !.http_errno = "OK"], x.p)
        BY <2>3, EndIs
    <2>5. x.p.http_errno = "OK" /\ SameCore(q, x.p)
        <3>1. [q EXCEPT !.http_errno = "OK"] = q
            BY <1>7, <2>4 DEF Ready, ParserType
        <3> QED BY <1>7, <2>4, <3>1 DEF Ready
    <2>6. Len(x.p.handled) = l /\ ~x.done /\ ~x.p.message_complete /\ x.p.state \notin UrlAll
        <3>1. Position(x, x, l)
            BY <2>3, <2>5 DEF Twins, Alike
        <3> QED BY <1>7, <2>3, <2>5, <3>1 DEF Position, SameCore
    <2>7. Twins(x, Begin(t, q), l, 0)
        BY <2>3, <2>5, <2>6, BeginAgain
    <2>8. ~q.message_complete
        BY <2>4, <2>6
    <2>9. PICK g : Run(t, q, d, g)
        BY <2>1, RunExists
    <2>10. Walks(h, d, M) /\ h[0] = x /\ h[M] = f[m]
        <3>1. ASSUME NEW k \in 1 .. M PROVE h[k] = Onward(h[k - 1], d[k])
            <4>1. r + k \in 1 .. N /\ k \in 0 .. M /\ k - 1 \in 0 .. M /\ (r + k) - 1 = r + (k - 1)
                BY <1>0
            <4>2. f[r + k] = Onward(f[(r + k) - 1], s[r + k])
                BY <1>1, <4>1 DEF Run, Walks
            <4>3. d[k] = s[r + k]
                BY <2>1
            <4> QED BY <4>1, <4>2, <4>3
        <3>2. 0 \in 0 .. M /\ M \in 0 .. M /\ r + 0 = r /\ r + M = m
            BY <1>0, <2>1
        <3> QED BY <3>1, <3>2 DEF Walks, x
    <2>11. ASSUME NEW k \in 0 .. M, k < M PROVE Comparable(h[k], g[k], l)
        <3>1. r + k \in 0 .. N /\ r + k < m
            BY <1>0, <2>11
        <3>2. h[k].p.handled = b.handled
            BY <1>5, <3>1
        <3> QED BY <1>0, <3>2 DEF Comparable
    <2> HIDE DEF h, M
    <2>12. Twins(f[m], g[M], l, 0)
        <3>1. g[0] = Begin(t, q) /\ Walks(g, d, M)
            BY <2>1, <2>9 DEF Run
        <3>2. \A k \in 1 .. M : d[k] = d[k] /\ d[k] \in STRING
            BY <2>1, CharOf
        <3>3. \A k \in 0 .. M : Twins(h[k], g[k], l, 0)
            BY <2>1, <2>7, <2>10, <2>11, <3>1, <3>2, WalkTwins
        <3>4. M \in 0 .. M
            BY <2>1
        <3> QED BY <2>10, <3>3, <3>4
    <2>13. Feed(t, q, d).p = EndOfBuffer(g[M]).p /\ (Feed(t, q, d).ok => Feed(t, q, d).p.http_errno = "OK")
        <3>1. M \in 0 .. Len(d) /\ SubSeq(d, 1, M) = d
            BY <2>1, WholeOf
        <3>2. LET u == Feed(t, q, SubSeq(d, 1, M))
              IN u.p = EndOfBuffer(g[M]).p /\ (u.ok => u.p.http_errno = "OK")
            BY <1>7, <2>1, <2>8, <2>9, <3>1, FeedIs
        <3> QED BY <3>1, <3>2
    <2>14. EndOfBuffer(g[M]).p.http_errno = "OK" => g[M].p.http_errno = "OK"
        <3>1. Twins(g[M], g[M], -1, 0)
            <4>1. M \in 0 .. Len(d)
                BY <2>1
            <4> QED BY <1>7, <2>1, <2>9, <4>1, RunAlone
        <3> QED BY <3>1, EndIs
    <2>15. f[m].p.http_errno = "OK"
        BY <1>7, <2>12, <2>13, <2>14 DEF Twins
    <2>16. EndOfBuffer(f[m]).p = EndOfBuffer(g[M]).p
        BY <2>12, <2>15, EndIs
    <2>17. Feed(t, b, SubSeq(s, 1, m)).p = EndOfBuffer(f[m]).p
        BY <1>0, <1>2
    <2> QED BY <2>8, <2>13, <2>16, <2>17
<1> QED BY <1>6, <1>7

-----------------------------------------------------------------------------
(* The connection.                                                         *)

LEMMA TextIs ==
    ASSUME table \in DOMAIN Scripts, script \in Scripts[table], at \in Nat \ {0}, at <= Len(script)
    PROVE  Text \in String
<1>1. /\ script \in Seq({script[i] : i \in DOMAIN script})
      /\ \A i \in DOMAIN script : script[i].text \in Seq(STRING)
    BY RequestAssumption
<1>2. at \in DOMAIN script
    BY <1>1
<1> QED BY <1>1, <1>2 DEF Text, String

LEMMA DoneType ==
    ASSUME NEW q \in ParserType
    PROVE  /\ Done(q) \in ParserType /\ Done(q).handled = q.handled
           /\ Done(q).message_complete = q.message_complete
<1>1. CASE q.http_errno = "OK"
    <2> DEFINE r == Done(q)
    <2>1. r \in ParserType /\ r.handled = q.handled /\ r.message_complete = q.message_complete
        BY <1>1, DoneIs
    <2> QED BY <2>1
<1>2. CASE q.http_errno # "OK"
    <2>1. Done(q) = q
        BY <1>2 DEF Done
    <2> QED BY <2>1
<1> QED BY <1>1, <1>2

LEMMA NewReady == Ready(NewParser) /\ ~NewParser.message_complete
<1>1. NoRequest \in ReqType
    <2>1. <<>> \in String /\ <<>> \in Seq(String \X String) /\ <<>> \in QueryType
        BY DEF String, QueryType
    <2>2. "DELETE" \in MethodStrings
        BY DEF MethodStrings
    <2>3. <<0, 0>> \in (0 .. 9) \X (0 .. 9)
        OBVIOUS
    <2> QED BY <2>1, <2>2, <2>3 DEF NoRequest, ReqType
<1>2. NewParser \in ParserType
    <2>1. <<>> \in String /\ <<>> \in Seq(ReqType) /\ <<>> \in Seq(CodeType)
        BY DEF String
    <2>2. "DELETE" \in MethodStrings /\ "start_req" \in States /\ "general" \in HeaderStates
          /\ "OK" \in Errors
        BY DEF MethodStrings, States, PlainStates, HeaderStates, Errors
    <2>3. <<0, 0>> \in (0 .. 9) \X (0 .. 9) /\ {} \in SUBSET Flags /\ 0 \in 0 .. MaxHeaderSize + 1
          /\ 0 \in 0 .. NoLength /\ 0 \in Int
        BY ParserAssumption
    <2> QED BY <1>1, <2>1, <2>2, <2>3 DEF NewParser, ParserType
<1>3. Sound(NewParser)
    BY ParserAssumption DEF Sound, NewParser
<1> QED BY <1>2, <1>3 DEF Ready, NewParser

LEMMA ClearReady ==
    ASSUME NEW q, Ready(q)
    PROVE  Ready(Clear(q)) /\ ~Clear(q).message_complete
<1> DEFINE r == Clear(q)
<1>1. /\ r \in ParserType /\ r.state = "start_req" /\ r.nread = q.nread
      /\ r.handled = q.handled /\ r.http_errno = q.http_errno
      /\ r.message_complete = FALSE
    BY ClearType DEF Ready
<1> HIDE DEF r
<1>2. Ready(r) /\ ~r.message_complete
    BY <1>1 DEF Ready, Sound
<1> QED BY <1>2 DEF r

\* The parser is sound where the connection is open, and what it was before the text is
\* where it begins to read; no read has ended inside the URL unless cut says so.
Inv ==
    /\ table \in DOMAIN Scripts /\ script \in Scripts[table]
    /\ at \in Nat \ {0} /\ read \in Nat /\ cut \in BOOLEAN /\ open \in BOOLEAN
    /\ p \in ParserType /\ (p.message_complete => p.handled # <<>>)
    /\ open => Ready(p) /\ Ready(before) /\ ~before.message_complete
    /\ open /\ read = 0 => p = before
    /\ read > 0 => at <= Len(script) /\ read <= Len(Text)
    /\ open /\ read > 0 /\ ~cut => p.state \notin UrlAll

LEMMA InitInv == Init => Inv /\ SplitIndependent
<1> SUFFICES ASSUME Init PROVE Inv /\ SplitIndependent
    OBVIOUS
<1>1. Ready(NewParser) /\ NewParser.message_complete = FALSE
    BY NewReady
<1>2. NewParser \in ParserType
    BY <1>1 DEF Ready
<1>3. /\ table \in DOMAIN Scripts /\ script \in Scripts[table]
      /\ at = 1 /\ read = 0 /\ cut = FALSE /\ p = NewParser /\ before = NewParser /\ open = TRUE
    BY DEF Init
<1>4. at \in Nat \ {0} /\ read \in Nat /\ ~(read > 0)
    BY <1>3
<1>5. cut \in BOOLEAN /\ open \in BOOLEAN
    BY <1>3
<1>6. p \in ParserType /\ Ready(p) /\ ~p.message_complete /\ Ready(before) /\ ~before.message_complete
    BY <1>1, <1>2, <1>3
<1>7. Inv
    BY <1>3, <1>4, <1>5, <1>6 DEF Inv
<1> QED BY <1>4, <1>7 DEF SplitIndependent

\* What a read does.
Got(n) == Feed(table, p, SubSeq(Text, read + 1, read + n))

ReadsOn(n, fed) ==
    /\ fed = Got(n)
    /\ open' \in BOOLEAN /\ (open' => fed.ok)
    /\ p' = IF open' THEN fed.p ELSE Done(fed.p)
    /\ \/ at' = at + 1 /\ read' = 0 /\ cut' = FALSE /\ before' = fed.p /\ ~fed.p.message_complete
       \/ /\ at' = at /\ read' = read + n /\ before' = before
          /\ cut' = (cut \/ Remarked(fed.p.state).url)
    /\ table' = table /\ script' = script

LEMMA ReadIs ==
    ASSUME Inv, Read
    PROVE  \E n \in Nat \ {0} :
              /\ open /\ at <= Len(script) /\ read + n <= Len(Text) /\ Len(Text) \in Nat
              /\ Text \in String /\ ReadsOn(n, Got(n))
<1>1. Text \in String /\ Len(Text) \in Nat /\ open /\ at <= Len(script) /\ read < Len(Text) /\ read \in Nat
    BY TextIs DEF Inv, Read, Waiting, String
<1>2. PICK n \in {m \in ReadSizes : read + m < Len(Text)} \cup {Len(Text) - read} :
          Received(n, Got(n))
    BY Zenon DEF Read, Got
<1>3. n \in Nat \ {0} /\ read + n <= Len(Text)
    BY <1>1, <1>2, RequestAssumption
<1>4. table' = table /\ script' = script
    BY DEF Read
<1> DEFINE fed == Got(n)
           streamed == Len(fed.p.handled) > Len(p.handled) /\ ~fed.p.message_complete
<1>5. Received(n, fed)
    BY <1>2
<1> HIDE DEF fed
<1>6. /\ open' = (fed.ok /\ ~(streamed /\ AskedToClose(fed.p)))
      /\ p' = IF open' THEN fed.p ELSE Done(fed.p)
      /\ streamed => NextText(fed.p)
      /\ ~streamed => /\ read' = read + n /\ cut' = (cut \/ Remarked(fed.p.state).url)
                      /\ at' = at /\ before' = before
    BY <1>5 DEF Received
<1>7. open' \in BOOLEAN /\ (open' => fed.ok)
    BY <1>6
<1>8. ReadsOn(n, fed)
    <2>1. fed = Got(n)
        BY DEF fed
    <2>2. CASE streamed
        BY <1>4, <1>6, <1>7, <2>1, <2>2 DEF ReadsOn, NextText
    <2>3. CASE ~streamed
        BY <1>4, <1>6, <1>7, <2>1, <2>3 DEF ReadsOn
    <2> QED BY <2>2, <2>3
<1> QED BY <1>1, <1>3, <1>8 DEF fed

LEMMA ReadInv ==
    ASSUME Inv, Read
    PROVE  Inv'
<1>1. PICK n \in Nat \ {0} :
          /\ open /\ at <= Len(script) /\ read + n <= Len(Text) /\ Len(Text) \in Nat
          /\ Text \in String /\ ReadsOn(n, Got(n))
    BY ReadIs
<1> DEFINE fed == Got(n)
           d == SubSeq(Text, read + 1, read + n)
<1>2. ReadsOn(n, fed) /\ fed = Feed(table, p, d)
    BY <1>1 DEF Got
<1>3. read \in Nat /\ Ready(p) /\ table \in DOMAIN Scripts
    BY <1>1 DEF Inv
<1>4. d \in String
    BY <1>1, <1>3, PartOf
<1> HIDE DEF fed, d
<1>5. /\ fed.p \in ParserType /\ (fed.ok => Ready(fed.p))
      /\ (fed.p.message_complete => fed.p.handled # <<>>)
    BY <1>2, <1>3, <1>4, FeedSafe DEF Inv
<1>6. /\ open' \in BOOLEAN /\ (open' => fed.ok)
      /\ p' = IF open' THEN fed.p ELSE Done(fed.p)
      /\ table' = table /\ script' = script
    BY <1>2 DEF ReadsOn
<1>7. /\ p' \in ParserType /\ (p'.message_complete => p'.handled # <<>>)
      /\ open' => Ready(p') /\ p' = fed.p
    <2>1. CASE open'
        <3>1. p' = fed.p
            BY <1>6, <2>1
        <3>2. fed.ok
            BY <1>6, <2>1
        <3> QED BY <1>5, <3>1, <3>2
    <2>2. CASE ~open'
        <3>1. p' = Done(fed.p)
            BY <1>6, <2>2
        <3>2. Done(fed.p) \in ParserType
            BY <1>5, DoneType
        <3>3. /\ Done(fed.p).message_complete = fed.p.message_complete
              /\ Done(fed.p).handled = fed.p.handled
            BY <1>5, DoneType
        <3> QED BY <1>5, <2>2, <3>1, <3>2, <3>3
    <2> QED BY <2>1, <2>2
<1>8. CASE at' = at + 1 /\ read' = 0 /\ cut' = FALSE /\ before' = fed.p /\ ~fed.p.message_complete
    <2>0. at \in Nat \ {0} /\ at' = at + 1 /\ read' = 0 /\ cut' = FALSE
        BY <1>8 DEF Inv
    <2>1. at' \in Nat \ {0} /\ read' \in Nat /\ ~(read' > 0)
        BY <2>0
    <2>2. cut' \in BOOLEAN
        BY <2>0
    <2>3. table' \in DOMAIN Scripts /\ script' \in Scripts[table']
        BY <1>6 DEF Inv
    <2> QED BY <1>5, <1>6, <1>7, <1>8, <2>1, <2>2, <2>3 DEF Inv
<1>9. CASE /\ at' = at /\ read' = read + n /\ before' = before
           /\ cut' = (cut \/ Remarked(fed.p.state).url)
    <2>1. /\ at' \in Nat \ {0} /\ read' \in Nat /\ cut' \in BOOLEAN /\ read' # 0
          /\ at' <= Len(script') /\ read' <= Len(Text')
        BY <1>1, <1>3, <1>6, <1>9 DEF Inv, Text
    <2>2. open' /\ ~cut' => p'.state \notin UrlAll
        BY <1>7, <1>9, UrlRemarked
    <2>3. open' => Ready(before') /\ ~before'.message_complete
        BY <1>1, <1>9 DEF Inv
    <2> QED BY <1>6, <1>7, <2>1, <2>2, <2>3 DEF Inv
<1>10. \/ at' = at + 1 /\ read' = 0 /\ cut' = FALSE /\ before' = fed.p /\ ~fed.p.message_complete
       \/ /\ at' = at /\ read' = read + n /\ before' = before
          /\ cut' = (cut \/ Remarked(fed.p.state).url)
    BY <1>2 DEF ReadsOn
<1> QED BY <1>8, <1>9, <1>10

LEMMA AnswerInv ==
    ASSUME Inv, Answer
    PROVE  Inv'
<1>1. Ready(p) /\ p.message_complete /\ p' = Clear(p) /\ before' = Clear(p) /\ at' = at + 1
      /\ read' = 0 /\ cut' = FALSE /\ table' = table /\ script' = script
    BY DEF Inv, Answer, NextText
<1>2. Ready(p') /\ ~p'.message_complete
    BY <1>1, ClearReady
<1>3. p' \in ParserType
    BY <1>2 DEF Ready
<1>4. open' \in BOOLEAN
    BY DEF Answer
<1>5. at' \in Nat \ {0} /\ read' \in Nat /\ cut' \in BOOLEAN /\ ~(read' > 0)
    <2>1. at \in Nat \ {0} /\ at' = at + 1 /\ read' = 0 /\ cut' = FALSE
        BY <1>1 DEF Inv
    <2>2. at' \in Nat \ {0} /\ read' \in Nat /\ ~(read' > 0)
        BY <2>1
    <2>3. cut' \in BOOLEAN
        BY <2>1
    <2> QED BY <2>2, <2>3
<1>6. table' \in DOMAIN Scripts /\ script' \in Scripts[table']
    BY <1>1 DEF Inv
<1> QED BY <1>1, <1>2, <1>3, <1>4, <1>5, <1>6 DEF Inv

LEMMA InvNext ==
    ASSUME Inv, [Next]_vars
    PROVE  Inv'
<1>1. CASE Read
    BY <1>1, ReadInv
<1>2. CASE Answer
    BY <1>2, AnswerInv
<1>3. CASE UNCHANGED vars
    BY <1>3 DEF vars, Inv, Text
<1> QED BY <1>1, <1>2, <1>3 DEF Next

LEMMA SpecInv == Spec => []Inv
<1>1. Init => Inv
    BY InitInv
<1>2. Inv /\ [Next]_vars => Inv'
    BY InvNext
<1> QED BY <1>1, <1>2, PTL DEF Spec

\* The counters of the parser keep their width, its method is one of the table, a complete
\* message has been handled, and no assertion of http_parser_execute fails: whatever the
\* bytes are and however they are divided into reads.
THEOREM TypesOfRequest == Spec => []TypeOK
<1>1. Inv => TypeOK
    <2> SUFFICES ASSUME Inv PROVE TypeOK
        OBVIOUS
    <2>1. "ASSERT" \notin Errors
        BY DEF Errors
    <2>2. /\ p.content_length \in 0 .. NoLength /\ p.nread \in 0 .. MaxHeaderSize + 1
          /\ p.version \in (0 .. 9) \X (0 .. 9) /\ p.method \in MethodStrings
          /\ p.http_errno \in Errors
        BY DEF Inv, ParserType
    <2> QED BY <2>1, <2>2 DEF Inv, TypeOK
<1> QED BY <1>1, SpecInv, PTL

LEMMA ReadSplit ==
    ASSUME Inv, SplitIndependent, Read
    PROVE  SplitIndependent'
<1>1. PICK n \in Nat \ {0} :
          /\ open /\ at <= Len(script) /\ read + n <= Len(Text) /\ Len(Text) \in Nat
          /\ Text \in String /\ ReadsOn(n, Got(n))
    BY ReadIs
<1> SUFFICES ASSUME open', ~cut', read' > 0,
                    Feed(table', before', SubSeq(Text', 1, read' - 1)).p.handled = before'.handled
             PROVE  p' = Feed(table', before', SubSeq(Text', 1, read' - 0)).p
    BY DEF SplitIndependent, ReadBut
<1> DEFINE m == read + n
           fed == Got(n)
<1>2. read' # 0
    OBVIOUS
<1>3. /\ at' = at /\ read' = m /\ before' = before /\ table' = table /\ script' = script
      /\ cut' = (cut \/ Remarked(fed.p.state).url) /\ p' = fed.p /\ fed.ok
    BY <1>1, <1>2 DEF ReadsOn
<1>4. /\ read \in Nat /\ m \in Nat /\ read < m /\ m <= Len(Text) /\ Text' = Text /\ m - 0 = m
      /\ ~cut /\ table \in DOMAIN Scripts /\ Ready(p) /\ Ready(before) /\ ~before.message_complete
    BY <1>1, <1>3 DEF Inv, Text
<1>5. Feed(table, before, SubSeq(Text, 1, m - 1)).p.handled = before.handled
    BY <1>3, <1>4
<1>6. fed = Feed(table, p, SubSeq(Text, read + 1, m))
    BY DEF Got
<1> HIDE DEF m, fed
<1>7. fed.p = Feed(table, before, SubSeq(Text, 1, m)).p
    <2>1. CASE read = 0
        BY <1>1, <1>4, <1>6, <2>1 DEF Inv
    <2>2. CASE read > 0
        <3>1. Feed(table, before, SubSeq(Text, 1, read - 1)).p.handled = before.handled
            BY <1>1, <1>4, <1>5, <2>2, FeedSplit, SMTT(30)
        <3>2. p = Feed(table, before, SubSeq(Text, 1, read)).p
            <4>1. read - 0 = read
                BY <1>4
            <4> QED BY <1>1, <1>4, <2>2, <3>1, <4>1 DEF SplitIndependent, ReadBut
        <3>3. p.state \notin UrlAll
            BY <1>1, <1>4, <2>2 DEF Inv
        <3>4. LET q == Feed(table, before, SubSeq(Text, 1, read)).p
                  d == SubSeq(Text, read + 1, m)
              IN Ready(q) /\ q.state \notin UrlAll /\ Feed(table, q, d).ok
                 => ~q.message_complete /\ Feed(table, q, d).p = Feed(table, before, SubSeq(Text, 1, m)).p
            BY <1>1, <1>4, <1>5, FeedSplit
        <3> QED BY <1>3, <1>4, <1>6, <3>2, <3>3, <3>4
    <2> QED BY <1>4, <2>1, <2>2
<1> QED BY <1>3, <1>4, <1>7

LEMMA SplitNext ==
    ASSUME Inv, SplitIndependent, [Next]_vars
    PROVE  SplitIndependent'
<1>1. CASE Read
    BY <1>1, ReadSplit
<1>2. CASE Answer
    BY <1>2 DEF Answer, NextText, SplitIndependent
<1>3. CASE UNCHANGED vars
    BY <1>3 DEF vars, SplitIndependent, ReadBut, Text
<1> QED BY <1>1, <1>2, <1>3 DEF Next

\* However the bytes of a text are divided into reads, the parser is where it would be if
\* it had been fed with all of them at once, with the same request: for every text, as
\* long as no read ends inside the URL and no message has been handled.
THEOREM SplitsDoNotMatter == Spec => []SplitIndependent
<1>1. Init => SplitIndependent
    BY InitInv
<1>2. Inv /\ SplitIndependent /\ [Next]_vars => SplitIndependent'
    BY SplitNext
<1> QED BY <1>1, <1>2, SpecInv, PTL DEF Spec
=============================================================================
