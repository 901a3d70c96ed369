------------------------------ MODULE HttpParser ------------------------------
(***************************************************************************)
(* The HTTP parser of the server (core/include/crow/crow_all.h, http_parser *)
(* and HTTPParser): http_parser_execute, one definition for each group of   *)
(* its states, the callbacks that build the request, and feed.             *)
(*                                                                         *)
(* The parser is fed whatever a read returns.  It must go on in the middle  *)
(* of anything; what it has of a URL, a header or a body at the end of the  *)
(* buffer it gives to the callback, which is called again for the rest.     *)
(*                                                                         *)
(* The inner loops of the code over a header name, a header value and a     *)
(* body are steps of one character here.  Letters are lower case in header  *)
(* names and upper case in methods: the code folds the case.  Left out:     *)
(* websockets, the other lenient modes, HTTP over ICE.                      *)
(***************************************************************************)
EXTENDS HttpChars, SequencesExt, FiniteSets

CONSTANTS
    MaxHeaderSize,      \* max_header_size
    NoLength,           \* ULLONG_MAX: the value of content_length without a header
    StreamedUrls,       \* URLs whose answers are as long as stream_threshold or longer
    UrlParams(_),       \* query_string: what it makes of a URL
    RouteCode(_, _, _)  \* handle_initial of the handler, for its table, a method and a
                        \* URL: the code of its answer, 0 when there is a rule

\* A counter holds what one digit says.
ASSUME ParserAssumption == MaxHeaderSize \in Nat /\ NoLength \in Nat /\ NoLength >= 15

Chars(string) == [i \in 1 .. Len(string) |-> SubSeq(string, i, i)]

CR == "\r"
LF == "\n"
HT == "\t"
SP == " "

-----------------------------------------------------------------------------
(* The parser and the request it builds.                                   *)

NoRequest ==
    [method |-> "DELETE", raw_url |-> <<>>, url |-> <<>>, url_params |-> <<>>, headers |-> <<>>,
     body |-> <<>>, version |-> <<0, 0>>, keep_alive |-> FALSE,
     close_connection |-> FALSE, upgrade |-> FALSE]

\* `handled' and `refused' are what the connection is told: the requests given to
\* process_message, the codes that handle_url answers itself.
NewParser ==
    [state |-> "start_req", header_state |-> "general", matched |-> <<>>,
     flags |-> {}, uses_transfer_encoding |-> FALSE, nread |-> 0,
     content_length |-> 0, qs_point |-> 0, method |-> "DELETE", version |-> <<0, 0>>,
     upgrade |-> FALSE, http_errno |-> "OK", req |-> NoRequest,
     header_building_state |-> 0, header_field |-> <<>>, header_value |-> <<>>,
     message_complete |-> FALSE, handled |-> <<>>, refused |-> <<>>]

\* HTTPParser::clear, when an answer has been written: flags and the limit of the
\* header are not touched, an error stays.
Clear(p) ==
    [p EXCEPT !.req = NoRequest, !.header_field = <<>>, !.header_value = <<>>,
              !.header_building_state = 0, !.qs_point = 0,
              !.message_complete = FALSE, !.state = "start_req"]

\* An execution: the parser, its table of rules, the marks with what lies between each of
\* them and p, url_start_mark as a position (0: not set), whether it has returned.
NoMark == [set |-> FALSE, text |-> <<>>]
Marked == [set |-> TRUE, text |-> <<>>]

\* mutant: execute goes on after an error
Error_GoesOn(x, e) == [x EXCEPT !.p.http_errno = e]

Error(x, e) == [x EXCEPT !.p.http_errno = e, !.done = TRUE]
To(x, s) == [x EXCEPT !.p.state = s]
Mark(x, mark) == IF x.marks[mark].set THEN x ELSE [x EXCEPT !.marks[mark] = Marked]

\* After a callback that fails, execute returns at once.
After(x) == IF x.p.http_errno = "OK" THEN x ELSE [x EXCEPT !.done = TRUE]

Strict(x, good, next) == IF good THEN next ELSE Error(x, "STRICT")

-----------------------------------------------------------------------------
(* The callbacks.                                                          *)

\* feed(nullptr, 0), from handle_url: in the middle of a request it is an error.
Done(p) ==
    IF p.message_complete \/ p.http_errno # "OK" \/ p.state \in {"dead", "start_req"} THEN p
    ELSE [p EXCEPT !.http_errno = "INVALID_EOF_STATE"]

\* qs_point counts from where the first URL of this buffer began.
PathOf(p, raw) ==
    IF p.qs_point # 0 /\ p.qs_point < Len(raw) THEN SubSeq(raw, 1, p.qs_point) ELSE raw

\* handle_url with the answer of handle_initial; 0 is none.
Answered(p, code) == IF code = 0 THEN p ELSE Done([p EXCEPT !.refused = Append(@, code)])

\* on_url and handle_url: the URL so far is looked up whenever a part of it comes;
\* without a route the request is answered and the parser put into an error state.
OnUrl(x, text) ==
    LET raw == x.p.req.raw_url \o text
        url == PathOf(x.p, raw)
        p == [x.p EXCEPT !.req.raw_url = raw, !.req.url = url,
                         !.req.url_params = UrlParams(raw)]
    IN After([x EXCEPT !.p = Answered(p, RouteCode(x.table, p.req.method, url))])

\* A header is stored when the next one begins, unless its value is empty.
OnHeaderField(x, text) ==
    LET p == x.p
        stored == IF p.header_value = <<>> THEN p.req.headers
                  ELSE Append(p.req.headers, <<p.header_field, p.header_value>>)
        moved == IF p.header_value = <<>> THEN p.header_value ELSE <<>>
    IN [x EXCEPT !.p =
          IF p.header_building_state = 1 THEN [p EXCEPT !.header_field = @ \o text]
          ELSE [p EXCEPT !.req.headers = stored, !.header_value = moved,
                         !.header_field = text, !.header_building_state = 1]]

OnHeaderValue(x, text) ==
    LET p == x.p IN
    [x EXCEPT !.p =
        [p EXCEPT !.header_value = IF p.header_building_state = 1 THEN text ELSE @ \o text,
                  !.header_building_state = 0]]

\* on_headers_complete with set_connection_parameters.
OnHeadersComplete(x) ==
    LET p == x.p
        stored == IF p.header_field = <<>> THEN p.req.headers
                  ELSE Append(p.req.headers, <<p.header_field, p.header_value>>)
        keep == "KEEP_ALIVE" \in p.flags
    IN [x EXCEPT !.p =
          [p EXCEPT !.req.headers = stored,
                    !.header_field = <<>>, !.header_value = <<>>,
                    !.req.version = p.version,
                    !.req.keep_alive = p.version = <<1, 1>> \/ (p.version = <<1, 0>> /\ keep),
                    !.req.close_connection =
                        \/ p.version = <<1, 1>> /\ "CLOSE" \in p.flags
                        \/ p.version = <<1, 0>> /\ ~keep,
                    !.req.upgrade = p.upgrade]]

OnBody(x, text) == [x EXCEPT !.p.req.body = @ \o text]

\* process_message: the connection handles the request as it is now.  A long answer
\* is written at once, and the parser is cleared before execute goes on.
OnMessageComplete(x) ==
    LET p == [x.p EXCEPT !.message_complete = TRUE, !.handled = Append(@, x.p.req)] IN
    [x EXCEPT !.p = IF p.req.url \in StreamedUrls THEN Clear(p) ELSE p]

\* CALLBACK_DATA: the marked text up to p, if there is a mark.
Unmark(x, mark) == [x EXCEPT !.marks[mark] = NoMark]

UrlCallback(x) ==
    IF x.marks.url.set THEN OnUrl(Unmark(x, "url"), x.marks.url.text) ELSE x
FieldCallback(x) ==
    IF x.marks.field.set THEN OnHeaderField(Unmark(x, "field"), x.marks.field.text) ELSE x
ValueCallback(x) ==
    IF x.marks.value.set THEN OnHeaderValue(Unmark(x, "value"), x.marks.value.text) ELSE x
BodyCallback(x) ==
    IF x.marks.body.set THEN OnBody(Unmark(x, "body"), x.marks.body.text) ELSE x

-----------------------------------------------------------------------------
(* The request line.                                                       *)

MethodStrings ==
    {"DELETE", "GET", "HEAD", "POST", "PUT", "CONNECT", "OPTIONS", "TRACE", "PATCH",
     "PURGE", "COPY", "LOCK", "MKCOL", "MOVE", "PROPFIND", "PROPPATCH", "SEARCH",
     "UNLOCK", "BIND", "REBIND", "UNBIND", "ACL", "REPORT", "MKACTIVITY", "CHECKOUT",
     "MERGE", "M-SEARCH", "NOTIFY", "SUBSCRIBE", "UNSUBSCRIBE", "MKCALENDAR", "LINK",
     "UNLINK", "SOURCE"}

\* The method guessed from its first letter.
FirstGuess ==
    [A |-> "ACL", B |-> "BIND", C |-> "CONNECT", D |-> "DELETE", G |-> "GET",
     H |-> "HEAD", L |-> "LOCK", M |-> "MKCOL", N |-> "NOTIFY", O |-> "OPTIONS",
     P |-> "POST", R |-> "REPORT", S |-> "SUBSCRIBE", T |-> "TRACE", U |-> "UNLOCK"]

\* mutant: the second guess for MKACTIVITY is missing
OtherGuess_NoActivity ==
    {<<"POST", 1, "U", "PUT">>, <<"POST", 1, "A", "PATCH">>, <<"POST", 1, "R", "PROPFIND">>}

\* The guess that takes the place of another when letter number i (from 0) differs.
OtherGuess ==
    {<<"POST", 1, "U", "PUT">>, <<"POST", 1, "A", "PATCH">>, <<"POST", 1, "R", "PROPFIND">>,
     <<"PUT", 2, "R", "PURGE">>, <<"CONNECT", 1, "H", "CHECKOUT">>,
     <<"CONNECT", 2, "P", "COPY">>, <<"MKCOL", 1, "O", "MOVE">>, <<"MKCOL", 1, "E", "MERGE">>,
     <<"MKCOL", 1, "-", "M-SEARCH">>, <<"MKCOL", 2, "A", "MKACTIVITY">>,
     <<"MKCOL", 3, "A", "MKCALENDAR">>, <<"SUBSCRIBE", 1, "E", "SEARCH">>,
     <<"SUBSCRIBE", 1, "O", "SOURCE">>, <<"REPORT", 2, "B", "REBIND">>,
     <<"PROPFIND", 4, "P", "PROPPATCH">>, <<"LOCK", 1, "I", "LINK">>,
     <<"UNLOCK", 2, "S", "UNSUBSCRIBE">>, <<"UNLOCK", 2, "B", "UNBIND">>,
     <<"UNLOCK", 3, "I", "UNLINK">>}

StartReq(x, ch) ==
    IF ch \in {CR, LF} THEN x
    ELSE LET y == [x EXCEPT !.p.flags = {}, !.p.uses_transfer_encoding = FALSE,
                            !.p.content_length = NoLength]
         IN IF ch \in DOMAIN FirstGuess
            THEN To([y EXCEPT !.p.method = FirstGuess[ch], !.p.matched = <<ch>>], "req_method")
            ELSE Error(y, "INVALID_METHOD")

\* index is the number of letters so far; on_method tells the request the guess.
ReqMethod(x, ch) ==
    LET p == x.p
        name == Chars(p.method)
        index == Len(p.matched)
        Known(guess, y) ==
            [y EXCEPT !.p.method = guess, !.p.req.method = guess,
                      !.p.matched = Append(@, ch)]
        others == {g \in OtherGuess : g[1] = p.method /\ g[2] = index /\ g[3] = ch}
    IN IF ch = SP /\ index = Len(name)
       THEN Known(p.method, To(x, "req_spaces_before_url"))
       ELSE IF index < Len(name) /\ ch = name[index + 1] THEN Known(p.method, x)
       ELSE IF others # {} THEN Known((CHOOSE g \in others : TRUE)[4], x)
       ELSE Error(x, "INVALID_METHOD")

Lower == ToSet(Chars("abcdefghijklmnopqrstuvwxyz"))
Upper == ToSet(Chars("ABCDEFGHIJKLMNOPQRSTUVWXYZ"))
Alpha == Lower \cup Upper
Numbers == ToSet(Digits)
UserinfoChars == Alpha \cup Numbers \cup ToSet(Chars("-_.!~*'()%;:&=+$,"))
UrlChar(ch) == ch \notin {SP, CR, LF, HT, "#", "?"}

\* parse_url_char: the state after a character of the URL, "dead" if it is wrong.
NextUrlState(s, ch) ==
    IF ch \in {SP, CR, LF, HT} THEN "dead" ELSE
    CASE s = "req_spaces_before_url" /\ ch \in {"/", "*"} -> "req_path"
      [] s = "req_spaces_before_url" /\ ch \in Alpha -> "req_schema"
      [] s = "req_schema" /\ ch \in Alpha -> "req_schema"
      [] s = "req_schema" /\ ch = ":" -> "req_schema_slash"
      [] s = "req_schema_slash" /\ ch = "/" -> "req_schema_slash_slash"
      [] s = "req_schema_slash_slash" /\ ch = "/" -> "req_server_start"
      [] s = "req_server_with_at" /\ ch = "@" -> "dead"
      [] s \in {"req_server_start", "req_server", "req_server_with_at"} ->
           CASE ch = "/" -> "req_path"
             [] ch = "?" -> "req_query_string_start"
             [] ch = "@" -> "req_server_with_at"
             [] ch \in UserinfoChars \cup {"[", "]"} -> "req_server"
             [] OTHER -> "dead"
      [] s = "req_path" /\ UrlChar(ch) -> "req_path"
      [] s = "req_path" /\ ch = "?" -> "req_query_string_start"
      [] s \in {"req_query_string_start", "req_query_string"} /\ (UrlChar(ch) \/ ch = "?") ->
           "req_query_string"
      [] OTHER -> "dead"

\* The distance to a mark that is not set lies beyond every URL.
Beyond == 1000

UrlChars(x, ch) ==
    LET s == NextUrlState(x.p.state, ch)
        y == IF ch = "?" /\ s = "req_query_string_start"
             THEN [x EXCEPT !.p.qs_point =
                      IF x.url_start = 0 THEN Beyond ELSE x.consumed + 1 - x.url_start]
             ELSE x
    IN IF s = "dead" THEN Error(To(y, s), "INVALID_URL") ELSE To(y, s)

SpacesBeforeUrl(x, ch) ==
    IF ch = SP THEN x
    ELSE LET y == [Mark(x, "url") EXCEPT
                      !.url_start = IF @ = 0 THEN x.consumed + 1 ELSE @] IN
         UrlChars(IF x.p.method = "CONNECT" THEN To(y, "req_server_start") ELSE y, ch)

\* No white space before the server of the URL.
InSchema(x, ch) == IF ch \in {SP, CR, LF} THEN Error(x, "INVALID_URL") ELSE UrlChars(x, ch)

\* The end of the URL; without a version it is HTTP/0.9, which has GET only.
UrlStates == {"req_server", "req_server_with_at", "req_path", "req_query_string_start",
              "req_query_string"}
InUrl(x, ch) ==
    CASE ch \notin {SP, CR, LF} -> UrlChars(x, ch)
      [] ch \in {CR, LF} /\ x.p.method # "GET" -> Error(To(x, "dead"), "INVALID_VERSION")
      [] OTHER ->
           UrlCallback(
              IF ch = SP THEN To(x, "req_http_start")
              ELSE To([x EXCEPT !.p.version = <<0, 9>>],
                      IF ch = CR THEN "req_line_almost_done" ELSE "header_field_start"))

\* HTTP/ d . d, each state with the one character it takes.
Constants ==
    [req_http_H |-> <<"T", "req_http_HT">>, req_http_HT |-> <<"T", "req_http_HTT">>,
     req_http_HTT |-> <<"P", "req_http_HTTP">>, req_http_HTTP |-> <<"/", "req_http_major">>]

HttpVersion(x, ch) ==
    LET s == x.p.state IN
    CASE s = "req_http_start" ->
           IF ch = SP THEN x
           ELSE IF ch = "H" THEN To(x, "req_http_H") ELSE Error(x, "INVALID_CONSTANT")
      [] s \in DOMAIN Constants ->
           Strict(x, ch = Constants[s][1], To(x, Constants[s][2]))
      [] s = "req_http_major" /\ IsDigit(ch) ->
           To([x EXCEPT !.p.version[1] = DigitValue(ch)], "req_http_dot")
      [] s = "req_http_dot" /\ ch = "." -> To(x, "req_http_minor")
      [] s = "req_http_minor" /\ IsDigit(ch) ->
           To([x EXCEPT !.p.version[2] = DigitValue(ch)], "req_http_end")
      [] s = "req_http_end" /\ ch = CR -> To(x, "req_line_almost_done")
      [] s = "req_http_end" /\ ch = LF -> To(x, "header_field_start")
      [] OTHER -> Error(x, "INVALID_VERSION")

LineAlmostDone(x, ch) ==
    IF ch = LF THEN To(x, "header_field_start") ELSE Error(x, "LF_EXPECTED")

-----------------------------------------------------------------------------
(* The headers.  A state that the code enters again for the same character  *)
(* is the operator it calls.                                               *)

\* The back quote, which is one too, cannot stand in a string of TLA+.
TokenChars == Alpha \cup Numbers \cup ToSet(Chars("!#$%&'*+-.^_|~"))
Token(ch) == ch \in TokenChars

FieldWords ==
    {<<Chars("connection"), "connection">>, <<Chars("proxy-connection"), "connection">>,
     <<Chars("content-length"), "content_length">>,
     <<Chars("transfer-encoding"), "transfer_encoding">>, <<Chars("upgrade"), "upgrade">>}

\* What the letters of a header name so far can become.
FieldState(letters) ==
    LET full == {w \in FieldWords : w[1] = letters} IN
    IF full # {} THEN (CHOOSE w \in full : TRUE)[2]
    ELSE IF \E w \in FieldWords : IsPrefix(letters, w[1]) THEN "matching" ELSE "general"

MatchField(x, letters) ==
    [x EXCEPT !.p.matched = letters, !.p.header_state = FieldState(letters),
              !.p.uses_transfer_encoding =
                  @ \/ FieldState(letters) = "transfer_encoding"]

\* mutant: the second header of the request hides the end of the body
LengthAllowed_Both(p) == TRUE

\* Content-Length and Transfer-Encoding exclude each other.
LengthAllowed(p) == ~(p.uses_transfer_encoding /\ "CONTENTLENGTH" \in p.flags)

\* What follows the headers: nothing, chunks, or as many bytes as were announced.
HeadersDone(x, ch) ==
    LET p == x.p
        y == [x EXCEPT !.p.nread = 0]
    IN IF ch # LF THEN Error(x, "STRICT")
       ELSE IF p.upgrade THEN [OnMessageComplete(y) EXCEPT !.done = TRUE]
       ELSE IF "CHUNKED" \in p.flags THEN To(y, "chunk_size_start")
       ELSE IF p.uses_transfer_encoding THEN Error(y, "INVALID_TRANSFER_ENCODING")
       ELSE IF p.content_length \in {0, NoLength} THEN OnMessageComplete(y)
       ELSE To(y, "body_identity")

HeadersAlmostDone(x, ch) ==
    IF ch # LF THEN Error(x, "STRICT")
    ELSE IF "TRAILING" \in x.p.flags THEN OnMessageComplete(x)
    ELSE IF ~LengthAllowed(x.p) THEN Error(x, "UNEXPECTED_CONTENT_LENGTH")
    ELSE LET upgrade == "UPGRADE" \in x.p.flags \/ x.p.method = "CONNECT" IN
         HeadersDone(OnHeadersComplete([To(x, "headers_done") EXCEPT !.p.upgrade = upgrade]), ch)

HeaderFieldStart(x, ch) ==
    IF ch = CR THEN To(x, "headers_almost_done")
    ELSE IF ch = LF THEN HeadersAlmostDone(To(x, "headers_almost_done"), ch)
    ELSE IF ~Token(ch) THEN Error(x, "INVALID_HEADER_TOKEN")
    ELSE MatchField(To(Mark(x, "field"), "header_field"), <<ch>>)

HeaderField(x, ch) ==
    IF Token(ch) THEN MatchField(x, Append(x.p.matched, ch))
    ELSE IF ch = ":" THEN FieldCallback(To(x, "header_value_discard_ws"))
    ELSE Error(x, "INVALID_HEADER_TOKEN")

InHeader(x, h) == [x EXCEPT !.p.header_state = h]

\* The states of a value that stay as they are when a folded line goes on.
FirstLength(x, ch) ==
    IF ~IsDigit(ch) THEN Error(x, "INVALID_CONTENT_LENGTH")
    ELSE IF "CONTENTLENGTH" \in x.p.flags THEN Error(x, "UNEXPECTED_CONTENT_LENGTH")
    ELSE InHeader([x EXCEPT !.p.flags = @ \cup {"CONTENTLENGTH"},
                            !.p.content_length = DigitValue(ch)], "content_length_num")

HeaderValueStart(x0, ch) ==
    LET x == [To(Mark(x0, "value"), "header_value") EXCEPT !.p.matched = <<ch>>]
        h == x.p.header_state
    IN CASE h = "upgrade" -> InHeader([x EXCEPT !.p.flags = @ \cup {"UPGRADE"}], "general")
         [] h = "transfer_encoding" -> InHeader(x, IF ch = "c" THEN "te_chunked" ELSE "te_token")
         [] h \in {"te_token_start", "content_length_ws"} -> x
         [] h = "content_length" -> FirstLength(x, ch)
         [] h = "connection" ->
              InHeader(x, CASE ch = "k" -> "conn_keep_alive" [] ch = "c" -> "conn_close"
                            [] ch \in {SP, HT} -> h [] OTHER -> "general")
         [] OTHER -> InHeader(x, "general")

HeaderValueDiscardWs(x, ch) ==
    CASE ch \in {SP, HT} -> x
      [] ch = CR -> To(x, "header_value_discard_ws_almost_done")
      [] ch = LF -> To(x, "header_value_discard_lws")
      [] OTHER -> HeaderValueStart(x, ch)

HeaderAlmostDone(x, ch) ==
    IF ch = LF THEN To(x, "header_value_lws") ELSE Error(x, "LF_EXPECTED")

\* The conservative test against overflow.
Fits64(length, base) == length <= (NoLength - base) \div base

MoreLength(x, ch) ==
    IF ch = SP THEN InHeader(x, "content_length_ws")
    ELSE IF ~IsDigit(ch) \/ ~Fits64(x.p.content_length, 10)
    THEN Error(x, "INVALID_CONTENT_LENGTH")
    ELSE InHeader([x EXCEPT !.p.content_length =
                      (10 * @ + DigitValue(ch)) % (NoLength + 1)], "content_length_num")

\* A word is looked for in a value: what follows it, what a difference means.
ValueWords ==
    [te_chunked |-> <<Chars("chunked"), "transfer_encoding_chunked", "te_token">>,
     conn_keep_alive |-> <<Chars("keep-alive"), "connection_keep_alive", "general">>,
     conn_close |-> <<Chars("close"), "connection_close", "general">>]

MatchValue(x, ch) ==
    LET word == ValueWords[x.p.header_state]
        letters == Append(x.p.matched, ch)
        y == [x EXCEPT !.p.matched = letters]
    IN IF letters = word[1] THEN InHeader(y, word[2])
       ELSE IF IsPrefix(letters, word[1]) THEN y ELSE InHeader(y, word[3])

HeaderChar(ch) == ch # "\f"

HeaderValueChar(x, ch) ==
    LET h == x.p.header_state IN
    CASE h \in {"connection", "transfer_encoding"} -> Error(x, "ASSERT")
      [] h = "content_length_num" -> MoreLength(x, ch)
      [] h = "content_length_ws" ->
           IF ch = SP THEN x ELSE Error(x, "INVALID_CONTENT_LENGTH")
      [] h = "te_token_start" ->
           CASE ch = "c" -> InHeader([x EXCEPT !.p.matched = <<ch>>], "te_chunked")
             [] ch \in {SP, HT} -> x
             [] OTHER -> InHeader(x, IF Token(ch) THEN "te_token" ELSE "general")
      [] h \in DOMAIN ValueWords -> MatchValue(x, ch)
      [] h = "te_token" -> IF ch = "," THEN InHeader(x, "te_token_start") ELSE x
      [] h = "transfer_encoding_chunked" -> IF ch = SP THEN x ELSE InHeader(x, "te_token")
      [] h \in {"connection_keep_alive", "connection_close"} ->
           IF ch = SP THEN x ELSE InHeader(x, "general")
      [] OTHER -> InHeader(x, "general")

HeaderValue(x, ch) ==
    CASE ch = CR -> ValueCallback(To(x, "header_almost_done"))
      [] ch = LF -> HeaderAlmostDone(ValueCallback(To(x, "header_almost_done")), ch)
      [] ~HeaderChar(ch) -> Error(x, "INVALID_HEADER_TOKEN")
      [] OTHER -> HeaderValueChar(x, ch)

FlagOf == [connection_keep_alive |-> "KEEP_ALIVE", connection_close |-> "CLOSE",
           transfer_encoding_chunked |-> "CHUNKED"]

\* The next line: a folded one goes on with the value, after any other the header
\* is finished.
HeaderValueLws(x, ch) ==
    LET h == x.p.header_state IN
    IF ch \in {SP, HT}
    THEN HeaderValueStart(
            IF h = "content_length_num" THEN InHeader(x, "content_length_ws") ELSE x, ch)
    ELSE HeaderFieldStart(
            To(IF h \in DOMAIN FlagOf THEN [x EXCEPT !.p.flags = @ \cup {FlagOf[h]}] ELSE x,
               "header_field_start"), ch)

HeaderValueDiscardLws(x, ch) ==
    IF ch \in {SP, HT} THEN To(x, "header_value_discard_ws")
    ELSE HeaderFieldStart(ValueCallback(To(Mark(x, "value"), "header_field_start")), ch)

-----------------------------------------------------------------------------
(* The body.                                                               *)

HexLetters == <<"a", "b", "c", "d", "e", "f">>
HexDigits ==
    [c \in Numbers \cup ToSet(HexLetters) |->
        IF IsDigit(c) THEN DigitValue(c) ELSE 9 + CHOOSE d \in 1 .. 6 : HexLetters[d] = c]

BodyEnds(p) == p.content_length = 0

\* The last byte of the body ends the message.
BodyIdentity(x, ch) ==
    LET y == [Mark(x, "body") EXCEPT !.p.content_length = @ - 1] IN
    IF x.p.content_length \in {0, NoLength} THEN Error(x, "ASSERT")
    ELSE IF ~BodyEnds(y.p) THEN y
    ELSE OnMessageComplete(
            BodyCallback([To(y, "message_done") EXCEPT !.marks["body"].text = Append(@, ch)]))

ChunkSize(x, ch) ==
    CASE ch = CR -> To(x, "chunk_size_almost_done")
      [] ch \in {";", SP} -> To(x, "chunk_parameters")
      [] ch \in DOMAIN HexDigits /\ Fits64(x.p.content_length, 16) ->
           [x EXCEPT !.p.content_length = (16 * @ + HexDigits[ch]) % (NoLength + 1)]
      [] ch \in DOMAIN HexDigits /\ ~Fits64(x.p.content_length, 16) ->
           Error(x, "INVALID_CONTENT_LENGTH")
      [] OTHER -> Error(x, "INVALID_CHUNK_SIZE")

\* An empty chunk is the last; headers may follow it.
ChunkSizeAlmostDone(x, ch) ==
    LET y == [x EXCEPT !.p.nread = 0] IN
    Strict(x, ch = LF,
        IF x.p.content_length = 0
        THEN To([y EXCEPT !.p.flags = @ \cup {"TRAILING"}], "header_field_start")
        ELSE To(y, "chunk_data"))

ChunkData(x, ch) ==
    LET y == [Mark(x, "body") EXCEPT !.p.content_length = @ - 1] IN
    IF x.p.content_length = 0 THEN Error(x, "ASSERT")
    ELSE IF y.p.content_length = 0 THEN To(y, "chunk_data_almost_done") ELSE y

NextChunk(x) == To([x EXCEPT !.p.nread = 0], "chunk_size_start")

Chunks(x, ch) ==
    LET s == x.p.state IN
    CASE s = "chunk_size_start" ->
           IF x.p.nread # 1 THEN Error(x, "ASSERT")
           ELSE IF ch \notin DOMAIN HexDigits THEN Error(x, "INVALID_CHUNK_SIZE")
           ELSE To([x EXCEPT !.p.content_length = HexDigits[ch]], "chunk_size")
      [] s = "chunk_size" -> ChunkSize(x, ch)
      [] s = "chunk_parameters" -> IF ch = CR THEN To(x, "chunk_size_almost_done") ELSE x
      [] s = "chunk_size_almost_done" -> ChunkSizeAlmostDone(x, ch)
      [] s = "chunk_data" -> ChunkData(x, ch)
      [] s = "chunk_data_almost_done" ->
           Strict(x, ch = CR, BodyCallback(To(x, "chunk_data_done")))
      [] s = "chunk_data_done" -> Strict(x, ch = LF, NextChunk(x))

-----------------------------------------------------------------------------
(* http_parser_execute and feed.                                           *)

BodyStates == {"chunk_data", "chunk_data_almost_done", "chunk_data_done", "body_identity",
               "message_done"}

Dispatch(x, ch) ==
    LET s == x.p.state IN
    CASE s = "dead" -> IF ch \in {CR, LF} THEN x ELSE Error(x, "CLOSED_CONNECTION")
      [] s = "start_req" -> StartReq(x, ch)
      [] s = "req_method" -> ReqMethod(x, ch)
      [] s = "req_spaces_before_url" -> SpacesBeforeUrl(x, ch)
      [] s \in {"req_schema", "req_schema_slash", "req_schema_slash_slash",
                "req_server_start"} -> InSchema(x, ch)
      [] s \in UrlStates -> InUrl(x, ch)
      [] s \in DOMAIN Constants \cup {"req_http_start", "req_http_major", "req_http_dot",
                                      "req_http_minor", "req_http_end"} -> HttpVersion(x, ch)
      [] s = "req_line_almost_done" -> LineAlmostDone(x, ch)
      [] s = "header_field_start" -> HeaderFieldStart(x, ch)
      [] s = "header_field" -> HeaderField(x, ch)
      [] s = "header_value_discard_ws" -> HeaderValueDiscardWs(x, ch)
      [] s = "header_value_discard_ws_almost_done" ->
           Strict(x, ch = LF, To(x, "header_value_discard_lws"))
      [] s = "header_value_discard_lws" -> HeaderValueDiscardLws(x, ch)
      [] s = "header_value" -> HeaderValue(x, ch)
      [] s = "header_almost_done" -> HeaderAlmostDone(x, ch)
      [] s = "header_value_lws" -> HeaderValueLws(x, ch)
      [] s = "headers_almost_done" -> HeadersAlmostDone(x, ch)
      [] s = "headers_done" -> HeadersDone(x, ch)
      [] s = "body_identity" -> BodyIdentity(x, ch)
      [] s = "message_done" -> OnMessageComplete(x)
      [] OTHER -> Chunks(x, ch)

Grown(mark, ch) == IF mark.set THEN [mark EXCEPT !.text = Append(@, ch)] ELSE mark

\* One turn of the loop: the size of the header is counted, and what is marked
\* grows by the character.
Step(x, ch) ==
    LET counted == IF x.p.state \in BodyStates THEN x ELSE [x EXCEPT !.p.nread = @ + 1]
        y == IF counted.p.nread > MaxHeaderSize THEN Error(counted, "HEADER_OVERFLOW")
             ELSE Dispatch(counted, ch)
    IN [y EXCEPT !.consumed = @ + 1,
                 !.marks = [url |-> Grown(@.url, ch), field |-> Grown(@.field, ch),
                            value |-> Grown(@.value, ch), body |-> Grown(@.body, ch)]]

\* mutant: a name that goes on in this buffer is not marked
Remarked_NoField(state) == [url |-> state \in UrlStates, field |-> FALSE,
                            value |-> state = "header_value"]

\* What was begun in an earlier buffer is marked from the start of this one.
Remarked(state) ==
    [url |-> state \in UrlStates \cup {"req_schema", "req_schema_slash",
                                       "req_schema_slash_slash", "req_server_start"},
     field |-> state = "header_field", value |-> state = "header_value"]

Begin(table, p) ==
    LET m == Remarked(p.state) IN
    [p |-> p, table |-> table, done |-> FALSE, consumed |-> 0, url_start |-> 0,
     marks |-> [url |-> IF m.url THEN Marked ELSE NoMark,
                field |-> IF m.field THEN Marked ELSE NoMark,
                value |-> IF m.value THEN Marked ELSE NoMark,
                body |-> NoMark]]

\* The callbacks for what is left when the buffer ends: one at most, so their order
\* does not matter.
Leftover(x) ==
    IF Cardinality({m \in DOMAIN x.marks : x.marks[m].set}) > 1 THEN Error(x, "ASSERT")
    ELSE BodyCallback(UrlCallback(ValueCallback(FieldCallback(x))))

\* The loop: what the execution is after so many bytes, unless it has returned.
Bytes(x, data) ==
    LET after[n \in 0 .. Len(data)] ==
            IF n = 0 THEN x
            ELSE LET y == after[n - 1] IN IF y.done THEN y ELSE Step(y, data[n])
    IN after[Len(data)]

EndOfBuffer(x) == IF x.done THEN x ELSE Leftover(x)

Execute(table, p, data) == EndOfBuffer(Bytes(Begin(table, p), data))

Fed(x, data) == [p |-> x.p, ok |-> x.p.http_errno = "OK" /\ x.consumed = Len(data)]

\* feed: TRUE when the connection may go on reading.  Bytes that come while a
\* complete message waits for its answer are dropped.
Feed(table, p, data) ==
    IF p.message_complete THEN [p |-> p, ok |-> TRUE]
    ELSE IF p.http_errno # "OK" THEN [p |-> p, ok |-> FALSE]
    ELSE Fed(Execute(table, p, data), data)
=============================================================================
