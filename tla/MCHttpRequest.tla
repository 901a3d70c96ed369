---------------------------- MODULE MCHttpRequest ----------------------------
(* Texts, tables of rules and bounds for HttpRequest and HttpReference.     *)
EXTENDS HttpReference

\* A text that needs no escapes.
Same(string) == [i \in 1 .. Len(string) |-> <<SubSeq(string, i, i), SubSeq(string, i, i)>>]

Plain ==
    [method |-> "GET", path |-> "/hls/a", params |-> <<>>, version |-> "1.1", eol |-> "\r\n",
     headers |-> <<<<"host", <<"h">>>>>>, coding |-> "none", body |-> <<>>, trailer |-> ""]

With(header) == [Plain EXCEPT !.headers = @ \o <<header>>]
Body(coding, body) == [Plain EXCEPT !.coding = coding, !.body = body]

Requests ==
    {Plain,
     [Plain EXCEPT !.params = <<<<Same("q"), Same("1")>>, <<Same("r?")>>>>],
     [Plain EXCEPT !.version = "1.0"],
     [Plain EXCEPT !.eol = "\n", !.params = <<<<Same("")>>>>],
     [Plain EXCEPT !.path = "/hls/long"],
     [Plain EXCEPT !.method = "HEAD"],
     [Plain EXCEPT !.path = "http://u@h/hls/a"],
     [Plain EXCEPT !.path = "/hls/"],
     [Plain EXCEPT !.path = "/static/a/b"],
     [Plain EXCEPT !.version = "1.0", !.headers = @ \o <<<<"connection", <<"keep-alive">>>>>>],
     With(<<"connection", <<"close">>>>),
     With(<<"contents", <<"close">>>>),
     [With(<<"empty", <<"">>>>) EXCEPT !.headers = @ \o <<<<"x", <<"y">>>>>>],
     With(<<"folded", <<"a", " b">>>>),
     With(<<"connection", <<"close", " b">>>>),
     Body("length", <<"body">>),
     Body("length", <<"twelve bytes">>),
     Body("chunks", <<"abc", "twelve bytes", "d">>),
     [Body("chunks", <<"abc">>) EXCEPT !.trailer = "t: u\r\n"]}

\* Every way to write a short key and a short value, before a second parameter and
\* behind it.
Tokens == {<<"a", "a">>, <<"%61", "a">>, <<"b", "b">>, <<"+", " ">>, <<"%20", " ">>,
           <<"%2b", "+">>, <<"%26", "&">>, <<"%3d", "=">>, <<"%25", "%">>}
Short == {<<>>} \cup {<<t>> : t \in Tokens} \cup {<<t, <<"a", "a">>>> : t \in Tokens}
Second == {<<Same("b")>>, <<Same("aa"), Same("b")>>, <<Same("a"), <<<<"%3d", "=">>>>>>}
Queries ==
    {[Plain EXCEPT !.params = <<param, second>>] :
        param \in {<<key, value>> : key \in {<<t>> : t \in Tokens}, value \in Short}
                  \cup {<<key>> : key \in Short},
        second \in Second}
    \cup {[Plain EXCEPT !.params = <<second, <<Same("a"), value>>>>] :
              value \in Short, second \in Second}

\* Every method, for a URL with a rule for GET only.
AllMethods == {[Plain EXCEPT !.method = m] : m \in MethodStrings}

Malformed ==
    {"GET /hls/a HTTP/1.1\r\ncontent-length: 1\r\ntransfer-encoding: chunked\r\n\r\n0\r\n\r\n",
     "GET /hls/a HTTP/1.1\r\ntransfer-encoding: chunked, x\r\n\r\n0\r\n\r\n",
     "GET /hls/a HTTP/1.1\r\ncontent-length: 1\r\ncontent-length: 1\r\n\r\na",
     "GET /hls/a HTTP/1.1\r\ncontent-length: 257\r\n\r\na",
     "GET /hls/a HTTP/1.1\r\ncontent-length: 1x\r\n\r\na",
     "GET /hls/a HTTP/1.1\r\ncontent-length: 1\r\n 2\r\n\r\na",
     "GET /hls/a HTTP/1.1\r\ntransfer-encoding: chunked\r\n\r\n101\r\na\r\n0\r\n\r\n",
     "GET /hls/a HTTP/1.1\r\ntransfer-encoding: chunked\r\n\r\n1\r\nab\r\n0\r\n\r\n",
     "GET /hls/a HTTP/1.1\r\na b: c\r\n\r\n",
     "GET /hls/a HTTP/1.1\r\na: b\f\r\n\r\n",
     "GET /hls/a HTTP/1.1\r\na: b\rc\r\n\r\n",
     "GET /hls/a HTTP/x.1\r\n\r\n",
     "GET /hls/a\tb HTTP/1.1\r\n\r\n",
     "POST /hls/a\r\n\r\n",
     "GETS /hls/a HTTP/1.1\r\n\r\n",
     "g",
     "GET /hls/a HTTP/1.1\r\na: b\r\na: b\r\na: b\r\na: b\r\na: b\r\na: b\r\na: b\r\na: b\r\na: b\r\na: b\r\na: b\r\na: b\r\na: b\r\n\r\n"}

\* What one request leaves behind must not reach the next.
Pairs ==
    {<<Good(r), Good(s)>> :
        r \in {Body("length", <<"body">>), With(<<"empty", <<"">>>>),
               [Body("chunks", <<"abc">>) EXCEPT !.trailer = "t: u\r\n"],
               [Plain EXCEPT !.path = "/hls/long", !.params = <<<<Same("q")>>>>]},
        s \in {Plain, [Plain EXCEPT !.version = "1.0"], With(<<"connection", <<"close">>>>)}}

Gateway == WithStatic(<< <<"GET", Chars("/hls/") \o <<"<string>">> >> >>)
Everything ==
    Gateway \o << <<"POST", Chars("/hls/a")>> >>
Nested ==
    << <<"GET", Chars("/a/") \o <<"<string>">> >>, <<"GET", Chars("/a/b")>>,
       <<"GET", Chars("/a")>>, <<"GET", Chars("/a/b/") \o <<"<int>">> >>,
       <<"GET", Chars("/a/") \o <<"<string>">> \o Chars("/c")>>,
       <<"POST", Chars("/ab/")>>, <<"POST", Chars("/") \o <<"<path>">> >>,
       <<"GET", Chars("/a/") \o <<"<uint>">> \o Chars("b")>>, <<"GET", Chars("/b/a")>>, <<"GET", Chars("/b/b/")>>,
       <<"GET", <<"/", "<string>", "/", "1">> >>, <<"GET", Chars("/b/") \o <<"<int>">> >> >>

MCTables == [gateway |-> Gateway, everything |-> Everything, nested |-> Nested]
MCScripts ==
    [gateway |-> {<<Good(r)>> : r \in Requests \cup AllMethods \cup Queries}
                 \cup {<<Bad(text)>> : text \in Malformed} \cup Pairs
                 \cup {<<Good(Plain), Bad(text)>> : text \in Malformed} \cup {<<>>},
     everything |-> {<<Good([r EXCEPT !.method = m])>> : r \in Requests, m \in {"POST", "OPTIONS"}} \cup {<<>>},
     nested |-> {<<>>}]

\* URLs of up to five characters, all of them.
Words(alphabet, n) == UNION {[1 .. k -> alphabet] : k \in 0 .. n}
MCTestUrls ==
    {<<"/">> \o w : w \in Words({"a", "b", "/", "1"}, 4)}
    \cup {Chars("/a/b/") \o w : w \in Words({"-", "1", "/"}, 3)}
    \cup {Chars("/a/") \o w \o <<"/", "c">> : w \in Words({"a", "1", "/"}, 2)}
MCTestKeys == Words({"a", "b", " "}, 2) \ {<<>>}
MCStreamedUrls == {Chars("/hls/long"), Chars("/static/a/b")}
=============================================================================
