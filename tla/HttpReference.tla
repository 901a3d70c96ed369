---------------------------- MODULE HttpReference ----------------------------
(***************************************************************************)
(* What the texts of HttpRequest mean, and the router behind the parser.   *)
(*                                                                         *)
(* The texts are written from requests by Render, which is no code of the   *)
(* server: what the parser must make of a text is stated by Expected,       *)
(* what the tree of the router must find by Reference.                      *)
(***************************************************************************)
EXTENDS HttpRequest, HttpRouting, HttpQuery, TLC

CONSTANTS
    Tables,     \* the tables of rules: sequences of pairs of a method and a rule
    TestUrls,   \* the URLs with which the tables are tested
    TestKeys,   \* the keys that handlers ask for
    Methods     \* the methods of the rules

\* What validate makes of the tables, and the router of this server.
Routers == [t \in DOMAIN Tables |-> Validate(Methods, Tables[t])]
router == Routers[table]

\* RouteCode and UrlParams of the parser.
InitialCode(t, method, url) == HandleInitial(Routers[t], method, url).code
QueryParams(url) == QueryString(url)

-----------------------------------------------------------------------------
(* Requests and their texts.                                               *)

Concat(strings) == FoldLeft(LAMBDA a, b : a \o b, "", strings)

\* A parameter is a key or a key and a value, sequences of pairs: how a character is
\* written and what it stands for.
Written(tokens) == Concat([i \in DOMAIN tokens |-> tokens[i][1]])
Meant(tokens) == [i \in DOMAIN tokens |-> tokens[i][2]]

ParamText(param) == Written(param[1]) \o (IF Len(param) = 2 THEN "=" \o Written(param[2]) ELSE "")
QueryText(params) ==
    Concat([i \in DOMAIN params |-> (IF i = 1 THEN "?" ELSE "&") \o ParamText(params[i])])

\* The hexadecimal number of a chunk of less than 16 bytes.
Hex(n) == SubSeq("0123456789abcdef", n + 1, n + 1)

CodingHeader(r) ==
    CASE r.coding = "none"   -> <<>>
      [] r.coding = "length" -> <<<<"content-length", <<ToString(Len(Concat(r.body)))>>>>>>
      [] r.coding = "chunks" -> <<<<"transfer-encoding", <<"gzip, chunked">>>>>>

\* The lines of a folded value follow each other.
HeaderText(h, eol) ==
    h[1] \o ": " \o h[2][1] \o Concat([i \in 1 .. Len(h[2]) - 1 |-> eol \o h[2][i + 1]]) \o eol

BodyText(r) ==
    IF r.coding # "chunks" THEN Concat(r.body)
    ELSE Concat([i \in DOMAIN r.body |->
                    Hex(Len(r.body[i])) \o ";x" \o "\r\n" \o r.body[i] \o "\r\n"])
         \o "0\r\n" \o r.trailer \o "\r\n"

Headers(r) == r.headers \o CodingHeader(r)

Render(r) ==
    r.method \o " " \o r.path \o QueryText(r.params) \o " HTTP/" \o r.version \o r.eol
    \o Concat([i \in DOMAIN Headers(r) |-> HeaderText(Headers(r)[i], r.eol)])
    \o r.eol \o BodyText(r)

\* A text is what is sent with the request that it stands for, if it is one.
Good(r) == [text |-> Chars(Render(r)), request |-> r]
Bad(string) == [text |-> Chars(string), malformed |-> TRUE]

IsRequest(text) == "request" \in DOMAIN text

DigitOf(version, i) == DigitValue(SubSeq(version, i, i))

Has(r, header) == <<header[1], <<header[2]>>>> \in ToSet(r.headers)

\* What is kept of the headers: a header without a value is lost, unless it is the
\* last one.
Kept(headers) ==
    LET whole == [i \in DOMAIN headers |->
                    <<Chars(headers[i][1]), Chars(Concat(headers[i][2]))>>]
    IN SelectSeq(whole, LAMBDA h : h[2] # <<>> \/ h = Last(whole))

\* The keys stay as they are written.
ExpectedParams(r) ==
    [i \in DOMAIN r.params |->
        Chars(Written(r.params[i][1]))
        \o (IF Len(r.params[i]) = 2 THEN <<"=">> \o Meant(r.params[i][2]) ELSE <<>>)]

\* What the server must make of a request.
Expected(r) ==
    LET version == <<DigitOf(r.version, 1), DigitOf(r.version, 3)>>
        keep == Has(r, <<"connection", "keep-alive">>)
        close == Has(r, <<"connection", "close">>)
    IN [method |-> r.method, raw_url |-> Chars(r.path \o QueryText(r.params)),
        url |-> Chars(r.path), url_params |-> ExpectedParams(r),
        headers |-> Kept(Headers(r)), body |-> Chars(Concat(r.body)), version |-> version,
        keep_alive |-> version = <<1, 1>> \/ (version = <<1, 0>> /\ keep),
        close_connection |-> (version = <<1, 1>> /\ close) \/ (version = <<1, 0>> /\ ~keep),
        upgrade |-> FALSE]

-----------------------------------------------------------------------------
(* The rules, one after another, without a tree.                           *)

RECURSIVE Captures(_, _, _)
Captures(rule, url, params) ==
    CASE rule = <<>> -> IF url = <<>> THEN {params} ELSE {}
      [] rule # <<>> /\ url = <<>> -> {}
      [] rule # <<>> /\ url # <<>> ->
           LET param == Head(rule) \in Params
               end == IF param THEN ParamEnd(Head(rule), url, 1)
                      ELSE IF Head(rule) = Head(url) THEN 2 ELSE 1
               rest == SubSeq(url, end, Len(url))
           IN IF end = 1 THEN {}
              ELSE Captures(Tail(rule), rest,
                       IF param THEN Append(params, SubSeq(url, 1, end - 1)) ELSE params)

RulesOf(t, method) == LET own == SelectSeq(Tables[t], LAMBDA pair : pair[1] = method)
                      IN [i \in DOMAIN own |-> own[i][2]]

\* Of the rules that fit the first one wins, but before them all comes the
\* redirection of a URL that lacks only the slash at its end.
Reference(t, method, url) ==
    LET rules == RulesOf(t, method)
        fitting == {i \in DOMAIN rules : Captures(rules[i], url, <<>>) # {}}
        slash == {i \in DOMAIN rules :
                    HasTrailingSlash(rules[i]) /\ Captures(Front(rules[i]), url, <<>>) # {}}
        first == CHOOSE i \in fitting : \A j \in fitting : i <= j
    IN IF slash # {} THEN [rule_index |-> RedirectSlash,
                           params |-> CHOOSE c \in Captures(Front(rules[CHOOSE i \in slash : TRUE]),
                                                            url, <<>>) : TRUE]
       ELSE IF fitting = {} THEN NotFound
       ELSE [rule_index |-> first + 1, params |-> CHOOSE c \in Captures(rules[first], url, <<>>) : TRUE]

\* The values that the parameters give to a key, in their order.
ValuesOf(r, key) ==
    LET own == SelectSeq(r.params, LAMBDA param : Meant(param[1]) = key)
    IN [i \in DOMAIN own |-> IF Len(own[i]) = 2 THEN Meant(own[i][2]) ELSE <<>>]

\* The answer that needs no handler, 0 if there is a handler.
Verdict(r) == HandleInitial(router, r.method, Chars(r.path)).code

-----------------------------------------------------------------------------
(* Properties.                                                             *)

Current == script[at].request
Asking == at <= Len(script) /\ IsRequest(script[at])

\* A request that is read in any pieces is handled exactly once and as it was
\* written, whatever was left by the request before it on the connection; one
\* without a rule for its URL and method gets the answer of the tables, and the
\* connection ends.
ParsedFaithfully ==
    Asking /\ ~cut =>
        /\ open /\ read = Len(Text) => p.handled = Append(before.handled, Expected(Current))
        /\ open /\ read < Len(Text) => p.handled = before.handled
        /\ ~open /\ read > 0 => p.refused = <<Verdict(Current)>> /\ Verdict(Current) # 0

\* The server never waits for more than the client sends.  When a request has been read
\* to its end, however its URL was cut, it waits for an answer to be written or the
\* connection has been closed.  A text that is no request is never handled, and its
\* end leaves the connection closed: two lengths, a length or a chunk beyond the limit
\* of the counter, headers beyond their limit, an encoding without an end.
TextsEnd ==
    at <= Len(script) =>
        /\ IsRequest(script[at]) \/ p.handled = before.handled
        /\ open /\ read = Len(Text) => IsRequest(script[at]) /\ p.message_complete

\* The tree of each method finds what trying its rules one after another finds:
\* the optimised nodes lose no rule, and the first of several rules wins.
TreeFindsTheRule ==
    script = <<>> =>
        \A method \in Methods, url \in TestUrls :
            router[method].valid /\
            Lookup(router, method, url) = Reference(table, method, url)

\* The answer to a plain request, and what is left of it for one that asks for another
\* protocol.
PlainAnswer(found, host, url) ==
    IF found.code # 0 THEN Response(found.code, <<>>) ELSE Handle(found, host, url, FALSE)
NotOffered(answer) == IF answer.code = 200 THEN Response(404, <<>>) ELSE answer

Arrives(method, url) == PlainAnswer(HandleInitial(router, method, url), <<>>, url).code = 200

\* The router asks a client to come again only where it finds a rule: the URL with the
\* slash that handle sends it to is no redirection and not unknown.
RedirectsArrive ==
    script = <<>> =>
        \A method \in Methods \cup {"HEAD"}, url \in TestUrls :
            LET answer == PlainAnswer(HandleInitial(router, method, url), <<>>, url)
            IN answer.code = 301 => Arrives(method, answer.location)

\* The two copies of the routing agree: where a plain request gets no handler, a
\* request for an upgrade gets the same error or redirection, and elsewhere a 404,
\* for no rule has another protocol to offer.
UpgradesAgree ==
    script = <<>> =>
        \A method \in Methods, host \in {<<>>, <<"h">>}, url \in TestUrls :
            HandleUpgrade(router, method, host, url) =
                NotOffered(PlainAnswer(HandleInitial(router, method, url), host, url))

\* The passes of the routing, handle_initial, handle and handle_upgrade, agree.
RoutingAgrees == RedirectsArrive /\ UpgradesAgree

\* A handler that asks for a parameter gets the values that the client has given to
\* that key, in their order, however key and value are escaped: an escaped separator
\* divides nothing and no key is taken for a longer one.
QueryAnswers ==
    Asking /\ open /\ ~cut /\ p.message_complete /\ read = Len(Text) =>
        \A key \in TestKeys :
            LET values == ValuesOf(Current, key)
                params == Last(p.handled).url_params
            IN /\ GetList(params, key) = values
               /\ Get(params, key) = IF values = <<>> THEN NoValue ELSE values[1]
=============================================================================
