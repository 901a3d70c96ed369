----------------------------- MODULE HttpRouting -----------------------------
(***************************************************************************)
(* How the server of the host finds the handler of a request: the search    *)
(* tree and the router of Crow (core/include/crow/crow_all.h, Trie and      *)
(* Router); the gateway's rule is /hls/<string>, App::validate adds         *)
(* /static/<path>.                                                          *)
(*                                                                         *)
(* A URL is a sequence of characters; a rule is a sequence of characters    *)
(* and of the parameters "<int>", "<uint>", "<string>" and "<path>".  A     *)
(* tree is a record with the trees of its children.  Left out: blueprints,  *)
(* catch-all rules and middlewares, which the gateway does not use, and     *)
(* parameters of type double.                                              *)
(***************************************************************************)
EXTENDS HttpChars, SequencesExt

CONSTANTS
    IntMax, UintMax     \* the largest long long and unsigned long long

ASSUME RoutingAssumption == IntMax \in Nat /\ UintMax \in Nat

-----------------------------------------------------------------------------
(* The tree.                                                               *)

Params == {"<int>", "<uint>", "<string>", "<path>"}

NoParam == "no param"

Node(key, param) == [rule_index |-> 0, key |-> key, param |-> param, children |-> <<>>]

IsSimpleNode(node) ==
    /\ node.rule_index = 0 /\ node.param = NoParam
    /\ Len(node.children) < 2
    /\ \A i \in 1 .. Len(node.children) : node.children[i].param = NoParam

\* The children of a node that an item of a rule leads to: while rules are added
\* every key is one character.
ChildFor(node, item) ==
    SelectInSeq(node.children, LAMBDA c :
        IF item \in Params THEN c.param = item ELSE c.param = NoParam /\ c.key = <<item>>)

NewChild(item) == IF item \in Params THEN Node(<<>>, item) ELSE Node(<<item>>, NoParam)

\* Trie::add without its last test.
RECURSIVE Add(_, _, _)
Add(node, rule, index) ==
    IF rule = <<>> THEN [node EXCEPT !.rule_index = index]
    ELSE LET i == ChildFor(node, Head(rule)) IN
         IF i > 0
         THEN [node EXCEPT !.children[i] = Add(@, Tail(rule), index)]
         ELSE [node EXCEPT !.children =
                  Append(@, Add(NewChild(Head(rule)), Tail(rule), index))]

\* "handler already exists": the rule ends at a node that has one.
RECURSIVE IsTaken(_, _)
IsTaken(node, rule) ==
    IF rule = <<>> THEN node.rule_index # 0
    ELSE LET i == ChildFor(node, Head(rule)) IN
         i > 0 /\ IsTaken(node.children[i], Tail(rule))

\* optimizeNode: chains of simple nodes become one node.
RECURSIVE OptimizeNode(_)
OptimizeNode(node) ==
    IF node.children = <<>> THEN node
    ELSE IF IsSimpleNode(node)
    THEN LET child == node.children[1] IN
         OptimizeNode([node EXCEPT !.key = @ \o child.key,
                                   !.rule_index = child.rule_index,
                                   !.children = child.children])
    ELSE [node EXCEPT !.children = [i \in DOMAIN @ |-> OptimizeNode(@[i])]]

Optimize(head) ==
    [head EXCEPT !.children = [i \in DOMAIN @ |-> OptimizeNode(@[i])]]

-----------------------------------------------------------------------------
(* Trie::find.                                                             *)

\* The end of the longest run of characters from pos on that satisfy Test.
RunEnd(url, pos, Test(_)) ==
    CHOOSE e \in pos .. Len(url) + 1 :
        /\ \A i \in pos .. e - 1 : Test(url[i])
        /\ e <= Len(url) => ~Test(url[e])

Value(digits) == FoldLeft(LAMBDA v, c : 10 * v + DigitValue(c), 0, digits)

\* strtoll and strtoull: where the number ends; pos itself if there is none or
\* it is out of range.
NumberEnd(url, pos, signs, max) ==
    LET first == IF url[pos] \in signs THEN pos + 1 ELSE pos
        end == RunEnd(url, first, IsDigit)
        value == Value(SubSeq(url, first, end - 1))
    IN IF \/ first = end
          \/ value > max + (IF url[pos] = "-" THEN 1 ELSE 0)
       THEN pos ELSE end

StringEnd(url, pos) == RunEnd(url, pos, LAMBDA c : c # "/")

\* Where the part of the URL that a parameter takes ends; pos if it takes none.
ParamEnd(param, url, pos) ==
    CASE param = "<int>"    -> NumberEnd(url, pos, {"+", "-"}, IntMax)
      [] param = "<uint>"   -> NumberEnd(url, pos, {"+"}, UintMax)
      [] param = "<string>" -> StringEnd(url, pos)
      [] param = "<path>"   -> Len(url) + 1

FragmentEnd(fragment, url, pos) ==
    IF IsPrefix(fragment, SubSeq(url, pos, Len(url))) THEN pos + Len(fragment) ELSE pos

Fits(child, url, pos) ==
    IF child.param # NoParam THEN ParamEnd(child.param, url, pos)
    ELSE FragmentEnd(child.key, url, pos)

NotFound == [rule_index |-> 0, params |-> <<>>]

\* mutant: the first match instead of the rule that was added first
Better_First(ret, found) == ret.rule_index # 0 /\ found.rule_index = 0

Better(ret, found) ==
    /\ ret.rule_index # 0
    /\ found.rule_index = 0 \/ found.rule_index > ret.rule_index

RECURSIVE Find(_, _, _, _)
Find(url, node, pos, params) ==
    IF pos > Len(url) THEN [rule_index |-> node.rule_index, params |-> params]
    ELSE FoldLeft(
        LAMBDA found, child :
            LET end == Fits(child, url, pos)
                taken == IF child.param = NoParam THEN <<>>
                         ELSE <<SubSeq(url, pos, end - 1)>>
                ret == Find(url, child, end, params \o taken)
            IN IF end = pos THEN found
               ELSE IF Better(ret, found) THEN ret ELSE found,
        NotFound, node.children)

-----------------------------------------------------------------------------
(* The router: a tree and a list of rules for each method.  The indices 0   *)
(* and 1 are taken: no rule, and the redirection to the URL with a slash.   *)

RedirectSlash == 1

EmptyMethod == [rules |-> <<"none", "slash">>, trie |-> Node(<<>>, NoParam), valid |-> TRUE]

AddChecked(m, rule, index) ==
    [m EXCEPT !.trie = Add(@, rule, index),
              !.valid = @ /\ ~IsTaken(m.trie, rule)]

\* mutant: every rule also gets a redirection
HasTrailingSlash_Always(rule) == Len(rule) > 1

HasTrailingSlash(rule) == Len(rule) > 1 /\ rule[Len(rule)] = "/"

\* internal_add_rule_object: /about also gets a node, when /about/ is a rule.
AddRule(m, rule) ==
    LET index == Len(m.rules)
        added == [AddChecked(m, rule, index) EXCEPT !.rules = Append(@, rule)]
    IN IF HasTrailingSlash(rule) THEN AddChecked(added, Front(rule), RedirectSlash)
       ELSE added

\* App::validate adds the rule for static files behind the rules of the program.
WithStatic(all_rules) ==
    Append(all_rules, <<"GET", <<"/", "s", "t", "a", "t", "i", "c", "/", "<path>">>>>)

\* Router::validate over all_rules_, pairs of a method and a rule; Trie::validate
\* wants a head with one child at most.
Validate(methods, all_rules) ==
    LET Of(method) == SelectSeq(all_rules, LAMBDA pair : pair[1] = method)
        Built(method) == FoldLeft(LAMBDA m, pair : AddRule(m, pair[2]), EmptyMethod, Of(method))
    IN [method \in methods |->
           [Built(method) EXCEPT !.trie = Optimize(@),
                                 !.valid = @ /\ IsSimpleNode(Built(method).trie)]]

Lookup(router, method, url) ==
    IF method \in DOMAIN router THEN Find(url, router[method].trie, 1, <<>>) ELSE NotFound

Outcome(found, method, code, skip) ==
    [rule_index |-> found.rule_index, params |-> found.params, method |-> method,
     code |-> code, skip_body |-> skip]

FoundSomewhere(router, url) ==
    \E m \in DOMAIN router : Lookup(router, m, url).rule_index # 0

\* get_error: the gateway has no rule that catches all.
GetError(router, url) == IF FoundSomewhere(router, url) THEN 405 ELSE 404

\* handle_initial: code 0 when a rule was found, else the answer.  HEAD falls
\* back on GET, OPTIONS is answered from the tables, a URL known under another
\* method gives 405.
HeadOutcome(own, get) ==
    IF own.rule_index # 0 THEN Outcome(own, "HEAD", 0, TRUE)
    ELSE Outcome(get, "GET", IF get.rule_index = 0 THEN 404 ELSE 0, get.rule_index # 0)

OptionsOutcome(known) == Outcome(NotFound, "OPTIONS", IF known THEN 204 ELSE 404, FALSE)

OwnOutcome(own, method, error) ==
    Outcome(own, method, IF own.rule_index # 0 THEN 0 ELSE error, FALSE)

HandleInitial(router, method, url) ==
    CASE method = "HEAD" ->
           HeadOutcome(Lookup(router, "HEAD", url), Lookup(router, "GET", url))
      [] method = "OPTIONS" ->
           OptionsOutcome(url = <<"/", "*">> \/ FoundSomewhere(router, url))
      [] OTHER -> OwnOutcome(Lookup(router, method, url), method, GetError(router, url))

-----------------------------------------------------------------------------
(* The answer of a route.                                                  *)

Response(code, location) == [code |-> code, location |-> location]

\* The URL in the Location header: absolute when the client has named a host; the
\* query is lost.
SlashAdded(host, url) ==
    (IF host = <<>> THEN <<>> ELSE <<"h", "t", "t", "p", ":", "/", "/">> \o host)
    \o url \o <<"/">>

\* Router::handle of a request for which handle_initial has found a rule: a redirection,
\* or what the handler of the rule makes; an exception of it becomes a 500.
Handle(found, host, url, throws) ==
    IF found.rule_index = RedirectSlash THEN Response(301, SlashAdded(host, url))
    ELSE Response(IF throws THEN 500 ELSE 200, <<>>)

UpgradeError(router, url) == IF FoundSomewhere(router, url) THEN 405 ELSE 404

\* Router::handle_upgrade: the same for a request that asks for another protocol; no
\* rule of the gateway has one to offer.
HandleUpgrade(router, method, host, url) ==
    LET index == Lookup(router, method, url).rule_index
    IN CASE index = 0 -> Response(UpgradeError(router, url), <<>>)
         [] index = RedirectSlash -> Response(301, SlashAdded(host, url))
         [] OTHER -> Response(404, <<>>)
=============================================================================
