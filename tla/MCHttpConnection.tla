-------------------------- MODULE MCHttpConnection --------------------------
(* Constants of HttpConnection for TLC.                                     *)
EXTENDS HttpConnection

CONSTANTS a, b

Request(kind, close) == [kind |-> kind, close |-> close]

\* a comes twice on one connection: a HEAD and then a GET, a slow answer, an error, an
\* upgrade; b is the neighbour that shares the worker and the timer: answers that occupy the
\* worker, a request in two parts or without a rule.
Mixed ==
    [c \in Conns |->
        IF c = a THEN {Request("head", FALSE), Request("medium", TRUE), Request("status", FALSE),
                       Request("upgrade", FALSE)}
        ELSE {Request("long", FALSE), Request("head file", TRUE), Plain("refused"), Plain("expect")}]
TwoOnA == [c \in Conns |-> IF c = a THEN 2 ELSE 1]
=============================================================================
