------------------------------ MODULE HttpQuery ------------------------------
(***************************************************************************)
(* The query string of a URL (core/include/crow/crow_all.h, qs_parse and    *)
(* query_string): HTTPParser::on_url parses it for every request.           *)
(*                                                                         *)
(* The code keeps pointers into one buffer and decodes the values in place; *)
(* what a pointer leads to, up to the next NUL, is a sequence of characters *)
(* here.  The keys stay as they are and are decoded when they are compared. *)
(* Left out: dictionaries, pop, and sizes beyond the 256 pairs of the code. *)
(***************************************************************************)
EXTENDS Integers, Sequences, SequencesExt

NUL == "NUL"

\* CROW_QS_ISQSCHR, and CROW_QS_ISHEX for the digits used here.
IsQsChar(c) == c \notin {"=", "#", "&", NUL}
IsHex(c) == c \in {"0", "1", "2", "3", "4", "5", "6", "7", "8", "9",
                   "a", "b", "c", "d", "e", "f"}

\* CROW_QS_HEX2DEC: the character of two digits; the other bytes stand for themselves.
HexChar == [h20 |-> " ", h25 |-> "%", h26 |-> "&", h2b |-> "+", h3d |-> "=",
            h61 |-> "a", h00 |-> NUL]
Hex2Dec(high, low) ==
    LET name == "h" \o high \o low IN
    IF name \in DOMAIN HexChar THEN HexChar[name] ELSE name

IsEscape(qs) == Len(qs) >= 3 /\ IsHex(qs[2]) /\ IsHex(qs[3])

UpTo(s, Stops(_)) ==
    LET stops == {i \in DOMAIN s : Stops(s[i])}
    IN IF stops = {} THEN s
       ELSE SubSeq(s, 1, (CHOOSE i \in stops : \A j \in stops : i <= j) - 1)

\* qs_decode: a wrong escape ends the value, like a separator.
RECURSIVE Decode(_)
Decode(qs) ==
    IF qs = <<>> \/ ~IsQsChar(qs[1]) THEN <<>>
    ELSE IF qs[1] = "+" THEN <<" ">> \o Decode(Tail(qs))
    ELSE IF qs[1] # "%" THEN <<qs[1]>> \o Decode(Tail(qs))
    ELSE IF ~IsEscape(qs) THEN <<>>
    ELSE <<Hex2Dec(qs[2], qs[3])>> \o Decode(SubSeq(qs, 4, Len(qs)))

CString(s) == UpTo(s, LAMBDA c : c = NUL)

\* What qs_parse makes of a pair: the key as it is, the value decoded.
ParsePair(raw) ==
    LET key == UpTo(raw, LAMBDA c : c \in {"=", "#"})
    IN IF key = raw THEN raw
       ELSE CString(key \o <<raw[Len(key) + 1]>> \o Decode(SubSeq(raw, Len(key) + 2, Len(raw))))

RECURSIVE QueryPairs(_)
QueryPairs(qs) ==
    LET raw == UpTo(qs, LAMBDA c : c = "&")
    IN <<ParsePair(raw)>> \o (IF raw = qs THEN <<>>
                              ELSE QueryPairs(SubSeq(qs, Len(raw) + 2, Len(qs))))

\* qs_parse of a whole URL: what follows the first ? or #, if there is one.
QueryString(url) ==
    LET path == UpTo(url, LAMBDA c : c \in {"?", "#"})
    IN IF path = url THEN <<>> ELSE QueryPairs(SubSeq(url, Len(path) + 2, Len(url)))

\* The next character that qs_strncmp compares, and what follows it.
NextOf(s) ==
    IF s = <<>> \/ ~IsQsChar(s[1]) THEN [char |-> NUL, rest |-> <<>>]
    ELSE IF s[1] = "+" THEN [char |-> " ", rest |-> Tail(s)]
    ELSE IF s[1] # "%" THEN [char |-> s[1], rest |-> Tail(s)]
    ELSE [char |-> IF IsEscape(s) THEN Hex2Dec(s[2], s[3]) ELSE NUL,
          rest |-> SubSeq(s, 4, Len(s))]

\* mutant: a key that begins like the one wanted is taken for it
KeyEnds_Anywhere(qs) == TRUE

KeyEnds(qs) == qs = <<>> \/ ~IsQsChar(qs[1])

\* qs_strncmp is 0.
RECURSIVE SameKey(_, _, _)
SameKey(s, qs, n) ==
    IF n = 0 THEN KeyEnds(qs)
    ELSE LET a == NextOf(s)
             b == NextOf(qs)
         IN a.char = b.char /\ (a.char = NUL \/ SameKey(a.rest, b.rest, n - 1))

ValueOf(pair) ==
    LET key == UpTo(pair, LAMBDA c : c = "=") IN SubSeq(pair, Len(key) + 2, Len(pair))

\* query_string::get_list without brackets: qs_k2v for each nth.
GetList(pairs, name) ==
    LET matching == SelectSeq(pairs, LAMBDA pair : SameKey(name, pair, Len(name)))
    IN [i \in DOMAIN matching |-> ValueOf(matching[i])]

NoValue == <<NUL>>

\* query_string::get.
Get(pairs, name) ==
    LET values == GetList(pairs, name) IN IF values = <<>> THEN NoValue ELSE values[1]
=============================================================================
