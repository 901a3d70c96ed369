----------------------------- MODULE MCShmQueue -----------------------------
(* Constants of ShmQueue for TLC.                                          *)
EXTENDS ShmQueue

Blank == [processed |-> FALSE, dataLength |-> 0, next |-> 0]

\* Frame data is never taken for a header when all messages have one size.
BlankPixels == {Blank}

\* A black pixel, and one that reads as a processed message with data.
TwoPixels == {Blank, [processed |-> TRUE, dataLength |-> 1, next |-> 2]}
=============================================================================
