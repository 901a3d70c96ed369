------------------------------ MODULE MCGateway ------------------------------
(* Constants of Gateway for TLC.                                            *)
EXTENDS Gateway

\* Four messages of one unit, with size fields of one unit: two segments.
FourSmall == <<2, 4, 6, 8>>
=============================================================================
