---------------------------- MODULE MCTcpIngest ----------------------------
(* Constants of TcpIngest for TLC.                                         *)
EXTENDS TcpIngest

\* Messages of 1, 2 and 1 units, with size fields of two.
ThreeMessages == <<3, 7, 10>>
=============================================================================
