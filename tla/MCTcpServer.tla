---------------------------- MODULE MCTcpServer ----------------------------
(* TcpServer with one or two io loops and a few connections.               *)
EXTENDS TcpServer, TLC

CONSTANTS io1, io2, c1, c2

OneIo == <<io1>>
TwoIo == <<io1, io2>>

ConnSymmetry == Permutations(Conns)
=============================================================================
