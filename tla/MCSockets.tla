----------------------------- MODULE MCSockets ------------------------------
(* Sockets for TLC: the constants are given in the configuration, and         *)
(* liveness rules symmetry out.                                               *)
EXTENDS Sockets
=============================================================================
