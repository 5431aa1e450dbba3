---------------------------- MODULE MCEventLoop ----------------------------
(* EventLoop on small sets.                                                *)
EXTENDS EventLoop

CONSTANTS c1, c2, f1, f2, f3
=============================================================================
