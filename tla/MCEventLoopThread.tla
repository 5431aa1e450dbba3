------------------------- MODULE MCEventLoopThread -------------------------
(* EventLoopThread with one owner, a few functors and one socket.          *)
EXTENDS EventLoopThread

CONSTANTS f1, f2, f3
=============================================================================
