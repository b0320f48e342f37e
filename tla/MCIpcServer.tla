---------------------------- MODULE MCIpcServer ----------------------------
(* A small instance of IpcServer for TLC.                                  *)
EXTENDS IpcServer, TLC
CONSTANTS a1, c1, c2, c3
Clients == Permutations(Conns)
=============================================================================
