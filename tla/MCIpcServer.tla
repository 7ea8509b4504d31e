---------------------------- MODULE MCIpcServer ----------------------------
(* Small instances of the socket server for TLC. *)
EXTENDS IpcServer, TLC

Symmetry == Permutations(Conn)
=============================================================================
