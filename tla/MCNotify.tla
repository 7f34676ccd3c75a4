------------------------------ MODULE MCNotify ------------------------------
(* Small instances of Notify. *)
EXTENDS Notify, TLC

SocketSymmetry == Permutations(Socket)
=============================================================================
