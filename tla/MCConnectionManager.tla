------------------------- MODULE MCConnectionManager -------------------------
(* Instances of ConnectionManager for TLC.                                  *)
EXTENDS ConnectionManager, TLC

(* Connections are interchangeable, and so are descriptors.                 *)
Symmetry == Permutations(Conn) \cup Permutations(Fd)
=============================================================================
