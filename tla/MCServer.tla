------------------------------ MODULE MCServer ------------------------------
(* Server for TLC.                                                         *)
EXTENDS Server

Permuted == Permutations(Clients)

=============================================================================
