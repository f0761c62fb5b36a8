----------------------------- MODULE MCRoster -----------------------------
(* Roster for TLC: three descriptors, one of them with a digit 0, and a    *)
(* limit that three sessions stay below if no more than one has a short    *)
(* name. The slack between the limit and the buffers is that of the code.  *)
EXTENDS Roster

MCNames   == {"", "ada", "bob10"}
MCNameLen == [n \in MCNames |-> CASE n = "" -> 0 [] n = "ada" -> 3 [] OTHER -> 31]
MCZeroed  == {"bob10"}

=============================================================================
