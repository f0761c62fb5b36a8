----------------------------- MODULE MCDeadline -----------------------------
(* Deadline for TLC: ints of three bits and longs of six, with numbers     *)
(* typed at and beyond the ends of both.                                   *)
EXTENDS Deadline

MCTyped   == {0, 1, -2, IntMax, -IntMax, LongMax + 1}
MCAnything == {1, IntMax + 1, 2 * (IntMax + 1)}

=============================================================================
