----------------------------- MODULE MCReplies -----------------------------
(* Replies, and with it Game1, for TLC: a game of two seconds, an          *)
(* administrator who moves the deadline by two, and a lost phase that is   *)
(* outside the story (what the makefile's build leaves: half a stack       *)
(* address), before or inside it.                                          *)
EXTENDS Replies

MCUninitPhases == {0, 5, 32764}
MCAdminValues  == {-2, 2}
MCEndTimes     == 0..4

=============================================================================
