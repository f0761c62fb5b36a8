------------------------------ MODULE MCSystem ------------------------------
(* System for TLC: a game of one second, which the administrator may make  *)
(* longer by one.                                                          *)
EXTENDS System

MCAdminValues == {1}
MCEndTimes    == 0..2

(* What a text that never came looks like: a game that was won.             *)
MCUnread ==
  {[kind |-> "GAME", game |-> [status |-> "WIN", phase |-> 0, end_time |-> 0,
                               token_earned |-> 0]]}

=============================================================================
