------------------------------- MODULE MCPlay -------------------------------
(* Play for TLC: a game of two seconds, which an administrator may prolong *)
(* or cut by one.                                                          *)
EXTENDS Play

MCAdminValues == {-1, 1}
MCEndTimes    == 0..4

(* One text of each kind, with one look of the fields below it.            *)
MCUnread ==
  {[kind |-> look[1], game |-> [status |-> look[2], phase |-> 0, end_time |-> 0,
                                token_earned |-> 0]] :
     look \in {<<"OK", "PLAYING">>, <<"NK", "LOSE">>, <<"ENIGMA", "PLAYING">>,
               <<"GAME", "WIN">>, <<"other", "NOT_STARTED">>}}

=============================================================================
