----------------------------- MODULE MCFraming -----------------------------
(* Framing for TLC: two requests of different lengths, one of them with a  *)
(* byte that can begin a length the server accepts, "OK" and a longer      *)
(* reply that does not fit the response, memory that was zero or holds the *)
(* beginning of an earlier reply.                                          *)
EXTENDS Framing

MCPayloads == {<<71, 4>>, <<85, 83, 82>>}
MCReplies  == {<<79, 75>>, <<79, 75, 32, 65>>}
MCGarbage  == {<<>>, <<79, 75>>}

=============================================================================
