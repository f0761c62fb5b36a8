----------------------------- MODULE MCSessions -----------------------------
(* Sessions for TLC: a password that begins another, two connections.      *)
EXTENDS Sessions

MCBegins == {<<"p", "p">>, <<"pq", "pq">>, <<"p", "pq">>}
MCValues == {-1, 1}

=============================================================================
