------------------------------ MODULE Service ------------------------------
(***************************************************************************)
(* What the server promises its clients, without sockets, descriptors or   *)
(* select: a client that is in asks one thing at a time, is answered once  *)
(* or sent away, and only its own requests change whether it is logged in. *)
(* Server implements this module.                                          *)
(***************************************************************************)
CONSTANTS Clients, Requests

VARIABLES
  place,    (* where each client is in the exchange                         *)
  asked,    (* the request it has made                                      *)
  logged    (* whether it is logged in                                      *)

vars == <<place, asked, logged>>

Places == {"away", "in", "asking", "served", "answered"}

Init ==
  /\ place = [c \in Clients |-> "away"]
  /\ asked = [c \in Clients |-> "none"]
  /\ logged = [c \in Clients |-> FALSE]

Move(c, from, to) ==
  /\ place[c] = from
  /\ place' = [place EXCEPT ![c] = to]

Enter(c) == Move(c, "away", "in") /\ UNCHANGED <<asked, logged>>

Ask(c) ==
  /\ Move(c, "in", "asking")
  /\ \E r \in Requests : asked' = [asked EXCEPT ![c] = r]
  /\ UNCHANGED logged

\* A login is granted or refused to one who is not logged in.
Serve(c) ==
  /\ Move(c, "asking", "served")
  /\ \/ asked[c] \in {"LOGIN", "ADMIN"} /\ ~logged[c] /\ logged' = [logged EXCEPT ![c] = TRUE]
     \/ asked[c] \in {"LOGIN", "ADMIN"} /\ ~logged[c] /\ UNCHANGED logged
     \/ asked[c] = "LOGOUT" /\ logged' = [logged EXCEPT ![c] = FALSE]
     \/ asked[c] \in {"GMN", "BAD"} /\ UNCHANGED logged
  /\ UNCHANGED asked

Answer(c) == Move(c, "served", "answered") /\ UNCHANGED <<asked, logged>>

Read(c) ==
  /\ Move(c, "answered", "in")
  /\ asked' = [asked EXCEPT ![c] = "none"]
  /\ UNCHANGED logged

\* Clients leave or are sent away, one of them or all.
Leave(S) ==
  /\ place' = [c \in Clients |-> IF c \in S THEN "away" ELSE place[c]]
  /\ asked' = [c \in Clients |-> IF c \in S THEN "none" ELSE asked[c]]
  /\ logged' = [c \in Clients |-> IF c \in S THEN FALSE ELSE logged[c]]

Next ==
  \/ \E c \in Clients :
       Enter(c) \/ Ask(c) \/ Serve(c) \/ Answer(c) \/ Read(c) \/ Leave({c})
  \/ Leave(Clients)

Spec == Init /\ [][Next]_vars

=============================================================================
