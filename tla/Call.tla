-------------------------------- MODULE Call --------------------------------
(***************************************************************************)
(* What a connection is for, without bytes: a client asks, what it asked   *)
(* is executed once and whole, and it is told the answer to that. A call   *)
(* may break off at any time, and then nothing more is executed. Framing   *)
(* implements this module if messages arrive as they were sent.            *)
(***************************************************************************)
CONSTANTS Requests, Replies, Nothing, Shown(_)

VARIABLES stage, request, executed, answer, told

vars == <<stage, request, executed, answer, told>>

Init ==
  /\ stage = "idle"
  /\ <<request, executed, answer, told>> = <<Nothing, Nothing, Nothing, Nothing>>

Ask ==
  /\ stage = "idle" /\ stage' = "asked"
  /\ request' \in Requests
  /\ <<executed, answer, told>>' = <<Nothing, Nothing, Nothing>>

\* The answer is chosen when the request is executed.
Execute ==
  /\ stage = "asked" /\ stage' = "executed"
  /\ executed' = request
  /\ answer' \in Replies
  /\ UNCHANGED <<request, told>>

Tell ==
  /\ stage = "executed" /\ stage' = "idle"
  /\ told' = Shown(answer)
  /\ UNCHANGED <<request, executed, answer>>

\* Nothing is said of what is asked or told later.
Break ==
  /\ stage' = "broken"
  /\ <<request, executed, answer, told>>' = <<Nothing, Nothing, Nothing, Nothing>>

Next == Ask \/ Execute \/ Tell \/ Break

Spec == Init /\ [][Next]_vars

=============================================================================
