------------------------------- MODULE Story -------------------------------
(***************************************************************************)
(* What the escape room promises its player, without objects, bag or       *)
(* clock: seven phases unlocked one after one, a token for four of them,   *)
(* and a verdict. Game1 implements this module.                            *)
(*                                                                         *)
(* phase 0 stands for "no phase of the story": before the first start, and *)
(* after the code has overwritten the phase with an uninitialised value    *)
(* (Derail). Only a new start leads out of it.                             *)
(***************************************************************************)
EXTENDS Integers

VARIABLES phase, tokens, verdict

vars == <<phase, tokens, verdict>>

Phases    == 1..7
\* The tokens earned on arrival in each phase.
TokensAt  == <<0, 1, 1, 2, 3, 4, 4>>

Init ==
  /\ phase = 0
  /\ tokens = 0
  /\ verdict = "NOT_STARTED"

Start ==
  /\ phase' = 1
  /\ tokens' = 0
  /\ verdict' = "PLAYING"

Started == verdict # "NOT_STARTED"

\* The next phase; a request served after the deadline may unlock it too.
Unlock ==
  /\ phase \in Phases \ {7}
  /\ phase' = phase + 1
  /\ tokens' = TokensAt[phase + 1]
  /\ verdict' \in {verdict, "TIMEOUT"}
  /\ phase = 6 => verdict' # "PLAYING"

\* The last phase, reached in time.
Win ==
  /\ phase = 6
  /\ phase' = 7
  /\ tokens' = TokensAt[7]
  /\ verdict = "PLAYING"
  /\ verdict' = "WIN"

\* A request finds the deadline passed, whatever the verdict was.
RunOut ==
  /\ Started
  /\ verdict' = "TIMEOUT"
  /\ UNCHANGED <<phase, tokens>>

\* The phase is lost; what follows it is outside the story.
Derail ==
  /\ Started
  /\ phase' = 0
  /\ tokens' = 0
  /\ verdict' \in {verdict, "TIMEOUT"}

OffStory ==
  /\ Started
  /\ phase = 0
  /\ verdict = "PLAYING"
  /\ verdict' = "WIN"
  /\ UNCHANGED <<phase, tokens>>

Next == Start \/ Unlock \/ Win \/ RunOut \/ Derail \/ OffStory

Spec == Init /\ [][Next]_vars

=============================================================================
