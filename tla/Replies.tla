------------------------------- MODULE Replies -------------------------------
(***************************************************************************)
(* What the player of an escape room is told: the message that each        *)
(* request of Game1 is answered with (Server/src/game1.c), and the picture *)
(* of the game a player forms who has nothing else to go by.               *)
(*                                                                         *)
(* A message is its id in the table of messages, "phase4.look libro" is    *)
(* <<4, "look", "libro">> and "wrong.missing.use" <<0, "use", "missing">>; *)
(* an answer without a message, to init, objs and status, is Data. The     *)
(* wording of a message is left out.                                       *)
(***************************************************************************)
EXTENDS Game1, Sequences

VARIABLES
  reply,         (* the id of the last response                             *)
  view           (* what the player believes: the phase, what is held, and  *)
                 (* whether the riddle is solved                            *)

rvars == <<vars, reply, view>>

Data       == <<0, "data", "">>
Question   == <<1, "question", "libro">>
Right      == <<1, "right", "libro">>
NoMessage  == <<0, "error", "">>        \* "Server Game Error"

(* The table. *)
General ==
  {0} \X {"look", "take", "drop", "use"} \X {"wrong"}
    \cup {<<0, "take", "full">>, <<0, "take", "already">>,
          <<0, "drop", "success">>, <<0, "use", "missing">>}
LookTable == <<
  {"", "tavolo", "incisioni", "libro", "cristallo", "bastone", "parte_rovinata"},
  {"libro"}, {"bastone"}, {"bastone", "libro"}, {"incisioni"}, {"tavolo", "libro"} >>
Story1 ==
  {<<1, "take", o>> : o \in Objects} \cup {Question, Right, <<1, "wrong", "libro">>}
Later ==
  { <<2, "use", "cristallo bastone">>, <<3, "use", "bastone libro">>, <<4, "use", "libro">>,
    <<5, "use", "bastone parte_rovinata">>, <<6, "take", "libro">>, <<6, "use", "libro">> }
Messages == General \cup Story1 \cup Later
              \cup UNION {{<<p, "look", arg>> : arg \in LookTable[p]} : p \in 1..6}

getMessage(id) == IF id \in Messages THEN id ELSE NoMessage

(* What may follow the command: the objects, and two things of the room.   *)
Arguments == Objects \cup {"", "tavolo", "incisioni"}
Uses      == {u[3] : u \in {m \in Later : m[2] = "use"}} \cup Objects

-----------------------------------------------------------------------------
(* The message of each request, on the game as it is before it. *)

(* look: one test of the phase after the other, the last that knows the    *)
(* argument has the word.                                                  *)
LookTests == <<
  {"", "tavolo", "incisioni", "libro", "cristallo", "bastone", "parte_rovinata"},
  {"libro"}, {"bastone"}, {"bastone", "libro"}, {"incisioni"}, {"tavolo", "libro"} >>
Test(p, arg, response) ==
  IF phase >= p /\ arg \in LookTests[p] THEN <<p, "look", arg>> ELSE response

\* Slip: the tests in the order of an else if.
LookReplyFirst(arg) ==
  Test(1, arg, Test(2, arg, Test(3, arg, Test(4, arg, Test(5, arg, Test(6, arg,
    <<0, "look", "wrong">>))))))
LookReply(arg) ==
  Test(6, arg, Test(5, arg, Test(4, arg, Test(3, arg, Test(2, arg, Test(1, arg,
    <<0, "look", "wrong">>))))))

\* Slip: the solved book is reported whatever its flag.
TakeReplyUnasked(o) ==
  CASE BagFull                -> <<0, "take", "full">>
    [] ~BagFull /\ Held(o)    -> <<0, "take", "already">>
    [] OTHER                  -> <<IF o = "libro" /\ phase = 6 THEN 6 ELSE 1, "take", o>>

TakeReply(o) ==
  IF BagFull THEN <<0, "take", "full">>
  ELSE IF o = "parte_rovinata" THEN <<1, "take", "parte_rovinata">>
  ELSE CASE flags[o] = "IN_BAG"         -> <<0, "take", "already">>
         [] flags[o] = "FREE"           -> <<IF o = "libro" /\ phase = 6 THEN 6 ELSE 1, "take", o>>
         [] flags[o] = "ENIGMA_SOLVED"  -> <<1, "take", o>>
         [] flags[o] = "ENIGMA_BLOCKED" -> Question
         [] OTHER                       -> <<0, "take", "wrong">>

SolutionReply(right) ==
  CASE BagFull              -> <<0, "take", "full">>
    [] ~BagFull /\ phase = 1 -> IF right THEN Right ELSE <<1, "wrong", "libro">>
    [] OTHER                -> <<0, "take", "wrong">>

DropReply(o) ==
  IF o # "parte_rovinata" /\ Held(o) THEN <<0, "drop", "success">> ELSE <<0, "drop", "wrong">>

(* What a phase is to be used, and what must be held for it.               *)
Used ==
  [p \in 2..6 |-> CASE p = 2 -> [arg |-> "cristallo bastone", held |-> {"cristallo", "bastone"}]
                    [] p = 3 -> [arg |-> "bastone libro", held |-> {"bastone", "libro"}]
                    [] p = 5 -> [arg |-> "bastone parte_rovinata", held |-> {"bastone"}]
                    [] OTHER -> [arg |-> "libro", held |-> {"libro"}]]
Fits(arg) == phase \in 2..6 /\ arg = Used[phase].arg
UseReply(arg) ==
  CASE Fits(arg) /\ Used[phase].held \subseteq Bag   -> <<phase, "use", arg>>
    [] Fits(arg) /\ ~(Used[phase].held \subseteq Bag) -> <<0, "use", "missing">>
    [] OTHER                                        -> <<0, "use", "wrong">>

(* What objs lists.                                                        *)
Listed == {o \in {"bastone", "cristallo", "libro"} : Held(o)}

-----------------------------------------------------------------------------
(* What the player makes of a message, and of nothing but the message and  *)
(* the request it answers.                                                 *)
Leaves == [p \in 2..6 |-> CASE p = 2 -> {"cristallo"} [] p \in {4, 6} -> {"libro"} [] OTHER -> {}]

Understand(id, arg) ==
  LET at == id[1]  verb == id[2]  IN
  CASE verb = "take" /\ at # 0 /\ arg # "parte_rovinata" ->
         [view EXCEPT !.held = @ \cup {arg},
                      !.phase = IF @ = 1 /\ arg = "libro" THEN 2 ELSE @]
    [] id = Right -> [view EXCEPT !.solved = TRUE]
    [] id = <<0, "drop", "success">> -> [view EXCEPT !.held = @ \ {arg}]
    [] verb = "use" /\ at # 0 -> [view EXCEPT !.phase = at + 1, !.held = @ \ Leaves[at]]
    [] OTHER -> view

Tell(id, arg) ==
  /\ reply' = getMessage(id)
  /\ view' = Understand(id, arg)

RInit ==
  /\ Init
  /\ reply = Data
  /\ view = [phase |-> 0, held |-> {}, solved |-> FALSE]

RStart ==
  /\ StartGame
  /\ reply' = Data
  /\ view' = [phase |-> 1, held |-> {}, solved |-> FALSE]

(* objs, status, and what handle_game1 does not know. *)
RData == Observe /\ reply' = Data /\ UNCHANGED view

Look(arg) == Observe /\ Tell(LookReply(arg), arg)

RTake(o) ==
  /\ \/ TakeFull
     \/ Take(o)
     \/ o = "libro" /\ TakeSolved
     \/ /\ Observe
        /\ ~BagFull
        /\ o = "parte_rovinata" \/ flags[o] \notin {"FREE", "ENIGMA_SOLVED"}
  /\ Tell(TakeReply(o), o)

(* The question is not remembered: a solution is taken whenever it comes.  *)
Solution(right) ==
  /\ \/ TakeFull
     \/ right /\ SolveEnigma
     \/ Observe /\ ~BagFull /\ ~(right /\ phase = 1)
  /\ Tell(SolutionReply(right), "libro")

RDrop(o) ==
  /\ Drop(o) \/ (Observe /\ (o = "parte_rovinata" \/ ~Held(o)))
  /\ Tell(DropReply(o), o)

RUse(arg) ==
  /\ \/ arg = "cristallo bastone" /\ UseCristalloBastone
     \/ arg = "bastone libro" /\ UseBastoneLibro
     \/ arg = "libro" /\ (UseLibro \/ UseLibroEnd)
     \/ arg = "bastone parte_rovinata" /\ UseBastoneParteRovinata
     \/ Observe /\ ~(Fits(arg) /\ Used[phase].held \subseteq Bag)
  /\ Tell(UseReply(arg), arg)

(* The clock and the administrator tell the player nothing.                *)
Untold ==
  /\ Tick \/ \E value \in AdminValues : AdminUpdateTime(value)
  /\ UNCHANGED <<reply, view>>

RNext ==
  \/ RStart \/ RData
  \/ \E arg \in Arguments : Look(arg)
  \/ \E o \in Objects : RTake(o) \/ RDrop(o)
  \/ \E right \in BOOLEAN : Solution(right)
  \/ \E arg \in Uses : RUse(arg)
  \/ Untold

RSpec == RInit /\ [][RNext]_rvars

-----------------------------------------------------------------------------
(* Properties *)

(* The player who believes every message is never wrong, and needs no      *)
(* other: the phase, what the hands hold, as objs lists it, and whether    *)
(* the riddle is solved are at all times what the messages have told.      *)
ViewAgrees ==
  selected_game /\ ~phaseLost =>
    /\ view.phase = phase
    /\ view.held = Bag /\ view.held = Listed
    /\ phase = 1 => (view.solved <=> flags["libro"] = "ENIGMA_SOLVED")

(* No request is answered "Server Game Error": every id that a handler     *)
(* composes is in the table. look tells of a thing what the table has      *)
(* latest for it up to the phase of the game: its tests and the table are  *)
(* in step, also in a phase outside the story.                             *)
MessagesInStep ==
  /\ reply \in Messages \cup {Data}
  /\ selected_game /\ phase >= 1 =>
       \A arg \in Arguments :
         LET known == {p \in 1..6 : p <= phase /\ <<p, "look", arg>> \in Messages}
         IN  known # {} /\ LookReply(arg) = <<CHOOSE p \in known : \A q \in known : q <= p, "look", arg>>

=============================================================================
