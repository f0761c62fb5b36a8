------------------------------- MODULE Game1 -------------------------------
(***************************************************************************)
(* The "Elementals" escape room of one connection: handle_game1            *)
(* (Server/src/game1.c) on one struct ClientState, the wall clock it reads *)
(* and the administrator's deadline change (ADM UPDATE ... TIME).          *)
(*                                                                         *)
(* One action is one request handled to its end; the server handles a      *)
(* request without yielding, so the request is the unit of interleaving.   *)
(* The texts sent back are left out: nothing below depends on them.        *)
(***************************************************************************)
EXTENDS Integers, FiniteSets

CONSTANTS
  GAME_TIME,      (* seconds a game lasts: 600 in the code                  *)
  UninitPhases,   (* what the read of next_phase, jumped over by a goto and *)
                  (* so never written, may return                           *)
  AdminValues,    (* the seconds an administrator may add or subtract       *)
  EndTimes,       (* bound: the deadlines that are explored                 *)
  MaxNow,         (* bound: the clock stops here                            *)
  MaxTokens       (* bound: reached only by games whose phase was lost      *)

ASSUME GameTimeAssumption == GAME_TIME \in Nat \ {0}
ASSUME UninitAssumption   == UninitPhases \subseteq Int /\ UninitPhases # {}
ASSUME AdminAssumption    == AdminValues \subseteq Int
ASSUME BoundsAssumption   == /\ EndTimes \subseteq Int
                             /\ MaxNow \in Nat
                             /\ MaxTokens \in Nat /\ MaxTokens >= 4

VARIABLES
  selected_game,  (* client->selected_game = 1                              *)
  is_playing,     (* client->is_playing                                     *)
  status,         (* game_data.status                                       *)
  phase,          (* game_data.phase                                        *)
  end_time,       (* game_data.end_time                                     *)
  token_earned,   (* game_data.token_earned                                 *)
  flags,          (* game_data.flags, NULL before the first init            *)
  now,            (* time(NULL)                                             *)
  phaseLost       (* history: since the last init, the phase has been       *)
                  (* overwritten by an uninitialised value                  *)

game     == <<selected_game, is_playing, status, phase, end_time,
              token_earned, flags, phaseLost>>
vars     == <<game, now>>

Objects  == {"libro", "cristallo", "bastone", "parte_rovinata"}
Flags    == {"FREE", "IN_BAG", "LOCKED", "ENIGMA_BLOCKED", "ENIGMA_SOLVED"}
Statuses == {"NOT_STARTED", "PLAYING", "WIN", "TIMEOUT"}
NULL     == <<>>
BAG_SIZE == 2
LAST_PHASE == 7

Bag     == {o \in Objects : flags[o] = "IN_BAG"}

\* Slips: a strict comparison; the size of the bag forgotten by one.
BagOverfull   == Cardinality(Bag) > BAG_SIZE
BagAlmostFull == Cardinality(Bag) >= BAG_SIZE - 1
BagFull       == Cardinality(Bag) >= BAG_SIZE
Held(o) == flags[o] = "IN_BAG"

-----------------------------------------------------------------------------
(* The ClientState that client_list.add callocs: all zero.                 *)
Init ==
  /\ selected_game = FALSE
  /\ is_playing = FALSE
  /\ status = "NOT_STARTED"
  /\ phase = 0
  /\ end_time = 0
  /\ token_earned = 0
  /\ flags = NULL
  /\ now = 0
  /\ phaseLost = FALSE

\* Slip: the flags are not allocated.
StartGameNoFlags ==
  /\ now + GAME_TIME \in EndTimes
  /\ selected_game' = TRUE /\ is_playing' = TRUE /\ status' = "PLAYING"
  /\ phase' = 1 /\ token_earned' = 0 /\ end_time' = now + GAME_TIME
  /\ phaseLost' = FALSE
  /\ UNCHANGED <<flags, now>>

(* "GMN init 1", at any time: also in the middle of a game, and after one. *)
StartGame ==
  /\ now + GAME_TIME \in EndTimes
  /\ selected_game' = TRUE
  /\ is_playing' = TRUE
  /\ status' = "PLAYING"
  /\ phase' = 1
  /\ end_time' = now + GAME_TIME
  /\ token_earned' = 0
  /\ flags' = [o \in Objects |-> CASE o = "libro" -> "ENIGMA_BLOCKED"
                                   [] o = "parte_rovinata" -> "LOCKED"
                                   [] OTHER -> "FREE"]
  /\ phaseLost' = FALSE
  /\ UNCHANGED now

(* Every other request of a selected game first looks at the clock; an     *)
(* expired game is marked, and the request is served all the same.         *)
Expired    == end_time - now <= 0
StatusNow  == IF Expired THEN "TIMEOUT" ELSE status
PlayingNow == is_playing /\ ~Expired

Request ==
  /\ selected_game
  /\ UNCHANGED <<selected_game, end_time, now>>

(* A request that does not end the game leaves the clock's verdict.        *)
Play ==
  /\ Request
  /\ status' = StatusNow
  /\ is_playing' = PlayingNow

(* look, objs, status, an unknown command, and every take, drop or use     *)
(* that is answered by a refusal: only the clock's verdict is recorded.    *)
Observe ==
  /\ Play
  /\ UNCHANGED <<phase, token_earned, flags, phaseLost>>

-----------------------------------------------------------------------------
(* take *)

(* Hands full: the goto skips the initialisation of next_phase, and the    *)
(* phase is then assigned from it.                                         *)
TakeFull ==
  /\ Play
  /\ BagFull
  /\ phase' \in UninitPhases
  /\ phaseLost' = TRUE
  /\ UNCHANGED <<token_earned, flags>>

Take(o) ==
  /\ Play
  /\ ~BagFull
  /\ o # "parte_rovinata"
  /\ flags[o] = "FREE"
  /\ flags' = [flags EXCEPT ![o] = "IN_BAG"]
  /\ UNCHANGED <<phase, token_earned, phaseLost>>

PayToken ==
  /\ token_earned < MaxTokens
  /\ token_earned' = token_earned + 1

(* The book, once its riddle is solved; the first time pays a token.       *)
TakeSolved ==
  /\ Play
  /\ ~BagFull
  /\ flags["libro"] = "ENIGMA_SOLVED"
  /\ flags' = [flags EXCEPT !["libro"] = "IN_BAG"]
  /\ \/ phase = 1 /\ phase' = 2 /\ PayToken
     \/ phase # 1 /\ UNCHANGED <<phase, token_earned>>
  /\ UNCHANGED phaseLost

(* "take libro SOLUTION Aria": only the phase is tested, not the flag.     *)
SolveEnigma ==
  /\ Play
  /\ ~BagFull
  /\ phase = 1
  /\ flags' = [flags EXCEPT !["libro"] = "ENIGMA_SOLVED"]
  /\ UNCHANGED <<phase, token_earned, phaseLost>>

\* Slip: an object that is not held is dropped too.
DropUnheld(o) ==
  /\ Play
  /\ o # "parte_rovinata"
  /\ flags' = [flags EXCEPT ![o] = "FREE"]
  /\ UNCHANGED <<phase, token_earned, phaseLost>>

(* drop: what was in the bag becomes free, the book included.              *)
Drop(o) ==
  /\ Play
  /\ o # "parte_rovinata"
  /\ Held(o)
  /\ flags' = [flags EXCEPT ![o] = "FREE"]
  /\ UNCHANGED <<phase, token_earned, phaseLost>>

-----------------------------------------------------------------------------
(* use: one action per phase. The handler tests a copy of the phase taken  *)
(* on entry, so one request advances the story by one phase at most.       *)
Advance(from) ==
  /\ phase = from
  /\ phase' = from + 1
  /\ UNCHANGED phaseLost

UseCristalloBastone ==
  /\ Play
  /\ Advance(2)
  /\ Held("cristallo") /\ Held("bastone")
  /\ flags' = [flags EXCEPT !["cristallo"] = "LOCKED"]
  /\ UNCHANGED token_earned

\* Slip: the token of this phase is not paid.
UseBastoneLibroUnpaid ==
  /\ Play
  /\ Advance(3)
  /\ Held("bastone") /\ Held("libro")
  /\ flags' = [flags EXCEPT !["cristallo"] = "LOCKED"]
  /\ UNCHANGED token_earned

UseBastoneLibro ==
  /\ Play
  /\ Advance(3)
  /\ Held("bastone") /\ Held("libro")
  /\ flags' = [flags EXCEPT !["cristallo"] = "LOCKED"]
  /\ PayToken

UseLibro ==
  /\ Play
  /\ Advance(4)
  /\ Held("libro")
  /\ flags' = [flags EXCEPT !["libro"] = "LOCKED"]
  /\ PayToken

UseBastoneParteRovinata ==
  /\ Play
  /\ Advance(5)
  /\ Held("bastone")
  /\ flags' = [flags EXCEPT !["libro"] = "FREE"]
  /\ PayToken

\* Slip: the status is not tested before it becomes a win.
UseLibroEndAlwaysWins ==
  /\ Request
  /\ Advance(6)
  /\ Held("libro")
  /\ flags' = [flags EXCEPT !["libro"] = "FREE"]
  /\ status' = "WIN"
  /\ is_playing' = FALSE
  /\ UNCHANGED token_earned

(* The last use wins if the game is still being played.                    *)
UseLibroEnd ==
  /\ Request
  /\ Advance(6)
  /\ Held("libro")
  /\ flags' = [flags EXCEPT !["libro"] = "FREE"]
  /\ status' = IF StatusNow = "PLAYING" THEN "WIN" ELSE StatusNow
  /\ is_playing' = (PlayingNow /\ StatusNow # "PLAYING")
  /\ UNCHANGED token_earned

Use ==
  \/ UseCristalloBastone
  \/ UseBastoneLibro
  \/ UseLibro
  \/ UseBastoneParteRovinata
  \/ UseLibroEnd

-----------------------------------------------------------------------------
\* Slip: is_playing is not tested.
AdminUpdateTimeAnyone(value) ==
  /\ end_time + value \in EndTimes
  /\ end_time' = end_time + value
  /\ UNCHANGED <<selected_game, is_playing, status, phase, token_earned,
                 flags, now, phaseLost>>

(* An administrator moves the deadline of a client that is playing; that   *)
(* the deadline has passed is not looked at.                               *)
AdminUpdateTime(value) ==
  /\ is_playing
  /\ end_time + value \in EndTimes
  /\ end_time' = end_time + value
  /\ UNCHANGED <<selected_game, is_playing, status, phase, token_earned,
                 flags, now, phaseLost>>

Tick ==
  /\ now < MaxNow
  /\ now' = now + 1
  /\ UNCHANGED game

Command ==
  \/ Observe
  \/ TakeFull
  \/ \E o \in Objects : Take(o) \/ Drop(o)
  \/ TakeSolved
  \/ SolveEnigma
  \/ Use

Next ==
  \/ StartGame
  \/ Command
  \/ \E value \in AdminValues : AdminUpdateTime(value)
  \/ Tick

Spec == Init /\ [][Next]_vars

-----------------------------------------------------------------------------
(* Properties *)

(* The story this game tells: it has a phase unless the phase was lost.    *)
StoryOf == INSTANCE Story WITH
  phase   <- IF selected_game /\ ~phaseLost THEN phase ELSE 0,
  tokens  <- IF selected_game /\ ~phaseLost THEN token_earned ELSE 0,
  verdict <- status

(* Every field keeps its type, and no request of a selected game finds     *)
(* flags NULL: handle_client_fd lets a GMN request through only if         *)
(* selected_game is set, and handle_game1 then reads flags unchecked.      *)
TypeOK ==
  /\ selected_game \in BOOLEAN
  /\ is_playing \in BOOLEAN
  /\ status \in Statuses
  /\ phase \in Int
  /\ end_time \in Int
  /\ token_earned \in Nat
  /\ flags \in [Objects -> Flags] \cup {NULL}
  /\ now \in 0..MaxNow
  /\ phaseLost \in BOOLEAN
  /\ selected_game => flags # NULL

(* The two records of "a game is on" agree, and a TIMEOUT verdict is never *)
(* given, nor left standing, before the deadline: no clock tick, request   *)
(* or administrator's update of the deadline separates them.               *)
ClockAgrees ==
  /\ is_playing <=> status = "PLAYING"
  /\ status = "TIMEOUT" => end_time <= now

(* Two hands: whatever is solved, dropped, locked or freed by the story,   *)
(* and even after the phase was lost, the bag holds at most bag_size.      *)
BagBound == selected_game => Cardinality(Bag) <= BAG_SIZE

(* The objects are where the phase needs them, and the tokens are those    *)
(* the phase has paid: paid once, never more than token_total (the client  *)
(* shows the unsigned difference).                                         *)
OnStory ==
  selected_game /\ ~phaseLost =>
    /\ phase \in 1..LAST_PHASE
    /\ token_earned = StoryOf!TokensAt[phase]
    /\ flags["bastone"] \in {"FREE", "IN_BAG"}
    /\ flags["parte_rovinata"] = "LOCKED"
    /\ flags["cristallo"] \in IF phase <= 2 THEN {"FREE", "IN_BAG"} ELSE {"LOCKED"}
    /\ flags["libro"] \in CASE phase = 1 -> {"ENIGMA_BLOCKED", "ENIGMA_SOLVED"}
                             [] phase = 5 -> {"LOCKED"}
                             [] OTHER -> {"FREE", "IN_BAG"}

(* How far the end of the story is: the phases to go, and within a phase   *)
(* the objects still to fetch, the hands to free, the riddle to solve.     *)
Count(b)  == IF b THEN 1 ELSE 0
ToFetch ==
  CASE phase = 1 -> Count(flags["libro"] = "ENIGMA_BLOCKED") + Count(BagFull)
    [] phase = 2 -> Count(~Held("cristallo")) + Count(~Held("bastone")) + Count(Held("libro"))
    [] phase = 3 -> Count(~Held("bastone")) + Count(~Held("libro"))
    [] phase = 5 -> Count(~Held("bastone"))
    [] OTHER     -> Count(~Held("libro"))
Distance == 4 * (LAST_PHASE - phase) + ToFetch

(* No dead end: whatever the player has taken, dropped or used, some       *)
(* command brings the end of the story nearer (so it can be reached).      *)
NoDeadEnd ==
  selected_game /\ ~phaseLost /\ phase < LAST_PHASE =>
    ENABLED (Command /\ ~phaseLost' /\ Distance' < Distance)

(* A win is granted only by the last phase of a running game and before    *)
(* its deadline, and no request or update revives a timed out game: only   *)
(* a new init does.                                                        *)
FairVerdict ==
  [][/\ status # "WIN" /\ status' = "WIN" => status = "PLAYING" /\ now < end_time /\ phase' = LAST_PHASE
     /\ status = "TIMEOUT" => status' = "TIMEOUT" \/ StartGame]_vars

(* The phases are "to be unlocked one after one" (readme): a request moves *)
(* a game by one phase at most, and only a new init goes back.             *)
PhasesInOrder ==
  [][phase' \in {phase, phase + 1} \/ StartGame]_vars

(* Game1 implements the story: the phases, the tokens and the verdict of a *)
(* connection move as Story allows, whatever is requested and when.        *)
ImplementsStory == StoryOf!Spec

=============================================================================
