------------------------------ MODULE Deadline ------------------------------
(***************************************************************************)
(* A deadline as a number, from the seconds an administrator types to the  *)
(* time left that the player is shown: do_update (admin_page.c) reads an   *)
(* int and gives it its sign, handle_admin adds it to a time_t, a status   *)
(* reply prints that with %lu, play_game (game.c) scans it, takes its own  *)
(* clock off and shows hours, minutes and seconds. Each step is a message  *)
(* apart from the next, and the clock ticks between any two.               *)
(*                                                                         *)
(* The widths are constants. What the standard leaves open, a number that  *)
(* %d cannot hold and the negation of the least int, is modelled as the    *)
(* build does it: glibc's strtol and the cast of its result, gcc's negl.   *)
(***************************************************************************)
EXTENDS Integers

CONSTANTS
  IntMax,        (* 2^31 - 1 in the build                                   *)
  LongMax,       (* 2^63 - 1: of a long, and of time_t                      *)
  Day,           (* 86400: tm_hour is what is left of whole days            *)
  GAME_TIME,
  Typed,         (* bound: the numbers that are typed                       *)
  MaxNow,        (* bound: the clock                                        *)
  MaxUpdates     (* bound: updates ever sent                                *)

(* A deadline stays within time_t, as any number of seconds people wait    *)
(* does.                                                                   *)
ASSUME WidthsAssumption ==
  /\ IntMax \in Nat /\ LongMax \in Nat /\ Day \in Nat \ {0} /\ GAME_TIME \in Nat
  /\ MaxNow \in Nat /\ MaxUpdates \in Nat /\ Typed \subseteq Int
  /\ GAME_TIME + MaxNow + MaxUpdates * (IntMax + 1) <= LongMax

VARIABLES
  now,           (* time(NULL), of one machine: DEFAULT_IP is 127.0.0.1     *)
  is_playing, end_time,        (* the server's                              *)
  asked,         (* the update under way: what was typed, and its value     *)
  n_updates,
  in_game,       (* play_game runs                                          *)
  reply,         (* the status reply under way                              *)
  session_end,   (* game_session.end_time                                   *)
  shown,         (* "Time left", in seconds                                 *)
  stale          (* history: the deadline has moved since the last status   *)

server == <<is_playing, end_time>>
admin  == <<asked, n_updates>>
player == <<in_game, reply, session_end, shown>>
dvars  == <<now, server, admin, player, stale>>

Directions == {"addtime", "subtime"}
NoUpdate   == [direction |-> "none", typed |-> 0, value |-> 0]
NoReply    == [status |-> "none", end_time |-> 0]

-----------------------------------------------------------------------------
(* Conversions *)

(* What remains of n in two's complement, max the greatest number.         *)
Wrapped(n, max) == ((n + max + 1) % (2 * (max + 1))) - (max + 1)
Clamped(n, max) == IF n > max THEN max ELSE IF n < -max - 1 THEN -max - 1 ELSE n

(* sscanf %d, and unary minus on an int *)
ScanInt(n) == Wrapped(Clamped(n, LongMax), IntMax)
Negated(n) == Wrapped(-n, IntMax)

\* Slip: read into an int, as the other fields are.
ScanAsInt(u) == ScanInt(u)

(* printf %lu and its sscanf into an unsigned long, assigned to a time_t   *)
PrintUnsigned(n) == n % (2 * (LongMax + 1))
ScanUnsigned(u)  == Wrapped(u, LongMax)

\* Slip: the sign is taken as typed.
ValueAsTyped(direction, n) ==
  IF direction = "addtime" THEN ScanInt(n) ELSE Negated(ScanInt(n))

(* do_update: either sign may be typed.                                    *)
Value(direction, n) ==
  LET value == ScanInt(n)
  IN  IF direction = "addtime" <=> value > 0 THEN value ELSE Negated(value)

(* gmtime of what is left, as play_game prints it.                         *)
TimeLeft(end) ==
  LET diff == end - now
  IN  (IF diff < 0 THEN 0 ELSE diff) % Day

-----------------------------------------------------------------------------
DInit ==
  /\ now = 0
  /\ is_playing = FALSE /\ end_time = 0
  /\ asked = NoUpdate /\ n_updates = 0
  /\ in_game = FALSE /\ reply = NoReply /\ session_end = 0 /\ shown = 0
  /\ stale = FALSE

Tick ==
  /\ now < MaxNow
  /\ now' = now + 1
  /\ UNCHANGED <<server, admin, player, stale>>

(* start: do_init_game, answered in one exchange.                          *)
InitGame ==
  /\ ~in_game
  /\ is_playing' = TRUE /\ end_time' = now + GAME_TIME
  /\ in_game' = TRUE
  /\ session_end' = ScanUnsigned(PrintUnsigned(end_time'))
  /\ stale' = FALSE
  /\ UNCHANGED <<now, admin, reply, shown>>

(* update game <id> addtime|subtime <seconds> *)
DoUpdate(direction, n) ==
  /\ asked = NoUpdate
  /\ n_updates < MaxUpdates
  /\ asked' = [direction |-> direction, typed |-> n, value |-> Value(direction, n)]
  /\ n_updates' = n_updates + 1
  /\ UNCHANGED <<now, server, player, stale>>

(* ADM UPDATE, on the server *)
AdminUpdate ==
  /\ asked # NoUpdate
  /\ asked' = NoUpdate
  /\ IF is_playing
     THEN end_time' = end_time + asked.value /\ stale' = TRUE
     ELSE UNCHANGED <<end_time, stale>>
  /\ UNCHANGED <<now, is_playing, n_updates, player>>

(* GMN status, on the server: it ends the game at the deadline.            *)
Status ==
  /\ in_game /\ reply = NoReply
  /\ is_playing' = (is_playing /\ end_time > now)
  /\ reply' = [status   |-> IF is_playing' THEN "PLAYING" ELSE "TIMEOUT",
               end_time |-> PrintUnsigned(end_time)]
  /\ stale' = FALSE
  /\ UNCHANGED <<now, end_time, admin, in_game, session_end, shown>>

(* do_get_game_status returns, and play_game shows what is left; it ends   *)
(* after a timeout, and if the command was end.                            *)
ShowStatus ==
  /\ reply # NoReply
  /\ reply' = NoReply
  /\ session_end' = ScanUnsigned(reply.end_time)
  /\ shown' = TimeLeft(session_end')
  /\ in_game' \in IF reply.status = "TIMEOUT" THEN {FALSE} ELSE BOOLEAN
  /\ UNCHANGED <<now, server, admin, stale>>

DNext ==
  \/ Tick \/ InitGame
  \/ \E direction \in Directions, n \in Typed : DoUpdate(direction, n)
  \/ AdminUpdate \/ Status \/ ShowStatus

DSpec == DInit /\ [][DNext]_dvars

-----------------------------------------------------------------------------
(* Properties *)

(* Whichever sign was typed, an update moves the deadline by the seconds   *)
(* typed and in the direction named, as long as an int holds them; subtime *)
(* never moves it later, whatever number was typed.                        *)
MovedAsTyped ==
  [][asked # NoUpdate /\ asked' = NoUpdate =>
       LET moved == end_time' - end_time
       IN  /\ is_playing /\ asked.typed \in -IntMax..IntMax =>
                moved \in {asked.typed, -asked.typed}
                  /\ (IF asked.direction = "addtime" THEN moved >= 0 ELSE moved <= 0)
           /\ asked.direction = "subtime" => moved <= 0]_dvars

(* The deadline survives its way through an unsigned number, also when an  *)
(* administrator has taken it below zero: what the player is shown is what *)
(* is left at that moment, unless the deadline has moved since the reply   *)
(* or whole days are left, which the line has no place for. Who is told    *)
(* that the time is over is shown that none is left, whatever is typed     *)
(* between the server's verdict and the client's line.                     *)
ShownIsLeft ==
  [][reply # NoReply /\ reply' = NoReply =>
       /\ ~stale => session_end' = end_time
       /\ ~stale /\ end_time - now < Day =>
            shown' = IF end_time > now THEN end_time - now ELSE 0
       /\ reply.status = "TIMEOUT" => shown' = 0]_dvars

(* ">> update game <id> addtime <seconds>" (admin_page.c): it adds.        *)
AddtimeAdds ==
  [][asked.direction = "addtime" /\ asked' = NoUpdate => end_time' >= end_time]_dvars

=============================================================================
