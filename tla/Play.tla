-------------------------------- MODULE Play --------------------------------
(***************************************************************************)
(* One client program and the server's side of its connection: Client sends*)
(* its requests to handle_client_fd, which keeps the session and runs      *)
(* Game1. The clock ticks, an administrator on another connection moves    *)
(* the deadline, and the server may end, between any two steps.            *)
(*                                                                         *)
(* The accounts are left to Sessions (a login is granted or refused, the   *)
(* name of a signup is new or taken) and the rest of the server to Server. *)
(***************************************************************************)
EXTENDS Integers

CONSTANTS GAME_TIME, UninitPhases, AdminValues, EndTimes, MaxNow, MaxTokens,
          Unread   (* what a text the client never read may look like: see Client *)

(* As Game1 assumes of them. *)
ASSUME GameTimes   == GAME_TIME \in Nat \ {0} /\ AdminValues \subseteq Int
ASSUME UninitReads == UninitPhases \subseteq Int /\ UninitPhases # {}
ASSUME Bounds      == EndTimes \subseteq Int /\ MaxNow \in Nat /\ MaxTokens \in Nat /\ MaxTokens >= 4
(* Any text, and any fields.                                               *)
ASSUME UnreadMemory ==
  Unread \subseteq [kind : {"OK", "NK", "ENIGMA", "GAME", "other"},
                    game : [status : {"NOT_STARTED", "PLAYING", "WIN", "LOSE", "TIMEOUT"},
                            phase : Int, end_time : Int, token_earned : Int]]

VARIABLES
  (* the client program and the connection: see Client                     *)
  page, logged, admin_mode, close_client, game_session, can_exit, awaiting,
  told, link, request, reply,
  (* the server's session: is_logged and is_admin, and the game of Game1   *)
  is_logged, is_admin,
  selected_game, is_playing, status, phase, end_time, token_earned, flags,
  now, phaseLost,
  won            (* history: since the last init, the game has been won     *)

(* GameData as serialize_game_data writes it, but for token_total, 4.      *)
GameData == [status : {"PLAYING", "WIN", "TIMEOUT"}, phase : Int,
             end_time : EndTimes, token_earned : 0..MaxTokens]

Program == INSTANCE Client WITH Games <- GameData
Game    == INSTANCE Game1

program == <<page, logged, admin_mode, close_client, game_session, can_exit,
             awaiting, told, link, request, reply>>
server  == <<is_logged, is_admin>>
game    == <<selected_game, is_playing, status, phase, end_time, token_earned,
             flags, now, phaseLost, won>>
vars    == <<program, server, game>>

Init == Program!Init /\ Game!Init /\ is_logged = FALSE /\ is_admin = FALSE /\ won = FALSE

-----------------------------------------------------------------------------
(* handle_client_fd, for one request that has come whole.                  *)

Serve(r, kind, carried) ==
  /\ link = "up"
  /\ request = r
  /\ request' = "none"
  /\ reply' = [kind |-> kind, game |-> carried]
  /\ UNCHANGED <<page, logged, admin_mode, close_client, game_session, can_exit,
                 awaiting, told, link>>

(* close_client: the session and its game are freed.                       *)
Close(r) ==
  /\ link = "up"
  /\ request = r
  /\ request' = "none"
  /\ link' = "down"
  /\ UNCHANGED <<page, logged, admin_mode, close_client, game_session, can_exit,
                 awaiting, told, reply, server, game>>

NoGame == Program!NoGame
NoPlay == UNCHANGED game

(* handle_user, and handle_admin's LOGIN *)
Login ==
  /\ ~is_logged
  /\ \/ Serve("LOGIN", "OK", NoGame) /\ is_logged' = TRUE /\ UNCHANGED is_admin
     \/ Serve("SIGNUP", "OK", NoGame) /\ is_logged' = TRUE /\ UNCHANGED is_admin
     \/ Serve("ADM LOGIN", "OK", NoGame) /\ is_logged' = TRUE /\ is_admin' = TRUE
     \/ Serve("LOGIN", "NK", NoGame) /\ UNCHANGED server
     \/ Serve("ADM LOGIN", "NK", NoGame) /\ UNCHANGED server
  /\ NoPlay

(* The results -1: a login of one who is logged in, or when the file of    *)
(* the accounts cannot be opened, a signup with a name that is taken; an   *)
(* administrator's command of one who is none.                             *)
Refuses(r) ==
  CASE r \in Program!LoginRequests -> TRUE
    [] r = "ADM"                   -> ~(is_logged /\ is_admin)
    [] OTHER                       -> FALSE
Refuse == \E r \in Program!Requests : Refuses(r) /\ Close(r)

\* Slip: the login is left standing.
LogoutStands ==
  /\ Serve("LOGOUT", "OK", NoGame)
  /\ UNCHANGED server /\ NoPlay

Logout ==
  /\ Serve("LOGOUT", "OK", NoGame)
  /\ is_logged' = FALSE
  /\ UNCHANGED is_admin /\ NoPlay

Admin ==
  /\ is_logged /\ is_admin
  /\ Serve("ADM", "OK", NoGame)
  /\ UNCHANGED server /\ NoPlay

-----------------------------------------------------------------------------
(* handle_game1 *)

Data == [status |-> status, phase |-> phase, end_time |-> end_time,
         token_earned |-> token_earned]

\* Slip: the reply is written before the game is.
StartGameStale ==
  /\ Game!StartGame
  /\ Serve("init1", "GAME", Data)
  /\ won' = FALSE
  /\ UNCHANGED server

StartGame ==
  /\ Game!StartGame
  /\ Serve("init1", "GAME", Data')
  /\ won' = FALSE
  /\ UNCHANGED server

(* A room the server does not have: NK, and the session is as it was.      *)
NoSuchRoom == Serve("init2", "NK", NoGame) /\ UNCHANGED server /\ NoPlay

Won == won' = (won \/ (status # "WIN" /\ status' = "WIN"))

PlayMove ==
  /\ \/ Serve("move", "OK", NoGame)
        /\ \/ Game!Observe \/ Game!TakeFull \/ Game!TakeSolved \/ Game!Use
           \/ \E o \in Game!Objects : Game!Take(o) \/ Game!Drop(o)
     \/ Serve("move", "ENIGMA", NoGame)
        /\ ~Game!BagFull /\ flags["libro"] = "ENIGMA_BLOCKED" /\ Game!Observe
  /\ Won /\ UNCHANGED server

PlayAnswer ==
  /\ Serve("answer", "OK", NoGame)
  /\ Game!SolveEnigma \/ (~Game!BagFull /\ Game!Observe) \/ Game!TakeFull
  /\ Won /\ UNCHANGED server

PlayStatus ==
  /\ Game!Observe
  /\ Serve("status", "GAME", Data')
  /\ Won /\ UNCHANGED server

(* Before any init nothing is sent back, and the connection stays.         *)
Swallow ==
  /\ link = "up"
  /\ request \in {"move", "answer", "status"}
  /\ request' = "none"
  /\ UNCHANGED <<page, logged, admin_mode, close_client, game_session, can_exit,
                 awaiting, told, link, reply, server, game>>

PlayGame == IF selected_game THEN PlayMove \/ PlayAnswer \/ PlayStatus ELSE Swallow

ServerStep ==
  Login \/ Refuse \/ Logout \/ Admin \/ StartGame \/ NoSuchRoom \/ PlayGame

-----------------------------------------------------------------------------
(* The client program, and what happens elsewhere meanwhile.               *)

ClientStep == Program!Next /\ UNCHANGED <<server, game>>

(* The server process ends, by stop, because another client was lost, or   *)
(* killed: then it may be between the length and the text of a reply.      *)
ServerEnds ==
  /\ link = "up"
  /\ \/ link' = "down" /\ UNCHANGED request
     \/ request # "none" /\ link' = "cut" /\ request' = "none"
  /\ UNCHANGED <<page, logged, admin_mode, close_client, game_session, can_exit,
                 awaiting, told, reply, server, game>>

Elsewhere ==
  \/ /\ Game!Tick \/ \E value \in AdminValues : Game!AdminUpdateTime(value)
     /\ link = "up" /\ page # "exit"
     /\ UNCHANGED <<program, server, won>>
  \/ ServerEnds

Next == ServerStep \/ ClientStep \/ Elsewhere

Spec == Init /\ [][Next]_vars

-----------------------------------------------------------------------------
(* Properties *)

(* Every variable keeps its type, the verdict printed included.            *)
TypeOK ==
  /\ Program!TypeOK
  /\ Game!TypeOK
  /\ is_logged \in BOOLEAN /\ is_admin \in BOOLEAN /\ won \in BOOLEAN

(* "A normal user from application can't send a invalid request"           *)
(* (server_handler.c): whatever the user does on whatever page, in which   *)
(* order, the pages and the server's session never get out of step so far  *)
(* that a request is refused, or left without a reply, for what its sender *)
(* is; nor is a game asked for without a login, which the server would     *)
(* grant.                                                                  *)
Welcome ==
  link = "up" =>
    /\ request \in Program!LoginRequests => ~is_logged
    /\ request \in {"init1", "init2", "LOGOUT"} => is_logged /\ ~admin_mode
    /\ request = "ADM" => is_logged /\ is_admin
    /\ request \in {"move", "answer", "status"} => is_logged /\ selected_game

(* What the state line shows while the user types is the server's game:    *)
(* whatever came in between, the last status request was after it.         *)
ShownIsTrue ==
  link = "up" /\ Program!Prompt =>
    /\ game_session.phase = phase
    /\ game_session.token_earned = token_earned
    /\ game_session.status = status

(* The verdict that is printed is one the server gave to this game: a win  *)
(* that was won, a timeout at a time when the deadline had passed, and no  *)
(* other. Not so of a status reply whose length alone has come: what is    *)
(* printed then was in no reply (ToldAlways is not so).                    *)
ToldAlways ==
  /\ told = "WIN" => won
  /\ told = "TIMEOUT" => status = "TIMEOUT" /\ end_time <= now
  /\ told # "LOSE"
ToldTruly == link # "lost" => ToldAlways

(* Who has won is told so: "check win and exit or loop back" (game.c).     *)
WonIsTold == link # "lost" /\ won => told # "TIMEOUT"

=============================================================================
