------------------------------- MODULE System -------------------------------
(***************************************************************************)
(* A player and an administrator at the same server: two runs of the       *)
(* client program, their two sessions, the player's game and the one       *)
(* thread that serves a request of either at a time. Play leaves to an     *)
(* environment what happens elsewhere; here it is done by the              *)
(* administrator's program, and System implements Play.                    *)
(*                                                                         *)
(* The administrator logs in as that and as nobody else; the update that   *)
(* is typed names the player's client or another id.                       *)
(***************************************************************************)
EXTENDS Play

VARIABLES
  (* the administrator's program and connection: see Client                *)
  a_page, a_logged, a_admin_mode, a_close_client, a_game_session, a_can_exit,
  a_awaiting, a_told, a_link, a_request, a_reply,
  (* the administrator's session                                           *)
  a_is_logged, a_is_admin

aprogram == <<a_page, a_logged, a_admin_mode, a_close_client, a_game_session,
              a_can_exit, a_awaiting, a_told, a_link, a_request, a_reply>>
aserver  == <<a_is_logged, a_is_admin>>
admin    == <<aprogram, aserver>>
svars    == <<vars, admin>>

AProgram == INSTANCE Client WITH
  Games <- GameData, Unread <- Unread,
  page <- a_page, logged <- a_logged, admin_mode <- a_admin_mode,
  close_client <- a_close_client, game_session <- a_game_session,
  can_exit <- a_can_exit, awaiting <- a_awaiting, told <- a_told,
  link <- a_link, request <- a_request, reply <- a_reply

SInit == Init /\ AProgram!Init /\ a_is_logged = FALSE /\ a_is_admin = FALSE

-----------------------------------------------------------------------------
(* handle_client_fd on the administrator's connection.                     *)

AServe(kind) ==
  /\ a_link = "up"
  /\ a_request' = "none"
  /\ a_reply' = [kind |-> kind, game |-> NoGame]
  /\ UNCHANGED <<a_page, a_logged, a_admin_mode, a_close_client, a_game_session,
                 a_can_exit, a_awaiting, a_told, a_link>>

AClose ==
  /\ a_link = "up"
  /\ a_request' = "none" /\ a_link' = "down"
  /\ UNCHANGED <<a_page, a_logged, a_admin_mode, a_close_client, a_game_session,
                 a_can_exit, a_awaiting, a_told, a_reply, aserver, vars>>

ALogin ==
  /\ a_request = "ADM LOGIN" /\ ~a_is_logged
  /\ \/ AServe("OK") /\ a_is_logged' = TRUE /\ a_is_admin' = TRUE
     \/ AServe("NK") /\ UNCHANGED aserver
  /\ UNCHANGED vars

(* As Play!Refuse: a login fails also when admin.txt cannot be opened.     *)
ARefuse ==
  /\ a_request # "none"
  /\ a_request = "ADM" => ~(a_is_logged /\ a_is_admin)
  /\ AClose

(* The player's session is there to be found while its connection is.      *)
Present == link = "up" /\ page # "exit"

\* Slip: the right is not looked at.
AdministerAnyone ==
  /\ a_request \in {"ADM", "ADM LOGIN"}
  /\ AServe("OK")
  /\ \/ Present /\ \E value \in AdminValues : Game!AdminUpdateTime(value)
     \/ UNCHANGED game
  /\ UNCHANGED <<program, server, aserver, won>>

(* handle_admin but for its LOGIN, branch by branch: each sends its reply  *)
(* itself. Those for what the admin page does not send (an operation or a  *)
(* command that is not supported, a type that is not TIME) are left out.   *)
Listed   == AServe("OK") /\ UNCHANGED game
TooLarge == AServe("OK") /\ UNCHANGED game     \* get_all returns NULL
\* of an id that nobody has, or no longer
NotFound == AServe("OK") /\ UNCHANGED game

\* Slip: a request is taken and not answered, as one outside a game is.
NotPlayingSilently ==
  /\ a_link = "up"
  /\ Present /\ ~is_playing
  /\ a_request' = "none"
  /\ UNCHANGED <<a_page, a_logged, a_admin_mode, a_close_client, a_game_session,
                 a_can_exit, a_awaiting, a_told, a_link, a_reply, game>>

NotPlaying == Present /\ ~is_playing /\ AServe("OK") /\ UNCHANGED game

\* Slip: the game goes on with the time added.
UpdatedRevives ==
  /\ Present /\ selected_game
  /\ status' = "PLAYING" /\ is_playing' = TRUE
  /\ end_time' \in {end_time + value : value \in AdminValues} \cap EndTimes
  /\ UNCHANGED <<selected_game, phase, token_earned, flags, now, phaseLost, won>>
  /\ AServe("OK")

Updated ==
  /\ Present
  /\ \E value \in AdminValues : Game!AdminUpdateTime(value)
  /\ AServe("OK")
  /\ UNCHANGED won

Administer ==
  /\ a_request = "ADM" /\ a_is_logged /\ a_is_admin
  /\ Listed \/ TooLarge \/ NotFound \/ NotPlaying \/ Updated
  /\ UNCHANGED <<program, server, aserver>>

AServerStep == ALogin \/ ARefuse \/ Administer

AClientStep ==
  /\ AProgram!Next
  /\ a_request' \notin {"LOGIN", "SIGNUP"}
  /\ UNCHANGED <<aserver, vars>>

-----------------------------------------------------------------------------
(* The process ends for both, between the length and the text of a reply  *)
(* to one of them at most.                                                 *)
Ended(connection) == IF connection = "up" THEN "down" ELSE connection

Ends ==
  /\ link = "up" \/ a_link = "up"
  /\ \/ /\ link' = Ended(link) /\ a_link' = Ended(a_link)
        /\ UNCHANGED <<request, a_request>>
     \/ /\ link = "up" /\ request # "none"
        /\ link' = "cut" /\ request' = "none"
        /\ a_link' = Ended(a_link) /\ UNCHANGED a_request
     \/ /\ a_link = "up" /\ a_request # "none"
        /\ a_link' = "cut" /\ a_request' = "none"
        /\ link' = Ended(link) /\ UNCHANGED request
  /\ UNCHANGED <<page, logged, admin_mode, close_client, game_session, can_exit,
                 awaiting, told, reply, server, game,
                 a_page, a_logged, a_admin_mode, a_close_client, a_game_session,
                 a_can_exit, a_awaiting, a_told, a_reply, aserver>>

Ticks == Present /\ Game!Tick /\ UNCHANGED <<program, server, won, admin>>

SNext ==
  \/ (ServerStep \/ ClientStep) /\ UNCHANGED admin
  \/ AServerStep \/ AClientStep
  \/ Ends \/ Ticks

SSpec == SInit /\ [][SNext]_svars
(* The loop serves every client whose request has come: Server!Answered.   *)
SFairSpec == SSpec /\ WF_svars(ServerStep /\ UNCHANGED admin) /\ WF_svars(AServerStep)

-----------------------------------------------------------------------------
(* Properties *)

(* What the player and the server do together is what Play says, with the  *)
(* administrator's program for an environment.                             *)
ImplementsPlay == Spec

(* From end to end: but for a new game, a deadline moves only while an     *)
(* administrator who was let in has asked for it on the admin page and     *)
(* waits for the reply.                                                    *)
MovedOnRequest ==
  [][end_time' # end_time =>
       \/ request = "init1" /\ request' = "none"
       \/ a_page = "admin" /\ a_awaiting = "ADM" /\ a_is_admin]_svars

(* A client that waits in recv is sent a reply or is disconnected: no page *)
(* sends what the server takes without an answer, no handler forgets one,  *)
(* and neither program waits for ever, whatever the other does.            *)
Waiting  == awaiting # "none" /\ reply = Program!Nothing /\ link = "up"
AWaiting == a_awaiting # "none" /\ a_reply = AProgram!Nothing /\ a_link = "up"
BothReplied == /\ Waiting ~> ~Waiting
               /\ AWaiting ~> ~AWaiting

=============================================================================
