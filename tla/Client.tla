------------------------------- MODULE Client -------------------------------
(***************************************************************************)
(* The client program: the loop of Client/main.c over its pages            *)
(* (login_page.c, game_page.c, admin_page.c), the game loop play_game      *)
(* (game.c) and the one call they all make, connection.request. The user   *)
(* types anything the pages accept, in any order.                          *)
(*                                                                         *)
(* connection.request sends and then blocks: it is two actions here,       *)
(* between which the server and everybody else act. The texts shown are    *)
(* left out but for the verdict of a game and the state line below it.     *)
(***************************************************************************)

CONSTANTS Games,  (* what the server sends of a game: its GameData          *)
          Unread  (* what memory nothing was read into may look like: texts,*)
                  (* each with what fields that were not scanned may hold   *)

VARIABLES
  page,          (* the function that runs, "exit" when main has returned   *)
  logged, admin_mode, close_client,          (* struct Session              *)
  game_session,  (* struct GameSession, as of the last reply that filled it *)
  can_exit,      (* play_game's                                             *)
  awaiting,      (* the request whose reply recv waits for                  *)
  told,          (* the verdict printed when the last game ended            *)
  (* the connection *)
  link,          (* "up"; "down" once the server has closed it, "cut" if    *)
                 (* that was between the length and the text of a reply,    *)
                 (* "lost" once such a reply has been read                  *)
  request,       (* what the server has not yet received                    *)
  reply          (* what the client has not yet received                    *)

session == <<logged, admin_mode, close_client>>
vars    == <<page, session, game_session, can_exit, awaiting, told,
             link, request, reply>>

None     == "none"
Pages    == {"login", "menu", "play", "admin", "exit"}
\* init2 starts the room that available_games lists and the server has not.
Requests == {"LOGIN", "SIGNUP", "ADM LOGIN", "LOGOUT", "init1", "init2",
             "move", "answer", "status", "ADM"}
NoGame   == [status |-> "NOT_STARTED"]
(* A reply: what the program tells apart in it, and the game it carries.   *)
(* Every text but NK begins with OK.                                       *)
Replies  == [kind : {"OK", "NK", "ENIGMA", "GAME"}, game : Games \cup {NoGame}]
Nothing  == [kind |-> None, game |-> NoGame]

Init ==
  /\ page = "login"
  /\ logged = FALSE /\ admin_mode = FALSE /\ close_client = FALSE
  /\ game_session = NoGame /\ can_exit = FALSE
  /\ awaiting = None /\ told = None
  /\ link = "up" /\ request = None /\ reply = Nothing

-----------------------------------------------------------------------------
(* connection.request: it sends, also when the server has closed already,  *)
(* and waits for what comes.                                               *)
Send(r) ==
  /\ awaiting = None
  /\ awaiting' = r
  /\ request' = r
  /\ UNCHANGED <<link, reply>>

(* What it may return: the reply that has come; -1, a reply of kind        *)
(* "none", if the connection is down. A text on which recv returns 0, its  *)
(* length alone having come, passes for read: the result is 0 and the      *)
(* response whatever the buffer held.                                      *)
Results ==
  CASE reply # Nothing -> {reply}
    [] link = "cut"    -> Unread
    [] OTHER           -> {Nothing}

Answered(r, got) ==
  /\ awaiting = r /\ (reply # Nothing \/ link # "up")
  /\ got \in Results
  /\ reply' = Nothing
  /\ link' = IF link = "cut" THEN "lost" ELSE link

Returns(r, got) ==
  /\ Answered(r, got)
  /\ awaiting' = None
  /\ request' = None

(* It returns, and the next request follows without a pause.               *)
Then(r, got, next) ==
  /\ Answered(r, got)
  /\ awaiting' = next
  /\ request' = next

(* strncmp(response, "OK", 2) *)
BeginsOK(got) == got.kind \in {"OK", "ENIGMA", "GAME"}

Keep == UNCHANGED <<session, game_session, can_exit, told>>

-----------------------------------------------------------------------------
(* login_page *)

LoginRequests == {"LOGIN", "SIGNUP", "ADM LOGIN"}

LoginCommand(r) ==
  /\ page = "login"
  /\ r \in LoginRequests
  /\ Send(r)
  /\ UNCHANGED page /\ Keep

(* do_login, do_signup, do_admin. A wrong password is asked for again; for *)
(* -1 and for what it does not expect the program does exit(-1).           *)
LoginReply(r) == \E got \in Results :
  /\ r \in LoginRequests
  /\ Returns(r, got)
  /\ \/ /\ got.kind = "OK"
        /\ logged' = TRUE
        /\ admin_mode' = (r = "ADM LOGIN")
        /\ page' = IF r = "ADM LOGIN" THEN "admin" ELSE "menu"
        /\ UNCHANGED <<close_client, game_session, can_exit, told>>
     \/ got.kind = "NK" /\ r # "SIGNUP" /\ UNCHANGED page /\ Keep
     \/ /\ got.kind \notin {"OK", "NK"} \/ <<r, got.kind>> = <<"SIGNUP", "NK">>
        /\ page' = "exit"
        /\ Keep

(* end, on the login page and on the menu: the loop of main ends.          *)
End ==
  /\ page \in {"login", "menu"} /\ awaiting = None
  /\ close_client' = TRUE
  /\ page' = "exit"
  /\ UNCHANGED <<logged, admin_mode, game_session, can_exit, told, awaiting,
                 link, request, reply>>

-----------------------------------------------------------------------------
(* game_page *)

MenuCommand(r) ==
  /\ page = "menu"
  /\ r \in {"init1", "init2", "LOGOUT"}
  /\ Send(r)
  /\ told' = None
  /\ UNCHANGED <<page, session, game_session, can_exit>>

LogoutReply == \E got \in Results :
  /\ Returns("LOGOUT", got)
  /\ \/ got.kind = "OK" /\ logged' = FALSE /\ page' = "login"
     \/ got.kind # "OK" /\ UNCHANGED <<logged, page>>
  /\ UNCHANGED <<admin_mode, close_client, game_session, can_exit, told>>

(* do_init_game: play_game goes on if the reply is a game being played, or *)
(* an OK of another kind and the fields it was not scanned into look so.   *)
InitReply(r) == \E got \in Results :
  /\ r \in {"init1", "init2"}
  /\ Returns(r, got)
  /\ IF BeginsOK(got) /\ got.game.status = "PLAYING"
     THEN /\ page' = "play"
          /\ game_session' = got.game
          /\ can_exit' = FALSE
          /\ UNCHANGED <<session, told>>
     ELSE UNCHANGED page /\ Keep

-----------------------------------------------------------------------------
(* play_game: a status request follows every command, also end and help,   *)
(* and its reply alone ends the game or loops back.                        *)

Prompt   == page = "play" /\ awaiting = None
Verdicts == {"WIN", "LOSE", "TIMEOUT"}

(* look, take, drop, use, objs *)
Move ==
  /\ Prompt
  /\ Send("move")
  /\ UNCHANGED page /\ Keep

(* end, help, and a command whose object is missing *)
Local(exit) ==
  /\ Prompt
  /\ Send("status")
  /\ can_exit' = exit
  /\ UNCHANGED <<page, session, game_session, told>>

\* Slip: no status request after a move.
MoveReplyNoStatus == \E got \in Results :
  /\ IF got.kind = "ENIGMA"
     THEN Then("move", got, "answer") /\ UNCHANGED page
     ELSE /\ Returns("move", got)
          /\ page' = IF BeginsOK(got) THEN "play" ELSE "menu"
  /\ Keep

(* take asks the user for the solution of an enigma; the others take that  *)
(* for a reply as any. look and take leave the game at once for what does  *)
(* not begin with OK, and all of them for -1; drop, use and objs look at   *)
(* nothing else.                                                           *)
MoveReply == \E got \in Results :
  /\ \/ got.kind = "ENIGMA" /\ Then("move", got, "answer") /\ UNCHANGED page
     \/ /\ got.kind \notin {None, "ENIGMA"}
        /\ Then("move", got, "status") /\ UNCHANGED page
     \/ ~BeginsOK(got) /\ Returns("move", got) /\ page' = "menu"
  /\ Keep

(* That this request may return -1 is not looked at: the response then     *)
(* still begins with the OK of the question.                               *)
AnswerReply == \E got \in Results :
  /\ \/ /\ BeginsOK(got) \/ got.kind = None
        /\ Then("answer", got, "status") /\ UNCHANGED page
     \/ /\ ~BeginsOK(got) /\ got.kind # None
        /\ Returns("answer", got) /\ page' = "menu"
  /\ Keep

(* do_get_game_status and what play_game does with it. Nothing but -1 is   *)
(* looked at: a text that is no game leaves the fields of resp as they     *)
(* were, and they are the game all the same. A text of the server's is a   *)
(* game here (see Play); one that was never read may be any.               *)
StatusReply == \E got \in Results :
  /\ Returns("status", got)
  /\ \/ /\ got.kind # None
        /\ game_session' = got.game
        /\ told' = IF got.game.status \in Verdicts THEN got.game.status ELSE None
        /\ page' = IF can_exit \/ told' # None THEN "menu" ELSE "play"
        /\ UNCHANGED <<session, can_exit>>
     \/ got.kind = None /\ page' = "menu" /\ Keep

-----------------------------------------------------------------------------
(* admin_page *)

AdminCommand ==
  /\ page = "admin"
  /\ Send("ADM")
  /\ UNCHANGED page /\ Keep

AdminReply == \E got \in Results :
  /\ Returns("ADM", got)
  /\ page' = IF BeginsOK(got) THEN "admin" ELSE "exit"
  /\ Keep

AdminExit ==
  /\ page = "admin" /\ awaiting = None
  /\ admin_mode' = FALSE /\ logged' = FALSE /\ close_client' = TRUE
  /\ page' = "exit"
  /\ UNCHANGED <<game_session, can_exit, told, awaiting, link, request, reply>>

-----------------------------------------------------------------------------
(* What the user types, and what the program does with an answer.          *)
Command ==
  \/ \E r \in Requests : LoginCommand(r) \/ MenuCommand(r)
  \/ End \/ Move \/ AdminCommand \/ AdminExit
  \/ \E exit \in BOOLEAN : Local(exit)

Return ==
  \/ \E r \in Requests : LoginReply(r) \/ InitReply(r)
  \/ LogoutReply \/ MoveReply \/ AnswerReply \/ StatusReply \/ AdminReply

Next == Command \/ Return

(* Every variable of the program and of its connection keeps its type.     *)
TypeOK ==
  /\ page \in Pages
  /\ logged \in BOOLEAN /\ admin_mode \in BOOLEAN /\ close_client \in BOOLEAN
  /\ game_session \in Games \cup {NoGame} \cup {text.game : text \in Unread}
  /\ can_exit \in BOOLEAN
  /\ awaiting \in Requests \cup {None}
  /\ told \in Verdicts \cup {None}
  /\ link \in {"up", "down", "cut", "lost"}
  /\ request \in Requests \cup {None}
  /\ reply \in Replies \cup {Nothing}

=============================================================================
