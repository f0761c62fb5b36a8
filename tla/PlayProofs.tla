----------------------------- MODULE PlayProofs -----------------------------
(***************************************************************************)
(* Proofs about Play, the client program against the server's session, and *)
(* about System, which puts the administrator's program in the place of    *)
(* Play's environment: for every length of a game, deadline, administrator *)
(* value and uninitialised phase.                                          *)
(***************************************************************************)
EXTENDS System, TLAPS

(* What is proved of one game holds of the game of this connection. The    *)
(* proofs about its messages, of Replies, are not used: no picture of the  *)
(* game is kept here.                                                      *)
GameProofs == INSTANCE Game1Proofs WITH view <- 0

-----------------------------------------------------------------------------
(* The game, whoever moves it. *)

(* The definitions of Game1, as Play and as the proofs name them.          *)
LEMMA SameGame ==
  /\ GameProofs!TypeOK <=> Game!TypeOK
  /\ GameProofs!ClockAgrees <=> Game!ClockAgrees
  /\ Game!StartGame => GameProofs!StartGame
  /\ Game!Command => GameProofs!Command
  /\ Game!Tick => GameProofs!Tick
  /\ \A value : Game!AdminUpdateTime(value) => GameProofs!AdminUpdateTime(value)
<1> USE DEF Game!Statuses, Game!Objects, Game!Flags, Game!NULL, GameProofs!Statuses,
            GameProofs!Objects, GameProofs!Flags, GameProofs!NULL
<1>1. /\ GameProofs!TypeOK <=> Game!TypeOK
      /\ GameProofs!ClockAgrees <=> Game!ClockAgrees
  BY DEF GameProofs!TypeOK, Game!TypeOK, GameProofs!ClockAgrees, Game!ClockAgrees
<1>2. /\ Game!StartGame => GameProofs!StartGame
      /\ Game!Tick => GameProofs!Tick
      /\ \A value : Game!AdminUpdateTime(value) => GameProofs!AdminUpdateTime(value)
  BY DEF Game!StartGame, GameProofs!StartGame, Game!Tick, GameProofs!Tick, Game!game,
         GameProofs!game, Game!AdminUpdateTime, GameProofs!AdminUpdateTime
<1>b. Game!BagFull <=> GameProofs!BagFull
  <2>1. Game!Bag = GameProofs!Bag
    BY DEF Game!Bag, GameProofs!Bag
  <2>2. Game!Cardinality(Game!Bag) = GameProofs!Cardinality(GameProofs!Bag)
    BY <2>1 DEF Game!Cardinality, GameProofs!Cardinality, Game!IsFiniteSet, GameProofs!IsFiniteSet
  <2> QED
    BY <2>2 DEF Game!BagFull, GameProofs!BagFull, Game!BAG_SIZE, GameProofs!BAG_SIZE
<1>3. /\ Game!Play <=> GameProofs!Play
      /\ Game!Request <=> GameProofs!Request
      /\ Game!StatusNow = GameProofs!StatusNow
      /\ Game!PlayingNow <=> GameProofs!PlayingNow
      /\ \A o : Game!Held(o) <=> GameProofs!Held(o)
      /\ \A from : Game!Advance(from) <=> GameProofs!Advance(from)
      /\ Game!PayToken <=> GameProofs!PayToken
  BY DEF Game!Play, GameProofs!Play, Game!Request, GameProofs!Request, Game!StatusNow,
         GameProofs!StatusNow, Game!PlayingNow, GameProofs!PlayingNow,
         Game!Expired, GameProofs!Expired, Game!Held, GameProofs!Held, Game!Advance,
         GameProofs!Advance, Game!PayToken, GameProofs!PayToken
<1>4. Game!Use => GameProofs!Use
  BY <1>3 DEF Game!Use, GameProofs!Use, Game!UseCristalloBastone,
         GameProofs!UseCristalloBastone, Game!UseBastoneLibro, GameProofs!UseBastoneLibro,
         Game!UseLibro, GameProofs!UseLibro, Game!UseBastoneParteRovinata,
         GameProofs!UseBastoneParteRovinata, Game!UseLibroEnd, GameProofs!UseLibroEnd
<1>5. Game!Command => GameProofs!Command
  BY <1>b, <1>3, <1>4 DEF Game!Command, GameProofs!Command, Game!Observe, GameProofs!Observe,
         Game!TakeFull, GameProofs!TakeFull, Game!Take, GameProofs!Take, Game!Drop,
         GameProofs!Drop, Game!TakeSolved, GameProofs!TakeSolved, Game!SolveEnigma,
         GameProofs!SolveEnigma
<1> QED
  BY <1>1, <1>2, <1>5

(* What a step of this module may do to the game.                          *)
NewGame   == Game!StartGame /\ won' = FALSE
Played    == Game!Command /\ Won
Meanwhile == /\ Game!Tick \/ \E value \in AdminValues : Game!AdminUpdateTime(value)
             /\ UNCHANGED won
GameMoves == NewGame \/ Played \/ Meanwhile \/ UNCHANGED game

(* A request of the game is a command to it.                               *)
LEMMA PlayGameCases == PlayMove \/ PlayAnswer \/ PlayStatus => Played
  BY DEF PlayMove, PlayAnswer, PlayStatus, Played, Game!Command

(* Whatever a step is, the game starts anew, obeys a command, is timed or  *)
(* has its deadline moved, or is left alone.                               *)
LEMMA GameStep == [Next]_vars => GameMoves
  BY PlayGameCases
  DEF vars, Next, ServerStep, ClientStep, Elsewhere, ServerEnds, Login, Refuse, Close, Logout,
      Admin, StartGame, NoSuchRoom, PlayGame, Swallow, NoPlay, NewGame, Meanwhile, GameMoves

(* What holds of the game by itself, with the history of its wins.         *)
GameInv ==
  /\ Game!TypeOK /\ won \in BOOLEAN
  /\ Game!ClockAgrees
  /\ token_earned <= MaxTokens
  /\ selected_game => status # "NOT_STARTED" /\ end_time \in EndTimes
  /\ status = "WIN" => won

(* A new session has no game.                                              *)
LEMMA GameInvInit == Init => GameInv
<1>1. Game!TypeOK <=> GameProofs!TypeOK
  BY SameGame
<1>2. Game!Init => GameProofs!Init
  BY DEF Game!Init, GameProofs!Init, Game!NULL, GameProofs!NULL
<1>3. GameProofs!Init => GameProofs!TypeOK
  BY GameProofs!TypeInit, GameTimes, UninitReads, Bounds DEF GameTimes, UninitReads, Bounds
<1>4. Init => Game!Init /\ won = FALSE
  BY DEF Init
<1>5. Game!Init => /\ Game!ClockAgrees /\ token_earned <= MaxTokens
                  /\ ~selected_game /\ status # "WIN"
  BY Bounds DEF Game!Init, Game!ClockAgrees, Bounds
<1> QED
  BY <1>1, <1>2, <1>3, <1>4, <1>5 DEF GameInv

(* A command leaves the game selected and its deadline where it was; what  *)
(* happens meanwhile leaves what the player sees of it.                    *)
LEMMA PlayedKeeps ==
  /\ Played => selected_game /\ UNCHANGED <<selected_game, end_time>>
  /\ Meanwhile => UNCHANGED <<selected_game, status, phase, token_earned>>
<1> USE DEF Game!Play, Game!Request
<1>1. Game!Use => selected_game /\ UNCHANGED <<selected_game, end_time>>
  BY DEF Game!Use, Game!UseCristalloBastone, Game!UseBastoneLibro, Game!UseLibro,
         Game!UseBastoneParteRovinata, Game!UseLibroEnd
<1>2. Played => selected_game /\ UNCHANGED <<selected_game, end_time>>
  BY <1>1 DEF Played, Game!Command, Game!Observe, Game!TakeFull, Game!Take, Game!Drop,
         Game!TakeSolved, Game!SolveEnigma
<1>3. Meanwhile => UNCHANGED <<selected_game, status, phase, token_earned>>
  BY DEF Meanwhile, Game!Tick, Game!game, Game!AdminUpdateTime
<1> QED
  BY <1>2, <1>3

(* A command pays one token at most, within the bound.                     *)
LEMMA PlayedPays ==
  Game!Command => token_earned' = token_earned \/ Game!PayToken
<1>1. Game!Use => token_earned' = token_earned \/ Game!PayToken
  BY DEF Game!Use, Game!UseCristalloBastone, Game!UseBastoneLibro, Game!UseLibro,
         Game!UseBastoneParteRovinata, Game!UseLibroEnd
<1> QED
  BY <1>1 DEF Game!Command, Game!Observe, Game!TakeFull, Game!Take, Game!Drop,
         Game!TakeSolved, Game!SolveEnigma

(* Whatever is done to the game, its types, its clock and the history of   *)
(* its wins are kept.                                                      *)
LEMMA GameInvStep == GameInv /\ GameMoves => GameInv'
<1> SUFFICES ASSUME GameInv, GameMoves PROVE GameInv'
  OBVIOUS
<1> USE GameTimes, UninitReads, Bounds DEF GameTimes, UninitReads, Bounds
<1>1. /\ GameProofs!TypeOK /\ [GameProofs!Next]_GameProofs!vars => GameProofs!TypeOK'
      /\ GameProofs!TypeOK /\ GameProofs!ClockAgrees /\ [GameProofs!Next]_GameProofs!vars
           => GameProofs!ClockAgrees'
      /\ GameProofs!Started /\ [GameProofs!Next]_GameProofs!vars => GameProofs!Started'
  BY GameProofs!TypeStep, GameProofs!ClockStep, GameProofs!StartedStep
<1>2. [GameProofs!Next]_GameProofs!vars
  BY SameGame
  DEF GameMoves, NewGame, Played, Meanwhile, GameProofs!Next, GameProofs!vars, game, GameProofs!game
<1>3. Game!TypeOK' /\ Game!ClockAgrees'
  <2>1. /\ GameProofs!TypeOK' <=> Game!TypeOK'
        /\ GameProofs!ClockAgrees' <=> Game!ClockAgrees'
    BY SameGame, PTL
  <2> QED
    BY <1>1, <1>2, <2>1, SameGame DEF GameInv
<1>4. selected_game' => status' # "NOT_STARTED"
  BY <1>1, <1>2 DEF GameProofs!Started, GameInv
<1>5. won' \in BOOLEAN /\ (status' = "WIN" => won')
  BY PlayedKeeps DEF GameInv, GameMoves, NewGame, Game!StartGame, Played, Won, Meanwhile, game
<1>6. selected_game' => end_time' \in EndTimes
  <2>1. CASE NewGame
    BY <2>1 DEF NewGame, Game!StartGame
  <2>2. CASE Played
    BY <2>2, PlayedKeeps DEF GameInv
  <2>3. CASE Meanwhile
    BY <2>3 DEF GameInv, Meanwhile, Game!Tick, Game!game, Game!AdminUpdateTime
  <2>4. CASE UNCHANGED game
    BY <2>4 DEF GameInv, game
  <2> QED
    BY <2>1, <2>2, <2>3, <2>4 DEF GameMoves
<1>7. token_earned' <= MaxTokens
  <2>0. token_earned \in Nat
    BY DEF GameInv, Game!TypeOK
  <2>1. CASE NewGame
    BY <2>1 DEF NewGame, Game!StartGame
  <2>2. CASE Played
    BY <2>0, <2>2, PlayedPays DEF GameInv, Played, Game!PayToken
  <2>3. CASE Meanwhile \/ UNCHANGED game
    BY <2>3, PlayedKeeps DEF GameInv, game
  <2> QED
    BY <2>1, <2>2, <2>3 DEF GameMoves
<1> QED
  BY <1>3, <1>4, <1>5, <1>6, <1>7 DEF GameInv

-----------------------------------------------------------------------------
(* The program and the session. *)

LoginRequests == Program!LoginRequests
MenuRequests  == {"init1", "init2", "LOGOUT"}
PlayRequests  == {"move", "answer", "status"}

(* One request is under way at a time: it is on its way, or its reply is,  *)
(* or the connection is lost; and it was made on the page that is shown.   *)
Conversation ==
  /\ request # "none" => awaiting = request /\ reply = Program!Nothing
  /\ awaiting = "none" => reply = Program!Nothing
  /\ awaiting \in LoginRequests => page = "login"
  /\ awaiting \in MenuRequests => page = "menu"
  /\ awaiting \in PlayRequests => page = "play"
  /\ awaiting = "ADM" => page = "admin"
  /\ told # "none" => awaiting = "none" /\ page \in {"menu", "exit"}

(* The page and the session: the session is ahead of the page by the reply *)
(* to a login or a logout that the program has yet to read, and by nothing *)
(* else.                                                                   *)
InStep ==
  /\ page \in {"login", "menu", "play"} => ~admin_mode
  /\ page = "login" => (is_logged <=> reply.kind = "OK")
  /\ page = "login" /\ awaiting = "ADM LOGIN" /\ is_logged => is_admin
  /\ page = "menu" => (~is_logged <=> awaiting = "LOGOUT" /\ reply.kind = "OK")
  /\ page = "play" => is_logged /\ selected_game
  /\ page = "admin" => is_logged /\ is_admin

(* A game on its way to the program is the server's as it still is, and    *)
(* what is no game carries none.                                           *)
Carried ==
  /\ reply.kind # "GAME" => reply.game = Program!NoGame
  /\ reply.kind = "GAME" =>
       /\ awaiting \in {"init1", "status"} /\ selected_game
       /\ reply.game \in GameData
       /\ reply.game.phase = phase
       /\ reply.game.token_earned = token_earned
       /\ reply.game.status = status
  /\ awaiting \in {"init1", "status"} => reply.kind \in {"none", "GAME"}

(* What the program shows at the prompt is the server's game.              *)
Shown ==
  page = "play" /\ awaiting = "none" =>
    /\ game_session.phase = phase
    /\ game_session.token_earned = token_earned
    /\ game_session.status = status

Sessions == is_logged \in BOOLEAN /\ is_admin \in BOOLEAN

(* Whatever has become of the connection.                                  *)
Base == GameInv /\ Program!TypeOK /\ Sessions /\ Conversation

(* The program and the server agree.                                       *)
Agree == InStep /\ Carried /\ Shown /\ ToldAlways
Tied  == Base /\ Agree

(* The inductive invariant of Play: they do until the program has read a   *)
(* text that did not come; what it does from then on is tied to nothing.   *)
Inv == Base /\ (link # "lost" => Agree)

(* The names of the requests that the pages send.                          *)
LEMMA RequestNames ==
  LoginRequests \cup {"move", "answer", "status", "ADM"} \subseteq Program!Requests
  BY DEF LoginRequests, Program!LoginRequests, Program!Requests

(* No reply is of no kind.                                                 *)
LEMMA NoReply == Program!Nothing.kind = "none" /\ Program!Nothing.game = Program!NoGame
  BY DEF Program!Nothing, Program!None

(* Every other reply is typed.                                             *)
LEMMA ReplyTyped ==
  \A kind \in {"OK", "NK", "ENIGMA", "GAME"}, g \in GameData \cup {NoGame} :
    [kind |-> kind, game |-> g] \in Program!Replies
  BY DEF Program!Replies, NoGame

(* What request returns is the reply, but for a text that did not come.    *)
LEMMA ResultIsReply ==
  ASSUME NEW r, NEW got, Program!Answered(r, got), link' # "lost"
  PROVE  got = reply
<1>1. link # "cut"
  BY DEF Program!Answered
<1> QED
  BY <1>1 DEF Program!Answered, Program!Results

(* Its game is one of a reply, or fields that were never scanned.          *)
LEMMA ResultTyped ==
  ASSUME Program!TypeOK, NEW got \in Program!Results
  PROVE  got.game \in GameData \cup {Program!NoGame} \cup {text.game : text \in Unread}
<1>1. CASE got = reply
  BY <1>1 DEF Program!TypeOK, Program!Replies, Program!Nothing
<1>2. CASE got \in Unread
  BY <1>2
<1>3. CASE got = Program!Nothing
  BY <1>3 DEF Program!Nothing
<1> QED
  BY <1>1, <1>2, <1>3 DEF Program!Results

(* It holds at the start.                                                  *)
LEMMA InvInit == Init => Inv
  BY GameInvInit, NoReply
  DEF Init, Program!Init, Inv, Base, Agree, Program!TypeOK, Sessions, Conversation, InStep, Carried, Shown,
      ToldAlways, LoginRequests, MenuRequests, PlayRequests, Program!LoginRequests,
      Program!Pages, Program!None, Program!Verdicts

-----------------------------------------------------------------------------
(* The steps, each as much of it as the parts of the invariant look at. *)

program_only == <<page, logged, admin_mode, close_client, game_session, can_exit,
                  awaiting, told>>

(* A request of a kind R that has come is taken and answered with a reply. *)
Replied(R, kind, carried) ==
  /\ link = "up"
  /\ request \in R /\ request' = "none"
  /\ reply' = [kind |-> kind, game |-> carried]
  /\ UNCHANGED <<program_only, link>>

(* What handle_client_fd can do with a request.                            *)
LEMMA ServerCases ==
  ASSUME ServerStep
  PROVE  \/ /\ Replied(LoginRequests, "OK", NoGame) /\ ~is_logged /\ is_logged'
            /\ request = "ADM LOGIN" => is_admin'
            /\ is_admin' \in {is_admin, TRUE} /\ is_logged' = TRUE
            /\ UNCHANGED game
         \/ /\ Replied(LoginRequests, "NK", NoGame) /\ ~is_logged /\ UNCHANGED <<server, game>>
         \/ /\ link = "up" /\ request' = "none" /\ link' \in {"up", "down"}
            /\ UNCHANGED <<program_only, reply, server, game>>
         \/ /\ Replied({"LOGOUT"}, "OK", NoGame) /\ is_logged' = FALSE
            /\ UNCHANGED <<is_admin, game>>
         \/ Replied({"ADM"}, "OK", NoGame) /\ is_logged /\ is_admin /\ UNCHANGED <<server, game>>
         \/ Replied({"init1"}, "GAME", Data') /\ NewGame /\ UNCHANGED server
         \/ Replied({"init2"}, "NK", NoGame) /\ UNCHANGED <<server, game>>
         \/ \E kind \in {"OK", "ENIGMA"} :
              Replied({"move", "answer"}, kind, NoGame) /\ Played /\ UNCHANGED server
         \/ Replied({"status"}, "GAME", Data') /\ Played /\ UNCHANGED server
<1> USE DEF Serve, Replied, program_only
<1>1. CASE Login
  BY <1>1 DEF Login, NoPlay, server, game, LoginRequests, Program!LoginRequests
<1>2. CASE Refuse
  BY <1>2 DEF Refuse, Close
<1>3. CASE Logout \/ Admin \/ NoSuchRoom
  BY <1>3 DEF Logout, Admin, NoSuchRoom, NoPlay
<1>4. CASE StartGame
  BY <1>4 DEF StartGame, NewGame
<1>5. CASE PlayMove \/ PlayAnswer \/ PlayStatus
  BY <1>5, PlayGameCases DEF PlayMove, PlayAnswer, PlayStatus
<1>6. CASE Swallow
  BY <1>6 DEF Swallow
<1> QED
  BY <1>1, <1>2, <1>3, <1>4, <1>5, <1>6 DEF ServerStep, PlayGame

(* A game that has been started is one a reply may carry.                  *)
LEMMA DataTyped ==
  /\ GameInv /\ selected_game => Data \in GameData
  /\ GameInv' /\ selected_game' => Data' \in GameData
<1>1. GameInv /\ selected_game => Data \in GameData
  BY Bounds DEF GameInv, Game!TypeOK, Game!Statuses, Data, GameData, Bounds
<1>2. GameInv' /\ selected_game' => (Data \in GameData)'
  BY <1>1, PTL
<1> QED
  BY <1>1, <1>2 DEF Data, GameData

(* What handle_client_fd answers keeps the invariant.                      *)
LEMMA ServerKeeps == Tied /\ GameInv' /\ ServerStep => Tied'
<1> SUFFICES ASSUME Tied, GameInv', ServerStep PROVE Tied'
  OBVIOUS
<1>t. GameInv
  BY DEF Tied, Base, Agree
<1> USE <1>t, NoReply DEF Replied, program_only, Program!TypeOK, Sessions, Conversation, InStep,
           Carried, Shown, ToldAlways, LoginRequests, MenuRequests, PlayRequests,
           Program!LoginRequests, Program!Pages,
           Program!None, Program!Verdicts, NoGame
<1>1. CASE Replied(LoginRequests, "OK", NoGame) /\ ~is_logged /\ is_logged' = TRUE
           /\ (request = "ADM LOGIN" => is_admin') /\ is_admin' \in {is_admin, TRUE}
           /\ UNCHANGED game
  BY <1>1, ReplyTyped, ZenonT(60) DEF Tied, Base, Agree, game
<1>2. CASE Replied(LoginRequests, "NK", NoGame) /\ ~is_logged /\ UNCHANGED <<server, game>>
  BY <1>2, ReplyTyped, ZenonT(60) DEF Tied, Base, Agree, game, server
<1>3. CASE link = "up" /\ request' = "none" /\ link' \in {"up", "down"}
           /\ UNCHANGED <<program_only, reply, server, game>>
  <2>0. is_logged' = is_logged /\ is_admin' = is_admin
    BY <1>3 DEF server
  <2>1. Program!TypeOK' /\ Sessions'
    BY <1>3, <2>0, ZenonT(60) DEF Tied, Base, Agree
  <2>2. Conversation'
    BY <1>3 DEF Tied, Base, Agree, game, server
  <2>3. InStep'
    BY <1>3 DEF Tied, Base, Agree, game, server
  <2>4. Carried'
    BY <1>3 DEF Tied, Base, Agree, game, server
  <2>5. Shown' /\ ToldAlways'
    BY <1>3 DEF Tied, Base, Agree, game, server
  <2> QED
    BY <2>1, <2>2, <2>3, <2>4, <2>5 DEF Tied, Base, Agree
<1>4. CASE Replied({"LOGOUT"}, "OK", NoGame) /\ is_logged' = FALSE /\ UNCHANGED <<is_admin, game>>
  BY <1>4, ReplyTyped DEF Tied, Base, Agree, game
<1>5. CASE Replied({"ADM"}, "OK", NoGame) /\ is_logged /\ is_admin /\ UNCHANGED <<server, game>>
  BY <1>5, ReplyTyped DEF Tied, Base, Agree, game, server
<1>6. CASE Replied({"init1"}, "GAME", Data') /\ NewGame /\ UNCHANGED server
  <2>1. selected_game' /\ Data' \in GameData
    <3>1. selected_game'
      BY <1>6 DEF NewGame, Game!StartGame
    <3> QED
      BY <3>1, DataTyped
  <2> QED
    BY <1>6, <2>1, ReplyTyped DEF Tied, Base, Agree, server, Data
<1>7. CASE Replied({"init2"}, "NK", NoGame) /\ UNCHANGED <<server, game>>
  BY <1>7, ReplyTyped DEF Tied, Base, Agree, game, server
<1>8. ASSUME NEW kind \in {"OK", "ENIGMA"},
             Replied({"move", "answer"}, kind, NoGame), Played, UNCHANGED server
      PROVE  Tied'
  <2>1. selected_game /\ selected_game'
    BY <1>8, PlayedKeeps
  <2> QED
    BY <1>8, <2>1, ReplyTyped, ZenonT(60) DEF Tied, Base, Agree, server
<1>9. CASE Replied({"status"}, "GAME", Data') /\ Played /\ UNCHANGED server
  <2>1. selected_game /\ selected_game' /\ Data' \in GameData
    <3>1. selected_game /\ selected_game'
      BY <1>9, PlayedKeeps
    <3> QED
      BY <3>1, DataTyped
  <2> QED
    BY <1>9, <2>1, ReplyTyped DEF Tied, Base, Agree, server, Data
<1> HIDE DEF Replied, program_only, Tied, Base, Agree
<1> QED
  BY <1>1, <1>2, <1>3, <1>4, <1>5, <1>6, <1>7, <1>8, <1>9, ServerCases

(* What the user types and what the program does with a result, also with  *)
(* one that is no reply, keep the types and the conversation.              *)
LEMMA BaseClient == Base /\ ClientStep => Base'
<1> SUFFICES ASSUME Base, Program!Next, UNCHANGED <<server, game>> PROVE Base'
  BY DEF ClientStep
<1>g. GameInv' /\ Sessions'
  BY DEF Base, GameInv, Game!TypeOK, Game!ClockAgrees, Sessions, game, server
<1>b. Program!TypeOK /\ Conversation
  BY DEF Base
<1>n. Program!Nothing \in Program!Replies \cup {Program!Nothing}
  OBVIOUS
<1> SUFFICES Program!TypeOK' /\ Conversation'
  BY <1>g DEF Base
<1> USE <1>b, <1>n, NoReply, RequestNames DEF Program!TypeOK, Conversation, LoginRequests,
           MenuRequests, PlayRequests, Program!LoginRequests, Program!Pages, Program!None,
           Program!Keep, Program!session, Program!Prompt, Program!Send, Program!Answered,
           Program!Returns, Program!Then, Program!Verdicts
<1>1. ASSUME NEW r \in Program!Requests, Program!LoginCommand(r)
      PROVE  Program!TypeOK' /\ Conversation'
  BY <1>1, ZenonT(60) DEF Program!LoginCommand
<1>2. ASSUME NEW r \in Program!Requests, Program!MenuCommand(r)
      PROVE  Program!TypeOK' /\ Conversation'
  <2>1. Program!TypeOK'
    BY <1>2 DEF Program!MenuCommand
  <2>2. Conversation'
    BY <1>2, ZenonT(60) DEF Program!MenuCommand
  <2> QED
    BY <2>1, <2>2
<1>3. CASE Program!End
  <2>1. Program!TypeOK'
    BY <1>3 DEF Program!End
  <2>2. Conversation'
    BY <1>3, ZenonT(60) DEF Program!End
  <2> QED
    BY <2>1, <2>2
<1>4. CASE Program!Move
  BY <1>4 DEF Program!Move
<1>5. CASE Program!AdminCommand
  BY <1>5 DEF Program!AdminCommand
<1>6. CASE Program!AdminExit
  BY <1>6 DEF Program!AdminExit
<1>7. ASSUME NEW exit \in BOOLEAN, Program!Local(exit)
      PROVE  Program!TypeOK' /\ Conversation'
  BY <1>7 DEF Program!Local
<1>8. ASSUME NEW r \in Program!Requests, Program!LoginReply(r)
      PROVE  Program!TypeOK' /\ Conversation'
  BY <1>8 DEF Program!LoginReply
<1>9. ASSUME NEW r \in Program!Requests, Program!InitReply(r)
      PROVE  Program!TypeOK' /\ Conversation'
  BY <1>9, ResultTyped DEF Program!InitReply
<1>10. CASE Program!LogoutReply
  BY <1>10 DEF Program!LogoutReply
<1>11. CASE Program!MoveReply
  BY <1>11 DEF Program!MoveReply
<1>12. CASE Program!AnswerReply
  BY <1>12 DEF Program!AnswerReply
<1>13. CASE Program!StatusReply
  BY <1>13, ResultTyped DEF Program!StatusReply
<1>14. CASE Program!AdminReply
  BY <1>14 DEF Program!AdminReply
<1> QED
  BY <1>1, <1>2, <1>3, <1>4, <1>5, <1>6, <1>7, <1>8, <1>9, <1>10, <1>11, <1>12, <1>13, <1>14
  DEF Program!Next, Program!Command, Program!Return

(* While the program has read nothing that did not come, they also keep it *)
(* and the server in agreement.                                            *)
LEMMA AgreeClient == Tied /\ ClientStep /\ link' # "lost" => Agree'
<1> SUFFICES ASSUME Tied, Program!Next, UNCHANGED <<server, game>>, link' # "lost" PROVE Agree'
  BY DEF ClientStep
<1>g. GameInv
  BY DEF Tied, Base
<1>u. /\ is_logged' = is_logged /\ is_admin' = is_admin /\ selected_game' = selected_game
      /\ status' = status /\ phase' = phase /\ token_earned' = token_earned
      /\ won' = won /\ end_time' = end_time /\ now' = now
  BY DEF server, game
<1>b. Conversation /\ InStep /\ Carried /\ Shown /\ ToldAlways
  BY DEF Tied, Base, Agree
<1>f. \A r, got : Program!Answered(r, got) => /\ got = reply /\ awaiting = r
                                             /\ reply' = Program!Nothing
  BY ResultIsReply DEF Program!Answered
<1> USE <1>g, <1>u, <1>b, NoReply DEF Agree, Conversation, InStep,
           Carried, Shown, ToldAlways, LoginRequests, MenuRequests, PlayRequests,
           Program!LoginRequests, Program!None, Program!Keep,
           Program!session, Program!Prompt, Program!Send, Program!Returns,
           Program!Then, Program!Verdicts, Program!BeginsOK
<1>1. ASSUME NEW r \in Program!Requests, Program!LoginCommand(r) PROVE Agree'
  BY <1>1, ZenonT(60) DEF Program!LoginCommand
<1>2. ASSUME NEW r \in Program!Requests, Program!MenuCommand(r) PROVE Agree'
  <2>0. reply' = reply /\ reply.kind = "none"
    BY <1>2 DEF Program!MenuCommand
  <2>1. InStep'
    BY <1>2, <2>0 DEF Program!MenuCommand
  <2>2. Carried'
    BY <2>0
  <2>3. Shown' /\ ToldAlways'
    BY <1>2 DEF Program!MenuCommand
  <2> QED
    BY <2>1, <2>2, <2>3
<1>3. CASE Program!End
  BY <1>3 DEF Program!End
<1>4. CASE Program!Move
  BY <1>4 DEF Program!Move
<1>5. CASE Program!AdminCommand
  BY <1>5 DEF Program!AdminCommand
<1>6. CASE Program!AdminExit
  BY <1>6 DEF Program!AdminExit
<1>7. ASSUME NEW exit \in BOOLEAN, Program!Local(exit) PROVE Agree'
  BY <1>7 DEF Program!Local
<1>8. ASSUME NEW r \in Program!Requests, Program!LoginReply(r) PROVE Agree'
  <2>0. /\ reply' = Program!Nothing /\ awaiting = r /\ page = "login" /\ awaiting' = "none"
        /\ told' = told /\ game_session' = game_session
        /\ \/ page' = "exit" /\ admin_mode' = admin_mode
           \/ page' = "menu" /\ r # "ADM LOGIN" /\ reply.kind = "OK" /\ admin_mode' = FALSE
           \/ page' = "admin" /\ r = "ADM LOGIN" /\ reply.kind = "OK"
           \/ page' = "login" /\ reply.kind = "NK" /\ admin_mode' = admin_mode
    BY <1>8, <1>f DEF Program!LoginReply
  <2>1. CASE page' = "exit"
    BY <2>0, <2>1
  <2>2. CASE page' = "menu"
    BY <2>0, <2>2
  <2>3. CASE page' = "admin"
    BY <2>0, <2>3
  <2>4. CASE page' = "login"
    <3>a. reply.kind = "NK" /\ page = "login" /\ admin_mode' = admin_mode
      BY <2>0, <2>4
    <3>1. ~is_logged /\ ~admin_mode'
      <4>1. ~is_logged
        BY <3>a
      <4>2. ~admin_mode
        BY <3>a
      <4> QED
        BY <4>1, <4>2, <3>a
    <3>2. reply'.kind = "none" /\ reply'.game = Program!NoGame
      BY <2>0
    <3>3. InStep'
      BY <2>0, <2>4, <3>1, <3>2
    <3>4. Carried' /\ Shown'
      BY <2>0, <2>4, <3>2
    <3>5. ToldAlways'
      BY <2>0
    <3> QED
      BY <3>3, <3>4, <3>5
  <2> QED
    BY <2>0, <2>1, <2>2, <2>3, <2>4
<1>9. ASSUME NEW r \in Program!Requests, Program!InitReply(r) PROVE Agree'
  <2>0. /\ reply' = Program!Nothing /\ awaiting = r /\ page = "menu" /\ awaiting' = "none"
        /\ told' = told /\ admin_mode' = admin_mode
        /\ \/ page' = "menu" /\ game_session' = game_session
           \/ /\ page' = "play" /\ game_session' = reply.game
              /\ Program!BeginsOK(reply) /\ reply.game.status = "PLAYING"
    BY <1>9, <1>f DEF Program!InitReply
  <2>1. page' = "play" => reply.kind = "GAME"
    <3>1. Program!NoGame.status # "PLAYING"
      BY DEF Program!NoGame
    <3> QED
      BY <2>0, <3>1
  <2>2. reply'.kind = "none" /\ reply'.game = Program!NoGame
    BY <2>0
  <2>3. r \in {"init1", "init2"}
    BY <1>9 DEF Program!InitReply
  <2>4. InStep'
    BY <2>0, <2>1, <2>2, <2>3
  <2>5. Carried'
    BY <2>0, <2>2
  <2>6. Shown' /\ ToldAlways'
    BY <2>0, <2>1
  <2> QED
    BY <2>4, <2>5, <2>6
<1>10. CASE Program!LogoutReply
  <2>0. /\ reply' = Program!Nothing /\ awaiting = "LOGOUT" /\ page = "menu" /\ awaiting' = "none"
        /\ told' = told /\ game_session' = game_session /\ admin_mode' = admin_mode
        /\ \/ page' = "login" /\ reply.kind = "OK"
           \/ page' = "menu" /\ reply.kind # "OK"
    BY <1>10, <1>f DEF Program!LogoutReply
  <2> QED
    BY <2>0
<1>11. CASE Program!MoveReply
  <2>0. /\ reply' = Program!Nothing /\ page = "play" /\ told' = told /\ admin_mode' = admin_mode
        /\ \/ awaiting' \in {"answer", "status"} /\ page' = "play"
           \/ awaiting' = "none" /\ page' = "menu"
    BY <1>11, <1>f DEF Program!MoveReply
  <2> QED
    BY <2>0
<1>12. CASE Program!AnswerReply
  <2>0. /\ reply' = Program!Nothing /\ page = "play" /\ told' = told /\ admin_mode' = admin_mode
        /\ \/ awaiting' = "status" /\ page' = "play"
           \/ awaiting' = "none" /\ page' = "menu"
    BY <1>12, <1>f DEF Program!AnswerReply
  <2> QED
    BY <2>0
<1>13. CASE Program!StatusReply
  <2>0. /\ reply' = Program!Nothing /\ page = "play" /\ awaiting = "status"
        /\ awaiting' = "none" /\ admin_mode' = admin_mode
        /\ \/ /\ reply.kind # "none" /\ game_session' = reply.game
              /\ told' = IF reply.game.status \in {"WIN", "LOSE", "TIMEOUT"}
                         THEN reply.game.status ELSE "none"
              /\ page' = IF can_exit \/ told' # "none" THEN "menu" ELSE "play"
           \/ reply.kind = "none" /\ page' = "menu" /\ told' = told
    BY <1>13, <1>f DEF Program!StatusReply
  <2>1. told' # "none" => told' = status /\ status \in {"WIN", "TIMEOUT"}
    BY <2>0 DEF GameInv, Game!TypeOK, Game!Statuses, GameData
  <2>2. ToldAlways'
    BY <2>1 DEF GameInv, Game!ClockAgrees
  <2>3. InStep' /\ Carried' /\ Shown'
    BY <2>0
  <2> QED
    BY <2>2, <2>3
<1>14. CASE Program!AdminReply
  <2>0. /\ reply' = Program!Nothing /\ page = "admin" /\ awaiting' = "none"
        /\ told' = told /\ page' \in {"admin", "exit"}
    BY <1>14, <1>f DEF Program!AdminReply
  <2> QED
    BY <2>0
<1> QED
  BY <1>1, <1>2, <1>3, <1>4, <1>5, <1>6, <1>7, <1>8, <1>9, <1>10, <1>11, <1>12, <1>13, <1>14
  DEF Program!Next, Program!Command, Program!Return

(* A step that leaves the program and its session alone, and of the game   *)
(* what the player sees, disturbs nothing; a request may be lost in it.    *)
LEMMA Untouched ==
  ASSUME Inv, GameInv', ToldAlways => ToldAlways', link' \in {link, "down", "cut"},
         link = "lost" => link' = "lost", request' \in {request, "none"},
         UNCHANGED <<program_only, reply>>, UNCHANGED server,
         UNCHANGED <<selected_game, status, phase, token_earned>>
  PROVE  Inv'
<1>1. Program!TypeOK'
  BY DEF Inv, Base, Program!TypeOK, Program!None, program_only
<1>2. Sessions'
  BY DEF Inv, Base, Sessions, server
<1>3. Conversation'
  BY DEF Inv, Base, Conversation, program_only
<1>4. ASSUME Agree PROVE Agree'
  <2>1. InStep'
    BY <1>4 DEF Agree, InStep, program_only, server
  <2>2. Carried' /\ Shown'
    BY <1>4 DEF Agree, Carried, Shown, program_only
  <2> QED
    BY <1>4, <2>1, <2>2 DEF Agree
<1> QED
  BY <1>1, <1>2, <1>3, <1>4 DEF Inv, Base

(* The clock, the administrator elsewhere and the end of the server change *)
(* nothing the program or the session depends on.                          *)
LEMMA ElsewhereKeeps == Inv /\ GameInv' /\ Elsewhere => Inv'
<1> SUFFICES ASSUME Inv, GameInv', Elsewhere PROVE Inv'
  OBVIOUS
<1>1. CASE Meanwhile /\ UNCHANGED <<program, server>>
  <2>1. /\ UNCHANGED <<selected_game, status, phase, token_earned>>
        /\ won' = won
        /\ status = "TIMEOUT" => end_time' <= now'
    BY <1>1, PlayedKeeps DEF Meanwhile, GameInv, Game!ClockAgrees
  <2>2. ToldAlways => ToldAlways'
    BY <1>1, <2>1 DEF ToldAlways, program
  <2> QED
    BY <1>1, <2>1, <2>2, Untouched DEF program, program_only
<1>2. CASE ServerEnds
  <2>1. ToldAlways => ToldAlways'
    BY <1>2 DEF ServerEnds, game, ToldAlways
  <2>2. link = "up" /\ link' \in {"down", "cut"} /\ request' \in {request, "none"}
    BY <1>2 DEF ServerEnds
  <2> QED
    BY <1>2, <2>1, <2>2, Untouched DEF ServerEnds, program_only, game
<1> QED
  BY <1>1, <1>2 DEF Elsewhere, Meanwhile

(* Every step of Play keeps the invariant.                                 *)
LEMMA InvStep == Inv /\ [Next]_vars => Inv'
<1> SUFFICES ASSUME Inv, [Next]_vars PROVE Inv'
  OBVIOUS
<1>1. GameInv'
  BY GameStep, GameInvStep DEF Inv, Base
<1>2. CASE UNCHANGED vars
  <2>1. ToldAlways => ToldAlways'
    BY <1>2 DEF vars, program, game, ToldAlways
  <2> QED
    BY <1>1, <1>2, <2>1, Untouched DEF vars, program, program_only, game
<1>3. CASE ServerStep
  <2>1. link = "up"
    BY <1>3 DEF ServerStep, Login, Refuse, Close, Logout, Admin, StartGame, NoSuchRoom,
                PlayGame, PlayMove, PlayAnswer, PlayStatus, Swallow, Serve
  <2> QED
    BY <1>1, <1>3, <2>1, ServerKeeps DEF Inv, Tied
<1>4. CASE ClientStep
  <2>1. link = "lost" => link' = "lost"
    BY <1>4 DEF ClientStep, Program!Next, Program!Command, Program!Return, Program!LoginCommand,
      Program!MenuCommand, Program!End, Program!Move, Program!AdminCommand, Program!AdminExit,
      Program!Local, Program!LoginReply, Program!InitReply, Program!LogoutReply,
      Program!MoveReply, Program!AnswerReply, Program!StatusReply, Program!AdminReply,
      Program!Send, Program!Returns, Program!Then, Program!Answered
  <2> QED
    BY <1>4, <2>1, BaseClient, AgreeClient DEF Inv, Tied
<1> QED
  BY <1>1, <1>2, <1>3, <1>4, ElsewhereKeeps DEF Next

(* The invariant holds throughout.                                         *)
LEMMA AlwaysInv == Spec => []Inv
  BY InvInit, InvStep, PTL DEF Spec

-----------------------------------------------------------------------------
(* What follows from it for the program and its session. *)

(* Whatever the user types, the server answers and unread memory holds,    *)
(* the program, the session and the game keep their types.                 *)
THEOREM TypeCorrect == Spec => []TypeOK
<1>1. Inv => TypeOK
  BY DEF Inv, Base, GameInv, Sessions, TypeOK
<1> QED
  BY <1>1, AlwaysInv, PTL

(* A request is never one the server would refuse, or leave without a      *)
(* reply, for who its sender is: page and session agree when it is made.   *)
LEMMA InvWelcome == Inv => Welcome
<1> SUFFICES ASSUME Inv, link = "up", request # "none"
             PROVE  /\ request \in Program!LoginRequests => ~is_logged
                    /\ request \in MenuRequests => is_logged /\ ~admin_mode
                    /\ request = "ADM" => is_logged /\ is_admin
                    /\ request \in PlayRequests => is_logged /\ selected_game
  BY DEF Welcome, MenuRequests, PlayRequests, Program!LoginRequests
<1>1. awaiting = request /\ reply.kind = "none"
  BY NoReply DEF Inv, Base, Conversation
<1>2. /\ request \in Program!LoginRequests => page = "login"
      /\ request \in MenuRequests => page = "menu"
      /\ request = "ADM" => page = "admin"
      /\ request \in PlayRequests => page = "play"
  BY <1>1 DEF Inv, Base, Conversation, LoginRequests
<1>3. /\ page \in {"login", "menu", "play"} => ~admin_mode
      /\ page = "login" => ~is_logged
      /\ page = "menu" => is_logged
      /\ page = "play" => is_logged /\ selected_game
      /\ page = "admin" => is_logged /\ is_admin
  BY <1>1 DEF Inv, Agree, InStep
<1> QED
  BY <1>2, <1>3

(* Page and session never get out of step: no legal use of the program,    *)
(* for however long, has a request refused for who its sender is.          *)
THEOREM AlwaysWelcome == Spec => []Welcome
  BY InvWelcome, AlwaysInv, PTL

(* The state line at the prompt is the server's game, whatever moved the   *)
(* clock or the deadline while the reply was on its way.                   *)
THEOREM StateLineIsTrue == Spec => []ShownIsTrue
<1>1. Inv => ShownIsTrue
  BY DEF Inv, Agree, Shown, ShownIsTrue, Program!Prompt, Program!None
<1> QED
  BY <1>1, AlwaysInv, PTL

(* A win that is printed was won, and a timeout was given at a time when   *)
(* the deadline had passed, whatever an administrator did to it meanwhile, *)
(* unless the text was one that did not come.                              *)
THEOREM VerdictIsTrue == Spec => []ToldTruly
<1>1. Inv => ToldTruly
  BY DEF Inv, Agree, ToldTruly
<1> QED
  BY <1>1, AlwaysInv, PTL

-----------------------------------------------------------------------------
(* System: the player beside an administrator's program. *)

(* Every step of the two programs and the two sessions is, to the player,  *)
(* a step of Play or none at all: what the administrator's session does to *)
(* the game is what Play leaves to its environment.                        *)
LEMMA SystemStep == Inv /\ [SNext]_svars => [Next]_vars
<1> SUFFICES ASSUME Inv, [SNext]_svars PROVE [Next]_vars
  OBVIOUS
<1>1. CASE ServerStep \/ ClientStep
  BY <1>1 DEF Next
<1>2. CASE Administer
  <2>1. UNCHANGED <<program, server>> /\ UNCHANGED won
        /\ (UNCHANGED game \/ (Present /\ \E value \in AdminValues : Game!AdminUpdateTime(value)))
    BY <1>2 DEF Administer, Listed, TooLarge, NotFound, NotPlaying, Updated, game
  <2>2. CASE UNCHANGED game
    BY <2>1, <2>2 DEF vars
  <2>3. CASE Present /\ \E value \in AdminValues : Game!AdminUpdateTime(value)
    BY <2>1, <2>3 DEF Next, Elsewhere, Present
  <2> QED
    BY <2>1, <2>2, <2>3
<1>3. CASE ALogin \/ ARefuse \/ AClientStep
  BY <1>3 DEF ALogin, ARefuse, AClose, AClientStep
<1>4. CASE Ends
  <2>1. CASE link = "up"
    BY <1>4, <2>1 DEF Ends, Ended, Next, Elsewhere, ServerEnds
  <2>2. CASE link # "up"
    BY <1>4, <2>2 DEF Ends, Ended, vars, program
  <2> QED
    BY <2>1, <2>2
<1>5. CASE Ticks
  BY <1>5 DEF Ticks, Present, Next, Elsewhere
<1>6. CASE UNCHANGED svars
  BY <1>6 DEF svars
<1> QED
  BY <1>1, <1>2, <1>3, <1>4, <1>5, <1>6 DEF SNext, AServerStep

(* The player's invariant holds beside the administrator.                  *)
LEMMA SystemInv == SSpec => []Inv
<1>1. SInit => Inv
  BY InvInit DEF SInit
<1> QED
  BY <1>1, SystemStep, InvStep, PTL DEF SSpec

(* System implements Play: whatever the administrator's program does, it   *)
(* is to the player an environment that Play allows. So what is proved of  *)
(* Play above holds of the two programs at one server.                     *)
THEOREM SystemImplementsPlay == SSpec => ImplementsPlay
<1>1. SInit => Init
  BY DEF SInit
<1> QED
  BY <1>1, SystemStep, SystemInv, PTL DEF SSpec, Spec, ImplementsPlay

(* The administrator's program waits for the reply to what it asked, and   *)
(* asks for commands on the admin page alone.                              *)
Asking ==
  /\ a_request # "none" => a_awaiting = a_request
  /\ a_awaiting = "ADM" => a_page = "admin"

(* No step of either program or of the server disturbs that.               *)
LEMMA AskingStep == Asking /\ [SNext]_svars => Asking'
<1> SUFFICES ASSUME Asking, [SNext]_svars PROVE Asking'
  OBVIOUS
<1> USE DEF Asking
<1>1. CASE UNCHANGED <<a_request, a_awaiting, a_page>>
  BY <1>1
<1>2. CASE AServerStep
  BY <1>2 DEF AServerStep, ALogin, ARefuse, AClose, Administer, Listed, TooLarge,
                    NotFound, NotPlaying, Updated, AServe
<1>3. CASE AClientStep
  <2> USE DEF AProgram!Send, AProgram!Returns, AProgram!Then, AProgram!Answered,
              AProgram!None, AProgram!Prompt
  <2>1. CASE AProgram!Command
    <3>1. ASSUME NEW r \in AProgram!Requests,
                 AProgram!LoginCommand(r) \/ AProgram!MenuCommand(r)
          PROVE  Asking'
      BY <3>1 DEF AProgram!LoginCommand, AProgram!MenuCommand, AProgram!LoginRequests
    <3>2. CASE AProgram!End \/ AProgram!AdminExit
      BY <3>2 DEF AProgram!End, AProgram!AdminExit
    <3>3. CASE AProgram!Move \/ AProgram!AdminCommand \/ \E exit \in BOOLEAN : AProgram!Local(exit)
      BY <3>3 DEF AProgram!Move, AProgram!AdminCommand, AProgram!Local
    <3> QED
      BY <2>1, <3>1, <3>2, <3>3 DEF AProgram!Command
  <2>2. CASE AProgram!Return
    BY <2>2
    DEF AProgram!Return, AProgram!LoginReply, AProgram!InitReply, AProgram!LogoutReply,
        AProgram!MoveReply, AProgram!AnswerReply, AProgram!StatusReply, AProgram!AdminReply
  <2> QED
    BY <1>3, <2>1, <2>2 DEF AClientStep, AProgram!Next
<1> QED
  BY <1>1, <1>2, <1>3 DEF SNext, Ends, Ticks, svars, admin, aprogram

(* A deadline of the player's game moves by his own init, or while an      *)
(* administrator, let in as that, waits on the admin page for the reply to *)
(* the command that moves it.                                              *)
THEOREM DeadlineMovedOnRequest == SSpec => MovedOnRequest
<1> DEFINE Moved == end_time' # end_time =>
                      \/ request = "init1" /\ request' = "none"
                      \/ a_page = "admin" /\ a_awaiting = "ADM" /\ a_is_admin
<1>1. SInit => Asking
  BY DEF SInit, AProgram!Init, AProgram!None, Asking
<1>2. Asking /\ [SNext]_svars => [Moved]_svars
  <2> SUFFICES ASSUME Asking, SNext, end_time' # end_time PROVE Moved
    OBVIOUS
  <2>1. CASE ServerStep
    <3>1. ~UNCHANGED game /\ ~Played
      BY PlayedKeeps DEF game
    <3>2. Replied({"init1"}, "GAME", Data') \/ UNCHANGED game \/ Played
      BY <2>1, ServerCases
    <3> QED
      BY <3>1, <3>2 DEF Replied
  <2>2. CASE AServerStep
    BY <2>2 DEF AServerStep, ALogin, ARefuse, AClose, Administer, Asking, vars, game
  <2>3. UNCHANGED game \/ Game!Tick => FALSE
    BY DEF game, Game!Tick, Game!game
  <2> QED
    BY <2>1, <2>2, <2>3 DEF SNext, ClientStep, AClientStep, Ends, Ticks, vars
<1> QED
  BY <1>1, <1>2, AskingStep, PTL DEF SSpec, MovedOnRequest

=============================================================================
