------------------------------ MODULE Sessions ------------------------------
(***************************************************************************)
(* The sessions of the connected clients and what their USR and ADM        *)
(* requests do to them: handle_user and handle_admin                       *)
(* (Server/src/server_handler.c) on the client list and on the file        *)
(* user.txt, which all connections share.                                  *)
(*                                                                         *)
(* One action is one request, handled to its end: the server is iterative. *)
(* A result of -1 closes the connection, so the session goes; descriptors  *)
(* are used again. The game is left to Game1: here it starts, it is over   *)
(* at some time, and an administrator moves its deadline.                  *)
(***************************************************************************)
EXTENDS Integers, Sequences

CONSTANTS
  Fds,           (* the descriptors that connections get                    *)
  Names,         (* the names clients sign up and log in with               *)
  AdminName,     (* the administrator's name, in admin.txt                  *)
  Passwords,
  Begins,        (* pairs of passwords: the first begins the second         *)
  AdminPassword,
  Values,        (* the seconds an administrator adds or subtracts          *)
  MaxShift       (* bound: how far a deadline is moved                      *)

ASSUME NamesAssumption     == "" \notin Names \cup {AdminName}
ASSUME PasswordsAssumption == /\ AdminPassword \in Passwords
                              /\ Begins \subseteq Passwords \X Passwords
                              /\ \A p \in Passwords : <<p, p>> \in Begins
ASSUME ValuesAssumption    == Values \subseteq Int /\ MaxShift \in Nat

VARIABLES
  sessions,      (* client_list: the ClientState of each open descriptor    *)
  users,         (* user.txt, its lines in order                            *)
  user,          (* history: who each connection's login is in truth        *)
  granted,       (* history: connections that were let in by admin.txt      *)
  mover          (* history: whose request the last step was, if that asked *)
                 (* for a deadline to be moved                              *)

vars == <<sessions, users, user, granted, mover>>

NoOne == ""
Open  == DOMAIN sessions

(* my_list_insert callocs the ClientState: nobody, nothing, no game.       *)
Fresh == [is_logged |-> FALSE, is_admin |-> FALSE, username |-> NoOne,
          is_playing |-> FALSE, shift |-> 0]

Session == [is_logged : BOOLEAN, is_admin : BOOLEAN,
            username : Names \cup {AdminName, NoOne},
            is_playing : BOOLEAN, shift : -MaxShift..MaxShift]

(* The lines that credentials match: strstr finds "user:U pass:P" in a     *)
(* line whose user is U and whose password begins with P.                  *)
Matches(u, p, lines) ==
  \E i \in 1..Len(lines) : lines[i].user = u /\ <<p, lines[i].pass>> \in Begins

Init ==
  /\ sessions = [fd \in {} |-> Fresh]
  /\ users = <<>>
  /\ user = [fd \in Fds |-> NoOne]
  /\ granted = {}
  /\ mover = {}

-----------------------------------------------------------------------------
(* Connections. *)

\* Slip: malloc for calloc; handle_listener clears is_logged itself.
AcceptUncleared(fd) ==
  /\ fd \notin Open
  /\ \E left \in Session :
       sessions' = [f \in Open \cup {fd} |->
                      IF f = fd THEN [left EXCEPT !.is_logged = FALSE] ELSE sessions[f]]
  /\ UNCHANGED <<users, user, granted>>
  /\ mover' = {}

Accept(fd) ==
  /\ fd \notin Open
  /\ sessions' = [f \in Open \cup {fd} |-> IF f = fd THEN Fresh ELSE sessions[f]]
  /\ UNCHANGED <<users, user, granted>>
  /\ mover' = {}

(* The client leaves, or a request of it has the result -1 and closes it.  *)
(* There is always such a request: LOGIN and SIGNUP for who is logged in,  *)
(* an ADM command for who is not; also the SIGNUP of a known name.         *)
Close(fd) ==
  /\ fd \in Open
  /\ sessions' = [f \in Open \ {fd} |-> sessions[f]]
  /\ user' = [user EXCEPT ![fd] = NoOne]
  /\ granted' = granted \ {fd}
  /\ UNCHANGED users
  /\ mover' = {}

-----------------------------------------------------------------------------
(* handle_user *)

\* Slip: the session is freed, and the connection stays.
LogoutFrees(fd) ==
  /\ fd \in Open
  /\ sessions' = [f \in Open \ {fd} |-> sessions[f]]
  /\ user' = [user EXCEPT ![fd] = NoOne]
  /\ UNCHANGED <<users, granted>>
  /\ mover' = {}

(* LOGOUT clears one field; the name, the administrator's right and the    *)
(* game stay in the session.                                               *)
Logout(fd) ==
  /\ fd \in Open
  /\ sessions' = [sessions EXCEPT ![fd].is_logged = FALSE]
  /\ user' = [user EXCEPT ![fd] = NoOne]
  /\ UNCHANGED <<users, granted>>
  /\ mover' = {}

Known(u) == \E i \in 1..Len(users) : users[i].user = u

(* bound: the lines a run of the slip below writes *)
MaxLines == 3

\* Slip: the name is not looked up.
SignupUnchecked(fd, u, p) ==
  /\ fd \in Open
  /\ ~sessions[fd].is_logged
  /\ Len(users) < MaxLines
  /\ users' = Append(users, [user |-> u, pass |-> p])
  /\ sessions' = [sessions EXCEPT ![fd].is_logged = TRUE]
  /\ user' = [user EXCEPT ![fd] = u]
  /\ UNCHANGED granted
  /\ mover' = {}

(* SIGNUP of a new name logs in, and does not write the session's name.    *)
Signup(fd, u, p) ==
  /\ fd \in Open
  /\ ~sessions[fd].is_logged
  /\ ~Known(u)
  /\ users' = Append(users, [user |-> u, pass |-> p])
  /\ sessions' = [sessions EXCEPT ![fd].is_logged = TRUE]
  /\ user' = [user EXCEPT ![fd] = u]
  /\ UNCHANGED granted
  /\ mover' = {}

Enter(fd, u) ==
  /\ user' = [user EXCEPT ![fd] = u]
  /\ UNCHANGED users

Login(fd, u, p) ==
  /\ fd \in Open
  /\ ~sessions[fd].is_logged
  /\ Matches(u, p, users)
  /\ sessions' = [sessions EXCEPT ![fd] = [@ EXCEPT !.is_logged = TRUE, !.username = u]]
  /\ Enter(fd, u)
  /\ UNCHANGED granted
  /\ mover' = {}

-----------------------------------------------------------------------------
(* handle_admin *)

AdminLogin(fd, u, p) ==
  /\ fd \in Open
  /\ ~sessions[fd].is_logged
  /\ Matches(u, p, <<[user |-> AdminName, pass |-> AdminPassword]>>)
  /\ sessions' = [sessions EXCEPT ![fd] =
                    [@ EXCEPT !.is_logged = TRUE, !.is_admin = TRUE, !.username = u]]
  /\ Enter(fd, u)
  /\ granted' = granted \cup {fd}
  /\ mover' = {}

Allowed(fd) == fd \in Open /\ sessions[fd].is_logged /\ sessions[fd].is_admin

Shifted(id, value) ==
  /\ sessions[id].shift + value \in -MaxShift..MaxShift
  /\ sessions' = [sessions EXCEPT ![id].shift = @ + value]

\* Slip: the rights of the one who asks are not looked at.
AdminUpdateAnyone(fd, id, value) ==
  /\ fd \in Open
  /\ id \in Open /\ sessions[id].is_playing
  /\ Shifted(id, value)
  /\ UNCHANGED <<users, user, granted>>
  /\ mover' = {fd}

(* ADM UPDATE game id TIME value: the deadline of whoever has descriptor   *)
(* id now.                                                                 *)
AdminUpdate(fd, id, value) ==
  /\ Allowed(fd)
  /\ id \in Open /\ sessions[id].is_playing
  /\ Shifted(id, value)
  /\ UNCHANGED <<users, user, granted>>
  /\ mover' = {fd}

-----------------------------------------------------------------------------
(* GMN init, which asks for no login, and the end of a game.               *)
StartGame(fd) ==
  /\ fd \in Open
  /\ sessions' = [sessions EXCEPT ![fd] = [@ EXCEPT !.is_playing = TRUE, !.shift = 0]]
  /\ UNCHANGED <<users, user, granted>>
  /\ mover' = {}

GameOver(fd) ==
  /\ fd \in Open
  /\ sessions[fd].is_playing
  /\ sessions' = [sessions EXCEPT ![fd].is_playing = FALSE]
  /\ UNCHANGED <<users, user, granted>>
  /\ mover' = {}

Next ==
  \E fd \in Fds :
    \/ Accept(fd) \/ Close(fd)
    \/ Logout(fd)
    \/ \E u \in Names, p \in Passwords : Signup(fd, u, p) \/ Login(fd, u, p)
    \/ \E u \in Names \cup {AdminName}, p \in Passwords : AdminLogin(fd, u, p)
    \/ \E id \in Fds, value \in Values : AdminUpdate(fd, id, value)
    \/ StartGame(fd) \/ GameOver(fd)

Spec == Init /\ [][Next]_vars

-----------------------------------------------------------------------------
(* Properties *)

(* Every field keeps its type, also in a session at a descriptor that      *)
(* another connection had before.                                          *)
TypeOK ==
  /\ Open \subseteq Fds
  /\ sessions \in [Open -> Session]
  /\ users \in Seq([user : Names, pass : Passwords])
  /\ user \in [Fds -> Names \cup {AdminName, NoOne}]
  /\ granted \subseteq Open
  /\ mover \subseteq Fds

(* Two connections signing up never leave two accounts of one name: the    *)
(* look in user.txt and the line added to it are one request.              *)
OneAccountPerName ==
  \A i, j \in 1..Len(users) : users[i].user = users[j].user => i = j

(* The administrator's right was given to this very connection by          *)
(* admin.txt, not left by one that had the descriptor, or the memory,      *)
(* before; and who is in by user.txt has a line there.                     *)
RightsGranted ==
  \A fd \in Open :
    /\ sessions[fd].is_admin => fd \in granted
    /\ sessions[fd].is_logged => user[fd] # NoOne /\ (fd \in granted \/ Known(user[fd]))

(* Nobody's deadline moves but by a new game of one's own, or on the       *)
(* request of a connection that is logged in and that admin.txt has let in *)
(* since it was opened. Who is logged in there now need not be the         *)
(* administrator: LOGOUT leaves the right to the next one, see             *)
(* MovedByAdministrator.                                                   *)
DeadlinesMoved ==
  [][\A id \in Open :
       id \in DOMAIN sessions' /\ sessions'[id].shift # sessions[id].shift =>
         \/ StartGame(id)
         \/ \E fd \in granted : mover' = {fd} /\ user[fd] # NoOne]_vars

(* An update of one who is not the administrator is an "unauthorized       *)
(* attempt of admin command" (server_handler.c): none moves a deadline.    *)
MovedByAdministrator == [][\A fd \in mover' : user[fd] = AdminName]_vars

(* The list an administrator is sent shows who is logged in where.         *)
ListNamesUser == \A fd \in Open : sessions[fd].is_logged => sessions[fd].username = user[fd]

=============================================================================
