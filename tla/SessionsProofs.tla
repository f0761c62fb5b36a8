--------------------------- MODULE SessionsProofs ---------------------------
(***************************************************************************)
(* Theorems about Sessions, for any number of descriptors, names and       *)
(* passwords. TypeOK, OneAccountPerName and RightsGranted are inductive,   *)
(* the last with the types; DeadlinesMoved follows from RightsGranted:     *)
(* whose request passes the test of handle_admin was let in by admin.txt.  *)
(***************************************************************************)
EXTENDS Sessions, TLAPS

Line == [user : Names, pass : Passwords]

(* What one request does, by the session it is about: the cases of Next.   *)
LEMMA StepCases ==
  ASSUME [Next]_vars,
         NEW P,
         UNCHANGED vars => P,
         ASSUME NEW fd \in Fds, Accept(fd) PROVE P,
         ASSUME NEW fd \in Fds, Close(fd) PROVE P,
         ASSUME NEW fd \in Fds, Logout(fd) PROVE P,
         ASSUME NEW fd \in Fds, NEW u \in Names, NEW p \in Passwords, Signup(fd, u, p) PROVE P,
         ASSUME NEW fd \in Fds, NEW u \in Names, NEW p \in Passwords, Login(fd, u, p) PROVE P,
         ASSUME NEW fd \in Fds, NEW u \in Names \cup {AdminName}, NEW p \in Passwords,
                AdminLogin(fd, u, p) PROVE P,
         ASSUME NEW fd \in Fds, NEW id \in Fds, NEW value \in Values,
                AdminUpdate(fd, id, value) PROVE P,
         ASSUME NEW fd \in Fds, StartGame(fd) PROVE P,
         ASSUME NEW fd \in Fds, GameOver(fd) PROVE P
  PROVE  P
  BY Zenon DEF Next

(* A session that calloc has just cleared is a session.                    *)
LEMMA FreshTyped == Fresh \in Session
  BY ValuesAssumption, SMT DEF Fresh, Session

(* Before anybody has connected every variable has its type.               *)
LEMMA TypeInit == Init => TypeOK
<1> SUFFICES ASSUME Init PROVE TypeOK
  OBVIOUS
<1>1. Open = {} /\ sessions \in [Open -> Session]
  BY DEF Init, Open
<1>2. users \in Seq(Line) /\ user \in [Fds -> Names \cup {AdminName, NoOne}]
  BY DEF Init
<1> QED
  BY <1>1, <1>2 DEF Init, TypeOK, Line

(* Every request, connection and disconnection keeps the types.            *)
LEMMA TypeStep == TypeOK /\ [Next]_vars => TypeOK'
<1> SUFFICES ASSUME TypeOK, [Next]_vars PROVE TypeOK'
  OBVIOUS
<1> USE DEF TypeOK, Open
<1>1. UNCHANGED vars => TypeOK'
  BY DEF vars
<1>2. ASSUME NEW fd \in Fds, Accept(fd) PROVE TypeOK'
  BY <1>2, FreshTyped DEF Accept
<1>3. ASSUME NEW fd \in Fds, Close(fd) PROVE TypeOK'
  BY <1>3 DEF Close
<1>4. ASSUME NEW fd \in Fds, Logout(fd) PROVE TypeOK'
  BY <1>4 DEF Logout, Session
<1>5. ASSUME NEW fd \in Fds, NEW u \in Names, NEW p \in Passwords, Signup(fd, u, p) PROVE TypeOK'
  <2>1. users' \in Seq(Line)
    BY <1>5 DEF Signup, Line
  <2>2. /\ sessions' \in [Open -> Session] /\ Open' = Open
        /\ user' \in [Fds -> Names \cup {AdminName, NoOne}]
    BY <1>5 DEF Signup, Session
  <2> QED
    BY <1>5, <2>1, <2>2 DEF Signup, Line
<1>6. ASSUME NEW fd \in Fds, NEW u \in Names, NEW p \in Passwords, Login(fd, u, p) PROVE TypeOK'
  <2>1. [sessions[fd] EXCEPT !.is_logged = TRUE, !.username = u] \in Session
    BY <1>6 DEF Login, Session
  <2>2. sessions' \in [Open -> Session] /\ Open' = Open
    BY <1>6, <2>1 DEF Login
  <2> QED
    BY <1>6, <2>2 DEF Login, Enter
<1>7. ASSUME NEW fd \in Fds, NEW u \in Names \cup {AdminName}, NEW p \in Passwords,
             AdminLogin(fd, u, p)
      PROVE  TypeOK'
  <2>0. [sessions[fd] EXCEPT !.is_logged = TRUE, !.is_admin = TRUE, !.username = u] \in Session
    BY <1>7 DEF AdminLogin, Session
  <2>1. sessions' \in [Open -> Session] /\ Open' = Open
    BY <1>7, <2>0 DEF AdminLogin
  <2>2. user' \in [Fds -> Names \cup {AdminName, NoOne}]
    BY <1>7 DEF AdminLogin, Enter
  <2> QED
    BY <1>7, <2>1, <2>2 DEF AdminLogin, Enter
<1>8. ASSUME NEW fd \in Fds, NEW id \in Fds, NEW value \in Values, AdminUpdate(fd, id, value)
      PROVE  TypeOK'
  BY <1>8 DEF AdminUpdate, Shifted, Session
<1>9. ASSUME NEW fd \in Fds, StartGame(fd) PROVE TypeOK'
  <2>1. 0 \in -MaxShift..MaxShift
    BY ValuesAssumption
  <2>0. [sessions[fd] EXCEPT !.is_playing = TRUE, !.shift = 0] \in Session
    BY <1>9, <2>1 DEF StartGame, Session
  <2>2. sessions' \in [Open -> Session] /\ Open' = Open
    BY <1>9, <2>0 DEF StartGame
  <2> QED
    BY <1>9, <2>2 DEF StartGame
<1>10. ASSUME NEW fd \in Fds, GameOver(fd) PROVE TypeOK'
  BY <1>10, ZenonT(60) DEF GameOver, Session
<1> QED
  BY <1>1, <1>2, <1>3, <1>4, <1>5, <1>6, <1>7, <1>8, <1>9, <1>10, StepCases, Zenon

(* Type correctness: sessions at descriptors used again included.          *)
THEOREM TypeCorrect == Spec => []TypeOK
  BY TypeInit, TypeStep, PTL DEF Spec

-----------------------------------------------------------------------------

(* The lines of user.txt change by the addition of a name that is new.     *)
LEMMA UsersStep ==
  ASSUME [Next]_vars
  PROVE  \/ users' = users
         \/ \E u \in Names, p \in Passwords :
              ~Known(u) /\ users' = Append(users, [user |-> u, pass |-> p])
<1>1. ASSUME NEW fd \in Fds, NEW u \in Names, NEW p \in Passwords, Signup(fd, u, p)
      PROVE  ~Known(u) /\ users' = Append(users, [user |-> u, pass |-> p])
  BY <1>1 DEF Signup
<1> QED
  BY <1>1, Zenon DEF Next, vars, Accept, Close, Logout, Login, Enter, AdminLogin,
     AdminUpdate, StartGame, GameOver

(* Names are unique in user.txt, whoever signs up when: handle_user looks  *)
(* the name up and adds it without letting another request in.             *)
THEOREM AccountsUnique == Spec => []OneAccountPerName
<1>1. Init => OneAccountPerName
  BY DEF Init, OneAccountPerName
<1>2. TypeOK /\ OneAccountPerName /\ [Next]_vars => OneAccountPerName'
  <2> SUFFICES ASSUME TypeOK, OneAccountPerName, [Next]_vars PROVE OneAccountPerName'
    OBVIOUS
  <2>1. CASE users' = users
    BY <2>1 DEF OneAccountPerName
  <2>2. ASSUME NEW u \in Names, NEW p \in Passwords, ~Known(u),
               users' = Append(users, [user |-> u, pass |-> p])
        PROVE  OneAccountPerName'
    BY <2>2 DEF TypeOK, OneAccountPerName, Known
  <2> QED
    BY <2>1, <2>2, UsersStep
<1> QED
  BY <1>1, <1>2, TypeCorrect, PTL DEF Spec

-----------------------------------------------------------------------------

(* An account is never removed.                                            *)
LEMMA KnownStands ==
  ASSUME TypeOK, [Next]_vars, NEW u, Known(u)
  PROVE  Known(u)'
<1>1. CASE users' = users
  BY <1>1 DEF Known
<1>2. ASSUME NEW v \in Names, NEW p \in Passwords,
             users' = Append(users, [user |-> v, pass |-> p])
      PROVE  Known(u)'
  <2>1. PICK i \in 1..Len(users) : users[i].user = u
    BY DEF Known
  <2>2. i \in 1..Len(users') /\ users'[i] = users[i]
    BY <1>2 DEF TypeOK
  <2> QED
    BY <2>1, <2>2 DEF Known
<1> QED
  BY <1>1, <1>2, UsersStep

(* Every step keeps rights to those they were granted to.                  *)
LEMMA RightsStep == TypeOK /\ RightsGranted /\ [Next]_vars => RightsGranted'
<1> SUFFICES ASSUME TypeOK, RightsGranted, [Next]_vars PROVE RightsGranted'
  OBVIOUS
<1> DEFINE Right(f) ==
             /\ sessions[f].is_admin => f \in granted
             /\ sessions[f].is_logged => user[f] # NoOne /\ (f \in granted \/ Known(user[f]))
<1>0. /\ \A f \in Open : Right(f)
      /\ (\A f \in Open' : Right(f)') => RightsGranted'
  BY DEF RightsGranted
<1>k. \A u : Known(u) => Known(u)'
  BY KnownStands
<1>t. AdminName # NoOne /\ \A u \in Names : u # NoOne
  BY NamesAssumption DEF NoOne
<1> USE DEF TypeOK, Open
<1>1. UNCHANGED vars => RightsGranted'
  BY DEF vars, RightsGranted, Known
<1>2. ASSUME NEW fd \in Fds, Accept(fd) PROVE RightsGranted'
  BY <1>2, <1>0, <1>k DEF Accept, Fresh
<1>3. ASSUME NEW fd \in Fds, Close(fd) PROVE RightsGranted'
  BY <1>3, <1>0, <1>k DEF Close
<1>4. ASSUME NEW fd \in Fds, Logout(fd) PROVE RightsGranted'
  BY <1>4, <1>0, <1>k DEF Logout, Session
<1>5. ASSUME NEW fd \in Fds, NEW u \in Names, NEW p \in Passwords, Signup(fd, u, p)
      PROVE  RightsGranted'
  <2>1. Known(u)'
    <3>1. /\ Len(users') = Len(users) + 1
          /\ users'[Len(users) + 1].user = u
      BY <1>5 DEF Signup
    <3> QED
      BY <3>1 DEF Known
  <2> QED
    BY <1>5, <1>0, <1>k, <1>t, <2>1 DEF Signup, Session
<1>6. ASSUME NEW fd \in Fds, NEW u \in Names, NEW p \in Passwords, Login(fd, u, p)
      PROVE  RightsGranted'
  <2>1. Known(u)'
    BY <1>6, <1>k DEF Login, Matches, Known
  <2> QED
    BY <1>6, <1>0, <1>k, <1>t, <2>1 DEF Login, Enter, Session
<1>7. ASSUME NEW fd \in Fds, NEW u \in Names \cup {AdminName}, NEW p \in Passwords,
             AdminLogin(fd, u, p)
      PROVE  RightsGranted'
  BY <1>7, <1>0, <1>k, <1>t DEF AdminLogin, Enter, Session
<1>8. ASSUME NEW fd \in Fds, NEW id \in Fds, NEW value \in Values, AdminUpdate(fd, id, value)
      PROVE  RightsGranted'
  BY <1>8, <1>0, <1>k DEF AdminUpdate, Shifted, Session
<1>9. ASSUME NEW fd \in Fds, StartGame(fd) PROVE RightsGranted'
  BY <1>9, <1>0, <1>k DEF StartGame, Session
<1>10. ASSUME NEW fd \in Fds, GameOver(fd) PROVE RightsGranted'
  BY <1>10, <1>0, <1>k DEF GameOver, Session
<1> QED
  BY <1>1, <1>2, <1>3, <1>4, <1>5, <1>6, <1>7, <1>8, <1>9, <1>10, StepCases, Zenon

(* Who has an administrator's right was given it on this connection, and   *)
(* who is in has an account: nothing is inherited with a descriptor.       *)
THEOREM RightsAreGranted == Spec => []RightsGranted
<1>1. Init => RightsGranted
  BY DEF Init, RightsGranted, Open
<1> QED
  BY <1>1, RightsStep, TypeCorrect, PTL DEF Spec

-----------------------------------------------------------------------------

(* A step moves the deadline of an open session only if it starts a game   *)
(* there or is asked for by one that passes the test of handle_admin.      *)
LEMMA ShiftStep ==
  ASSUME TypeOK, [Next]_vars,
         NEW id \in Open, id \in DOMAIN sessions', sessions'[id].shift # sessions[id].shift
  PROVE  StartGame(id) \/ \E fd \in Fds : Allowed(fd) /\ mover' = {fd}
<1> DEFINE Goal == StartGame(id) \/ \E fd \in Fds : Allowed(fd) /\ mover' = {fd}
<1> USE DEF TypeOK, Open
<1>1. UNCHANGED vars => Goal
  BY DEF vars
<1>2. ASSUME NEW fd \in Fds, Accept(fd) PROVE Goal
  BY <1>2 DEF Accept
<1>3. ASSUME NEW fd \in Fds, Close(fd) PROVE Goal
  BY <1>3 DEF Close
<1>4. ASSUME NEW fd \in Fds, Logout(fd) PROVE Goal
  BY <1>4 DEF Logout, Session
<1>5. ASSUME NEW fd \in Fds, NEW u \in Names, NEW p \in Passwords, Signup(fd, u, p) PROVE Goal
  BY <1>5 DEF Signup, Session
<1>6. ASSUME NEW fd \in Fds, NEW u \in Names, NEW p \in Passwords, Login(fd, u, p) PROVE Goal
  BY <1>6 DEF Login, Session
<1>7. ASSUME NEW fd \in Fds, NEW u \in Names \cup {AdminName}, NEW p \in Passwords,
             AdminLogin(fd, u, p)
      PROVE  Goal
  BY <1>7 DEF AdminLogin, Session
<1>8. ASSUME NEW fd \in Fds, NEW i \in Fds, NEW value \in Values, AdminUpdate(fd, i, value)
      PROVE  Goal
  BY <1>8, Zenon DEF AdminUpdate
<1>9. ASSUME NEW fd \in Fds, StartGame(fd) PROVE Goal
  <2>1. CASE fd = id
    BY <1>9, <2>1
  <2>2. CASE fd # id
    BY <1>9, <2>2 DEF StartGame, Session
  <2> QED
    BY <2>1, <2>2
<1>10. ASSUME NEW fd \in Fds, GameOver(fd) PROVE Goal
  BY <1>10 DEF GameOver, Session
<1> HIDE DEF Goal
<1>11. Goal
  BY <1>1, <1>2, <1>3, <1>4, <1>5, <1>6, <1>7, <1>8, <1>9, <1>10, StepCases, Zenon
<1> QED
  BY <1>11 DEF Goal

(* A connection's deadline is moved by a new game of its own, or on the    *)
(* request of a connection that is logged in and was let in by admin.txt.  *)
THEOREM DeadlinesAreMoved == Spec => DeadlinesMoved
<1>1. TypeOK /\ RightsGranted /\ [Next]_vars =>
        [\A id \in Open :
           id \in DOMAIN sessions' /\ sessions'[id].shift # sessions[id].shift =>
             \/ StartGame(id)
             \/ \E fd \in granted : mover' = {fd} /\ user[fd] # NoOne]_vars
  <2> SUFFICES ASSUME TypeOK, RightsGranted, [Next]_vars, NEW id \in Open,
                      id \in DOMAIN sessions', sessions'[id].shift # sessions[id].shift
               PROVE  StartGame(id) \/ \E fd \in granted : mover' = {fd} /\ user[fd] # NoOne
    OBVIOUS
  <2>1. ASSUME NEW fd \in Fds, Allowed(fd) PROVE fd \in granted /\ user[fd] # NoOne
    BY <2>1 DEF Allowed, RightsGranted
  <2>2. StartGame(id) \/ \E fd \in Fds : Allowed(fd) /\ mover' = {fd}
    BY ShiftStep
  <2> QED
    BY <2>1, <2>2
<1> QED
  BY <1>1, TypeCorrect, RightsAreGranted, PTL DEF Spec, DeadlinesMoved

=============================================================================
