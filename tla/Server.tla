------------------------------- MODULE Server -------------------------------
(***************************************************************************)
(* The server process: the select loop of Server/main.c with its           *)
(* descriptors (fdcontroller.c), its handlers (server_handler.c), its      *)
(* client list (client_session.c) and its socket calls (connection.c),     *)
(* with the kernel it calls, the operator who types start and stop, and    *)
(* the clients that connect, ask, read and go away while it runs.          *)
(*                                                                         *)
(* One action of the server is one blocking or externally visible system   *)
(* call with the code up to the next one. A request's text is its kind:    *)
(*   LOGIN   USR LOGIN or a SIGNUP of a new name: opens a file meanwhile   *)
(*   ADMIN   ADM LOGIN: the same, but its reply may fail unseen             *)
(*   DUP     USR SIGNUP of a name already taken: leaves that file open     *)
(*   LOGOUT  USR LOGOUT                                                    *)
(*   GMN     a command of the game, or one the administrator may give:     *)
(*           some text is sent back, the login of the session stays        *)
(*   BAD     no command at all: 400 is sent back                           *)
(*   EARLY   GMN before any init: nothing is sent back                     *)
(*   REFUSED ADM by another than an administrator, an unknown USR: closed  *)
(* A message is its two send() calls, "len" and "body", each received      *)
(* whole.                                                                  *)
(***************************************************************************)
EXTENDS Integers, FiniteSets, Sequences, SequencesExt

CONSTANTS
  Clients,       (* client programs, one connection at a time each          *)
  MaxFd,         (* the largest descriptor the process may have             *)
  Requests,      (* the kinds of request the clients make                   *)
  Commands,      (* the lines the operator types                            *)
  ListenFails    (* BOOLEAN: may bind() or listen() fail                    *)

ASSUME MaxFdAssumption    == MaxFd \in Nat /\ MaxFd >= 3
ASSUME RequestsAssumption == Requests \subseteq
                               {"LOGIN", "ADMIN", "DUP", "LOGOUT", "GMN", "BAD", "EARLY", "REFUSED"}
ASSUME CommandsAssumption == Commands \subseteq {"start", "stop", "other"}
ASSUME ClientsAssumption  == /\ Clients \cap {"listener", "lost"} = {}
                             /\ ListenFails \in BOOLEAN

VARIABLES
  (* the process *)
  pc,            (* the call the server is at                               *)
  cur,           (* main's fd: the descriptor of the sweep                  *)
  ready,         (* fd_data.ready_fds                                       *)
  watched,       (* fd_data.fd_list                                         *)
  maxfd,         (* fd_data.maxfd                                           *)
  clients,       (* the list: descriptor and is_logged of each session      *)
  n_clients,     (* server->n_clients                                       *)
  is_listening,  (* server->is_listening                                    *)
  listener_fd,   (* server->listener_fd                                     *)
  can_close,     (* server->can_close_server                                *)
  (* the kernel *)
  fds,           (* open descriptors above stderr, and what they are        *)
  queue,         (* connections the listener has not accepted               *)
  link,          (* each client's connection, from the server's side        *)
  peer,          (* the client's end: "open", "fin" (closed), "rst" (closed *)
                 (* with a reply unread), "pipe" (the server knows)         *)
  inbox,         (* parts of the request the server has not received        *)
  outbox,        (* number of parts of the reply the client has not read    *)
  (* the environment *)
  stdin,         (* the line the operator has typed                         *)
  cl,            (* what each client is doing                               *)
  asked          (* the request it has made and has had no reply to         *)

process == <<pc, cur, ready, watched, maxfd, clients, n_clients,
             is_listening, listener_fd, can_close>>
net     == <<link, peer, inbox, outbox, cl, asked>>
vars    == <<process, fds, queue, net, stdin>>

STDIN   == 0
LISTENER == "listener"
LOST    == "lost"
(* The replies of handle_client_fd itself: it closes if they fail.         *)
ClosingReplies == {"LOGIN", "LOGOUT", "BAD"}

-----------------------------------------------------------------------------
(* Descriptors: the kernel hands out the lowest one that is free.          *)
FreeFds    == (3..MaxFd) \ DOMAIN fds
Lowest     == Min(FreeFds)
Open(fd, what) == fds' = [f \in DOMAIN fds \cup {fd} |-> IF f = fd THEN what ELSE fds[f]]
Without(fd) == [f \in DOMAIN fds \ {fd} |-> fds[f]]

\* Slip: the largest descriptor is not kept up to date.
WatchBelowMax(fd) ==
  /\ watched' = watched \cup {fd}
  /\ UNCHANGED maxfd

(* fd_list_add *)
Watch(fd) ==
  /\ watched' = watched \cup {fd}
  /\ maxfd' = IF fd > maxfd THEN fd ELSE maxfd

(* client_list: the entry found is the first from the head.                *)
Find(fd) == SelectInSeq(clients, LAMBDA s : s.fd = fd)
Logged(fd) == Find(fd) # 0 /\ clients[Find(fd)].is_logged
ListRemove(fd) == IF Find(fd) = 0 THEN clients ELSE RemoveAt(clients, Find(fd))

Listening == \E f \in DOMAIN fds : fds[f] = LISTENER

Readable(c) == inbox[c] # <<>> \/ peer[c] # "open"

(* What select reports of a watched descriptor.                            *)
Ready(fd) ==
  IF fd = STDIN THEN stdin # "none"
  ELSE IF fds[fd] = LISTENER THEN queue # <<>>
  ELSE fds[fd] \in Clients /\ Readable(fds[fd])

Init ==
  /\ pc = "select" /\ cur = 0 /\ ready = {} /\ watched = {STDIN} /\ maxfd = 0
  /\ clients = <<>> /\ n_clients = 0
  /\ is_listening = FALSE /\ listener_fd = -1 /\ can_close = FALSE
  /\ fds = <<>> /\ queue = <<>>
  /\ link = [c \in Clients |-> "none"]
  /\ peer = [c \in Clients |-> "open"]
  /\ inbox = [c \in Clients |-> <<>>]
  /\ outbox = [c \in Clients |-> 0]
  /\ stdin = "none"
  /\ cl = [c \in Clients |-> "idle"]
  /\ asked = [c \in Clients |-> "none"]

-----------------------------------------------------------------------------
(* The loop of main. *)

(* select on a closed descriptor fails, and ready_fds stays the whole      *)
(* fd_list: the loop takes no notice of the error.                         *)
Select ==
  /\ pc = "select"
  /\ LET examined == {f \in watched : f <= maxfd}
         bad      == examined \ ({STDIN} \cup DOMAIN fds)
     IN  /\ ready' = IF bad # {} THEN watched ELSE {f \in examined : Ready(f)}
         /\ ready' # {}
  /\ pc' = "sweep"
  /\ cur' = 0
  /\ UNCHANGED <<watched, maxfd, clients, n_clients, is_listening, listener_fd,
                 can_close, fds, queue, net, stdin>>

(* The next descriptor of the sweep, and its handler.                      *)
ToSweep == {f \in ready : cur <= f /\ f <= maxfd}
At(fd) == pc = "sweep" /\ ToSweep # {} /\ fd = Min(ToSweep)
\* Slip: a break, one descriptor for each select.
DoneFirst(fd) == pc' = "select" /\ cur' = fd + 1
Done(fd) == pc' = "sweep" /\ cur' = fd + 1

(* The process ends: the kernel closes what it had open.                   *)
End(how) ==
  /\ pc' = how
  /\ fds' = <<>>
  /\ queue' = <<>>
  /\ link' = [c \in Clients |-> IF link[c] = "none" THEN "none" ELSE "closed"]
  /\ UNCHANGED <<cur, ready, watched, maxfd, clients, n_clients, is_listening,
                 listener_fd, can_close, peer, inbox, outbox, cl, asked, stdin>>

(* The loop goes round; ready_fds, not read again before select writes it, *)
(* is forgotten.                                                           *)
SweepEnd ==
  /\ pc = "sweep"
  /\ ToSweep = {}
  /\ IF can_close THEN End("exit")
     ELSE /\ pc' = "select"
          /\ cur' = 0 /\ ready' = {}
          /\ UNCHANGED <<watched, maxfd, clients, n_clients, is_listening,
                         listener_fd, can_close, fds, queue, net, stdin>>

-----------------------------------------------------------------------------
(* handle_input *)

ReadLine(command) ==
  /\ At(STDIN)
  /\ stdin = command
  /\ stdin' = "none"
  /\ Done(STDIN)
  /\ UNCHANGED <<ready, net, clients, n_clients>>

Start ==
  /\ ReadLine("start")
  /\ ~is_listening
  /\ FreeFds # {}
  /\ Open(Lowest, LISTENER)
  /\ Watch(Lowest)
  /\ is_listening' = TRUE
  /\ listener_fd' = Lowest
  /\ UNCHANGED <<can_close, queue>>

(* bind or listen fails: the socket is not closed.                         *)
StartFails ==
  /\ ReadLine("start")
  /\ ~is_listening
  /\ ListenFails
  /\ FreeFds # {}
  /\ Open(Lowest, LOST)
  /\ UNCHANGED <<watched, maxfd, is_listening, listener_fd, can_close, queue>>

(* Already listening, no descriptor for a socket, clients still connected, *)
(* an empty line or an unknown command: nothing is done.                   *)
Ignored ==
  /\ \/ ReadLine("start") /\ (is_listening \/ FreeFds = {})
     \/ ReadLine("stop") /\ n_clients > 0
     \/ ReadLine("other")
  /\ UNCHANGED <<watched, maxfd, is_listening, listener_fd, can_close, fds, queue>>

\* Slip: the listener is left open.
StopStillListening ==
  /\ ReadLine("stop")
  /\ n_clients = 0
  /\ is_listening' = FALSE
  /\ can_close' = TRUE
  /\ UNCHANGED <<watched, maxfd, listener_fd, fds, queue>>

(* Closing the listener resets the connections it has not accepted.        *)
Stop ==
  /\ At(STDIN)
  /\ stdin = "stop"
  /\ stdin' = "none"
  /\ Done(STDIN)
  /\ n_clients = 0
  /\ fds' = IF is_listening THEN Without(listener_fd) ELSE fds
  /\ is_listening' = FALSE
  /\ can_close' = TRUE
  /\ queue' = <<>>
  /\ link' = [c \in Clients |-> IF link[c] = "queued" THEN "closed" ELSE link[c]]
  /\ UNCHANGED <<ready, watched, maxfd, clients, n_clients, listener_fd,
                 peer, inbox, outbox, cl, asked>>

(* handle_listener *)
Accept ==
  /\ At(listener_fd)
  /\ Listening /\ queue # <<>> /\ FreeFds # {}
  /\ Open(Lowest, Head(queue))
  /\ queue' = Tail(queue)
  /\ link' = [link EXCEPT ![Head(queue)] = "up"]
  /\ Watch(Lowest)
  /\ n_clients' = n_clients + 1
  /\ clients' = <<[fd |-> Lowest, is_logged |-> FALSE]>> \o clients
  /\ Done(listener_fd)
  /\ UNCHANGED <<ready, is_listening, listener_fd, can_close, peer, inbox,
                 outbox, cl, asked, stdin>>

\* Slip: the result of accept is not looked at.
AcceptFailsUnseen ==
  /\ At(listener_fd)
  /\ ~(Listening /\ queue # <<>> /\ FreeFds # {})
  /\ n_clients' = n_clients + 1
  /\ clients' = <<[fd |-> -1, is_logged |-> FALSE]>> \o clients
  /\ Done(listener_fd)
  /\ UNCHANGED <<ready, watched, maxfd, is_listening, listener_fd, can_close,
                 fds, queue, net, stdin>>

(* accept fails on a listener closed by this sweep, and without a free     *)
(* descriptor: the connection then stays in the queue.                     *)
AcceptFails ==
  /\ At(listener_fd)
  /\ ~(Listening /\ queue # <<>> /\ FreeFds # {})
  /\ Done(listener_fd)
  /\ UNCHANGED <<ready, watched, maxfd, clients, n_clients, is_listening,
                 listener_fd, can_close, fds, queue, net, stdin>>

-----------------------------------------------------------------------------
(* handle_client_fd *)

\* Slip: the closed descriptor is not taken off the watch set.
CloseClientWatched(fd, open) ==
  /\ Done(fd)
  /\ fds' = [f \in DOMAIN open \ {fd} |-> open[f]]
  /\ clients' = ListRemove(fd)
  /\ n_clients' = n_clients - 1
  /\ link' = [link EXCEPT ![fds[fd]] = "closed"]
  /\ UNCHANGED <<ready, watched, maxfd, is_listening, listener_fd, can_close,
                 queue, cl, asked, stdin>>

\* Slip: the client is not subtracted from the count.
CloseClientCounted(fd, open) ==
  /\ Done(fd)
  /\ fds' = [f \in DOMAIN open \ {fd} |-> open[f]]
  /\ watched' = watched \ {fd}
  /\ clients' = ListRemove(fd)
  /\ link' = [link EXCEPT ![fds[fd]] = "closed"]
  /\ UNCHANGED <<ready, maxfd, n_clients, is_listening, listener_fd, can_close,
                 queue, cl, asked, stdin>>

(* The label close_client.                                                 *)
CloseClient(fd, open) ==
  /\ Done(fd)
  /\ fds' = [f \in DOMAIN open \ {fd} |-> open[f]]
  /\ watched' = watched \ {fd}
  /\ clients' = ListRemove(fd)
  /\ n_clients' = n_clients - 1
  /\ link' = [link EXCEPT ![fds[fd]] = "closed"]
  /\ UNCHANGED <<ready, maxfd, is_listening, listener_fd, can_close, queue,
                 cl, asked, stdin>>

Rest == <<ready, watched, maxfd, n_clients, is_listening, listener_fd,
          can_close, fds, queue, link, cl, asked, stdin>>

ClientAt(fd) == At(fd) /\ fd \notin {STDIN, listener_fd}

\* Slip: a recv that returns 0 does not close the client.
RecvLenKeepsGone(fd) ==
  /\ ClientAt(fd)
  /\ IF inbox[fds[fd]] # <<>>
     THEN /\ inbox' = [inbox EXCEPT ![fds[fd]] = Tail(@)]
          /\ pc' = "recv_body"
          /\ cur' = fd
     ELSE /\ peer[fds[fd]] # "open"
          /\ Done(fd)
          /\ UNCHANGED inbox
  /\ UNCHANGED <<clients, peer, outbox>> /\ UNCHANGED Rest

(* The first recv of receive_from_fd. It returns 0 or fails when the       *)
(* client has closed, and would wait if there were nothing to receive. Its *)
(* -1 passes the comparison with an unsigned size: the length is then what *)
(* the stack held, too long, or one that the next recv is made with.       *)
RecvLen(fd) ==
  /\ ClientAt(fd)
  /\ \/ /\ inbox[fds[fd]] # <<>>
        /\ inbox' = [inbox EXCEPT ![fds[fd]] = Tail(@)]
        /\ pc' = "recv_body"
        /\ cur' = fd
        /\ UNCHANGED <<clients, peer, outbox>> /\ UNCHANGED Rest
     \/ /\ inbox[fds[fd]] = <<>>
        /\ peer[fds[fd]] # "open"
        /\ CloseClient(fd, fds)
        /\ UNCHANGED <<peer, inbox, outbox>>
     \/ /\ inbox[fds[fd]] = <<>>
        /\ peer[fds[fd]] = "rst"
        /\ peer' = [peer EXCEPT ![fds[fd]] = "pipe"]
        /\ pc' = "recv_body"
        /\ cur' = fd
        /\ UNCHANGED <<clients, inbox, outbox>> /\ UNCHANGED Rest

\* Slip: the client at the head of the list, not the one that asked.
SetLoggedHead(fd, values) ==
  \E v \in values :
    clients' = [clients EXCEPT ![1].is_logged = v]

SetLogged(fd, values) ==
  \E v \in values :
    clients' = [clients EXCEPT ![Find(fd)].is_logged = v]

(* Executing the request: the reply is sent next, or the client is closed, *)
(* or neither.                                                             *)
Execute(fd, request) ==
  \/ /\ \/ /\ request \in {"LOGIN", "ADMIN"} /\ ~Logged(fd) /\ FreeFds # {}
           /\ SetLogged(fd, BOOLEAN)
        \/ request = "LOGOUT" /\ SetLogged(fd, {FALSE})
        \/ request \in {"GMN", "BAD"} /\ UNCHANGED clients
     /\ pc' = "send_len"
     /\ UNCHANGED cur /\ UNCHANGED Rest
  \/ /\ request = "EARLY"
     /\ Done(fd)
     /\ UNCHANGED clients /\ UNCHANGED Rest
  \/ /\ \/ request \in {"LOGIN", "ADMIN", "DUP"} /\ (Logged(fd) \/ FreeFds = {})
        \/ request = "REFUSED"
     /\ CloseClient(fd, fds)
  \/ /\ request = "DUP" /\ ~Logged(fd) /\ FreeFds # {}
     /\ CloseClient(fd, [f \in DOMAIN fds \cup {Lowest} |->
                           IF f = Lowest THEN LOST ELSE fds[f]])

(* The second recv: it waits for the body, with every other client, the    *)
(* listener and the operator.                                              *)
RecvBody ==
  /\ pc = "recv_body"
  /\ LET c == fds[cur] IN
       \/ /\ inbox[c] # <<>>
          /\ inbox' = [inbox EXCEPT ![c] = Tail(@)]
          /\ IF Find(cur) = 0 THEN CloseClient(cur, fds) ELSE Execute(cur, asked[c])
          /\ UNCHANGED <<peer, outbox>>
       \/ /\ inbox[c] = <<>>
          /\ peer[c] # "open"
          /\ CloseClient(cur, fds)
          /\ UNCHANGED <<peer, inbox, outbox>>

(* send_to_fd: what becomes of a part of the reply.                        *)
(* A closed end takes the first part and answers it with a reset, which    *)
(* the server's next send may find or may not.                             *)
Delivered(c) ==
  \/ peer[c] = "open" /\ outbox' = [outbox EXCEPT ![c] = @ + 1] /\ UNCHANGED peer
  \/ peer[c] = "fin" /\ peer' \in {peer, [peer EXCEPT ![c] = "pipe"]} /\ UNCHANGED outbox

(* A reset that is still pending is reported, once. The game and the       *)
(* administrator's commands do not look at the result of their send.       *)
SendFails(c) ==
  /\ peer[c] = "rst"
  /\ peer' = [peer EXCEPT ![c] = "pipe"]
  /\ IF asked[c] \in ClosingReplies THEN CloseClient(cur, fds)
     ELSE Done(cur) /\ UNCHANGED clients /\ UNCHANGED Rest
  /\ UNCHANGED <<inbox, outbox>>

(* send without MSG_NOSIGNAL to a connection known to be reset: SIGPIPE.   *)
Killed(c) == peer[c] = "pipe" /\ End("killed")

SendLen ==
  /\ pc = "send_len"
  /\ LET c == fds[cur] IN
       \/ Delivered(c) /\ pc' = "send_body" /\ UNCHANGED <<cur, clients, inbox>> /\ UNCHANGED Rest
       \/ SendFails(c)
       \/ Killed(c)

SendBody ==
  /\ pc = "send_body"
  /\ LET c == fds[cur] IN
       \/ Delivered(c) /\ Done(cur) /\ UNCHANGED <<clients, inbox>> /\ UNCHANGED Rest
       \/ SendFails(c)
       \/ Killed(c)

ServerStep ==
  \/ Select \/ SweepEnd
  \/ Start \/ StartFails \/ Ignored \/ Stop
  \/ Accept \/ AcceptFails
  \/ \E fd \in ready : RecvLen(fd)
  \/ RecvBody \/ SendLen \/ SendBody

-----------------------------------------------------------------------------
(* The operator and the clients. *)

Type(command) ==
  /\ pc \notin {"exit", "killed"}
  /\ stdin = "none"
  /\ stdin' = command
  /\ UNCHANGED <<process, fds, queue, net>>

Connected(c) == link[c] \in {"queued", "up"} /\ peer[c] = "open"

Connect(c) ==
  /\ link[c] = "none"
  /\ Listening
  /\ queue' = Append(queue, c)
  /\ link' = [link EXCEPT ![c] = "queued"]
  /\ UNCHANGED <<process, fds, peer, inbox, outbox, cl, asked, stdin>>

AskLen(c) ==
  /\ Connected(c)
  /\ cl[c] = "idle"
  /\ cl' = [cl EXCEPT ![c] = "half"]
  /\ inbox' = [inbox EXCEPT ![c] = Append(@, "len")]
  /\ UNCHANGED <<process, fds, queue, link, peer, outbox, asked, stdin>>

AskBody(c) ==
  /\ Connected(c)
  /\ cl[c] = "half"
  /\ cl' = [cl EXCEPT ![c] = "wait"]
  /\ inbox' = [inbox EXCEPT ![c] = Append(@, "body")]
  /\ \E r \in Requests : asked' = [asked EXCEPT ![c] = r]
  /\ UNCHANGED <<process, fds, queue, link, peer, outbox, stdin>>

(* The reply is received in its two parts, also after the server closed.   *)
ReadReply(c) ==
  /\ link[c] # "none"
  /\ peer[c] = "open"
  /\ outbox[c] > 0
  /\ outbox' = [outbox EXCEPT ![c] = @ - 1]
  /\ \/ cl[c] = "wait" /\ cl' = [cl EXCEPT ![c] = "got_len"] /\ UNCHANGED asked
     \/ cl[c] = "got_len" /\ cl' = [cl EXCEPT ![c] = "idle"] /\ asked' = [asked EXCEPT ![c] = "none"]
  /\ UNCHANGED <<process, fds, queue, link, peer, inbox, stdin>>

(* The client closes its socket or dies, whatever it was doing.            *)
Close(c) ==
  /\ Connected(c)
  /\ peer' = [peer EXCEPT ![c] = IF outbox[c] > 0 THEN "rst" ELSE "fin"]
  /\ outbox' = [outbox EXCEPT ![c] = 0]
  /\ cl' = [cl EXCEPT ![c] = "gone"]
  /\ UNCHANGED <<process, fds, queue, link, inbox, asked, stdin>>

(* Both ends are done with the connection: the client may start again.     *)
Leave(c) ==
  /\ link[c] = "closed"
  /\ link' = [link EXCEPT ![c] = "none"]
  /\ peer' = [peer EXCEPT ![c] = "open"]
  /\ inbox' = [inbox EXCEPT ![c] = <<>>]
  /\ outbox' = [outbox EXCEPT ![c] = 0]
  /\ cl' = [cl EXCEPT ![c] = "idle"]
  /\ asked' = [asked EXCEPT ![c] = "none"]
  /\ UNCHANGED <<process, fds, queue, stdin>>

Environment ==
  \/ \E command \in Commands : Type(command)
  \/ \E c \in Clients :
       Connect(c) \/ AskLen(c) \/ AskBody(c) \/ ReadReply(c) \/ Close(c) \/ Leave(c)

Next == ServerStep \/ Environment

Spec == Init /\ [][Next]_vars

(* The process runs on without being asked; a client that has sent a       *)
(* length sends the body, its very next call. Nobody else must do anything.*)
StallSpec == Spec /\ WF_vars(ServerStep)

FairSpec ==
  /\ Spec
  /\ WF_vars(ServerStep)
  /\ \A c \in Clients : WF_vars(AskBody(c))

-----------------------------------------------------------------------------
(* Properties *)

Running   == pc \notin {"exit", "killed"}
ClientFds == {f \in DOMAIN fds : fds[f] \in Clients}
FdOf(c)   == CHOOSE f \in DOMAIN fds : fds[f] = c

(* Every variable keeps its type.                                          *)
TypeOK ==
  /\ pc \in {"select", "sweep", "recv_body", "send_len", "send_body", "exit", "killed"}
  /\ cur \in 0..MaxFd + 1 /\ maxfd \in 0..MaxFd
  /\ ready \subseteq 0..MaxFd /\ watched \subseteq 0..MaxFd
  /\ clients \in Seq([fd : 3..MaxFd, is_logged : BOOLEAN])
  /\ n_clients \in Nat
  /\ is_listening \in BOOLEAN /\ can_close \in BOOLEAN
  /\ listener_fd \in {-1} \cup 3..MaxFd
  /\ DOMAIN fds \subseteq 3..MaxFd
  /\ \A f \in DOMAIN fds : fds[f] \in Clients \cup {LISTENER, LOST}
  /\ queue \in Seq(Clients)
  /\ link \in [Clients -> {"none", "queued", "up", "closed"}]
  /\ peer \in [Clients -> {"open", "fin", "rst", "pipe"}]
  /\ inbox \in [Clients -> Seq({"len", "body"})]
  /\ outbox \in [Clients -> 0..2]
  /\ stdin \in Commands \cup {"none"}
  /\ cl \in [Clients -> {"idle", "half", "wait", "got_len", "gone"}]
  /\ asked \in [Clients -> Requests \cup {"none"}]

(* The five records of who is connected say the same, at every step of     *)
(* every sweep: the watch set, the list, the counter that stop trusts, the *)
(* descriptors that are open and the connections that are up.              *)
Bookkeeping ==
  Running =>
    /\ n_clients = Len(clients)
    /\ \A i, j \in 1..Len(clients) : clients[i].fd = clients[j].fd => i = j
    /\ {clients[i].fd : i \in 1..Len(clients)} = ClientFds
    /\ watched \ {STDIN, listener_fd} = ClientFds
    /\ {fds[f] : f \in ClientFds} = {c \in Clients : link[c] = "up"}
    /\ \A f, g \in ClientFds : fds[f] = fds[g] => f = g

(* The descriptors still to be swept are as select found them, though      *)
(* earlier handlers of the same sweep closed and reopened others: the      *)
(* first recv on a client, a blocking call, always finds something.        *)
NoBlindRecv ==
  pc = "sweep" =>
    \A fd \in ToSweep \ {STDIN, listener_fd} :
      fd \in ClientFds /\ Readable(fds[fd])

(* stop ends the loop only at the end of the sweep, after the listener and *)
(* the clients that were ready too: none of them is connected by then.     *)
CleanStop ==
  Running /\ can_close => ~Listening /\ \A c \in Clients : link[c] # "up"

(* Seen from the clients, the server is Service: a client waits for what   *)
(* it asked, is answered once and in turn, and its login is its own,       *)
(* whoever had its descriptor before.                                      *)
Sending(c) == pc \in {"send_len", "send_body"} /\ fds[cur] = c
Place(c) ==
  IF ~Connected(c) THEN "away"
  ELSE IF cl[c] \in {"idle", "half"} THEN "in"
  ELSE IF Sending(c) THEN "served"
  ELSE IF <<cl[c], outbox[c]>> \in {<<"wait", 2>>, <<"got_len", 1>>} THEN "answered"
  ELSE "asking"

ServiceOf == INSTANCE Service WITH
  place  <- [c \in Clients |-> Place(c)],
  asked  <- [c \in Clients |-> IF Connected(c) THEN asked[c] ELSE "none"],
  logged <- [c \in Clients |-> Connected(c) /\ link[c] = "up" /\ Logged(FdOf(c))]
ImplementsService == ServiceOf!Spec

(* A request is answered, or its client is sent away, however the others   *)
(* behave.                                                                 *)
Unanswered(c) == Connected(c) /\ cl[c] = "wait" /\ outbox[c] = 0 /\ asked[c] # "EARLY"
Answered == \A c \in Clients : Unanswered(c) ~> ~Unanswered(c)

(* A connection in the listener's queue is accepted, or the server stops.  *)
Admitted == \A c \in Clients : link[c] = "queued" ~> link[c] # "queued"

(* A client that has gone is taken off the books.                          *)
Forgotten == \A c \in Clients : link[c] = "up" /\ peer[c] # "open" ~> link[c] # "up"

(* No client can end the server.                                           *)
SurvivesClients == pc # "killed"

(* The server does not stop under a client that is connected to it.        *)
StopsAlone == [][can_close' /\ ~can_close => \A c \in Clients : ~Connected(c)]_vars

=============================================================================
