---------------------------- MODULE ServerProofs ----------------------------
(***************************************************************************)
(* Proofs about Server, for every number of clients and of descriptors,    *)
(* every set of requests and of commands.                                  *)
(***************************************************************************)
EXTENDS Server, ListLemmas

USE MaxFdAssumption, RequestsAssumption, CommandsAssumption
    DEF MaxFdAssumption, RequestsAssumption, CommandsAssumption

-----------------------------------------------------------------------------
(* The invariant. *)

(* At a call to a client, and then which client is served.                 *)
AtClient == pc \in {"recv_body", "send_len", "send_body"}
Held(c)  == AtClient /\ fds[cur] = c

(* The list and the counter, the watch set and the connections are those   *)
(* of the descriptors.                                                     *)
Books ==
  /\ n_clients = Len(clients)
  /\ \A i, j \in 1..Len(clients) : clients[i].fd = clients[j].fd => i = j
  /\ \A i \in 1..Len(clients) : clients[i].fd \in ClientFds
  /\ \A f \in ClientFds : \E i \in 1..Len(clients) : clients[i].fd = f
  /\ watched \ {STDIN, listener_fd} = ClientFds
  /\ \A f \in watched : f <= maxfd

Links ==
  /\ \A f \in ClientFds : link[fds[f]] = "up"
  /\ \A c \in Clients : link[c] = "up" => \E f \in ClientFds : fds[f] = c
  /\ \A f, g \in ClientFds : fds[f] = fds[g] => f = g

(* What waits to be accepted is queued, once.                              *)
Queued ==
  /\ \A i \in 1..Len(queue) : link[queue[i]] = "queued"
  /\ \A i, j \in 1..Len(queue) : queue[i] = queue[j] => i = j

(* The listener is where listener_fd says; once it is closed by a stop     *)
(* there are no clients, and the sweep is past the operator.               *)
ListenerKnown ==
  /\ is_listening => listener_fd \in DOMAIN fds /\ fds[listener_fd] = LISTENER
  /\ \A f \in DOMAIN fds : fds[f] = LISTENER => is_listening /\ f = listener_fd
  /\ ~is_listening /\ ~can_close => listener_fd = -1
  /\ can_close => ~is_listening /\ clients = <<>> /\ pc = "sweep" /\ cur >= 1

(* A client that is served is connected, and so is one still to be swept,  *)
(* which has something to be received.                                     *)
Sweeping ==
  /\ AtClient => cur \in ClientFds
  /\ \A f \in ready : f <= maxfd
  /\ pc # "select" => \A f \in ready \ {STDIN, listener_fd} :
       cur < f \/ (pc = "sweep" /\ cur = f) => f \in ClientFds /\ Readable(fds[f])

(* What a client does, what it has sent and what it has been sent agree,   *)
(* with where the server is.                                               *)
Talk(c) == <<cl[c], inbox[c], outbox[c]>>
Exchanging(c) ==
  Connected(c) =>
    /\ ~Held(c) =>
         Talk(c) \in {<<"idle", <<>>, 0>>, <<"half", <<"len">>, 0>>, <<"wait", <<"len", "body">>, 0>>,
                      <<"wait", <<>>, 0>>, <<"wait", <<>>, 2>>, <<"got_len", <<>>, 1>>}
    /\ Held(c) /\ pc = "recv_body" =>
         Talk(c) \in {<<"half", <<>>, 0>>, <<"wait", <<"body">>, 0>>}
    /\ Held(c) /\ pc = "send_len"  => Talk(c) = <<"wait", <<>>, 0>>
    /\ Held(c) /\ pc = "send_body" => Talk(c) \in {<<"wait", <<>>, 1>>, <<"got_len", <<>>, 0>>}
    /\ asked[c] \in IF cl[c] \in {"idle", "half"} THEN {"none"} ELSE Requests
Exchange == \A c \in Clients : Exchanging(c)

(* A client that is not connected starts afresh.                           *)
Fresh ==
  \A c \in Clients : link[c] = "none" =>
    peer[c] = "open" /\ Talk(c) = <<"idle", <<>>, 0>> /\ asked[c] = "none"

Inv ==
  /\ TypeOK /\ Fresh
  /\ Running => Books /\ Links /\ Queued /\ ListenerKnown /\ Sweeping /\ Exchange

-----------------------------------------------------------------------------
(* The parts of the invariant in use. *)

(* A client is not a listener, nor a socket that was lost.                 *)
LEMMA Kinds == LISTENER \notin Clients /\ LOST \notin Clients /\ LISTENER # LOST
  BY ClientsAssumption DEF ClientsAssumption, LISTENER, LOST

(* Descriptors are numbers.                                                *)
LEMMA Numbers ==
  ASSUME TypeOK
  PROVE  cur \in Nat /\ cur <= MaxFd + 1 /\ ready \subseteq 0..MaxFd /\ watched \subseteq 0..MaxFd
         /\ maxfd \in 0..MaxFd /\ DOMAIN fds \subseteq 3..MaxFd
  BY DEF TypeOK

(* The lowest free descriptor is free.                                     *)
LEMMA LowestFree ==
  ASSUME FreeFds # {}
  PROVE  Lowest \in 3..MaxFd /\ Lowest \notin DOMAIN fds
<1>1. FreeFds \in SUBSET Nat
  BY DEF FreeFds
<1>2. Lowest \in FreeFds
  BY <1>1, MinIsLeast DEF Lowest
<1> QED
  BY <1>2 DEF FreeFds

(* A sweep is at the first descriptor that is left of it.                  *)
LEMMA Swept ==
  ASSUME TypeOK, NEW fd, At(fd)
  PROVE  /\ pc = "sweep" /\ fd \in ready /\ fd \in 0..MaxFd /\ cur <= fd /\ fd <= maxfd
         /\ \A f \in ready : cur <= f /\ f <= maxfd => fd <= f
<1>1. ToSweep \in SUBSET Nat /\ ready \subseteq 0..MaxFd
  <2>1. ready \subseteq 0..MaxFd
    BY DEF TypeOK
  <2>2. ToSweep \subseteq ready
    BY DEF ToSweep
  <2> QED
    BY <2>1, <2>2
<1>2. pc = "sweep" /\ fd \in ToSweep /\ \A f \in ToSweep : fd <= f
  BY <1>1, MinIsLeast DEF At
<1> QED
  BY <1>1, <1>2 DEF ToSweep

(* The client that is swept is connected, and has something to receive.    *)
LEMMA ClientSwept ==
  ASSUME TypeOK, Sweeping, NEW fd, ClientAt(fd)
  PROVE  fd \in ClientFds /\ Readable(fds[fd])
<1>1. pc = "sweep" /\ fd \in ready \ {STDIN, listener_fd} /\ cur <= fd /\ cur \in Int /\ fd \in Int
  <2>1. At(fd) /\ fd \notin {STDIN, listener_fd}
    BY DEF ClientAt
  <2> QED
    BY <2>1, Swept DEF TypeOK
<1> QED
  BY <1>1 DEF Sweeping

(* The entry of a connected client is found by its descriptor.             *)
LEMMA Found ==
  ASSUME TypeOK, Books, NEW fd \in ClientFds
  PROVE  Find(fd) \in 1..Len(clients) /\ clients[Find(fd)].fd = fd
<1>1. \/ Find(fd) \in 1..Len(clients) /\ clients[Find(fd)].fd = fd
      \/ Find(fd) = 0 /\ \A j \in 1..Len(clients) : clients[j].fd # fd
  BY FindByFd, ZenonT(60) DEF Find, TypeOK
<1> QED
  BY <1>1 DEF Books

(* What a client's descriptor is: an open one, of a client.                *)
LEMMA ClientFd ==
  ASSUME TypeOK, NEW fd \in ClientFds
  PROVE  fd \in DOMAIN fds /\ fds[fd] \in Clients /\ fd \in 3..MaxFd
  BY DEF TypeOK, ClientFds

(* A list is the list of clients without that of a descriptor: each of its *)
(* entries was another one's, and no other is missing.                     *)
Lacks(shorter, fd) ==
  \E Old \in [1..Len(clients) - 1 -> 1..Len(clients)] :
    /\ \A i \in 1..Len(clients) - 1 : shorter[i] = clients[Old[i]] /\ Old[i] # Find(fd)
    /\ \A i, j \in 1..Len(clients) - 1 : Old[i] = Old[j] => i = j
    /\ \A m \in 1..Len(clients) : m # Find(fd) => \E i \in 1..Len(clients) - 1 : Old[i] = m

(* The list without the entry of a client: one less, the others stay.      *)
LEMMA ListShrinks ==
  ASSUME TypeOK, Books, NEW fd \in ClientFds
  PROVE  /\ ListRemove(fd) \in Seq([fd : 3..MaxFd, is_logged : BOOLEAN])
         /\ Len(ListRemove(fd)) = Len(clients) - 1 /\ Len(clients) \in Nat \ {0}
         /\ Lacks(ListRemove(fd), fd)
<1> DEFINE S == [fd : 3..MaxFd, is_logged : BOOLEAN]
           n == Len(clients)
           k == Find(fd)
           Old == [i \in 1..n - 1 |-> IF i < k THEN i ELSE i + 1]
<1>1. clients \in Seq(S) /\ n \in Nat
  BY DEF TypeOK
<1>2. k \in 1..n
  BY Found
<1>3. ListRemove(fd) = RemoveAt(clients, k)
  BY <1>2 DEF ListRemove
<1>4. /\ RemoveAt(clients, k) \in Seq(S)
      /\ Len(RemoveAt(clients, k)) = n - 1
      /\ \A j \in 1..n - 1 : RemoveAt(clients, k)[j] = clients[IF j < k THEN j ELSE j + 1]
  <2> HIDE DEF S, k
  <2> QED
    BY <1>1, <1>2, RemoveAtProperties
<1> HIDE DEF k, n
<1>5. Old \in [1..n - 1 -> 1..n]
  BY <1>1, <1>2
<1>6. \A i \in 1..n - 1 : RemoveAt(clients, k)[i] = clients[Old[i]] /\ Old[i] # k
  BY <1>1, <1>2, <1>4
<1>7. \A i, j \in 1..n - 1 : Old[i] = Old[j] => i = j
  BY <1>1, <1>2
<1>8. ASSUME NEW m \in 1..n, m # k PROVE \E i \in 1..n - 1 : Old[i] = m
  <2>1. CASE m < k
    <3>1. m \in 1..n - 1 /\ Old[m] = m
      BY <1>1, <1>2, <2>1
    <3> QED
      BY <3>1
  <2>2. CASE m > k
    <3>1. m - 1 \in 1..n - 1 /\ Old[m - 1] = m
      BY <1>1, <1>2, <2>2
    <3> QED
      BY <3>1
  <2> QED
    BY <1>1, <1>2, <1>8, <2>1, <2>2
<1> HIDE DEF Old
<1>9. n \in Nat \ {0}
  BY <1>1, <1>2
<1>10. Lacks(ListRemove(fd), fd)
  <2> SUFFICES \E o \in [1..n - 1 -> 1..n] :
                 /\ \A i \in 1..n - 1 : ListRemove(fd)[i] = clients[o[i]] /\ o[i] # k
                 /\ \A i, j \in 1..n - 1 : o[i] = o[j] => i = j
                 /\ \A m \in 1..n : m # k => \E i \in 1..n - 1 : o[i] = m
    BY DEF Lacks, k, n
  <2> WITNESS Old \in [1..n - 1 -> 1..n]
  <2> QED
    BY <1>3, <1>6, <1>7, <1>8
<1>11. ListRemove(fd) \in Seq(S) /\ Len(ListRemove(fd)) = n - 1
  BY <1>3, <1>4
<1> QED
  BY <1>9, <1>10, <1>11 DEF k, n

-----------------------------------------------------------------------------
(* What serving a client does to the others. *)

(* A client is being served: its descriptor is swept, or its request is    *)
(* received or answered.                                                   *)
Serving(fd) ==
  /\ fd \in ClientFds
  /\ (pc = "sweep" /\ cur <= fd) \/ (AtClient /\ cur = fd)

(* Nothing is received from another client, nor sent to it.                *)
OnlyServed(c) ==
  \A d \in Clients \ {c} : inbox'[d] = inbox[d] /\ peer'[d] = peer[d] /\ outbox'[d] = outbox[d]

(* What is open before a client is closed: as it was, but for a file that  *)
(* is left open.                                                           *)
Lost(open) ==
  /\ DOMAIN fds \subseteq DOMAIN open /\ DOMAIN open \subseteq 3..MaxFd
  /\ \A f \in DOMAIN open : IF f \in DOMAIN fds THEN open[f] = fds[f] ELSE open[f] = LOST

(* While a client is served the server has not been stopped, and the       *)
(* descriptor is not the listener's.                                       *)
LEMMA ServingRuns ==
  ASSUME Inv, Running, NEW fd, Serving(fd)
  PROVE  /\ TypeOK /\ Fresh /\ Books /\ Links /\ Queued /\ ListenerKnown /\ Sweeping /\ Exchange
         /\ ~can_close /\ fd \in 3..MaxFd /\ fd \in DOMAIN fds /\ fds[fd] \in Clients
         /\ fd # listener_fd /\ fd # STDIN /\ link[fds[fd]] = "up"
<1>1. TypeOK /\ Fresh /\ Books /\ Links /\ Queued /\ ListenerKnown /\ Sweeping /\ Exchange
  BY DEF Inv
<1>2. fd \in ClientFds /\ fd \in 3..MaxFd /\ fd \in DOMAIN fds /\ fds[fd] \in Clients
  BY <1>1, ClientFd DEF Serving
<1>3. clients # <<>>
  <2>1. PICK i \in 1..Len(clients) : clients[i].fd = fd
    BY <1>1, <1>2 DEF Books
  <2>2. Len(<<>>) = 0
    OBVIOUS
  <2> QED
    BY <2>1, <2>2
<1>4. ~can_close
  BY <1>1, <1>3 DEF ListenerKnown
<1>5. fd # listener_fd
  BY <1>1, <1>2, <1>4, Kinds DEF ListenerKnown
<1>6. fd # STDIN /\ link[fds[fd]] = "up"
  BY <1>1, <1>2 DEF Links, STDIN
<1> QED
  BY <1>1, <1>2, <1>4, <1>5, <1>6

(* Closing a client takes it, and nobody else, off every book; what is     *)
(* still to be swept is left as it was.                                    *)
LEMMA CloseKeeps ==
  ASSUME Inv, Running, NEW fd, Serving(fd), NEW open, Lost(open), CloseClient(fd, open),
         OnlyServed(fds[fd]), UNCHANGED <<cl, asked>>
  PROVE  /\ Books' /\ Links' /\ Queued' /\ ListenerKnown' /\ Sweeping' /\ Exchange' /\ Fresh'
<1> DEFINE c == fds[fd]
           n == Len(clients)
<1>1. /\ TypeOK /\ Fresh /\ Books /\ Links /\ Queued /\ ListenerKnown /\ Sweeping /\ Exchange
      /\ ~can_close /\ fd \in 3..MaxFd /\ fd \in DOMAIN fds /\ c \in Clients
      /\ fd # listener_fd /\ fd # STDIN /\ link[c] = "up"
  BY ServingRuns
<1>2. /\ pc' = "sweep" /\ cur' = fd + 1
      /\ fds' = [f \in DOMAIN open \ {fd} |-> open[f]]
      /\ watched' = watched \ {fd}
      /\ clients' = ListRemove(fd)
      /\ n_clients' = n_clients - 1
      /\ link' = [link EXCEPT ![c] = "closed"]
      /\ UNCHANGED <<ready, maxfd, is_listening, listener_fd, can_close, queue>>
  BY DEF CloseClient, Done
<1>3. fd \in ClientFds
  BY DEF Serving
<1> HIDE DEF c
<1>4. /\ DOMAIN fds' = DOMAIN open \ {fd}
      /\ \A f \in DOMAIN fds \ {fd} : f \in DOMAIN fds' /\ fds'[f] = fds[f]
      /\ \A f \in DOMAIN fds' : f \in DOMAIN fds \/ fds'[f] = LOST
  BY <1>2 DEF Lost
<1>5. ClientFds' = ClientFds \ {fd} /\ \A f \in ClientFds' : fds'[f] = fds[f]
  BY <1>4, Kinds DEF ClientFds
<1>6. \A d \in Clients : link'[d] = IF d = c THEN "closed" ELSE link[d]
  <2>1. link \in [Clients -> {"none", "queued", "up", "closed"}]
    BY <1>1 DEF TypeOK
  <2> QED
    BY <1>2, <2>1
<1>7. \A f \in ClientFds : fds[f] \in Clients /\ (fds[f] = c <=> f = fd)
  BY <1>1, <1>3 DEF Links, ClientFds, c
<1>8. Books'
  <2>1. PICK Old \in [1..n - 1 -> 1..n] :
          /\ \A i \in 1..n - 1 : clients'[i] = clients[Old[i]] /\ Old[i] # Find(fd)
          /\ \A i, j \in 1..n - 1 : Old[i] = Old[j] => i = j
          /\ \A m \in 1..n : m # Find(fd) => \E i \in 1..n - 1 : Old[i] = m
    <3>1. Lacks(clients', fd)
      BY <1>1, <1>2, <1>3, ListShrinks
    <3> QED
      BY <3>1 DEF Lacks
  <2>2. Len(clients') = n - 1 /\ n \in Nat \ {0}
    BY <1>1, <1>2, <1>3, ListShrinks
  <2>3. Find(fd) \in 1..n /\ clients[Find(fd)].fd = fd
    BY <1>1, <1>3, Found
  <2> HIDE DEF n
  <2>4. n_clients' = Len(clients')
    BY <1>1, <1>2, <2>2 DEF Books, n
  <2>5. \A i, j \in 1..Len(clients') : clients'[i].fd = clients'[j].fd => i = j
    <3> SUFFICES ASSUME NEW i \in 1..n - 1, NEW j \in 1..n - 1, clients'[i].fd = clients'[j].fd
                 PROVE  i = j
      BY <2>2
    <3>1. Old[i] \in 1..n /\ Old[j] \in 1..n /\ clients[Old[i]].fd = clients[Old[j]].fd
      BY <2>1
    <3>2. Old[i] = Old[j]
      BY <1>1, <3>1 DEF Books, n
    <3> QED
      BY <2>1, <3>2
  <2>6. \A i \in 1..Len(clients') : clients'[i].fd \in ClientFds'
    <3> SUFFICES ASSUME NEW i \in 1..n - 1 PROVE clients'[i].fd \in ClientFds'
      BY <2>2
    <3>1. Old[i] \in 1..n /\ clients'[i] = clients[Old[i]] /\ Old[i] # Find(fd)
      BY <2>1
    <3>2. clients[Old[i]].fd \in ClientFds
      BY <1>1, <3>1 DEF Books, n
    <3>3. clients[Old[i]].fd # fd
      BY <1>1, <2>3, <3>1 DEF Books, n
    <3> QED
      BY <1>5, <3>1, <3>2, <3>3
  <2>7. ASSUME NEW f \in ClientFds' PROVE \E i \in 1..Len(clients') : clients'[i].fd = f
    <3>1. f \in ClientFds /\ f # fd
      BY <1>5
    <3>2. PICK m \in 1..n : clients[m].fd = f
      BY <1>1, <3>1 DEF Books, n
    <3>3. PICK i \in 1..n - 1 : Old[i] = m
      BY <2>1, <2>3, <3>1, <3>2
    <3> QED
      BY <2>1, <2>2, <3>2, <3>3
  <2>8. watched' \ {STDIN, listener_fd'} = ClientFds'
    BY <1>1, <1>2, <1>5 DEF Books
  <2>9. \A f \in watched' : f <= maxfd'
    BY <1>1, <1>2 DEF Books
  <2> QED
    BY <2>4, <2>5, <2>6, <2>7, <2>8, <2>9 DEF Books
<1>9. Links'
  <2>1. \A f \in ClientFds' : link'[fds'[f]] = "up"
    BY <1>1, <1>5, <1>6, <1>7 DEF Links
  <2>2. ASSUME NEW d \in Clients, link'[d] = "up" PROVE \E f \in ClientFds' : fds'[f] = d
    <3>1. d # c /\ link[d] = "up"
      BY <1>6, <2>2
    <3>2. PICK f \in ClientFds : fds[f] = d
      BY <1>1, <3>1 DEF Links
    <3> QED
      BY <1>5, <1>7, <3>1, <3>2
  <2>3. \A f, g \in ClientFds' : fds'[f] = fds'[g] => f = g
    BY <1>1, <1>5 DEF Links
  <2> QED
    BY <2>1, <2>2, <2>3 DEF Links
<1>10. Queued'
  <2>1. \A i \in 1..Len(queue) : queue[i] \in Clients
    BY <1>1, ElementOfSeq DEF TypeOK
  <2> QED
    BY <1>1, <1>2, <1>6, <2>1 DEF Queued
<1>11. ListenerKnown'
  <2>1. /\ is_listening => listener_fd \in DOMAIN fds /\ fds[listener_fd] = LISTENER
        /\ \A f \in DOMAIN fds : fds[f] = LISTENER => is_listening /\ f = listener_fd
        /\ ~is_listening => listener_fd = -1
    BY <1>1 DEF ListenerKnown
  <2>2. is_listening' => listener_fd' \in DOMAIN fds' /\ fds'[listener_fd'] = LISTENER
    BY <1>1, <1>2, <1>4, <2>1
  <2>3. \A f \in DOMAIN fds' : fds'[f] = LISTENER => is_listening' /\ f = listener_fd'
    BY <1>2, <1>4, <2>1, Kinds DEF Lost
  <2> QED
    BY <1>1, <1>2, <2>1, <2>2, <2>3 DEF ListenerKnown
<1>12. Sweeping'
  <2>1. ASSUME NEW f \in ready \ {STDIN, listener_fd}, fd + 1 <= f
        PROVE  f \in ClientFds' /\ (Readable(fds[f]))'
    <3>1. f \in Int /\ fd \in Int /\ cur \in Int
      BY Numbers, <1>1
    <3>2. cur < f /\ f # fd /\ pc # "select"
      BY <2>1, <3>1 DEF Serving, AtClient
    <3>3. f \in ClientFds /\ Readable(fds[f])
      BY <1>1, <3>2 DEF Sweeping
    <3>4. fds[f] \in Clients \ {c} /\ f \in ClientFds' /\ fds'[f] = fds[f]
      BY <1>5, <1>7, <3>2, <3>3
    <3>5. inbox'[fds[f]] = inbox[fds[f]] /\ peer'[fds[f]] = peer[fds[f]]
      BY <3>4 DEF OnlyServed, c
    <3> QED
      BY <3>3, <3>4, <3>5 DEF Readable
  <2>2. ready \subseteq Int /\ fd + 1 \in Int
    BY <1>1 DEF TypeOK
  <2>3. \A f \in ready : cur' < f \/ cur' = f => fd + 1 <= f
    BY <1>2, <2>2
  <2>4. ~AtClient'
    BY <1>2 DEF AtClient
  <2> QED
    BY <1>1, <1>2, <2>1, <2>3, <2>4 DEF Sweeping
<1>13. Exchange'
  <2> SUFFICES ASSUME NEW d \in Clients, Connected(d)' PROVE Exchanging(d)'
    BY DEF Exchange, Exchanging
  <2>1. d # c /\ link'[d] = link[d]
    BY <1>6 DEF Connected
  <2>2. inbox'[d] = inbox[d] /\ peer'[d] = peer[d] /\ outbox'[d] = outbox[d]
    BY <2>1 DEF OnlyServed, c
  <2>3. ~Held(d) /\ ~Held(d)'
    BY <1>2, <2>1 DEF Held, AtClient, Serving, c
  <2>4. Connected(d) /\ Exchanging(d)
    BY <1>1, <2>1, <2>2 DEF Connected, Exchange
  <2> QED
    BY <2>1, <2>2, <2>3, <2>4 DEF Exchanging, Talk
<1>14. Fresh'
  <2> SUFFICES ASSUME NEW d \in Clients, link'[d] = "none"
               PROVE  peer'[d] = "open" /\ Talk(d)' = <<"idle", <<>>, 0>> /\ asked'[d] = "none"
    BY DEF Fresh
  <2>1. d # c /\ link[d] = "none"
    BY <1>6
  <2>2. inbox'[d] = inbox[d] /\ peer'[d] = peer[d] /\ outbox'[d] = outbox[d]
    BY <2>1 DEF OnlyServed, c
  <2> QED
    BY <1>1, <2>1, <2>2 DEF Fresh, Talk
<1> QED
  BY <1>8, <1>9, <1>10, <1>11, <1>12, <1>13, <1>14

(* Going on with a client that stays changes no book, nor what the others  *)
(* and the server have to say to each other.                               *)
LEMMA ServeKeeps ==
  ASSUME Inv, Running, NEW fd, Serving(fd), UNCHANGED Rest, OnlyServed(fds[fd]),
         \/ pc' \in {"recv_body", "send_len", "send_body"} /\ cur' = fd
         \/ Done(fd),
         Len(clients') = Len(clients),
         \A i \in 1..Len(clients) : clients'[i].fd = clients[i].fd
  PROVE  /\ Books' /\ Links' /\ Queued' /\ ListenerKnown' /\ Sweeping' /\ Fresh'
         /\ \A d \in Clients \ {fds[fd]} : Exchanging(d)'
<1> DEFINE c == fds[fd]
<1>1. /\ TypeOK /\ Fresh /\ Books /\ Links /\ Queued /\ ListenerKnown /\ Sweeping /\ Exchange
      /\ ~can_close /\ fd \in 3..MaxFd /\ fd \in DOMAIN fds /\ c \in Clients
      /\ fd # listener_fd /\ fd # STDIN /\ link[c] = "up"
  BY ServingRuns
<1>2. UNCHANGED <<ready, watched, maxfd, n_clients, is_listening, listener_fd, can_close,
                  fds, queue, link, cl, asked>>
  BY DEF Rest
<1>3. fd \in ClientFds
  BY DEF Serving
<1> HIDE DEF c
<1>4. ClientFds' = ClientFds
  BY <1>2 DEF ClientFds
<1>5. Books'
  <2>1. /\ n_clients' = Len(clients')
        /\ \A i, j \in 1..Len(clients') : clients'[i].fd = clients'[j].fd => i = j
        /\ \A i \in 1..Len(clients') : clients'[i].fd \in ClientFds'
    BY <1>1, <1>2, <1>4 DEF Books
  <2>2. \A f \in ClientFds' : \E i \in 1..Len(clients') : clients'[i].fd = f
    BY <1>1, <1>4 DEF Books
  <2>3. watched' \ {STDIN, listener_fd'} = ClientFds' /\ \A f \in watched' : f <= maxfd'
    BY <1>1, <1>2, <1>4 DEF Books
  <2> QED
    BY <2>1, <2>2, <2>3 DEF Books
<1>6. Links' /\ Queued'
  BY <1>1, <1>2, <1>4 DEF Links, Queued
<1>7. ListenerKnown'
  BY <1>1, <1>2 DEF ListenerKnown
<1>8. (AtClient' /\ cur' = fd) \/ (pc' = "sweep" /\ cur' = fd + 1 /\ ~AtClient')
  BY DEF AtClient, Done
<1>9. \A f \in ClientFds : fds[f] \in Clients /\ (fds[f] = c <=> f = fd)
  BY <1>1, <1>3 DEF Links, ClientFds, c
<1>10. Sweeping'
  <2>1. ASSUME NEW f \in ready \ {STDIN, listener_fd}, fd < f
        PROVE  f \in ClientFds' /\ (Readable(fds[f]))'
    <3>1. f \in Int /\ fd \in Int /\ cur \in Int
      BY Numbers, <1>1
    <3>2. cur < f /\ f # fd /\ pc # "select"
      BY <2>1, <3>1 DEF Serving, AtClient
    <3>3. f \in ClientFds /\ Readable(fds[f])
      BY <1>1, <3>2 DEF Sweeping
    <3>4. fds[f] \in Clients \ {c} /\ f \in ClientFds' /\ fds'[f] = fds[f]
      BY <1>2, <1>4, <1>9, <3>2, <3>3
    <3>5. inbox'[fds[f]] = inbox[fds[f]] /\ peer'[fds[f]] = peer[fds[f]]
      BY <3>4 DEF OnlyServed, c
    <3> QED
      BY <3>3, <3>4, <3>5 DEF Readable
  <2>2. ready \subseteq Int /\ fd \in Int
    BY Numbers, <1>1
  <2>3. \A f \in ready : cur' < f \/ (pc' = "sweep" /\ cur' = f) => fd < f
    <3>1. CASE AtClient' /\ cur' = fd
      BY <2>2, <3>1 DEF AtClient
    <3>2. CASE cur' = fd + 1
      BY <2>2, <3>2
    <3> QED
      BY <1>8, <3>1, <3>2
  <2>4. AtClient' => cur' \in ClientFds'
    BY <1>3, <1>4, <1>8
  <2> QED
    BY <1>1, <1>2, <2>1, <2>3, <2>4 DEF Sweeping
<1>11. ASSUME NEW d \in Clients \ {c} PROVE Exchanging(d)'
  <2>1. /\ inbox'[d] = inbox[d] /\ peer'[d] = peer[d] /\ outbox'[d] = outbox[d]
        /\ link'[d] = link[d] /\ cl'[d] = cl[d] /\ asked'[d] = asked[d]
    BY <1>2 DEF OnlyServed, c
  <2>2. ~Held(d) /\ ~Held(d)'
    BY <1>2, <1>8 DEF Held, AtClient, Serving, c
  <2>3. Exchanging(d)
    BY <1>1 DEF Exchange
  <2> QED
    BY <2>1, <2>2, <2>3 DEF Exchanging, Talk, Connected
<1>12. Fresh'
  <2> SUFFICES ASSUME NEW d \in Clients, link'[d] = "none"
               PROVE  peer'[d] = "open" /\ Talk(d)' = <<"idle", <<>>, 0>> /\ asked'[d] = "none"
    BY DEF Fresh
  <2>1. d # c /\ link[d] = "none"
    BY <1>1, <1>2
  <2>2. inbox'[d] = inbox[d] /\ peer'[d] = peer[d] /\ outbox'[d] = outbox[d]
    BY <2>1 DEF OnlyServed, c
  <2> QED
    BY <1>1, <1>2, <2>1, <2>2 DEF Fresh, Talk
<1> QED
  BY <1>5, <1>6, <1>7, <1>10, <1>11, <1>12 DEF c

-----------------------------------------------------------------------------
(* Serving a client. *)

(* The messages' parts, one by one.                                        *)
LEMMA Parts ==
  /\ Tail(<<"len">>) = <<>> /\ Tail(<<"len", "body">>) = <<"body">> /\ Tail(<<"body">>) = <<>>
  /\ Append(<<>>, "len") = <<"len">> /\ Append(<<"len">>, "body") = <<"len", "body">>
  /\ Append(<<>>, "body") = <<"body">>
  /\ <<"len">> # <<>> /\ <<"body">> # <<>> /\ <<"len", "body">> # <<>>
<1>1. Tail(<<"len">>) = <<>> /\ Tail(<<"body">>) = <<>>
  OBVIOUS
<1>2. Tail(<<"len", "body">>) = <<"body">>
  OBVIOUS
<1>3. Append(<<>>, "len") = <<"len">> /\ Append(<<>>, "body") = <<"body">>
  OBVIOUS
<1>4. Append(<<"len">>, "body") = <<"len", "body">>
  <2> DEFINE s == Append(<<"len">>, "body")
  <2>1. <<"len">> \in Seq({"len", "body"}) /\ <<"len", "body">> \in Seq({"len", "body"})
    OBVIOUS
  <2>2. s \in Seq({"len", "body"}) /\ Len(s) = 2 /\ s[1] = "len" /\ s[2] = "body"
    BY <2>1
  <2>3. \A i \in 1..Len(s) : s[i] = <<"len", "body">>[i]
    BY <2>2
  <2> HIDE DEF s
  <2>4. Len(<<"len", "body">>) = 2
    OBVIOUS
  <2> QED
    BY <2>1, <2>2, <2>3, <2>4, SeqEqual DEF s
<1>5. <<"len">> # <<>> /\ <<"body">> # <<>> /\ <<"len", "body">> # <<>>
  OBVIOUS
<1> QED
  BY <1>1, <1>2, <1>3, <1>4, <1>5

(* The types of what one step with a client changes.                       *)
LEMMA ServeTyped ==
  ASSUME TypeOK, NEW c \in Clients,
         pc' \in {"select", "sweep", "recv_body", "send_len", "send_body", "exit", "killed"},
         cur' \in 0..MaxFd + 1,
         clients' \in Seq([fd : 3..MaxFd, is_logged : BOOLEAN]),
         n_clients' \in Nat, watched' \subseteq 0..MaxFd,
         DOMAIN fds' \subseteq 3..MaxFd,
         \A f \in DOMAIN fds' : fds'[f] \in Clients \cup {LISTENER, LOST},
         link' \in [Clients -> {"none", "queued", "up", "closed"}],
         inbox' \in [Clients -> Seq({"len", "body"})],
         peer' \in [Clients -> {"open", "fin", "rst", "pipe"}],
         outbox' \in [Clients -> 0..2],
         UNCHANGED <<maxfd, ready, is_listening, listener_fd, can_close, queue, stdin, cl, asked>>
  PROVE  TypeOK'
  BY DEF TypeOK

(* What keeps the invariant while a client that stays is served.           *)
LEMMA ServeStep ==
  ASSUME Inv, Running, NEW fd, Serving(fd), NEW c \in Clients, c = fds[fd],
         UNCHANGED Rest, OnlyServed(c),
         \/ pc' \in {"recv_body", "send_len", "send_body"} /\ cur' = fd
         \/ Done(fd),
         clients' \in Seq([fd : 3..MaxFd, is_logged : BOOLEAN]),
         Len(clients') = Len(clients),
         \A i \in 1..Len(clients) : clients'[i].fd = clients[i].fd,
         inbox' \in [Clients -> Seq({"len", "body"})],
         peer' \in [Clients -> {"open", "fin", "rst", "pipe"}],
         outbox' \in [Clients -> 0..2],
         Exchanging(c)'
  PROVE  Inv'
<1>1. TypeOK /\ fd \in 3..MaxFd /\ fds[fd] \in Clients
  BY ServingRuns
<1>2. UNCHANGED <<ready, watched, maxfd, n_clients, is_listening, listener_fd,
                  can_close, fds, queue, link, cl, asked, stdin>>
  BY DEF Rest
<1>3. TypeOK'
  <2>1. /\ pc' \in {"recv_body", "send_len", "send_body", "sweep"}
        /\ cur' \in 0..MaxFd + 1
    BY <1>1 DEF Done
  <2>2. /\ n_clients' \in Nat /\ watched' \subseteq 0..MaxFd /\ DOMAIN fds' \subseteq 3..MaxFd
        /\ link' \in [Clients -> {"none", "queued", "up", "closed"}]
        /\ \A f \in DOMAIN fds' : fds'[f] \in Clients \cup {LISTENER, LOST}
    BY <1>1, <1>2 DEF TypeOK
  <2> QED
    BY <1>1, <1>2, <2>1, <2>2, ServeTyped
<1>4. /\ Books' /\ Links' /\ Queued' /\ ListenerKnown' /\ Sweeping' /\ Fresh'
      /\ \A d \in Clients \ {c} : Exchanging(d)'
  BY ServeKeeps
<1>5. Exchange'
  BY <1>4 DEF Exchange
<1> QED
  BY <1>3, <1>4, <1>5 DEF Inv

(* What keeps it when the client is closed.                                *)
LEMMA CloseStep ==
  ASSUME Inv, Running, NEW fd, Serving(fd), NEW open, Lost(open), CloseClient(fd, open),
         OnlyServed(fds[fd]),
         inbox' \in [Clients -> Seq({"len", "body"})],
         peer' \in [Clients -> {"open", "fin", "rst", "pipe"}],
         outbox' \in [Clients -> 0..2]
  PROVE  Inv'
<1>1. TypeOK /\ Books /\ fd \in 3..MaxFd /\ fds[fd] \in Clients /\ fd \in ClientFds
  BY ServingRuns DEF Serving
<1>2. /\ pc' = "sweep" /\ cur' = fd + 1
      /\ fds' = [f \in DOMAIN open \ {fd} |-> open[f]]
      /\ watched' = watched \ {fd}
      /\ clients' = ListRemove(fd)
      /\ n_clients' = n_clients - 1
      /\ link' = [link EXCEPT ![fds[fd]] = "closed"]
      /\ UNCHANGED <<ready, maxfd, is_listening, listener_fd, can_close, queue, stdin, cl, asked>>
  BY DEF CloseClient, Done
<1>3. TypeOK'
  <2>1. n_clients = Len(clients)
    BY <1>1 DEF Books
  <2>2. clients' \in Seq([fd : 3..MaxFd, is_logged : BOOLEAN]) /\ n_clients' \in Nat
    <3>1. ListRemove(fd) \in Seq([fd : 3..MaxFd, is_logged : BOOLEAN]) /\ Len(clients) \in Nat \ {0}
      BY <1>1, ListShrinks
    <3> QED
      BY <1>2, <2>1, <3>1
  <2>3. /\ DOMAIN fds' \subseteq 3..MaxFd
        /\ \A f \in DOMAIN fds' : fds'[f] \in Clients \cup {LISTENER, LOST}
    <3>1. \A f \in DOMAIN fds : fds[f] \in Clients \cup {LISTENER, LOST}
      BY <1>1 DEF TypeOK
    <3> QED
      BY <1>2, <3>1 DEF Lost
  <2>4. link' \in [Clients -> {"none", "queued", "up", "closed"}] /\ watched' \subseteq 0..MaxFd
    <3>1. link \in [Clients -> {"none", "queued", "up", "closed"}]
      BY <1>1 DEF TypeOK
    <3> QED
      BY <1>1, <1>2, <3>1, Numbers
  <2>5. cur' \in 0..MaxFd + 1
    BY <1>1, <1>2
  <2> QED
    BY <1>1, <1>2, <2>2, <2>3, <2>4, <2>5, ServeTyped
<1>4. Books' /\ Links' /\ Queued' /\ ListenerKnown' /\ Sweeping' /\ Exchange' /\ Fresh'
  BY <1>2, CloseKeeps
<1> QED
  BY <1>3, <1>4 DEF Inv

(* The first recv on a client.                                             *)
LEMMA RecvLenStep ==
  ASSUME Inv, Running, NEW fd, RecvLen(fd)
  PROVE  Inv'
<1>1. TypeOK /\ Sweeping /\ ClientAt(fd)
  BY DEF Inv, RecvLen
<1>2. Serving(fd) /\ pc = "sweep"
  <2>1. fd \in ClientFds /\ At(fd)
    BY <1>1, ClientSwept DEF ClientAt
  <2> QED
    BY <1>1, <2>1, Swept DEF Serving
<1> PICK c \in Clients : c = fds[fd]
  BY <1>2, ServingRuns
<1>3. /\ Exchange
      /\ inbox \in [Clients -> Seq({"len", "body"})]
      /\ peer \in [Clients -> {"open", "fin", "rst", "pipe"}]
      /\ outbox \in [Clients -> 0..2]
      /\ clients \in Seq([fd : 3..MaxFd, is_logged : BOOLEAN])
  BY <1>2, ServingRuns DEF TypeOK
<1>4. CASE /\ inbox[c] # <<>>
           /\ inbox' = [inbox EXCEPT ![c] = Tail(@)]
           /\ pc' = "recv_body" /\ cur' = fd
           /\ UNCHANGED <<clients, peer, outbox>> /\ UNCHANGED Rest
  <2>1. inbox' \in [Clients -> Seq({"len", "body"})]
    BY <1>3, <1>4
  <2>2. OnlyServed(c)
    BY <1>3, <1>4 DEF OnlyServed
  <2>3. Exchanging(c)'
    <3>1. inbox'[c] = Tail(inbox[c])
      BY <1>3, <1>4
    <3>2. UNCHANGED <<link, peer, cl, asked, outbox, fds>>
      BY <1>4 DEF Rest
    <3>3. Exchanging(c) /\ ~Held(c)
      BY <1>2, <1>3 DEF Exchange, Held, AtClient
    <3>4. Held(c)' /\ pc' = "recv_body"
      BY <1>4, <3>2 DEF Held, AtClient
    <3> QED
      BY <1>4, <3>1, <3>2, <3>3, <3>4, Parts DEF Exchanging, Talk, Connected
  <2> QED
    BY <1>2, <1>3, <1>4, <2>1, <2>2, <2>3, ServeStep
<1>5. CASE /\ inbox[c] = <<>> /\ peer[c] # "open"
           /\ CloseClient(fd, fds)
           /\ UNCHANGED <<peer, inbox, outbox>>
  <2>1. Lost(fds)
    BY <1>1, Numbers DEF Lost
  <2>2. OnlyServed(c)
    BY <1>5 DEF OnlyServed
  <2> QED
    BY <1>2, <1>3, <1>5, <2>1, <2>2, CloseStep
<1>6. CASE /\ inbox[c] = <<>> /\ peer[c] = "rst"
           /\ peer' = [peer EXCEPT ![c] = "pipe"]
           /\ pc' = "recv_body" /\ cur' = fd
           /\ UNCHANGED <<clients, inbox, outbox>> /\ UNCHANGED Rest
  <2>1. peer' \in [Clients -> {"open", "fin", "rst", "pipe"}] /\ peer'[c] = "pipe"
    BY <1>3, <1>6
  <2>2. OnlyServed(c)
    BY <1>3, <1>6 DEF OnlyServed
  <2>3. Exchanging(c)'
    BY <2>1 DEF Exchanging, Connected
  <2> QED
    BY <1>2, <1>3, <1>6, <2>1, <2>2, <2>3, ServeStep
<1> QED
  BY <1>4, <1>5, <1>6 DEF RecvLen

(* A login or a logout changes an entry but not whose it is.               *)
LEMMA SetLoggedKeeps ==
  ASSUME TypeOK, Books, NEW fd \in ClientFds, NEW values \in SUBSET BOOLEAN,
         SetLogged(fd, values)
  PROVE  /\ clients' \in Seq([fd : 3..MaxFd, is_logged : BOOLEAN])
         /\ Len(clients') = Len(clients)
         /\ \A i \in 1..Len(clients) : clients'[i].fd = clients[i].fd
         /\ \E v \in values : clients'[Find(fd)].is_logged = v
         /\ \A i \in 1..Len(clients) : i # Find(fd) => clients'[i] = clients[i]
<1> DEFINE S == [fd : 3..MaxFd, is_logged : BOOLEAN]
<1>1. PICK k \in 1..Len(clients) : k = Find(fd)
  BY Found
<1>2. PICK v \in values : clients' = [clients EXCEPT ![k].is_logged = v]
  BY <1>1 DEF SetLogged
<1>3. clients \in Seq(S)
  BY DEF TypeOK
<1>4. clients[k] \in S
  BY <1>1, <1>3, ElementOfSeq
<1>5. PICK e \in S : e = [clients[k] EXCEPT !.is_logged = v] /\ e.fd = clients[k].fd /\ e.is_logged = v
  <2>1. /\ [clients[k] EXCEPT !.is_logged = v] \in S
        /\ [clients[k] EXCEPT !.is_logged = v].fd = clients[k].fd
        /\ [clients[k] EXCEPT !.is_logged = v].is_logged = v
    BY <1>4
  <2> HIDE DEF S
  <2> QED
    BY <2>1
<1> HIDE DEF S
<1>6. clients' = [clients EXCEPT ![k] = e]
  BY <1>2, <1>5
<1>7. /\ clients' \in Seq(S) /\ Len(clients') = Len(clients)
      /\ \A i \in 1..Len(clients) : clients'[i] = IF i = k THEN e ELSE clients[i]
  BY <1>3, <1>6, ExceptSeq
<1> QED
  BY <1>1, <1>5, <1>7 DEF S

(* The descriptors that are open, with a file that is left open or not.    *)
LEMMA LostOrNot ==
  ASSUME TypeOK
  PROVE  /\ Lost(fds)
         /\ FreeFds # {} => Lost([f \in DOMAIN fds \cup {Lowest} |->
                                    IF f = Lowest THEN LOST ELSE fds[f]])
  BY LowestFree, Numbers DEF Lost

(* Receiving the body and executing the request.                           *)
LEMMA RecvBodyStep ==
  ASSUME Inv, Running, RecvBody
  PROVE  Inv'
<1>1. TypeOK /\ Sweeping /\ pc = "recv_body"
  BY DEF Inv, RecvBody
<1> PICK fd : fd = cur
  OBVIOUS
<1>2. Serving(fd) /\ fd \in ClientFds
  BY <1>1 DEF Serving, Sweeping, AtClient
<1> PICK c \in Clients : c = fds[fd]
  BY <1>2, ServingRuns
<1>3. /\ Exchange /\ Books
      /\ inbox \in [Clients -> Seq({"len", "body"})]
      /\ peer \in [Clients -> {"open", "fin", "rst", "pipe"}]
      /\ outbox \in [Clients -> 0..2]
      /\ clients \in Seq([fd : 3..MaxFd, is_logged : BOOLEAN])
  BY <1>2, ServingRuns DEF TypeOK
<1>4. CASE /\ inbox[c] # <<>>
           /\ inbox' = [inbox EXCEPT ![c] = Tail(@)]
           /\ Execute(fd, asked[c])
           /\ UNCHANGED <<peer, outbox>>
  <2>1. inbox' \in [Clients -> Seq({"len", "body"})] /\ inbox'[c] = Tail(inbox[c])
    BY <1>3, <1>4
  <2>2. OnlyServed(c)
    BY <1>3, <1>4 DEF OnlyServed
  <2>3. CASE /\ \/ SetLogged(fd, BOOLEAN) \/ SetLogged(fd, {FALSE})
                \/ UNCHANGED clients
             /\ pc' = "send_len" \/ Done(fd)
             /\ pc' = "send_len" => cur' = fd
             /\ UNCHANGED Rest
    <3>1. /\ clients' \in Seq([fd : 3..MaxFd, is_logged : BOOLEAN])
          /\ Len(clients') = Len(clients)
          /\ \A i \in 1..Len(clients) : clients'[i].fd = clients[i].fd
      BY <1>1, <1>2, <1>3, <2>3, SetLoggedKeeps
    <3>2. Exchanging(c)'
      <4> SUFFICES ASSUME Connected(c)' PROVE Exchanging(c)'
        BY DEF Exchanging
      <4>1. UNCHANGED <<link, peer, cl, asked, outbox, fds>>
        BY <1>4, <2>3 DEF Rest
      <4>2. Exchanging(c) /\ Held(c) /\ Connected(c)
        BY <1>1, <1>3, <4>1 DEF Exchange, Held, AtClient, Connected
      <4>3. cl[c] = "wait" /\ inbox[c] = <<"body">> /\ outbox[c] = 0 /\ asked[c] \in Requests
        BY <1>1, <1>4, <4>2 DEF Exchanging, Talk
      <4>4. Talk(c)' = <<"wait", <<>>, 0>> /\ asked'[c] = asked[c]
        BY <2>1, <4>1, <4>3, Parts DEF Talk
      <4>5. pc' \in {"send_len", "sweep"} /\ (pc' = "send_len" => Held(c)') /\ (pc' = "sweep" => ~Held(c)')
        BY <2>3, <4>1 DEF Done, Held, AtClient
      <4> QED
        BY <4>1, <4>3, <4>4, <4>5 DEF Exchanging
    <3>3. (pc' \in {"recv_body", "send_len", "send_body"} /\ cur' = fd) \/ Done(fd)
      BY <2>3
    <3> QED
      BY <1>2, <1>3, <1>4, <2>1, <2>2, <2>3, <3>1, <3>2, <3>3, ServeStep
  <2>4. CASE CloseClient(fd, fds)
    BY <1>1, <1>2, <1>3, <1>4, <2>1, <2>2, <2>4, LostOrNot, CloseStep
  <2>5. CASE /\ FreeFds # {}
             /\ CloseClient(fd, [f \in DOMAIN fds \cup {Lowest} |->
                                   IF f = Lowest THEN LOST ELSE fds[f]])
    <3>1. PICK open : /\ open = [f \in DOMAIN fds \cup {Lowest} |->
                                   IF f = Lowest THEN LOST ELSE fds[f]]
                      /\ Lost(open) /\ CloseClient(fd, open)
      BY <1>1, <2>5, LostOrNot
    <3> QED
      BY <1>2, <1>3, <1>4, <2>1, <2>2, <3>1, CloseStep
  <2>6. \/ /\ SetLogged(fd, BOOLEAN) \/ SetLogged(fd, {FALSE}) \/ UNCHANGED clients
           /\ pc' = "send_len" /\ UNCHANGED cur /\ UNCHANGED Rest
        \/ Done(fd) /\ UNCHANGED clients /\ UNCHANGED Rest
        \/ CloseClient(fd, fds)
        \/ /\ FreeFds # {}
           /\ CloseClient(fd, [f \in DOMAIN fds \cup {Lowest} |->
                                 IF f = Lowest THEN LOST ELSE fds[f]])
    BY <1>4 DEF Execute
  <2>7. Done(fd) => pc' # "send_len"
    BY DEF Done
  <2> QED
    BY <2>3, <2>4, <2>5, <2>6, <2>7
<1>5. CASE /\ inbox[c] = <<>> /\ peer[c] # "open"
           /\ CloseClient(fd, fds)
           /\ UNCHANGED <<peer, inbox, outbox>>
  <2>1. OnlyServed(c)
    BY <1>5 DEF OnlyServed
  <2> QED
    BY <1>1, <1>2, <1>3, <1>5, <2>1, LostOrNot, CloseStep
<1>6. Find(fd) # 0
  BY <1>1, <1>2, <1>3, Found
<1> QED
  BY <1>4, <1>5, <1>6 DEF RecvBody

(* The process ends, with its connections.                                 *)
LEMMA EndStep ==
  ASSUME Inv, NEW how \in {"exit", "killed"}, End(how)
  PROVE  Inv' /\ ~Running'
<1>1. /\ TypeOK /\ Fresh /\ pc' = how /\ fds' = <<>> /\ queue' = <<>>
      /\ link' = [c \in Clients |-> IF link[c] = "none" THEN "none" ELSE "closed"]
      /\ UNCHANGED <<cur, ready, watched, maxfd, clients, n_clients, is_listening,
                     listener_fd, can_close, peer, inbox, outbox, cl, asked, stdin>>
  BY DEF Inv, End
<1>2. TypeOK'
  <2>1. /\ pc' \in {"select", "sweep", "recv_body", "send_len", "send_body", "exit", "killed"}
        /\ DOMAIN fds' = {} /\ queue' \in Seq(Clients)
        /\ link' \in [Clients -> {"none", "queued", "up", "closed"}]
    BY <1>1
  <2> QED
    BY <1>1, <2>1 DEF TypeOK
<1>3. Fresh'
  BY <1>1 DEF Fresh, Talk
<1>4. ~Running'
  BY <1>1 DEF Running
<1> QED
  BY <1>2, <1>3, <1>4 DEF Inv

(* Sending a part of the reply.                                            *)
LEMMA SendStep ==
  ASSUME Inv, Running, SendLen \/ SendBody
  PROVE  Inv'
<1>1. TypeOK /\ Sweeping /\ pc \in {"send_len", "send_body"}
  BY DEF Inv, SendLen, SendBody
<1> PICK fd : fd = cur
  OBVIOUS
<1>2. Serving(fd) /\ fd \in ClientFds
  BY <1>1 DEF Serving, Sweeping, AtClient
<1> PICK c \in Clients : c = fds[fd]
  BY <1>2, ServingRuns
<1>3. /\ Exchange /\ Books /\ link[c] = "up"
      /\ inbox \in [Clients -> Seq({"len", "body"})]
      /\ peer \in [Clients -> {"open", "fin", "rst", "pipe"}]
      /\ outbox \in [Clients -> 0..2]
      /\ clients \in Seq([fd : 3..MaxFd, is_logged : BOOLEAN])
  BY <1>2, ServingRuns DEF TypeOK
<1>4. Held(c) /\ Exchanging(c)
  BY <1>1, <1>3 DEF Held, AtClient, Exchange
<1>5. CASE /\ Delivered(c)
           /\ \/ pc = "send_len" /\ pc' = "send_body" /\ UNCHANGED cur
              \/ pc = "send_body" /\ Done(fd)
           /\ UNCHANGED <<clients, inbox>> /\ UNCHANGED Rest
  <2>1. UNCHANGED <<link, cl, asked, inbox, fds>>
    BY <1>5 DEF Rest
  <2>2. (pc' = "send_body" /\ Held(c)') \/ (pc = "send_body" /\ pc' = "sweep" /\ ~Held(c)')
    BY <1>5, <2>1 DEF Done, Held, AtClient
  <2>3. CASE peer[c] = "open" /\ outbox' = [outbox EXCEPT ![c] = @ + 1] /\ UNCHANGED peer
    <3>1. Connected(c)
      BY <1>3, <2>3 DEF Connected
    <3>2. /\ outbox[c] \in 0..1 /\ inbox[c] = <<>> /\ asked[c] \in Requests
          /\ \/ pc = "send_len" /\ cl[c] = "wait" /\ outbox[c] = 0
             \/ pc = "send_body" /\ cl[c] = "wait" /\ outbox[c] = 1
             \/ pc = "send_body" /\ cl[c] = "got_len" /\ outbox[c] = 0
      BY <1>1, <1>4, <3>1 DEF Exchanging, Talk
    <3>3. outbox' \in [Clients -> 0..2] /\ outbox'[c] = outbox[c] + 1
      BY <1>3, <2>3, <3>2
    <3>4. OnlyServed(c)
      BY <1>3, <1>5, <2>3 DEF OnlyServed
    <3>5. Exchanging(c)'
      <4>1. CASE pc = "send_len"
        <5>1. pc' = "send_body" /\ Held(c)'
          BY <2>2, <4>1
        <5>2. Talk(c)' = <<"wait", <<>>, 1>>
          BY <2>1, <3>2, <3>3, <4>1 DEF Talk
        <5> QED
          BY <2>1, <3>2, <4>1, <5>1, <5>2 DEF Exchanging
      <4>2. CASE pc = "send_body"
        <5>1. pc' = "sweep" /\ ~Held(c)'
          BY <1>5, <2>2, <4>2 DEF Done
        <5>2. Talk(c)' \in {<<"wait", <<>>, 2>>, <<"got_len", <<>>, 1>>}
          BY <2>1, <3>2, <3>3, <4>2 DEF Talk
        <5> QED
          BY <2>1, <3>2, <4>2, <5>1, <5>2 DEF Exchanging
      <4> QED
        BY <1>1, <4>1, <4>2
    <3> QED
      BY <1>2, <1>3, <1>5, <2>3, <3>3, <3>4, <3>5, ServeStep
  <2>4. CASE peer[c] = "fin" /\ peer' \in {peer, [peer EXCEPT ![c] = "pipe"]} /\ UNCHANGED outbox
    <3>1. peer' \in [Clients -> {"open", "fin", "rst", "pipe"}] /\ peer'[c] # "open"
      BY <1>3, <2>4
    <3>2. OnlyServed(c)
      BY <1>3, <1>5, <2>4 DEF OnlyServed
    <3>3. Exchanging(c)'
      BY <3>1 DEF Exchanging, Connected
    <3> QED
      BY <1>2, <1>3, <1>5, <2>4, <3>1, <3>2, <3>3, ServeStep
  <2> QED
    BY <1>5, <2>3, <2>4 DEF Delivered
<1>6. CASE SendFails(c)
  <2>1. peer' = [peer EXCEPT ![c] = "pipe"] /\ UNCHANGED <<inbox, outbox>>
    BY <1>6 DEF SendFails
  <2>2. peer' \in [Clients -> {"open", "fin", "rst", "pipe"}] /\ peer'[c] = "pipe"
    BY <1>3, <2>1
  <2>3. OnlyServed(c)
    BY <1>3, <2>1 DEF OnlyServed
  <2>4. CASE CloseClient(fd, fds)
    BY <1>1, <1>2, <1>3, <2>1, <2>2, <2>3, <2>4, LostOrNot, CloseStep
  <2>5. CASE Done(fd) /\ UNCHANGED clients /\ UNCHANGED Rest
    <3>1. Exchanging(c)'
      BY <2>2 DEF Exchanging, Connected
    <3> QED
      BY <1>2, <1>3, <2>1, <2>2, <2>3, <2>5, <3>1, ServeStep
  <2> QED
    BY <1>6, <2>4, <2>5 DEF SendFails
<1>7. CASE Killed(c)
  BY <1>7, EndStep DEF Killed
<1> QED
  BY <1>5, <1>6, <1>7 DEF SendLen, SendBody

-----------------------------------------------------------------------------
(* The loop, the operator and the listener. *)

(* Books of which nothing is changed.                                      *)
LEMMA SameBooks ==
  ASSUME Books, Links, Queued,
         UNCHANGED <<watched, maxfd, clients, n_clients, listener_fd, fds, queue, link>>
  PROVE  Books' /\ Links' /\ Queued' /\ ClientFds' = ClientFds
  BY DEF Books, Links, Queued, ClientFds

(* Connections of which nothing is changed.                                *)
LEMMA SameConnections ==
  ASSUME Links, Queued, UNCHANGED <<queue, link>>,
         ClientFds' = ClientFds, \A f \in ClientFds : fds'[f] = fds[f]
  PROVE  Links' /\ Queued'
<1>1. Queued'
  BY DEF Queued
<1>2. \A f \in ClientFds' : link'[fds'[f]] = "up"
  BY DEF Links
<1>3. \A c \in Clients : link'[c] = "up" => \E f \in ClientFds' : fds'[f] = c
  BY DEF Links
<1>4. \A f, g \in ClientFds' : fds'[f] = fds'[g] => f = g
  BY DEF Links
<1> QED
  BY <1>1, <1>2, <1>3, <1>4 DEF Links

(* While no client is being served, what the clients have to say is not    *)
(* changed by what the server does.                                        *)
LEMMA SameTalk ==
  ASSUME Exchange, Fresh, ~AtClient, ~AtClient',
         UNCHANGED <<peer, inbox, outbox, cl, asked>>,
         \A c \in Clients : Connected(c)' => Connected(c),
         \A c \in Clients : link'[c] = "none" => link[c] = "none"
  PROVE  Exchange' /\ Fresh'
<1>1. ASSUME NEW c \in Clients PROVE Exchanging(c)'
  BY DEF Exchange, Exchanging, Held, Talk
<1>2. Fresh'
  BY DEF Fresh, Talk
<1> QED
  BY <1>1, <1>2 DEF Exchange

(* select finds every watched descriptor open, and finds what is ready.    *)
LEMMA SelectStep ==
  ASSUME Inv, Running, Select
  PROVE  Inv'
<1> DEFINE examined == {f \in watched : f <= maxfd}
           bad      == examined \ ({STDIN} \cup DOMAIN fds)
<1>1. TypeOK /\ Fresh /\ Books /\ Links /\ Queued /\ ListenerKnown /\ Sweeping /\ Exchange
  BY DEF Inv
<1>2. /\ pc = "select" /\ pc' = "sweep" /\ cur' = 0
      /\ ready' = IF bad # {} THEN watched ELSE {f \in examined : Ready(f)}
      /\ UNCHANGED <<watched, maxfd, clients, n_clients, is_listening, listener_fd,
                     can_close, fds, queue, link, peer, inbox, outbox, cl, asked, stdin>>
  BY DEF Select, net
<1>3. ~can_close
  BY <1>1, <1>2 DEF ListenerKnown
<1>4. bad = {}
  <2> SUFFICES ASSUME NEW f \in watched, f # STDIN PROVE f \in DOMAIN fds
    OBVIOUS
  <2>1. CASE f = listener_fd
    <3>1. f # -1
      BY <1>1, Numbers
    <3> QED
      BY <1>1, <1>3, <2>1, <3>1 DEF ListenerKnown
  <2>2. CASE f # listener_fd
    BY <1>1, <2>2 DEF Books, ClientFds
  <2> QED
    BY <2>1, <2>2
<1>5. ready' = {f \in examined : Ready(f)}
  BY <1>2, <1>4
<1>6. TypeOK'
  <2>1. ready' \subseteq 0..MaxFd /\ cur' \in 0..MaxFd + 1
    BY <1>1, <1>2, <1>5, Numbers
  <2> QED
    BY <1>1, <1>2, <2>1 DEF TypeOK
<1>7. Books' /\ Links' /\ Queued' /\ ClientFds' = ClientFds
  BY <1>1, <1>2, SameBooks
<1>8. ListenerKnown'
  BY <1>1, <1>2, <1>3 DEF ListenerKnown
<1>9. ~AtClient /\ ~AtClient'
  BY <1>2 DEF AtClient
<1>10. Exchange' /\ Fresh'
  BY <1>1, <1>2, <1>9, SameTalk DEF Connected
<1>11. Sweeping'
  <2>1. ASSUME NEW f \in ready' \ {STDIN, listener_fd}
        PROVE  f \in ClientFds' /\ (Readable(fds[f]))'
    <3>1. f \in watched /\ Ready(f)
      BY <1>5, <2>1
    <3>2. f \in ClientFds /\ fds[f] \in Clients
      BY <1>1, <2>1, <3>1 DEF Books, ClientFds
    <3>3. Readable(fds[f])
      BY <2>1, <3>1, <3>2, Kinds DEF Ready
    <3> QED
      BY <1>2, <1>7, <3>2, <3>3 DEF Readable
  <2> QED
    BY <1>2, <1>5, <1>9, <2>1 DEF Sweeping
<1> QED
  BY <1>6, <1>7, <1>8, <1>10, <1>11 DEF Inv

(* After the last descriptor the loop goes round, or the process ends.     *)
LEMMA SweepEndStep ==
  ASSUME Inv, Running, SweepEnd
  PROVE  Inv'
<1>1. TypeOK /\ Fresh /\ Books /\ Links /\ Queued /\ ListenerKnown /\ Sweeping /\ Exchange
  BY DEF Inv
<1>2. CASE can_close
  BY <1>2, EndStep DEF SweepEnd
<1>3. CASE ~can_close
  <2>1. /\ pc = "sweep" /\ pc' = "select" /\ cur' = 0 /\ ready' = {}
        /\ UNCHANGED <<watched, maxfd, clients, n_clients, is_listening, listener_fd,
                       can_close, fds, queue, link, peer, inbox, outbox, cl, asked, stdin>>
    BY <1>3 DEF SweepEnd, net
  <2>2. TypeOK'
    BY <1>1, <2>1 DEF TypeOK
  <2>3. Books' /\ Links' /\ Queued'
    BY <1>1, <2>1, SameBooks
  <2>4. ListenerKnown'
    BY <1>1, <1>3, <2>1 DEF ListenerKnown
  <2>5. ~AtClient /\ ~AtClient'
    BY <2>1 DEF AtClient
  <2>6. Exchange' /\ Fresh'
    BY <1>1, <2>1, <2>5, SameTalk DEF Connected
  <2>7. Sweeping'
    BY <2>1, <2>5 DEF Sweeping
  <2> QED
    BY <2>2, <2>3, <2>4, <2>6, <2>7 DEF Inv
<1> QED
  BY <1>2, <1>3

(* What the rest of a sweep finds, when the books of the clients that are  *)
(* connected stay and one descriptor is passed.                            *)
LEMMA RestOfSweep ==
  ASSUME Inv, Running, NEW fd, At(fd), Done(fd), UNCHANGED <<ready, peer, inbox>>,
         maxfd' >= maxfd, maxfd' \in Int, ClientFds \subseteq ClientFds',
         \A f \in ClientFds : fds'[f] = fds[f],
         listener_fd' = listener_fd \/ listener_fd \notin ready
  PROVE  Sweeping' /\ ~AtClient /\ ~AtClient' /\ cur' \in 1..MaxFd + 1 /\ pc' = "sweep"
<1>1. TypeOK /\ Sweeping
  BY DEF Inv
<1>2. /\ pc = "sweep" /\ fd \in ready /\ fd \in 0..MaxFd /\ cur <= fd /\ cur \in Nat
      /\ ready \subseteq 0..MaxFd /\ maxfd \in Int
  BY <1>1, Swept, Numbers
<1>3. pc' = "sweep" /\ cur' = fd + 1 /\ ~AtClient /\ ~AtClient'
  BY <1>2 DEF Done, AtClient
<1>4. ASSUME NEW f \in ready \ {STDIN, listener_fd'}, fd < f
      PROVE  f \in ClientFds' /\ (Readable(fds[f]))'
  <2>1. cur < f /\ f \in ready \ {STDIN, listener_fd}
    BY <1>2, <1>4
  <2>2. f \in ClientFds /\ Readable(fds[f])
    BY <1>1, <1>2, <2>1 DEF Sweeping
  <2> QED
    BY <2>2 DEF Readable
<1>5. \A f \in ready : f <= maxfd'
  BY <1>1, <1>2 DEF Sweeping
<1>6. ASSUME NEW f \in ready, cur' < f \/ cur' = f PROVE fd < f
  <2>1. f \in Int /\ fd \in Int
    BY <1>2
  <2>2. fd + 1 < f \/ fd + 1 = f
    BY <1>3, <1>6
  <2> QED
    BY <2>1, <2>2
<1>7. Sweeping'
  BY <1>3, <1>4, <1>5, <1>6 DEF Sweeping
<1>8. cur' \in 1..MaxFd + 1
  BY <1>2, <1>3
<1> QED
  BY <1>3, <1>7, <1>8

(* A line or a connection that nothing is done about.                      *)
LEMMA PassStep ==
  ASSUME Inv, Running, NEW fd, At(fd), Done(fd), stdin' \in Commands \cup {"none"},
         UNCHANGED <<ready, watched, maxfd, clients, n_clients, is_listening, listener_fd,
                     can_close, fds, queue, link, peer, inbox, outbox, cl, asked>>
  PROVE  Inv'
<1>1. TypeOK /\ Fresh /\ Books /\ Links /\ Queued /\ ListenerKnown /\ Sweeping /\ Exchange
  BY DEF Inv
<1>2. Books' /\ Links' /\ Queued' /\ ClientFds' = ClientFds
  BY <1>1, SameBooks
<1>3. Sweeping' /\ ~AtClient /\ ~AtClient' /\ cur' \in 1..MaxFd + 1 /\ pc' = "sweep"
  BY <1>1, <1>2, Numbers, RestOfSweep
<1>4. TypeOK'
  <2>1. cur' \in 0..MaxFd + 1
    BY <1>3
  <2> QED
    BY <1>1, <1>3, <2>1 DEF TypeOK
<1>5. ListenerKnown'
  BY <1>1, <1>3 DEF ListenerKnown
<1>6. Exchange' /\ Fresh'
  BY <1>1, <1>3, SameTalk DEF Connected
<1> QED
  BY <1>2, <1>3, <1>4, <1>5, <1>6 DEF Inv

(* The operator's line comes first in a sweep: the server has not been     *)
(* stopped before in the same one.                                         *)
LEMMA AtInput ==
  ASSUME Inv, Running, At(STDIN)
  PROVE  ~can_close /\ cur = 0
<1>1. TypeOK /\ ListenerKnown
  BY DEF Inv
<1>2. cur = 0
  <2>1. cur <= 0 /\ cur \in Nat
    BY <1>1, Swept, Numbers DEF STDIN
  <2> QED
    BY <2>1
<1> QED
  BY <1>1, <1>2 DEF ListenerKnown

(* start opens a listener at a descriptor nothing else is at.              *)
LEMMA StartStep ==
  ASSUME Inv, Running, Start
  PROVE  Inv'
<1>1. TypeOK /\ Fresh /\ Books /\ Links /\ Queued /\ ListenerKnown /\ Sweeping /\ Exchange
  BY DEF Inv
<1> PICK low : low = Lowest
  OBVIOUS
<1>2. /\ At(STDIN) /\ Done(STDIN) /\ stdin' = "none" /\ ~is_listening /\ FreeFds # {}
      /\ fds' = [f \in DOMAIN fds \cup {low} |-> IF f = low THEN LISTENER ELSE fds[f]]
      /\ watched' = watched \cup {low}
      /\ maxfd' = IF low > maxfd THEN low ELSE maxfd
      /\ is_listening' = TRUE /\ listener_fd' = low
      /\ UNCHANGED <<ready, clients, n_clients, can_close, queue, link, peer, inbox, outbox, cl, asked>>
  BY DEF Start, ReadLine, Open, Watch, net
<1>3. low \in 3..MaxFd /\ low \notin DOMAIN fds
  BY <1>2, LowestFree
<1>4. ~can_close /\ listener_fd = -1
  BY <1>1, <1>2, AtInput DEF ListenerKnown
<1>5. /\ ready \subseteq 0..MaxFd /\ watched \subseteq 0..MaxFd /\ maxfd \in 0..MaxFd
      /\ DOMAIN fds \subseteq 3..MaxFd
  BY <1>1, Numbers
<1>6. /\ DOMAIN fds' = DOMAIN fds \cup {low} /\ fds'[low] = LISTENER
      /\ \A f \in DOMAIN fds : fds'[f] = fds[f]
  BY <1>2, <1>3
<1>7. ClientFds' = ClientFds /\ low \notin ClientFds /\ \A f \in ClientFds : fds'[f] = fds[f]
  BY <1>3, <1>6, Kinds DEF ClientFds
<1>8. maxfd' \in 0..MaxFd /\ maxfd' >= maxfd /\ low <= maxfd'
  BY <1>2, <1>3, <1>5
<1>9. Sweeping' /\ ~AtClient /\ ~AtClient' /\ cur' \in 1..MaxFd + 1 /\ pc' = "sweep"
  <2>1. listener_fd \notin ready
    BY <1>4, <1>5
  <2>2. maxfd' \in Int
    BY <1>8
  <2> QED
    BY <1>2, <1>7, <1>8, <2>1, <2>2, RestOfSweep
<1>10. TypeOK'
  <2>1. cur' \in 0..MaxFd + 1 /\ watched' \subseteq 0..MaxFd /\ DOMAIN fds' \subseteq 3..MaxFd
    BY <1>2, <1>3, <1>5, <1>6, <1>9
  <2>2. \A f \in DOMAIN fds' : fds'[f] \in Clients \cup {LISTENER, LOST}
    <3>1. \A f \in DOMAIN fds : fds[f] \in Clients \cup {LISTENER, LOST}
      BY <1>1 DEF TypeOK
    <3> QED
      BY <1>6, <3>1
  <2>3. is_listening' \in BOOLEAN /\ listener_fd' \in {-1} \cup 3..MaxFd /\ stdin' \in Commands \cup {"none"}
    BY <1>2, <1>3
  <2> QED
    BY <1>1, <1>2, <1>8, <1>9, <2>1, <2>2, <2>3 DEF TypeOK
<1>11. Books'
  <2>1. watched' \ {STDIN, listener_fd'} = ClientFds'
    <3>1. watched \ {STDIN} = ClientFds
      BY <1>1, <1>4, <1>5 DEF Books
    <3> QED
      BY <1>2, <1>3, <1>7, <3>1 DEF STDIN
  <2>2. \A f \in watched' : f <= maxfd'
    BY <1>1, <1>2, <1>5, <1>8 DEF Books
  <2> QED
    BY <1>1, <1>2, <1>7, <2>1, <2>2 DEF Books
<1>12. Links' /\ Queued'
  BY <1>1, <1>2, <1>7, SameConnections
<1>13. ListenerKnown'
  BY <1>1, <1>2, <1>4, <1>6 DEF ListenerKnown
<1>14. Exchange' /\ Fresh'
  BY <1>1, <1>2, <1>9, SameTalk DEF Connected
<1> QED
  BY <1>9, <1>10, <1>11, <1>12, <1>13, <1>14 DEF Inv

(* A start that fails leaves a socket open and the books as they were.     *)
LEMMA StartFailsStep ==
  ASSUME Inv, Running, StartFails
  PROVE  Inv'
<1>1. TypeOK /\ Fresh /\ Books /\ Links /\ Queued /\ ListenerKnown /\ Sweeping /\ Exchange
  BY DEF Inv
<1> PICK low : low = Lowest
  OBVIOUS
<1>2. /\ At(STDIN) /\ Done(STDIN) /\ stdin' = "none" /\ FreeFds # {}
      /\ fds' = [f \in DOMAIN fds \cup {low} |-> IF f = low THEN LOST ELSE fds[f]]
      /\ UNCHANGED <<ready, watched, maxfd, is_listening, listener_fd, clients, n_clients,
                     can_close, queue, link, peer, inbox, outbox, cl, asked>>
  BY DEF StartFails, ReadLine, Open, net
<1>3. low \in 3..MaxFd /\ low \notin DOMAIN fds
  BY <1>2, LowestFree
<1>4. ~can_close
  BY <1>2, AtInput
<1>5. /\ maxfd \in 0..MaxFd /\ DOMAIN fds \subseteq 3..MaxFd
  BY <1>1, Numbers
<1>6. /\ DOMAIN fds' = DOMAIN fds \cup {low} /\ fds'[low] = LOST
      /\ \A f \in DOMAIN fds : fds'[f] = fds[f]
  BY <1>2, <1>3
<1>7. ClientFds' = ClientFds /\ \A f \in ClientFds : fds'[f] = fds[f]
  BY <1>3, <1>6, Kinds DEF ClientFds
<1>8. Sweeping' /\ ~AtClient /\ ~AtClient' /\ cur' \in 1..MaxFd + 1 /\ pc' = "sweep"
  BY <1>2, <1>5, <1>7, RestOfSweep
<1>9. TypeOK'
  <2>1. cur' \in 0..MaxFd + 1 /\ DOMAIN fds' \subseteq 3..MaxFd /\ stdin' \in Commands \cup {"none"}
    BY <1>2, <1>3, <1>5, <1>6, <1>8
  <2>2. \A f \in DOMAIN fds' : fds'[f] \in Clients \cup {LISTENER, LOST}
    <3>1. \A f \in DOMAIN fds : fds[f] \in Clients \cup {LISTENER, LOST}
      BY <1>1 DEF TypeOK
    <3> QED
      BY <1>6, <3>1
  <2> QED
    BY <1>1, <1>2, <1>8, <2>1, <2>2 DEF TypeOK
<1>10. Books' /\ Links' /\ Queued'
  <2>1. Books'
    BY <1>1, <1>2, <1>7 DEF Books
  <2> QED
    BY <1>1, <1>2, <1>7, <2>1, SameConnections
<1>11. ListenerKnown'
  BY <1>1, <1>2, <1>4, <1>6, Kinds DEF ListenerKnown
<1>12. Exchange' /\ Fresh'
  BY <1>1, <1>2, <1>8, SameTalk DEF Connected
<1> QED
  BY <1>8, <1>9, <1>10, <1>11, <1>12 DEF Inv

(* stop, of a server that counts no clients: there are none.               *)
LEMMA StopStep ==
  ASSUME Inv, Running, Stop
  PROVE  Inv'
<1>1. TypeOK /\ Fresh /\ Books /\ Links /\ Queued /\ ListenerKnown /\ Sweeping /\ Exchange
  BY DEF Inv
<1>2. /\ At(STDIN) /\ Done(STDIN) /\ stdin' = "none" /\ n_clients = 0
      /\ fds' = IF is_listening THEN [f \in DOMAIN fds \ {listener_fd} |-> fds[f]] ELSE fds
      /\ is_listening' = FALSE /\ can_close' = TRUE /\ queue' = <<>>
      /\ link' = [c \in Clients |-> IF link[c] = "queued" THEN "closed" ELSE link[c]]
      /\ UNCHANGED <<ready, watched, maxfd, clients, n_clients, listener_fd,
                     peer, inbox, outbox, cl, asked>>
  BY DEF Stop, Without
<1>3. clients = <<>> /\ ClientFds = {}
  <2>1. Len(clients) = 0 /\ clients \in Seq([fd : 3..MaxFd, is_logged : BOOLEAN])
    BY <1>1, <1>2 DEF Books, TypeOK
  <2>2. clients = <<>>
    BY <2>1
  <2>3. \A i \in 1..Len(clients) : FALSE
    BY <2>1
  <2> QED
    BY <1>1, <2>2, <2>3 DEF Books
<1>4. maxfd \in 0..MaxFd /\ DOMAIN fds \subseteq 3..MaxFd
  BY <1>1, Numbers
<1>5. /\ DOMAIN fds' \subseteq DOMAIN fds /\ \A f \in DOMAIN fds' : fds'[f] = fds[f]
      /\ is_listening => listener_fd \notin DOMAIN fds'
  BY <1>2
<1>6. ClientFds' = {}
  BY <1>3, <1>5 DEF ClientFds
<1>7. Sweeping' /\ ~AtClient /\ ~AtClient' /\ cur' \in 1..MaxFd + 1 /\ pc' = "sweep"
  <2>1. maxfd' >= maxfd /\ maxfd' \in Int
    BY <1>2, <1>4
  <2> QED
    BY <1>2, <1>3, <1>6, <2>1, RestOfSweep
<1>8. TypeOK'
  <2>1. cur' \in 0..MaxFd + 1 /\ DOMAIN fds' \subseteq 3..MaxFd /\ stdin' \in Commands \cup {"none"}
    BY <1>2, <1>4, <1>5, <1>7
  <2>2. \A f \in DOMAIN fds' : fds'[f] \in Clients \cup {LISTENER, LOST}
    BY <1>1, <1>5 DEF TypeOK
  <2>3. link' \in [Clients -> {"none", "queued", "up", "closed"}] /\ queue' \in Seq(Clients)
    BY <1>1, <1>2 DEF TypeOK
  <2> QED
    BY <1>1, <1>2, <1>7, <2>1, <2>2, <2>3 DEF TypeOK
<1>9. Books'
  BY <1>1, <1>2, <1>3, <1>6 DEF Books
<1>10. Links' /\ Queued'
  <2>1. \A c \in Clients : link[c] # "up"
    BY <1>1, <1>3 DEF Links
  <2>2. \A c \in Clients : link'[c] # "up"
    BY <1>2, <2>1
  <2>3. Queued'
    <3>1. queue' = <<>> /\ Len(<<>>) = 0
      BY <1>2
    <3> QED
      BY <3>1 DEF Queued
  <2> QED
    BY <1>6, <2>2, <2>3 DEF Links
<1>11. ListenerKnown'
  <2>1. \A f \in DOMAIN fds' : fds'[f] # LISTENER
    BY <1>1, <1>5 DEF ListenerKnown
  <2>2. cur' >= 1
    BY <1>7
  <2> QED
    BY <1>2, <1>3, <1>7, <2>1, <2>2 DEF ListenerKnown
<1>12. Exchange' /\ Fresh'
  <2>1. \A c \in Clients : /\ link'[c] = "none" => link[c] = "none"
                           /\ Connected(c)' => Connected(c)
    BY <1>2 DEF Connected
  <2> QED
    BY <1>1, <1>2, <1>7, <2>1, SameTalk
<1> QED
  BY <1>7, <1>8, <1>9, <1>10, <1>11, <1>12 DEF Inv

(* accept gives the connection at the head of the queue the lowest free    *)
(* descriptor, an entry and a place in the watch set.                      *)
LEMMA AcceptStep ==
  ASSUME Inv, Running, Accept
  PROVE  Inv'
<1> DEFINE e == [fd |-> Lowest, is_logged |-> FALSE]
           S == [fd : 3..MaxFd, is_logged : BOOLEAN]
<1>1. TypeOK /\ Fresh /\ Books /\ Links /\ Queued /\ ListenerKnown /\ Sweeping /\ Exchange
  BY DEF Inv
<1> PICK low : low = Lowest
  OBVIOUS
<1> PICK lfd : lfd = listener_fd
  OBVIOUS
<1> PICK h : h = Head(queue)
  OBVIOUS
<1>2. /\ At(lfd) /\ Done(lfd) /\ Listening /\ queue # <<>> /\ FreeFds # {}
      /\ fds' = [f \in DOMAIN fds \cup {low} |-> IF f = low THEN h ELSE fds[f]]
      /\ queue' = Tail(queue)
      /\ link' = [link EXCEPT ![h] = "up"]
      /\ watched' = watched \cup {low}
      /\ maxfd' = IF low > maxfd THEN low ELSE maxfd
      /\ n_clients' = n_clients + 1
      /\ clients' = <<e>> \o clients
      /\ UNCHANGED <<ready, is_listening, listener_fd, can_close, peer, inbox,
                     outbox, cl, asked, stdin>>
  BY DEF Accept, Open, Watch
<1>3. low \in 3..MaxFd /\ low \notin DOMAIN fds
  BY <1>2, LowestFree
<1>4. is_listening /\ ~can_close /\ lfd \in DOMAIN fds /\ fds[lfd] = LISTENER
  BY <1>1, <1>2 DEF Listening, ListenerKnown
<1>5. /\ ready \subseteq 0..MaxFd /\ watched \subseteq 0..MaxFd /\ maxfd \in 0..MaxFd
      /\ DOMAIN fds \subseteq 3..MaxFd
  BY <1>1, Numbers
<1>6. /\ h \in Clients /\ link[h] = "queued" /\ h = queue[1] /\ Len(queue) \in Nat \ {0}
      /\ Tail(queue) \in Seq(Clients) /\ Len(Tail(queue)) = Len(queue) - 1
      /\ \A i \in 1..Len(queue) - 1 : Tail(queue)[i] = queue[i + 1]
  <2>1. queue \in Seq(Clients) /\ queue # <<>>
    BY <1>1, <1>2 DEF TypeOK
  <2>2. Len(queue) \in Nat \ {0} /\ h = queue[1]
    BY <2>1
  <2>3. link[h] = "queued"
    BY <1>1, <2>2 DEF Queued
  <2>4. /\ Tail(queue) \in Seq(Clients) /\ Len(Tail(queue)) = Len(queue) - 1
        /\ \A i \in 1..Len(Tail(queue)) : Tail(queue)[i] = queue[i + 1]
        /\ h \in Clients
    BY <2>1, HeadTailProperties
  <2> QED
    BY <2>2, <2>3, <2>4
<1>7. /\ DOMAIN fds' = DOMAIN fds \cup {low} /\ fds'[low] = h
      /\ \A f \in DOMAIN fds : fds'[f] = fds[f]
  BY <1>2, <1>3
<1>8. /\ ClientFds' = ClientFds \cup {low} /\ low \notin ClientFds
      /\ \A f \in ClientFds : fds'[f] = fds[f]
  BY <1>3, <1>6, <1>7 DEF ClientFds
<1>9. maxfd' \in 0..MaxFd /\ maxfd' >= maxfd /\ low <= maxfd'
  BY <1>2, <1>3, <1>5
<1>10. Sweeping' /\ ~AtClient /\ ~AtClient' /\ cur' \in 1..MaxFd + 1 /\ pc' = "sweep"
  <2>1. maxfd' \in Int
    BY <1>9
  <2> QED
    BY <1>2, <1>8, <1>9, <2>1, RestOfSweep
<1>11. /\ clients' \in Seq(S) /\ Len(clients') = Len(clients) + 1 /\ Len(clients) \in Nat
       /\ clients'[1].fd = low /\ ~clients'[1].is_logged
       /\ \A i \in 1..Len(clients) : clients'[i + 1] = clients[i]
  <2>1. clients \in Seq(S) /\ e \in S /\ e.fd = low /\ ~e.is_logged
    BY <1>1, <1>3 DEF TypeOK
  <2> HIDE DEF e, S
  <2>2. /\ <<e>> \o clients \in Seq(S) /\ Len(<<e>> \o clients) = Len(clients) + 1
        /\ (<<e>> \o clients)[1] = e
        /\ \A i \in 1..Len(clients) : (<<e>> \o clients)[i + 1] = clients[i]
    BY <2>1, ConsProperties
  <2>3. Len(clients) \in Nat
    BY <2>1
  <2> QED
    BY <1>2, <2>1, <2>2, <2>3
<1>12. \A c \in Clients : link'[c] = IF c = h THEN "up" ELSE link[c]
  <2>1. link \in [Clients -> {"none", "queued", "up", "closed"}]
    BY <1>1 DEF TypeOK
  <2> QED
    BY <1>2, <2>1
<1>13. TypeOK'
  <2>1. cur' \in 0..MaxFd + 1 /\ watched' \subseteq 0..MaxFd /\ DOMAIN fds' \subseteq 3..MaxFd
    BY <1>2, <1>3, <1>5, <1>7, <1>10
  <2>2. \A f \in DOMAIN fds' : fds'[f] \in Clients \cup {LISTENER, LOST}
    <3>1. \A f \in DOMAIN fds : fds[f] \in Clients \cup {LISTENER, LOST}
      BY <1>1 DEF TypeOK
    <3> QED
      BY <1>6, <1>7, <3>1
  <2>3. link' \in [Clients -> {"none", "queued", "up", "closed"}] /\ queue' \in Seq(Clients)
    <3>1. link \in [Clients -> {"none", "queued", "up", "closed"}]
      BY <1>1 DEF TypeOK
    <3> QED
      BY <1>2, <1>6, <3>1
  <2>4. n_clients' \in Nat
    BY <1>1, <1>2 DEF TypeOK
  <2> QED
    BY <1>1, <1>2, <1>9, <1>10, <1>11, <2>1, <2>2, <2>3, <2>4 DEF TypeOK
<1> HIDE DEF e, S
<1>14. Books'
  <2>1. n_clients' = Len(clients')
    BY <1>1, <1>2, <1>11 DEF Books
  <2>2. ASSUME NEW i \in 1..Len(clients')
        PROVE  (i = 1 /\ clients'[i].fd = low) \/ (i - 1 \in 1..Len(clients) /\ clients'[i] = clients[i - 1])
    <3>1. i = 1 \/ (i - 1 \in 1..Len(clients) /\ (i - 1) + 1 = i)
      BY <1>11
    <3> QED
      BY <1>11, <3>1
  <2>3. \A i \in 1..Len(clients) : clients[i].fd \in ClientFds /\ clients[i].fd # low
    BY <1>1, <1>8 DEF Books
  <2>4. ASSUME NEW i \in 1..Len(clients'), NEW j \in 1..Len(clients'), clients'[i].fd = clients'[j].fd
        PROVE  i = j
    <3>1. \/ i = 1 /\ j = 1
          \/ i - 1 \in 1..Len(clients) /\ j - 1 \in 1..Len(clients) /\ i - 1 = j - 1
      BY <1>1, <2>2, <2>3, <2>4 DEF Books
    <3> QED
      BY <1>11, <3>1
  <2>5. \A i \in 1..Len(clients') : clients'[i].fd \in ClientFds'
    BY <1>8, <2>2, <2>3
  <2>6. ASSUME NEW f \in ClientFds' PROVE \E i \in 1..Len(clients') : clients'[i].fd = f
    <3>1. CASE f = low
      BY <1>11, <3>1
    <3>2. CASE f \in ClientFds
      <4>1. PICK i \in 1..Len(clients) : clients[i].fd = f
        BY <1>1, <3>2 DEF Books
      <4>2. i + 1 \in 1..Len(clients') /\ clients'[i + 1].fd = f
        BY <1>11, <4>1
      <4> QED
        BY <4>2
    <3> QED
      BY <1>8, <3>1, <3>2
  <2>7. watched' \ {STDIN, listener_fd'} = ClientFds'
    <3>1. watched \ {STDIN, lfd} = ClientFds /\ low # lfd /\ low # STDIN
      BY <1>1, <1>3, <1>4 DEF Books, STDIN
    <3> QED
      BY <1>2, <1>8, <3>1
  <2>8. \A f \in watched' : f <= maxfd'
    BY <1>1, <1>2, <1>5, <1>9 DEF Books
  <2> QED
    BY <2>1, <2>4, <2>5, <2>6, <2>7, <2>8 DEF Books
<1>15. Links'
  <2>1. \A f \in ClientFds : fds[f] \in Clients /\ link[fds[f]] = "up" /\ fds[f] # h
    BY <1>1, <1>6 DEF Links, ClientFds
  <2>2. \A f \in ClientFds' : link'[fds'[f]] = "up"
    BY <1>6, <1>7, <1>8, <1>12, <2>1
  <2>3. ASSUME NEW c \in Clients, link'[c] = "up" PROVE \E f \in ClientFds' : fds'[f] = c
    BY <1>1, <1>7, <1>8, <1>12, <2>3 DEF Links
  <2>4. \A f, g \in ClientFds' : fds'[f] = fds'[g] => f = g
    BY <1>1, <1>7, <1>8, <2>1 DEF Links
  <2> QED
    BY <2>2, <2>3, <2>4 DEF Links
<1>16. Queued'
  <2>1. \A i \in 1..Len(queue) : queue[i] \in Clients
    BY <1>1, ElementOfSeq DEF TypeOK
  <2>2. ASSUME NEW i \in 1..Len(queue')
        PROVE  /\ i + 1 \in 1..Len(queue) /\ queue'[i] = queue[i + 1]
               /\ queue[i + 1] # h /\ queue[i + 1] \in Clients
    <3>1. i + 1 \in 1..Len(queue) /\ i + 1 # 1 /\ 1 \in 1..Len(queue)
      BY <1>2, <1>6
    <3>2. queue'[i] = queue[i + 1]
      BY <1>2, <1>6
    <3> QED
      BY <1>1, <1>6, <2>1, <3>1, <3>2 DEF Queued
  <2>3. \A i \in 1..Len(queue') : link'[queue'[i]] = "queued"
    BY <1>1, <1>12, <2>2 DEF Queued
  <2>4. ASSUME NEW i \in 1..Len(queue'), NEW j \in 1..Len(queue'), queue'[i] = queue'[j]
        PROVE  i = j
    <3>1. i + 1 = j + 1
      BY <1>1, <2>2, <2>4 DEF Queued
    <3> QED
      BY <3>1, <1>2, <1>6
  <2> QED
    BY <2>3, <2>4 DEF Queued
<1>17. ListenerKnown'
  <2>1. listener_fd' = lfd /\ lfd \in DOMAIN fds' /\ fds'[lfd] = LISTENER
    BY <1>2, <1>4, <1>7
  <2>2. \A f \in DOMAIN fds' : fds'[f] = LISTENER => f = lfd
    BY <1>1, <1>6, <1>7, Kinds DEF ListenerKnown
  <2>3. is_listening' /\ ~can_close'
    BY <1>2, <1>4
  <2> QED
    BY <2>1, <2>2, <2>3 DEF ListenerKnown
<1>18. Exchange' /\ Fresh'
  <2>1. \A c \in Clients : /\ link'[c] = "none" => link[c] = "none"
                           /\ Connected(c)' => Connected(c)
    BY <1>2, <1>6, <1>12 DEF Connected
  <2> QED
    BY <1>1, <1>2, <1>10, <2>1, SameTalk
<1> QED
  BY <1>10, <1>13, <1>14, <1>15, <1>16, <1>17, <1>18 DEF Inv

-----------------------------------------------------------------------------
(* The clients. *)

(* What one client does changes nothing of the others, nor of the process; *)
(* the server still finds what it was going to receive from it.            *)
LEMMA ClientKeeps ==
  ASSUME Inv, Running, UNCHANGED <<process, fds>>, NEW c \in Clients,
         \A d \in Clients : link'[d] = "up" <=> link[d] = "up",
         \A d \in Clients \ {c} :
           /\ inbox'[d] = inbox[d] /\ peer'[d] = peer[d] /\ outbox'[d] = outbox[d]
           /\ link'[d] = link[d] /\ cl'[d] = cl[d] /\ asked'[d] = asked[d],
         link[c] = "up" /\ Readable(c) => Readable(c)',
         Exchanging(c)'
  PROVE  Books' /\ Links' /\ ListenerKnown' /\ Sweeping' /\ Exchange'
<1>1. TypeOK /\ Books /\ Links /\ ListenerKnown /\ Sweeping /\ Exchange
  BY DEF Inv
<1>2. UNCHANGED <<pc, cur, ready, watched, maxfd, clients, n_clients, is_listening,
                  listener_fd, can_close, fds>>
  BY DEF process
<1>3. ClientFds' = ClientFds
  BY <1>2 DEF ClientFds
<1>4. Books'
  BY <1>1, <1>2, <1>3 DEF Books
<1>5. Links'
  <2>1. \A f \in ClientFds : fds[f] \in Clients /\ link[fds[f]] = "up"
    BY <1>1 DEF Links, ClientFds
  <2>2. \A f \in ClientFds' : link'[fds'[f]] = "up"
    BY <1>2, <1>3, <2>1
  <2>3. \A d \in Clients : link'[d] = "up" => \E f \in ClientFds' : fds'[f] = d
    BY <1>1, <1>2, <1>3 DEF Links
  <2>4. \A f, g \in ClientFds' : fds'[f] = fds'[g] => f = g
    BY <1>1, <1>2, <1>3 DEF Links
  <2> QED
    BY <2>2, <2>3, <2>4 DEF Links
<1>6. ListenerKnown'
  BY <1>1, <1>2 DEF ListenerKnown
<1>7. Sweeping'
  <2>1. ASSUME NEW f \in ClientFds, Readable(fds[f]) PROVE (Readable(fds[f]))'
    <3> PICK d \in Clients : d = fds[f] /\ link[d] = "up"
      BY <1>1 DEF Links, ClientFds
    <3>1. Readable(d)'
      BY <2>1 DEF Readable
    <3>2. (fds[f])' = d
      BY <1>2
    <3> QED
      BY <3>1, <3>2 DEF Readable
  <2>2. AtClient' <=> AtClient
    BY <1>2 DEF AtClient
  <2> QED
    BY <1>1, <1>2, <1>3, <2>1, <2>2 DEF Sweeping
<1>8. Exchange'
  <2>1. ASSUME NEW d \in Clients \ {c} PROVE Exchanging(d)'
    <3>1. Held(d)' <=> Held(d)
      BY <1>2 DEF Held, AtClient
    <3>2. Exchanging(d)
      BY <1>1 DEF Exchange
    <3> QED
      BY <1>2, <3>1, <3>2 DEF Exchanging, Talk, Connected
  <2> QED
    BY <2>1 DEF Exchange
<1> QED
  BY <1>4, <1>5, <1>6, <1>7, <1>8

(* The types of what one step of a client changes.                         *)
LEMMA ClientTyped ==
  ASSUME TypeOK, UNCHANGED <<process, fds>>,
         queue' \in Seq(Clients),
         link' \in [Clients -> {"none", "queued", "up", "closed"}],
         peer' \in [Clients -> {"open", "fin", "rst", "pipe"}],
         inbox' \in [Clients -> Seq({"len", "body"})],
         outbox' \in [Clients -> 0..2],
         stdin' \in Commands \cup {"none"},
         cl' \in [Clients -> {"idle", "half", "wait", "got_len", "gone"}],
         asked' \in [Clients -> Requests \cup {"none"}]
  PROVE  TypeOK'
<1>1. UNCHANGED <<pc, cur, ready, watched, maxfd, clients, n_clients, is_listening,
                  listener_fd, can_close, fds>>
  BY DEF process
<1> QED
  BY <1>1 DEF TypeOK

(* The clients' part of the types.                                         *)
LEMMA NetTyped ==
  ASSUME TypeOK
  PROVE  /\ queue \in Seq(Clients) /\ stdin \in Commands \cup {"none"}
         /\ link \in [Clients -> {"none", "queued", "up", "closed"}]
         /\ peer \in [Clients -> {"open", "fin", "rst", "pipe"}]
         /\ inbox \in [Clients -> Seq({"len", "body"})]
         /\ outbox \in [Clients -> 0..2]
         /\ cl \in [Clients -> {"idle", "half", "wait", "got_len", "gone"}]
         /\ asked \in [Clients -> Requests \cup {"none"}]
  BY DEF TypeOK

(* The operator types a line.                                              *)
LEMMA TypeStep ==
  ASSUME Inv, NEW command \in Commands, Type(command)
  PROVE  Inv'
<1>1. UNCHANGED <<process, fds, queue, link, peer, inbox, outbox, cl, asked>> /\ stdin' = command
  BY DEF Type, net
<1>2. UNCHANGED <<pc, cur, ready, watched, maxfd, clients, n_clients, is_listening,
                  listener_fd, can_close>>
  BY <1>1 DEF process
<1>3. TypeOK'
  BY <1>1, NetTyped, ClientTyped DEF Inv
<1>4. Fresh'
  BY <1>1 DEF Inv, Fresh, Talk
<1>5. ASSUME Running' PROVE Books' /\ Links' /\ Queued' /\ ListenerKnown' /\ Sweeping' /\ Exchange'
  <2>1. Running /\ Books /\ Links /\ Queued /\ ListenerKnown /\ Sweeping /\ Exchange
    BY <1>2, <1>5 DEF Inv, Running
  <2>2. Books' /\ Links' /\ Queued' /\ ClientFds' = ClientFds
    BY <1>1, <1>2, <2>1, SameBooks
  <2>3. ListenerKnown'
    BY <1>1, <1>2, <2>1 DEF ListenerKnown
  <2>4. Sweeping'
    BY <1>1, <1>2, <2>1, <2>2 DEF Sweeping, AtClient, Readable
  <2>5. Exchange'
    BY <1>1, <1>2, <2>1 DEF Exchange, Exchanging, Held, AtClient, Talk, Connected
  <2> QED
    BY <2>2, <2>3, <2>4, <2>5
<1> QED
  BY <1>3, <1>4, <1>5 DEF Inv

(* A client connects, while the server listens: it starts afresh, at the   *)
(* end of the queue.                                                       *)
LEMMA ConnectStep ==
  ASSUME Inv, NEW c \in Clients, Connect(c)
  PROVE  Inv'
<1>1. /\ TypeOK /\ Fresh /\ link[c] = "none" /\ Listening
      /\ queue' = Append(queue, c)
      /\ link' = [link EXCEPT ![c] = "queued"]
      /\ UNCHANGED <<process, fds, peer, inbox, outbox, cl, asked, stdin>>
  BY DEF Inv, Connect
<1>2. \A d \in Clients : link'[d] = IF d = c THEN "queued" ELSE link[d]
  BY <1>1, NetTyped
<1>3. /\ queue' \in Seq(Clients) /\ Len(queue') = Len(queue) + 1 /\ Len(queue) \in Nat
      /\ \A i \in 1..Len(queue) : queue'[i] = queue[i] /\ queue[i] \in Clients
      /\ queue'[Len(queue) + 1] = c
  <2>1. queue \in Seq(Clients)
    BY <1>1, NetTyped
  <2> QED
    BY <1>1, <2>1
<1>4. TypeOK'
  <2>1. link' \in [Clients -> {"none", "queued", "up", "closed"}]
    BY <1>1, NetTyped
  <2> QED
    BY <1>1, <1>3, <2>1, NetTyped, ClientTyped
<1>5. Fresh'
  BY <1>1, <1>2 DEF Fresh, Talk
<1>6. ASSUME Running' PROVE Books' /\ Links' /\ Queued' /\ ListenerKnown' /\ Sweeping' /\ Exchange'
  <2>1. Running /\ Books /\ Links /\ Queued /\ ListenerKnown /\ Sweeping /\ Exchange
    BY <1>1, <1>6 DEF Inv, Running, process
  <2>2. ~Held(c) /\ ~Held(c)'
    <3>1. UNCHANGED <<pc, cur, fds>>
      BY <1>1 DEF process
    <3>2. ~Held(c)
      BY <1>1, <2>1 DEF Held, Sweeping, Links
    <3> QED
      BY <3>1, <3>2 DEF Held, AtClient
  <2>3. Exchanging(c)'
    <3>1. Talk(c)' = <<"idle", <<>>, 0>> /\ cl'[c] = "idle" /\ asked'[c] = "none"
      BY <1>1 DEF Fresh, Talk
    <3> QED
      BY <2>2, <3>1 DEF Exchanging
  <2>4. Books' /\ Links' /\ ListenerKnown' /\ Sweeping' /\ Exchange'
    <3>1. Readable(c) => Readable(c)'
      BY <1>1 DEF Readable
    <3> QED
      BY <1>1, <1>2, <2>1, <2>3, <3>1, ClientKeeps
  <2>5. Queued'
    <3>1. ASSUME NEW i \in 1..Len(queue')
          PROVE  \/ i = Len(queue) + 1 /\ queue'[i] = c
                 \/ i \in 1..Len(queue) /\ queue'[i] = queue[i] /\ link[queue[i]] = "queued"
                    /\ queue[i] \in Clients /\ queue[i] # c
      <4>1. i = Len(queue) + 1 \/ i \in 1..Len(queue)
        BY <1>3
      <4> QED
        BY <1>1, <1>3, <2>1, <4>1 DEF Queued
    <3>2. \A i \in 1..Len(queue') : link'[queue'[i]] = "queued"
      BY <1>2, <3>1
    <3>3. \A i, j \in 1..Len(queue') : queue'[i] = queue'[j] => i = j
      BY <2>1, <3>1 DEF Queued
    <3> QED
      BY <3>2, <3>3 DEF Queued
  <2> QED
    BY <2>4, <2>5
<1> QED
  BY <1>4, <1>5, <1>6 DEF Inv

(* A client that is connected asks, reads or closes, and one whose         *)
(* connection is closed reads what is left, or leaves.                     *)
LEMMA ClientStep ==
  ASSUME Inv, NEW c \in Clients, UNCHANGED <<process, fds, queue, stdin>>,
         \A d \in Clients \ {c} :
           /\ inbox'[d] = inbox[d] /\ peer'[d] = peer[d] /\ outbox'[d] = outbox[d]
           /\ link'[d] = link[d] /\ cl'[d] = cl[d] /\ asked'[d] = asked[d],
         link'[c] = link[c] \/ (link[c] = "closed" /\ link'[c] = "none"),
         link[c] = "up" /\ Readable(c) => Readable(c)',
         link'[c] = "none" =>
           peer'[c] = "open" /\ Talk(c)' = <<"idle", <<>>, 0>> /\ asked'[c] = "none",
         Running => Exchanging(c)',
         link' \in [Clients -> {"none", "queued", "up", "closed"}],
         peer' \in [Clients -> {"open", "fin", "rst", "pipe"}],
         inbox' \in [Clients -> Seq({"len", "body"})],
         outbox' \in [Clients -> 0..2],
         cl' \in [Clients -> {"idle", "half", "wait", "got_len", "gone"}],
         asked' \in [Clients -> Requests \cup {"none"}]
  PROVE  Inv'
<1>1. TypeOK /\ Fresh
  BY DEF Inv
<1>2. TypeOK'
  BY <1>1, NetTyped, ClientTyped
<1>3. Fresh'
  <2>1. ASSUME NEW d \in Clients \ {c}, link'[d] = "none"
        PROVE  peer'[d] = "open" /\ Talk(d)' = <<"idle", <<>>, 0>> /\ asked'[d] = "none"
    <3>1. /\ link[d] = "none" /\ peer'[d] = peer[d] /\ asked'[d] = asked[d]
          /\ inbox'[d] = inbox[d] /\ outbox'[d] = outbox[d] /\ cl'[d] = cl[d]
      BY <2>1
    <3> QED
      BY <1>1, <3>1 DEF Fresh, Talk
  <2> QED
    BY <2>1 DEF Fresh
<1>4. ASSUME Running' PROVE Books' /\ Links' /\ Queued' /\ ListenerKnown' /\ Sweeping' /\ Exchange'
  <2>1. Running /\ Queued
    BY <1>4 DEF Inv, Running, process
  <2>2. \A d \in Clients : /\ link'[d] = "up" <=> link[d] = "up"
                           /\ link[d] = "queued" => link'[d] = "queued"
    OBVIOUS
  <2>3. Queued'
    <3>1. \A i \in 1..Len(queue) : queue[i] \in Clients
      BY <1>1, NetTyped, ElementOfSeq
    <3> QED
      BY <2>1, <2>2, <3>1 DEF Queued
  <2> QED
    BY <2>1, <2>2, <2>3, ClientKeeps
<1> QED
  BY <1>2, <1>3, <1>4 DEF Inv

(* A client is served or not by the server, not by what it does itself.    *)
LEMMA SameHeld ==
  ASSUME UNCHANGED <<process, fds>>, NEW c
  PROVE  pc' = pc /\ (Held(c)' <=> Held(c))
<1>1. UNCHANGED <<pc, cur, fds>>
  BY DEF process
<1> QED
  BY <1>1 DEF Held, AtClient

(* The client sends the length of a request.                               *)
LEMMA AskLenStep ==
  ASSUME Inv, NEW c \in Clients, AskLen(c)
  PROVE  Inv'
<1>1. /\ Connected(c) /\ cl[c] = "idle"
      /\ cl' = [cl EXCEPT ![c] = "half"]
      /\ inbox' = [inbox EXCEPT ![c] = Append(@, "len")]
      /\ UNCHANGED <<process, fds, queue, link, peer, outbox, asked, stdin>>
  BY DEF AskLen
<1>2. TypeOK
  BY DEF Inv
<1>3. /\ cl' \in [Clients -> {"idle", "half", "wait", "got_len", "gone"}]
      /\ inbox' \in [Clients -> Seq({"len", "body"})]
      /\ cl'[c] = "half" /\ inbox'[c] = Append(inbox[c], "len") /\ inbox'[c] # <<>>
      /\ \A d \in Clients \ {c} : cl'[d] = cl[d] /\ inbox'[d] = inbox[d]
  <2>1. /\ cl \in [Clients -> {"idle", "half", "wait", "got_len", "gone"}]
        /\ inbox \in [Clients -> Seq({"len", "body"})]
    BY <1>2, NetTyped
  <2>2. /\ cl' \in [Clients -> {"idle", "half", "wait", "got_len", "gone"}]
        /\ cl'[c] = "half" /\ \A d \in Clients \ {c} : cl'[d] = cl[d]
    BY <1>1, <2>1
  <2>3. Append(inbox[c], "len") \in Seq({"len", "body"}) /\ Append(inbox[c], "len") # <<>>
    BY <2>1
  <2>4. /\ inbox' \in [Clients -> Seq({"len", "body"})]
        /\ inbox'[c] = Append(inbox[c], "len") /\ \A d \in Clients \ {c} : inbox'[d] = inbox[d]
    BY <1>1, <2>1, <2>3
  <2> QED
    BY <2>2, <2>3, <2>4
<1>4. Readable(c)'
  BY <1>3 DEF Readable
<1>5. ASSUME Running PROVE Exchanging(c)'
  <2>1. Exchanging(c)
    BY <1>5 DEF Inv, Exchange
  <2>2. ~Held(c) /\ inbox[c] = <<>> /\ outbox[c] = 0 /\ asked[c] = "none"
    BY <1>1, <2>1 DEF Exchanging, Talk, Held, AtClient
  <2>3. ~Held(c)'
    BY <1>1, <2>2, SameHeld
  <2>4. Talk(c)' = <<"half", <<"len">>, 0>> /\ asked'[c] = "none"
    BY <1>1, <1>3, <2>2, Parts DEF Talk
  <2> QED
    BY <1>3, <2>3, <2>4 DEF Exchanging
<1>6. link'[c] # "none"
  BY <1>1 DEF Connected
<1> QED
  BY <1>1, <1>2, <1>3, <1>4, <1>5, <1>6, NetTyped, ClientStep

(* ... and its body.                                                       *)
LEMMA AskBodyStep ==
  ASSUME Inv, NEW c \in Clients, AskBody(c)
  PROVE  Inv'
<1> PICK r \in Requests : asked' = [asked EXCEPT ![c] = r]
  BY DEF AskBody
<1>1. /\ Connected(c) /\ cl[c] = "half"
      /\ cl' = [cl EXCEPT ![c] = "wait"]
      /\ inbox' = [inbox EXCEPT ![c] = Append(@, "body")]
      /\ UNCHANGED <<process, fds, queue, link, peer, outbox, stdin>>
  BY DEF AskBody
<1>2. TypeOK
  BY DEF Inv
<1>3. /\ cl' \in [Clients -> {"idle", "half", "wait", "got_len", "gone"}]
      /\ inbox' \in [Clients -> Seq({"len", "body"})]
      /\ asked' \in [Clients -> Requests \cup {"none"}]
      /\ cl'[c] = "wait" /\ inbox'[c] = Append(inbox[c], "body") /\ inbox'[c] # <<>> /\ asked'[c] = r
      /\ \A d \in Clients \ {c} : cl'[d] = cl[d] /\ inbox'[d] = inbox[d] /\ asked'[d] = asked[d]
  <2>1. /\ cl \in [Clients -> {"idle", "half", "wait", "got_len", "gone"}]
        /\ inbox \in [Clients -> Seq({"len", "body"})]
        /\ asked \in [Clients -> Requests \cup {"none"}]
    BY <1>2, NetTyped
  <2>2. Append(inbox[c], "body") \in Seq({"len", "body"}) /\ Append(inbox[c], "body") # <<>>
    BY <2>1
  <2>3. /\ inbox' \in [Clients -> Seq({"len", "body"})] /\ inbox'[c] = Append(inbox[c], "body")
        /\ \A d \in Clients \ {c} : inbox'[d] = inbox[d]
    BY <1>1, <2>1, <2>2
  <2>4. /\ cl' \in [Clients -> {"idle", "half", "wait", "got_len", "gone"}] /\ cl'[c] = "wait"
        /\ \A d \in Clients \ {c} : cl'[d] = cl[d]
    BY <1>1, <2>1
  <2>5. /\ asked' \in [Clients -> Requests \cup {"none"}] /\ asked'[c] = r
        /\ \A d \in Clients \ {c} : asked'[d] = asked[d]
    BY <2>1
  <2> QED
    BY <2>2, <2>3, <2>4, <2>5
<1>4. Readable(c)'
  BY <1>3 DEF Readable
<1>5. ASSUME Running PROVE Exchanging(c)'
  <2>1. Exchanging(c)
    BY <1>5 DEF Inv, Exchange
  <2>2. /\ outbox[c] = 0
        /\ (~Held(c) /\ inbox[c] = <<"len">>) \/ (Held(c) /\ pc = "recv_body" /\ inbox[c] = <<>>)
    BY <1>1, <2>1 DEF Exchanging, Talk, Held, AtClient
  <2>3. pc' = pc /\ (Held(c)' <=> Held(c))
    BY <1>1, SameHeld
  <2>4. \/ ~Held(c)' /\ Talk(c)' = <<"wait", <<"len", "body">>, 0>>
        \/ Held(c)' /\ pc' = "recv_body" /\ Talk(c)' = <<"wait", <<"body">>, 0>>
    BY <1>1, <1>3, <2>2, <2>3, Parts DEF Talk
  <2> QED
    BY <1>3, <2>4 DEF Exchanging
<1>6. link'[c] # "none"
  BY <1>1 DEF Connected
<1> QED
  BY <1>1, <1>2, <1>3, <1>4, <1>5, <1>6, NetTyped, ClientStep

(* It receives a part of its reply.                                        *)
LEMMA ReadReplyStep ==
  ASSUME Inv, NEW c \in Clients, ReadReply(c)
  PROVE  Inv'
<1>1. /\ link[c] # "none" /\ peer[c] = "open" /\ outbox[c] > 0
      /\ outbox' = [outbox EXCEPT ![c] = @ - 1]
      /\ \/ cl[c] = "wait" /\ cl' = [cl EXCEPT ![c] = "got_len"] /\ UNCHANGED asked
         \/ cl[c] = "got_len" /\ cl' = [cl EXCEPT ![c] = "idle"] /\ asked' = [asked EXCEPT ![c] = "none"]
      /\ UNCHANGED <<process, fds, queue, link, peer, inbox, stdin>>
  BY DEF ReadReply
<1>2. TypeOK
  BY DEF Inv
<1>3. /\ outbox' \in [Clients -> 0..2] /\ outbox'[c] = outbox[c] - 1
      /\ \A d \in Clients \ {c} : outbox'[d] = outbox[d]
  BY <1>1, <1>2, NetTyped
<1>4. /\ cl' \in [Clients -> {"idle", "half", "wait", "got_len", "gone"}]
      /\ asked' \in [Clients -> Requests \cup {"none"}]
      /\ \/ cl[c] = "wait" /\ cl'[c] = "got_len" /\ asked'[c] = asked[c]
         \/ cl[c] = "got_len" /\ cl'[c] = "idle" /\ asked'[c] = "none"
      /\ \A d \in Clients \ {c} : cl'[d] = cl[d] /\ asked'[d] = asked[d]
  BY <1>1, <1>2, NetTyped, ZenonT(60)
<1>5. Readable(c) => Readable(c)'
  BY <1>1 DEF Readable
<1>6. ASSUME Running PROVE Exchanging(c)'
  <2> SUFFICES ASSUME Connected(c)' PROVE Exchanging(c)'
    BY DEF Exchanging
  <2>1. Exchanging(c) /\ Connected(c)
    BY <1>1, <1>6 DEF Inv, Exchange, Connected
  <2>2. /\ inbox[c] = <<>>
        /\ \/ ~Held(c) /\ cl[c] = "wait" /\ outbox[c] = 2 /\ asked[c] \in Requests
           \/ ~Held(c) /\ cl[c] = "got_len" /\ outbox[c] = 1
           \/ Held(c) /\ pc = "send_body" /\ cl[c] = "wait" /\ outbox[c] = 1 /\ asked[c] \in Requests
    BY <1>1, <2>1 DEF Exchanging, Talk, Held, AtClient
  <2>3. pc' = pc /\ (Held(c)' <=> Held(c))
    BY <1>1, SameHeld
  <2>4. \/ ~Held(c)' /\ Talk(c)' = <<"got_len", <<>>, 1>> /\ asked'[c] \in Requests
        \/ ~Held(c)' /\ Talk(c)' = <<"idle", <<>>, 0>> /\ asked'[c] = "none"
        \/ Held(c)' /\ pc' = "send_body" /\ Talk(c)' = <<"got_len", <<>>, 0>> /\ asked'[c] \in Requests
    BY <1>1, <1>3, <1>4, <2>2, <2>3 DEF Talk
  <2> QED
    BY <2>4 DEF Exchanging, Talk
<1> QED
  BY <1>1, <1>2, <1>3, <1>4, <1>5, <1>6, NetTyped, ClientStep

(* It closes its end, whatever has been sent to it.                        *)
LEMMA ClientClosesStep ==
  ASSUME Inv, NEW c \in Clients, Close(c)
  PROVE  Inv'
<1>1. /\ Connected(c)
      /\ peer' = [peer EXCEPT ![c] = IF outbox[c] > 0 THEN "rst" ELSE "fin"]
      /\ outbox' = [outbox EXCEPT ![c] = 0]
      /\ cl' = [cl EXCEPT ![c] = "gone"]
      /\ UNCHANGED <<process, fds, queue, link, inbox, asked, stdin>>
  BY DEF Close
<1>2. TypeOK
  BY DEF Inv
<1>3. /\ peer' \in [Clients -> {"open", "fin", "rst", "pipe"}] /\ peer'[c] # "open"
      /\ outbox' \in [Clients -> 0..2]
      /\ cl' \in [Clients -> {"idle", "half", "wait", "got_len", "gone"}]
      /\ \A d \in Clients \ {c} : peer'[d] = peer[d] /\ outbox'[d] = outbox[d] /\ cl'[d] = cl[d]
  BY <1>1, <1>2, NetTyped
<1>4. Readable(c)' /\ Exchanging(c)'
  BY <1>3 DEF Readable, Exchanging, Connected
<1>5. link'[c] # "none"
  BY <1>1 DEF Connected
<1> QED
  BY <1>1, <1>2, <1>3, <1>4, <1>5, NetTyped, ClientStep

(* Once the server has closed too, it may start again.                     *)
LEMMA LeaveStep ==
  ASSUME Inv, NEW c \in Clients, Leave(c)
  PROVE  Inv'
<1>1. /\ link[c] = "closed"
      /\ link' = [link EXCEPT ![c] = "none"]
      /\ peer' = [peer EXCEPT ![c] = "open"]
      /\ inbox' = [inbox EXCEPT ![c] = <<>>]
      /\ outbox' = [outbox EXCEPT ![c] = 0]
      /\ cl' = [cl EXCEPT ![c] = "idle"]
      /\ asked' = [asked EXCEPT ![c] = "none"]
      /\ UNCHANGED <<process, fds, queue, stdin>>
  BY DEF Leave
<1>2. TypeOK
  BY DEF Inv
<1>3. /\ link' \in [Clients -> {"none", "queued", "up", "closed"}]
      /\ peer' \in [Clients -> {"open", "fin", "rst", "pipe"}]
      /\ inbox' \in [Clients -> Seq({"len", "body"})]
      /\ outbox' \in [Clients -> 0..2]
      /\ cl' \in [Clients -> {"idle", "half", "wait", "got_len", "gone"}]
      /\ asked' \in [Clients -> Requests \cup {"none"}]
  BY <1>1, <1>2, NetTyped
<1>4. /\ link'[c] = "none" /\ peer'[c] = "open" /\ inbox'[c] = <<>> /\ outbox'[c] = 0
      /\ cl'[c] = "idle" /\ asked'[c] = "none"
      /\ \A d \in Clients \ {c} :
           /\ inbox'[d] = inbox[d] /\ peer'[d] = peer[d] /\ outbox'[d] = outbox[d]
           /\ link'[d] = link[d] /\ cl'[d] = cl[d] /\ asked'[d] = asked[d]
  BY <1>1, <1>2, NetTyped
<1>5. Exchanging(c)' /\ Talk(c)' = <<"idle", <<>>, 0>>
  BY <1>4 DEF Exchanging, Connected, Talk
<1> QED
  BY <1>1, <1>2, <1>3, <1>4, <1>5, NetTyped, ClientStep

-----------------------------------------------------------------------------
(* The invariant in every state. *)

(* At the start nothing is open, and nobody connected.                     *)
LEMMA InitInv == Init => Inv
<1> SUFFICES ASSUME Init PROVE Inv
  OBVIOUS
<1>1. /\ pc = "select" /\ cur = 0 /\ ready = {} /\ watched = {STDIN} /\ maxfd = 0
      /\ clients = <<>> /\ n_clients = 0
      /\ is_listening = FALSE /\ listener_fd = -1 /\ can_close = FALSE
      /\ queue = <<>> /\ stdin = "none" /\ DOMAIN fds = {}
  BY DEF Init
<1>2. /\ link = [c \in Clients |-> "none"] /\ peer = [c \in Clients |-> "open"]
      /\ inbox = [c \in Clients |-> <<>>] /\ outbox = [c \in Clients |-> 0]
      /\ cl = [c \in Clients |-> "idle"] /\ asked = [c \in Clients |-> "none"]
  BY DEF Init
<1>3. ClientFds = {}
  BY <1>1 DEF ClientFds
<1>4. TypeOK
  <2>1. /\ link \in [Clients -> {"none", "queued", "up", "closed"}]
        /\ peer \in [Clients -> {"open", "fin", "rst", "pipe"}]
        /\ inbox \in [Clients -> Seq({"len", "body"})]
        /\ outbox \in [Clients -> 0..2]
        /\ cl \in [Clients -> {"idle", "half", "wait", "got_len", "gone"}]
        /\ asked \in [Clients -> Requests \cup {"none"}]
    BY <1>2
  <2>2. /\ cur \in 0..MaxFd + 1 /\ maxfd \in 0..MaxFd /\ watched \subseteq 0..MaxFd
        /\ clients \in Seq([fd : 3..MaxFd, is_logged : BOOLEAN]) /\ queue \in Seq(Clients)
    BY <1>1 DEF STDIN
  <2> QED
    BY <1>1, <2>1, <2>2 DEF TypeOK
<1>5. Fresh
  BY <1>2 DEF Fresh, Talk
<1>6. Books /\ Links /\ Queued
  <2>1. Len(clients) = 0 /\ Len(queue) = 0
    BY <1>1
  <2>2. Books
    BY <1>1, <1>3, <2>1 DEF Books, STDIN
  <2>3. Links
    BY <1>2, <1>3 DEF Links
  <2> QED
    BY <2>1, <2>2, <2>3 DEF Queued
<1>7. ListenerKnown /\ Sweeping
  BY <1>1 DEF ListenerKnown, Sweeping, AtClient
<1>8. Exchange
  BY <1>2 DEF Exchange, Exchanging, Connected
<1> QED
  BY <1>4, <1>5, <1>6, <1>7, <1>8 DEF Inv

(* A step that changes nothing.                                            *)
LEMMA StutterStep == Inv /\ UNCHANGED vars => Inv'
<1> SUFFICES ASSUME Inv, UNCHANGED vars PROVE Inv'
  OBVIOUS
<1>1. UNCHANGED <<pc, cur, ready, watched, maxfd, clients, n_clients, is_listening, listener_fd,
                  can_close, fds, queue, link, peer, inbox, outbox, cl, asked, stdin>>
  BY DEF vars, process, net
<1>2. TypeOK' /\ Fresh'
  BY <1>1 DEF Inv, TypeOK, Fresh, Talk
<1>3. Running => Books' /\ Links' /\ Queued' /\ ListenerKnown'
  BY <1>1, SameBooks DEF Inv, ListenerKnown
<1>4. Running => Sweeping'
  BY <1>1 DEF Inv, Sweeping, AtClient, Readable, ClientFds
<1>5. Running => Exchange'
  BY <1>1 DEF Inv, Exchange, Exchanging, Held, AtClient, Talk, Connected
<1>6. Running' <=> Running
  BY <1>1 DEF Running
<1> QED
  BY <1>2, <1>3, <1>4, <1>5, <1>6 DEF Inv

(* A step of the server is one of a process that runs.                     *)
LEMMA ServerStepInv ==
  ASSUME Inv, ServerStep
  PROVE  Running /\ Inv'
<1>1. Running
  BY DEF ServerStep, Select, SweepEnd, Start, StartFails, Ignored, Stop, ReadLine, Accept,
         AcceptFails, RecvLen, ClientAt, At, RecvBody, SendLen, SendBody, Running
<1>2. CASE Select \/ SweepEnd
  BY <1>1, <1>2, SelectStep, SweepEndStep
<1>3. CASE Start \/ StartFails \/ Stop
  BY <1>1, <1>3, StartStep, StartFailsStep, StopStep
<1>4. CASE Ignored
  <2>1. /\ At(STDIN) /\ Done(STDIN) /\ stdin' = "none"
        /\ UNCHANGED <<ready, watched, maxfd, clients, n_clients, is_listening, listener_fd,
                       can_close, fds, queue, link, peer, inbox, outbox, cl, asked>>
    BY <1>4 DEF Ignored, ReadLine, net
  <2> QED
    BY <1>1, <2>1, PassStep
<1>5. CASE Accept
  BY <1>1, <1>5, AcceptStep
<1>6. CASE AcceptFails
  <2>1. PICK fd : /\ fd = listener_fd /\ At(fd) /\ Done(fd)
    BY <1>6 DEF AcceptFails
  <2>2. UNCHANGED <<ready, watched, maxfd, clients, n_clients, is_listening, listener_fd,
                    can_close, fds, queue, link, peer, inbox, outbox, cl, asked, stdin>>
    BY <1>6 DEF AcceptFails, net
  <2>3. stdin' \in Commands \cup {"none"}
    BY <2>2, NetTyped DEF Inv
  <2> QED
    BY <1>1, <2>1, <2>2, <2>3, PassStep
<1>7. ASSUME NEW fd, RecvLen(fd) PROVE Inv'
  BY <1>1, <1>7, RecvLenStep
<1>8. CASE RecvBody
  BY <1>1, <1>8, RecvBodyStep
<1>9. CASE SendLen \/ SendBody
  BY <1>1, <1>9, SendStep
<1> QED
  BY <1>1, <1>2, <1>3, <1>4, <1>5, <1>6, <1>7, <1>8, <1>9 DEF ServerStep

(* Every step keeps the invariant.                                         *)
LEMMA NextInv == Inv /\ [Next]_vars => Inv'
<1> SUFFICES ASSUME Inv, [Next]_vars PROVE Inv'
  OBVIOUS
<1>1. ASSUME NEW c \in Clients,
             Connect(c) \/ AskLen(c) \/ AskBody(c) \/ ReadReply(c) \/ Close(c) \/ Leave(c)
      PROVE  Inv'
  BY <1>1, ConnectStep, AskLenStep, AskBodyStep, ReadReplyStep, ClientClosesStep, LeaveStep
<1>2. ASSUME NEW command \in Commands, Type(command) PROVE Inv'
  BY <1>2, TypeStep
<1>3. CASE ServerStep
  BY <1>3, ServerStepInv
<1>4. CASE UNCHANGED vars
  BY <1>4, StutterStep
<1> QED
  BY <1>1, <1>2, <1>3, <1>4 DEF Next, Environment

(* The invariant holds in every state.                                     *)
THEOREM Invariance == Spec => []Inv
  BY InitInv, NextInv, PTL DEF Spec

-----------------------------------------------------------------------------
(* The properties. *)

(* Every variable keeps its type: no counter is below zero, no descriptor  *)
(* outside the range of the process, no reply of more than two parts.      *)
THEOREM TypeCorrect == Spec => []TypeOK
<1>1. Inv => TypeOK
  BY DEF Inv
<1> QED
  BY <1>1, Invariance, PTL

(* At every step of every sweep the watch set, the list of clients, the    *)
(* counter, the open descriptors and the connections that are up are the   *)
(* same clients, however many there are.                                   *)
THEOREM BooksAgree == Spec => []Bookkeeping
<1>1. Inv => Bookkeeping
  <2> SUFFICES ASSUME Inv, Running PROVE Bookkeeping
    BY DEF Bookkeeping
  <2>1. TypeOK /\ Books /\ Links
    BY DEF Inv
  <2>2. {clients[i].fd : i \in 1..Len(clients)} = ClientFds
    <3>1. \A i \in 1..Len(clients) : clients[i].fd \in ClientFds
      BY <2>1 DEF Books
    <3>2. \A f \in ClientFds : \E i \in 1..Len(clients) : clients[i].fd = f
      BY <2>1 DEF Books
    <3> QED
      BY <3>1, <3>2
  <2>3. {fds[f] : f \in ClientFds} = {c \in Clients : link[c] = "up"}
    <3>1. \A f \in ClientFds : fds[f] \in Clients /\ link[fds[f]] = "up"
      BY <2>1 DEF Links, ClientFds
    <3>2. \A c \in Clients : link[c] = "up" => \E f \in ClientFds : fds[f] = c
      BY <2>1 DEF Links
    <3> QED
      BY <3>1, <3>2
  <2>4. /\ n_clients = Len(clients)
        /\ \A i, j \in 1..Len(clients) : clients[i].fd = clients[j].fd => i = j
        /\ watched \ {STDIN, listener_fd} = ClientFds
    BY <2>1 DEF Books
  <2>5. \A f, g \in ClientFds : fds[f] = fds[g] => f = g
    BY <2>1 DEF Links
  <2> QED
    BY <2>2, <2>3, <2>4, <2>5 DEF Bookkeeping
<1> QED
  BY <1>1, Invariance, PTL

(* No handler of a sweep waits for a client that has nothing to receive,   *)
(* whatever the handlers before it opened or closed.                       *)
THEOREM NeverBlindRecv == Spec => []NoBlindRecv
<1>1. Inv => NoBlindRecv
  <2> SUFFICES ASSUME Inv, pc = "sweep", NEW fd \in ToSweep \ {STDIN, listener_fd}
               PROVE  fd \in ClientFds /\ Readable(fds[fd])
    BY DEF NoBlindRecv
  <2>1. TypeOK /\ Sweeping
    BY DEF Inv, Running
  <2>2. fd \in ready /\ cur <= fd /\ fd \in Int /\ cur \in Int
    BY <2>1, Numbers DEF ToSweep
  <2>3. cur < fd \/ cur = fd
    BY <2>2
  <2> QED
    BY <2>1, <2>2, <2>3 DEF Sweeping
<1> QED
  BY <1>1, Invariance, PTL

(* A server that is about to stop has no listener and no client left.      *)
THEOREM StopsClean == Spec => []CleanStop
<1>1. Inv => CleanStop
  <2> SUFFICES ASSUME Inv, Running, can_close
               PROVE  ~Listening /\ \A c \in Clients : link[c] # "up"
    BY DEF CleanStop
  <2>1. Books /\ Links /\ ListenerKnown
    BY DEF Inv
  <2>2. ~Listening
    BY <2>1 DEF ListenerKnown, Listening
  <2>3. clients = <<>> /\ Len(<<>>) = 0
    BY <2>1 DEF ListenerKnown
  <2>4. ClientFds = {}
    BY <2>1, <2>3 DEF Books
  <2> QED
    BY <2>1, <2>2, <2>4 DEF Links
<1> QED
  BY <1>1, Invariance, PTL

-----------------------------------------------------------------------------
(* Server implements Service. *)

(* What Service sees of a client.                                          *)
Asked(c)   == IF Connected(c) THEN asked[c] ELSE "none"
LogSeen(c) == Connected(c) /\ link[c] = "up" /\ Logged(FdOf(c))
SameView(c) == /\ Place(c)' = Place(c) /\ Asked(c)' = Asked(c)
               /\ LogSeen(c)' <=> LogSeen(c)
Gone(c)    == Place(c) = "away" /\ Asked(c) = "none" /\ ~LogSeen(c)

(* Once the process has ended nobody is connected any more.                *)
Over == ~Running => ~Listening /\ \A c \in Clients : link[c] \notin {"queued", "up"}

(* The process runs when it starts.                                        *)
LEMMA OverInit == Init => Over
  BY DEF Init, Over, Running

(* The process ends with its connections.                                  *)
LEMMA OverNext == Inv /\ Over /\ [Next]_vars => Over'
<1> SUFFICES ASSUME Inv, Over, [Next]_vars, ~Running'
             PROVE  ~Listening' /\ \A c \in Clients : link'[c] \notin {"queued", "up"}
  BY DEF Over
<1>1. CASE Running
  <2>1. \E how \in {"exit", "killed"} : End(how)
    <3>1. pc \notin {"exit", "killed"} /\ pc' \in {"exit", "killed"}
      BY <1>1 DEF Running
    <3>2. ServerStep
      BY <3>1 DEF Next, Environment, Type, Connect, AskLen, AskBody, ReadReply, Close, Leave,
                  vars, process
    <3> QED
      BY <3>1, <3>2 DEF ServerStep, Select, SweepEnd, Start, StartFails, Ignored, Stop, ReadLine,
           Accept, AcceptFails, RecvLen, RecvBody, SendLen, SendBody, Delivered, SendFails, Killed,
           Execute, CloseClient, Done
  <2> QED
    BY <2>1 DEF End, Listening
<1>2. CASE ~Running
  <2>1. ~Listening /\ \A c \in Clients : link[c] \notin {"queued", "up"}
    BY <1>2 DEF Over
  <2>2. ~ServerStep
    BY <1>2, ServerStepInv
  <2>3. CASE UNCHANGED vars
    BY <2>1, <2>3 DEF vars, net, Listening
  <2>4. ASSUME NEW command \in Commands, Type(command)
        PROVE  ~Listening' /\ \A c \in Clients : link'[c] \notin {"queued", "up"}
    BY <2>1, <2>4 DEF Type, net, Listening
  <2>5. ASSUME NEW c \in Clients,
               Connect(c) \/ AskLen(c) \/ AskBody(c) \/ ReadReply(c) \/ Close(c)
        PROVE  UNCHANGED <<link, fds>>
    BY <2>1, <2>5 DEF Connect, AskLen, AskBody, ReadReply, Close
  <2>6. ASSUME NEW c \in Clients, Leave(c)
        PROVE  ~Listening' /\ \A d \in Clients : link'[d] \notin {"queued", "up"}
    <3>1. link' = [link EXCEPT ![c] = "none"] /\ UNCHANGED fds
      BY <2>6 DEF Leave
    <3>2. link \in [Clients -> {"none", "queued", "up", "closed"}]
      BY NetTyped DEF Inv
    <3> QED
      BY <2>1, <3>1, <3>2 DEF Listening
  <2> QED
    BY <2>1, <2>2, <2>3, <2>4, <2>5, <2>6 DEF Next, Environment, Listening
<1> QED
  BY <1>1, <1>2

(* The entry of a client says that it is logged in.                        *)
LoggedIn(c) ==
  \E i \in 1..Len(clients) :
    clients[i].is_logged /\ clients[i].fd \in DOMAIN fds /\ fds[clients[i].fd] = c

(* A login is seen where the list has it.                                  *)
LEMMA LogSeenInList ==
  Inv /\ Over => \A c \in Clients : LogSeen(c) <=> Connected(c) /\ link[c] = "up" /\ LoggedIn(c)
<1> SUFFICES ASSUME Inv, Over, NEW c \in Clients, link[c] = "up"
             PROVE  Logged(FdOf(c)) <=> LoggedIn(c)
  BY DEF LogSeen
<1>1. TypeOK /\ Books /\ Links
  BY DEF Inv, Over
<1>2. FdOf(c) \in ClientFds /\ fds[FdOf(c)] = c
  <2>1. PICK f \in ClientFds : fds[f] = c
    BY <1>1 DEF Links
  <2>2. f \in DOMAIN fds
    BY DEF ClientFds
  <2>3. FdOf(c) \in DOMAIN fds /\ fds[FdOf(c)] = c
    BY <2>1, <2>2 DEF FdOf
  <2> QED
    BY <2>3 DEF ClientFds
<1> PICK fd \in ClientFds : fd = FdOf(c)
  BY <1>2
<1>3. Find(fd) \in 1..Len(clients) /\ clients[Find(fd)].fd = fd
  BY <1>1, Found
<1> PICK k \in 1..Len(clients) : k = Find(fd)
  BY <1>3
<1>4. Logged(fd) <=> clients[k].is_logged
  BY <1>3 DEF Logged
<1>5. \A i \in 1..Len(clients) :
        clients[i].fd \in DOMAIN fds /\ fds[clients[i].fd] = c <=> i = k
  <2>1. \A i \in 1..Len(clients) : clients[i].fd \in ClientFds
    BY <1>1 DEF Books
  <2>2. fd \in DOMAIN fds /\ fds[fd] = c
    BY <1>2 DEF ClientFds
  <2>3. \A i \in 1..Len(clients) : fds[clients[i].fd] = c => i = k
    BY <1>1, <1>3, <2>1, <2>2 DEF Books, Links
  <2> QED
    BY <1>3, <2>2, <2>3
<1> QED
  BY <1>4, <1>5 DEF LoggedIn

(* Steps that change what Service sees of nobody.                          *)
LEMMA Still ==
  ASSUME \A c \in Clients : SameView(c)
  PROVE  UNCHANGED ServiceOf!vars
  BY DEF ServiceOf!vars, SameView, Asked, LogSeen

(* Steps that change what it sees of one client, as it promises.           *)
LEMMA Moves ==
  ASSUME NEW c \in Clients, \A d \in Clients \ {c} : SameView(d),
         \/ /\ Place(c) = "away" /\ Place(c)' = "in"
            /\ Asked(c)' = Asked(c) /\ (LogSeen(c)' <=> LogSeen(c))
         \/ /\ Place(c) = "in" /\ Place(c)' = "asking"
            /\ Asked(c)' \in Requests /\ (LogSeen(c)' <=> LogSeen(c))
         \/ /\ Place(c) = "asking" /\ Place(c)' = "served"
            /\ \/ Asked(c) \in {"LOGIN", "ADMIN"} /\ ~LogSeen(c)
               \/ Asked(c) = "LOGOUT" /\ ~LogSeen(c)'
               \/ Asked(c) \in {"GMN", "BAD"} /\ (LogSeen(c)' <=> LogSeen(c))
            /\ Asked(c)' = Asked(c)
         \/ /\ Place(c) = "served" /\ Place(c)' = "answered"
            /\ Asked(c)' = Asked(c) /\ (LogSeen(c)' <=> LogSeen(c))
         \/ /\ Place(c) = "answered" /\ Place(c)' = "in"
            /\ Asked(c)' = "none" /\ (LogSeen(c)' <=> LogSeen(c))
         \/ Gone(c)'
         \/ SameView(c)
  PROVE  [ServiceOf!Next]_ServiceOf!vars
<1> DEFINE place  == [d \in Clients |-> Place(d)]
           asks   == [d \in Clients |-> IF Connected(d) THEN asked[d] ELSE "none"]
           logged == [d \in Clients |-> Connected(d) /\ link[d] = "up" /\ Logged(FdOf(d))]
<1>1. /\ \A d \in Clients \ {c} : place'[d] = place[d] /\ asks'[d] = asks[d] /\ logged'[d] = logged[d]
      /\ place[c] = Place(c) /\ asks[c] = Asked(c) /\ logged[c] = LogSeen(c)
      /\ place'[c] = Place(c)' /\ asks'[c] = Asked(c)' /\ logged'[c] = LogSeen(c)'
      /\ LogSeen(c) \in BOOLEAN /\ LogSeen(c)' \in BOOLEAN
  <2>1. LogSeen(c) \in BOOLEAN /\ LogSeen(c)' \in BOOLEAN
    BY DEF LogSeen
  <2>2. \A d \in Clients \ {c} : logged'[d] = logged[d]
    BY DEF SameView, LogSeen
  <2> QED
    BY <2>1, <2>2 DEF SameView, Asked, LogSeen
<1>2. /\ \A p : Place(c)' = p => place' = [place EXCEPT ![c] = p]
      /\ \A a : Asked(c)' = a => asks' = [asks EXCEPT ![c] = a]
      /\ \A b : LogSeen(c)' = b => logged' = [logged EXCEPT ![c] = b]
      /\ Asked(c)' = Asked(c) => asks' = asks
      /\ LogSeen(c)' = LogSeen(c) => logged' = logged
  <2> DEFINE Kept(f, g) == f = [d \in Clients |-> f[d]] /\ g = [d \in Clients |-> g[d]]
                           /\ \A d \in Clients \ {c} : g[d] = f[d]
  <2>1. \A f, g : Kept(f, g) => /\ \A v : g[c] = v => g = [f EXCEPT ![c] = v]
                                /\ g[c] = f[c] => g = f
    OBVIOUS
  <2>2. Kept(place, place') /\ Kept(asks, asks') /\ Kept(logged, logged')
    BY <1>1
  <2> HIDE DEF place, asks, logged, Kept
  <2> QED
    BY <1>1, <2>1, <2>2
<1> DEFINE Kept == /\ Asked(c)' = Asked(c)
                   /\ LogSeen(c)' <=> LogSeen(c)
<1>3. Kept => asks' = asks /\ logged' = logged
  BY <1>1, <1>2
<1>4. CASE Place(c) = "away" /\ Place(c)' = "in" /\ Kept
  <2>1. place[c] = "away" /\ place' = [place EXCEPT ![c] = "in"] /\ asks' = asks /\ logged' = logged
    BY <1>1, <1>2, <1>3, <1>4
  <2>2. ServiceOf!Enter(c)
    BY ONLY <2>1 DEF ServiceOf!Enter, ServiceOf!Move
  <2> QED
    BY <2>2 DEF ServiceOf!Next
<1>5. CASE /\ Place(c) = "in" /\ Place(c)' = "asking"
           /\ Asked(c)' \in Requests /\ (LogSeen(c)' <=> LogSeen(c))
  <2>1. /\ place[c] = "in" /\ place' = [place EXCEPT ![c] = "asking"]
        /\ \E r \in Requests : asks' = [asks EXCEPT ![c] = r]
        /\ logged' = logged
    BY <1>1, <1>2, <1>5
  <2>2. ServiceOf!Ask(c)
    BY ONLY <2>1 DEF ServiceOf!Ask, ServiceOf!Move
  <2> QED
    BY <2>2 DEF ServiceOf!Next
<1>6. CASE /\ Place(c) = "asking" /\ Place(c)' = "served"
           /\ \/ Asked(c) \in {"LOGIN", "ADMIN"} /\ ~LogSeen(c)
              \/ Asked(c) = "LOGOUT" /\ ~LogSeen(c)'
              \/ Asked(c) \in {"GMN", "BAD"} /\ (LogSeen(c)' <=> LogSeen(c))
           /\ Asked(c)' = Asked(c)
  <2>1. /\ place[c] = "asking" /\ place' = [place EXCEPT ![c] = "served"] /\ asks' = asks
        /\ \/ asks[c] \in {"LOGIN", "ADMIN"} /\ ~logged[c] /\ logged' = [logged EXCEPT ![c] = TRUE]
           \/ asks[c] \in {"LOGIN", "ADMIN"} /\ ~logged[c] /\ logged' = logged
           \/ asks[c] = "LOGOUT" /\ logged' = [logged EXCEPT ![c] = FALSE]
           \/ asks[c] \in {"GMN", "BAD"} /\ logged' = logged
    <3>1. /\ place[c] = "asking" /\ place' = [place EXCEPT ![c] = "served"] /\ asks' = asks
      BY <1>1, <1>2, <1>6
    <3>2. /\ LogSeen(c)' = TRUE => logged' = [logged EXCEPT ![c] = TRUE]
          /\ LogSeen(c)' = FALSE => logged' = [logged EXCEPT ![c] = FALSE]
          /\ LogSeen(c)' = LogSeen(c) => logged' = logged
      BY <1>2
    <3> HIDE DEF place, asks, logged
    <3> QED
      BY <1>1, <1>6, <3>1, <3>2
  <2>2. ServiceOf!Serve(c)
    BY ONLY <2>1 DEF ServiceOf!Serve, ServiceOf!Move
  <2> QED
    BY <2>2 DEF ServiceOf!Next
<1>7. CASE Place(c) = "served" /\ Place(c)' = "answered" /\ Kept
  <2>1. place[c] = "served" /\ place' = [place EXCEPT ![c] = "answered"] /\ asks' = asks /\ logged' = logged
    BY <1>1, <1>2, <1>3, <1>7
  <2>2. ServiceOf!Answer(c)
    BY ONLY <2>1 DEF ServiceOf!Answer, ServiceOf!Move
  <2> QED
    BY <2>2 DEF ServiceOf!Next
<1>8. CASE /\ Place(c) = "answered" /\ Place(c)' = "in"
           /\ Asked(c)' = "none" /\ (LogSeen(c)' <=> LogSeen(c))
  <2>1. /\ place[c] = "answered" /\ place' = [place EXCEPT ![c] = "in"]
        /\ asks' = [asks EXCEPT ![c] = "none"] /\ logged' = logged
    BY <1>1, <1>2, <1>8
  <2>2. ServiceOf!Read(c)
    BY ONLY <2>1 DEF ServiceOf!Read, ServiceOf!Move
  <2> QED
    BY <2>2 DEF ServiceOf!Next
<1>9. CASE Gone(c)'
  <2>1. /\ place' = [d \in Clients |-> IF d \in {c} THEN "away" ELSE place[d]]
        /\ asks' = [d \in Clients |-> IF d \in {c} THEN "none" ELSE asks[d]]
        /\ logged' = [d \in Clients |-> IF d \in {c} THEN FALSE ELSE logged[d]]
    <3>1. place'[c] = "away" /\ asks'[c] = "none" /\ logged'[c] = FALSE
      BY <1>1, <1>9 DEF Gone
    <3>2. /\ place' = [d \in Clients |-> place'[d]] /\ asks' = [d \in Clients |-> asks'[d]]
          /\ logged' = [d \in Clients |-> logged'[d]]
      OBVIOUS
    <3> HIDE DEF place, asks, logged
    <3> QED
      BY <1>1, <3>1, <3>2, ZenonT(60)
  <2>2. ServiceOf!Leave({c})
    BY ONLY <2>1 DEF ServiceOf!Leave
  <2> QED
    BY <2>2 DEF ServiceOf!Next
<1>10. CASE SameView(c)
  BY <1>10, Still
<1> QED
  BY <1>4, <1>5, <1>6, <1>7, <1>8, <1>9, <1>10

(* Steps after which it sees nobody.                                       *)
LEMMA AllGone ==
  ASSUME \A c \in Clients : Gone(c)'
  PROVE  [ServiceOf!Next]_ServiceOf!vars
<1>1. ServiceOf!Leave(Clients)
  BY DEF ServiceOf!Leave, Gone, Asked, LogSeen
<1> QED
  BY <1>1 DEF ServiceOf!Next

(* The same of the state after a step.                                     *)
LEMMA LogSeenInListNext ==
  (Inv /\ Over)' => (\A c \in Clients : LogSeen(c) <=> Connected(c) /\ link[c] = "up" /\ LoggedIn(c))'
  BY LogSeenInList, PTL

(* The descriptor of a client is found from the client.                    *)
LEMMA FdOfClient ==
  ASSUME Inv, Running, NEW fd \in ClientFds, NEW c, c = fds[fd]
  PROVE  FdOf(c) = fd /\ (LoggedIn(c) <=> Logged(fd))
<1>1. TypeOK /\ Books /\ Links
  BY DEF Inv
<1>2. fd \in DOMAIN fds /\ c \in Clients
  BY DEF ClientFds
<1>3. FdOf(c) \in DOMAIN fds /\ fds[FdOf(c)] = c
  BY <1>2 DEF FdOf
<1>4. FdOf(c) = fd
  BY <1>1, <1>2, <1>3 DEF Links, ClientFds
<1>5. Find(fd) \in 1..Len(clients) /\ clients[Find(fd)].fd = fd
  BY <1>1, Found
<1> PICK k \in 1..Len(clients) : k = Find(fd)
  BY <1>5
<1>6. Logged(fd) <=> clients[k].is_logged
  BY <1>5 DEF Logged
<1>7. \A i \in 1..Len(clients) : clients[i].fd \in DOMAIN fds /\ fds[clients[i].fd] = c <=> i = k
  <2>1. \A i \in 1..Len(clients) : clients[i].fd \in ClientFds
    BY <1>1 DEF Books
  <2>2. \A i \in 1..Len(clients) : fds[clients[i].fd] = c => i = k
    BY <1>1, <1>5, <2>1 DEF Books, Links
  <2> QED
    BY <1>2, <1>5, <2>2
<1> QED
  BY <1>4, <1>6, <1>7 DEF LoggedIn

(* Where a client is seen to be depends on it and on who is answered.      *)
LEMMA SamePlace ==
  ASSUME NEW c, UNCHANGED <<link[c], peer[c], outbox[c], cl[c], asked[c]>>,
         Sending(c)' <=> Sending(c)
  PROVE  /\ Connected(c)' <=> Connected(c)
         /\ Place(c)' = Place(c) /\ Asked(c)' = Asked(c)
<1>1. Connected(c)' <=> Connected(c)
  BY DEF Connected
<1>2. Place(c)' = Place(c)
  BY <1>1 DEF Place
<1> QED
  BY <1>1, <1>2 DEF Asked

(* ... and one who is not connected is not seen at all.                    *)
LEMMA NotSeen ==
  ASSUME NEW c, ~Connected(c)
  PROVE  Gone(c)
  BY DEF Gone, Place, Asked, LogSeen

(* ... which holds after a step too.                                       *)
LEMMA NotSeenNext ==
  ASSUME NEW c
  PROVE  ~Connected(c)' => Gone(c)'
<1>1. ~Connected(c) => Gone(c)
  BY NotSeen
<1> QED
  BY <1>1, PTL

(* The server at work on itself: nobody sees it.                           *)
LEMMA IdleViews ==
  ASSUME Inv, Over, Inv', Over', Running,
         pc \notin {"send_len", "send_body"}, pc' \notin {"send_len", "send_body"},
         UNCHANGED <<peer, outbox, cl, asked, link, clients>>,
         \A f \in ClientFds : f \in DOMAIN fds' /\ fds'[f] = fds[f]
  PROVE  UNCHANGED ServiceOf!vars
<1> SUFFICES ASSUME NEW c \in Clients PROVE SameView(c)
  BY Still
<1>1. ~Sending(c) /\ ~Sending(c)'
  BY DEF Sending
<1>2. Place(c)' = Place(c) /\ Asked(c)' = Asked(c) /\ (Connected(c)' <=> Connected(c))
  BY <1>1, SamePlace
<1>3. LoggedIn(c)' <=> LoggedIn(c)
  <2>1. \A i \in 1..Len(clients) : clients[i].fd \in ClientFds /\ clients[i].fd \in DOMAIN fds
    BY DEF Inv, Books, ClientFds
  <2> QED
    BY <2>1 DEF LoggedIn
<1>4. LogSeen(c)' <=> LogSeen(c)
  BY <1>2, <1>3, LogSeenInList, LogSeenInListNext
<1> QED
  BY <1>2, <1>4 DEF SameView

(* Serving one client: the others are seen as before.                      *)
LEMMA ServeViews ==
  ASSUME Inv, Over, Inv', Over', Running, NEW fd, Serving(fd), NEW c \in Clients, c = fds[fd],
         UNCHANGED Rest, OnlyServed(c),
         \/ pc' \in {"recv_body", "send_len", "send_body"} /\ cur' = fd
         \/ Done(fd),
         Len(clients') = Len(clients),
         \A i \in 1..Len(clients) : /\ clients'[i].fd = clients[i].fd
                                    /\ clients[i].fd # fd => clients'[i] = clients[i]
  PROVE  \A d \in Clients \ {c} : SameView(d)
<1> SUFFICES ASSUME NEW d \in Clients \ {c} PROVE SameView(d)
  OBVIOUS
<1>1. UNCHANGED <<fds, link, cl, asked>> /\ peer'[d] = peer[d] /\ outbox'[d] = outbox[d]
  BY DEF Rest, OnlyServed
<1>2. ~Sending(d) /\ ~Sending(d)'
  BY <1>1 DEF Sending, Serving, AtClient, Done
<1>3. Place(d)' = Place(d) /\ Asked(d)' = Asked(d) /\ (Connected(d)' <=> Connected(d))
  BY <1>1, <1>2, SamePlace
<1>4. LoggedIn(d)' <=> LoggedIn(d)
  <2>1. \A i \in 1..Len(clients) : fds[clients[i].fd] = d => clients'[i] = clients[i]
    OBVIOUS
  <2>2. \A i \in 1..Len(clients) :
          clients'[i].is_logged /\ clients'[i].fd \in DOMAIN fds /\ fds[clients'[i].fd] = d
            <=> clients[i].is_logged /\ clients[i].fd \in DOMAIN fds /\ fds[clients[i].fd] = d
    BY <2>1
  <2> QED
    BY <1>1, <2>2 DEF LoggedIn
<1>5. LogSeen(d)' <=> LogSeen(d)
  BY <1>1, <1>3, <1>4, LogSeenInList, LogSeenInListNext
<1> QED
  BY <1>3, <1>5 DEF SameView

(* Closing one client.                                                     *)
LEMMA CloseViews ==
  ASSUME Inv, Over, Inv', Over', Running, NEW fd, Serving(fd), NEW c \in Clients, c = fds[fd],
         NEW open, Lost(open), CloseClient(fd, open), OnlyServed(c)
  PROVE  [ServiceOf!Next]_ServiceOf!vars
<1>1. /\ pc' = "sweep" /\ clients' = ListRemove(fd)
      /\ fds' = [f \in DOMAIN open \ {fd} |-> open[f]]
      /\ link' = [link EXCEPT ![c] = "closed"] /\ UNCHANGED <<cl, asked>>
  BY DEF CloseClient, Done
<1>2. \A d \in Clients : link'[d] = IF d = c THEN "closed" ELSE link[d]
  BY <1>1, NetTyped DEF Inv
<1>3. TypeOK /\ Books /\ Links /\ fd \in ClientFds
  BY DEF Inv, Serving
<1>4. Gone(c)'
  BY <1>2, NotSeenNext DEF Connected
<1>5. ASSUME NEW d \in Clients \ {c} PROVE SameView(d)
  <2>1. link'[d] = link[d] /\ peer'[d] = peer[d] /\ outbox'[d] = outbox[d]
        /\ cl'[d] = cl[d] /\ asked'[d] = asked[d]
    BY <1>1, <1>2 DEF OnlyServed
  <2>2. ~Sending(d) /\ ~Sending(d)'
    BY <1>1 DEF Sending, Serving, AtClient
  <2>3. Place(d)' = Place(d) /\ Asked(d)' = Asked(d) /\ (Connected(d)' <=> Connected(d))
    BY <2>1, <2>2, SamePlace
  <2>4. LoggedIn(d)' <=> LoggedIn(d)
    <3> DEFINE n == Len(clients)
    <3>1. Lacks(clients', fd) /\ Len(clients') = n - 1
      BY <1>1, <1>3, ListShrinks
    <3>2. PICK Old \in [1..n - 1 -> 1..n] :
            /\ \A i \in 1..n - 1 : clients'[i] = clients[Old[i]] /\ Old[i] # Find(fd)
            /\ \A m \in 1..n : m # Find(fd) => \E i \in 1..n - 1 : Old[i] = m
      BY <3>1 DEF Lacks
    <3>3. \A i \in 1..n : clients[i].fd \in ClientFds /\ clients[i].fd \in DOMAIN fds
                          /\ (clients[i].fd = fd <=> i = Find(fd))
      <4>1. Find(fd) \in 1..n /\ clients[Find(fd)].fd = fd
        BY <1>3, Found
      <4> QED
        BY <1>3, <4>1 DEF Books, ClientFds
    <3>4. \A f \in ClientFds \ {fd} : f \in DOMAIN fds' /\ fds'[f] = fds[f]
      BY <1>1 DEF Lost, ClientFds
    <3> HIDE DEF n
    <3>5. ASSUME LoggedIn(d) PROVE LoggedIn(d)'
      <4>1. PICK m \in 1..n : clients[m].is_logged /\ fds[clients[m].fd] = d
        BY <3>5 DEF LoggedIn, n
      <4>2. m # Find(fd)
        BY <3>3, <4>1
      <4>3. PICK i \in 1..n - 1 : Old[i] = m
        BY <3>2, <4>2
      <4>4. /\ i \in 1..Len(clients') /\ clients'[i] = clients[m]
            /\ clients[m].fd \in DOMAIN fds' /\ fds'[clients[m].fd] = d
        BY <3>1, <3>2, <3>3, <3>4, <4>1, <4>2, <4>3
      <4> QED
        BY <4>1, <4>4 DEF LoggedIn
    <3>6. ASSUME LoggedIn(d)' PROVE LoggedIn(d)
      <4>1. PICK i \in 1..n - 1 : clients'[i].is_logged /\ fds'[clients'[i].fd] = d
        BY <3>1, <3>6 DEF LoggedIn
      <4>2. Old[i] \in 1..n /\ clients'[i] = clients[Old[i]] /\ Old[i] # Find(fd)
        BY <3>2
      <4>3. clients[Old[i]].fd \in DOMAIN fds /\ fds[clients[Old[i]].fd] = d
        BY <3>3, <3>4, <4>1, <4>2
      <4> QED
        BY <4>1, <4>2, <4>3 DEF LoggedIn, n
    <3> QED
      BY <3>5, <3>6
  <2>5. LogSeen(d)' <=> LogSeen(d)
    BY <2>1, <2>3, <2>4, LogSeenInList, LogSeenInListNext
  <2> QED
    BY <2>3, <2>5 DEF SameView
<1> QED
  BY <1>4, <1>5, Moves

(* The process ends: everyone is gone.                                     *)
LEMMA EndViews ==
  ASSUME NEW how, End(how)
  PROVE  [ServiceOf!Next]_ServiceOf!vars
<1>1. \A c \in Clients : link'[c] \in {"none", "closed"}
  BY DEF End
<1>2. ASSUME NEW c \in Clients PROVE Gone(c)'
  <2>1. ~Connected(c)'
    BY <1>1 DEF Connected
  <2> QED
    BY <2>1, NotSeenNext
<1> QED
  BY <1>2, AllGone

(* ... and so they are when it stops listening: none was accepted.         *)
LEMMA StopViews ==
  ASSUME Inv, Running, Stop
  PROVE  [ServiceOf!Next]_ServiceOf!vars
<1>1. Books /\ Links
  BY DEF Inv
<1>2. \A c \in Clients : link[c] # "up"
  <2>1. ClientFds = {}
    BY <1>1 DEF Books, Stop
  <2> QED
    BY <1>1, <2>1 DEF Links
<1>3. \A c \in Clients : link'[c] \notin {"queued", "up"}
  BY <1>2 DEF Stop
<1>4. ASSUME NEW c \in Clients PROVE Gone(c)'
  <2>1. ~Connected(c)'
    BY <1>3 DEF Connected
  <2> QED
    BY <2>1, NotSeenNext
<1> QED
  BY <1>4, AllGone

(* select, the end of a sweep, and the operator's other lines.             *)
LEMMA LoopViews ==
  ASSUME Inv, Over, Inv', Over', Running,
         Select \/ SweepEnd \/ Start \/ StartFails \/ Ignored \/ AcceptFails
  PROVE  [ServiceOf!Next]_ServiceOf!vars
<1>1. CASE \E how : End(how)
  BY <1>1, EndViews
<1>2. CASE \/ Select \/ AcceptFails \/ Ignored
           \/ SweepEnd /\ pc' = "select" /\ UNCHANGED <<clients, fds, net>>
  <2>1. /\ pc \notin {"send_len", "send_body"} /\ pc' \notin {"send_len", "send_body"}
        /\ UNCHANGED <<clients, fds, net>>
    BY <1>2 DEF Select, SweepEnd, AcceptFails, Ignored, ReadLine, At, Done
  <2>2. UNCHANGED <<peer, outbox, cl, asked, link, clients, fds>>
    BY <2>1 DEF net
  <2>3. \A f \in ClientFds : f \in DOMAIN fds' /\ fds'[f] = fds[f]
    BY <2>2 DEF ClientFds
  <2> QED
    BY <2>1, <2>2, <2>3, IdleViews
<1>3. CASE Start \/ StartFails
  <2>1. /\ pc \notin {"send_len", "send_body"} /\ pc' \notin {"send_len", "send_body"}
        /\ UNCHANGED <<clients, net>>
    BY <1>3 DEF Start, StartFails, ReadLine, At, Done
  <2>2. UNCHANGED <<peer, outbox, cl, asked, link, clients>>
    BY <2>1 DEF net
  <2>3. PICK low, what : /\ low \notin DOMAIN fds
                         /\ fds' = [f \in DOMAIN fds \cup {low} |-> IF f = low THEN what ELSE fds[f]]
    BY <1>3, LowestFree DEF Start, StartFails, Open
  <2>4. \A f \in ClientFds : f \in DOMAIN fds' /\ fds'[f] = fds[f]
    BY <2>3 DEF ClientFds
  <2> QED
    BY <2>1, <2>2, <2>4, IdleViews
<1>4. SweepEnd => \/ \E how : End(how)
                  \/ pc' = "select" /\ UNCHANGED <<clients, fds, net>>
  BY DEF SweepEnd
<1> QED
  BY <1>1, <1>2, <1>3, <1>4

(* A client that is accepted is seen as it was in the queue: logged in it  *)
(* is not, whoever had the descriptor it is given.                         *)
LEMMA AcceptViews ==
  ASSUME Inv, Over, Inv', Over', Running, Accept
  PROVE  [ServiceOf!Next]_ServiceOf!vars
<1> DEFINE S == [fd : 3..MaxFd, is_logged : BOOLEAN]
<1>1. TypeOK /\ Books /\ Links /\ Queued
  BY DEF Inv
<1> PICK low : low = Lowest
  OBVIOUS
<1> PICK h : h = Head(queue)
  OBVIOUS
<1> PICK e : e = [fd |-> Lowest, is_logged |-> FALSE]
  OBVIOUS
<1>2. /\ pc = "sweep" /\ pc' = "sweep" /\ queue # <<>> /\ FreeFds # {}
      /\ fds' = [f \in DOMAIN fds \cup {low} |-> IF f = low THEN h ELSE fds[f]]
      /\ link' = [link EXCEPT ![h] = "up"]
      /\ clients' = <<e>> \o clients
      /\ UNCHANGED <<peer, outbox, cl, asked>>
  BY DEF Accept, Open, Done, At
<1>3. low \in 3..MaxFd /\ low \notin DOMAIN fds /\ e \in S /\ e.fd = low /\ ~e.is_logged
  BY <1>2, LowestFree
<1>4. h \in Clients /\ link[h] = "queued"
  <2>1. queue \in Seq(Clients) /\ queue # <<>>
    BY <1>1, <1>2, NetTyped
  <2>2. Len(queue) \in Nat \ {0} /\ h = queue[1] /\ h \in Clients
    BY <2>1
  <2> QED
    BY <1>1, <2>2 DEF Queued
<1>5. /\ Len(clients') = Len(clients) + 1 /\ Len(clients) \in Nat
      /\ clients'[1] = e
      /\ \A i \in 1..Len(clients) : clients'[i + 1] = clients[i]
  <2>1. clients \in Seq(S)
    BY <1>1 DEF TypeOK
  <2> HIDE DEF S
  <2> QED
    BY <1>2, <1>3, <2>1, ConsProperties
<1>6. /\ low \in DOMAIN fds' /\ fds'[low] = h
      /\ \A f \in ClientFds : f \in DOMAIN fds' /\ fds'[f] = fds[f] /\ fds[f] # h
  <2>1. \A f \in ClientFds : f \in DOMAIN fds' /\ fds'[f] = fds[f]
    BY <1>2, <1>3 DEF ClientFds
  <2>2. \A f \in ClientFds : link[fds[f]] = "up"
    BY <1>1 DEF Links
  <2> QED
    BY <1>2, <1>4, <2>1, <2>2
<1>7. \A i \in 1..Len(clients) : clients[i].fd \in ClientFds /\ clients[i].fd \in DOMAIN fds
  BY <1>1 DEF Books, ClientFds
<1> HIDE DEF S
<1>8. ASSUME NEW d \in Clients PROVE SameView(d)
  <2>1. ~Sending(d) /\ ~Sending(d)'
    BY <1>2 DEF Sending
  <2>2. CASE d = h
    <3>1. Connected(d)' <=> Connected(d)
      <4>1. link'[d] = "up" /\ link[d] = "queued"
        BY <1>1, <1>2, <1>4, <2>2, NetTyped
      <4> QED
        BY <1>2, <4>1 DEF Connected
    <3>2. Place(d)' = Place(d) /\ Asked(d)' = Asked(d)
      BY <1>2, <2>1, <3>1 DEF Place, Asked
    <3>3. ~LogSeen(d)
      BY <1>4, <2>2 DEF LogSeen
    <3>4. ~LoggedIn(d)'
      <4>1. SUFFICES ASSUME NEW j \in 1..Len(clients'), clients'[j].is_logged,
                            fds'[clients'[j].fd] = d
                     PROVE  FALSE
        BY DEF LoggedIn
      <4>2. CASE j = 1
        BY <1>3, <1>5, <4>1, <4>2
      <4>3. CASE j # 1
        <5>1. j - 1 \in 1..Len(clients) /\ clients'[j] = clients[j - 1]
          BY <1>5, <4>3
        <5> QED
          BY <1>6, <1>7, <2>2, <4>1, <5>1
      <4> QED
        BY <4>2, <4>3
    <3>5. ~LogSeen(d)'
      BY <3>4, LogSeenInListNext
    <3> QED
      BY <3>2, <3>3, <3>5 DEF SameView
  <2>3. CASE d # h
    <3>1. link'[d] = link[d]
      BY <1>1, <1>2, <2>3, NetTyped
    <3>2. Place(d)' = Place(d) /\ Asked(d)' = Asked(d) /\ (Connected(d)' <=> Connected(d))
      BY <1>2, <2>1, <3>1, SamePlace
    <3>3. ASSUME LoggedIn(d) PROVE LoggedIn(d)'
      <4>1. PICK i \in 1..Len(clients) : clients[i].is_logged /\ fds[clients[i].fd] = d
        BY <3>3 DEF LoggedIn
      <4>2. /\ i + 1 \in 1..Len(clients') /\ clients'[i + 1] = clients[i]
            /\ clients[i].fd \in DOMAIN fds' /\ fds'[clients[i].fd] = d
        BY <1>5, <1>6, <1>7, <4>1
      <4> QED
        BY <4>1, <4>2 DEF LoggedIn
    <3>4. ASSUME LoggedIn(d)' PROVE LoggedIn(d)
      <4>1. PICK j \in 1..Len(clients') : clients'[j].is_logged /\ fds'[clients'[j].fd] = d
        BY <3>4 DEF LoggedIn
      <4>2. j # 1
        BY <1>3, <1>5, <4>1
      <4>3. j - 1 \in 1..Len(clients) /\ clients'[j] = clients[j - 1]
        BY <1>5, <4>2
      <4>4. clients[j - 1].fd \in DOMAIN fds /\ fds[clients[j - 1].fd] = d
        BY <1>6, <1>7, <4>1, <4>3
      <4> QED
        BY <4>1, <4>3, <4>4 DEF LoggedIn
    <3>5. LogSeen(d)' <=> LogSeen(d)
      BY <3>1, <3>2, <3>3, <3>4, LogSeenInList, LogSeenInListNext
    <3> QED
      BY <3>2, <3>5 DEF SameView
  <2> QED
    BY <2>2, <2>3
<1> QED
  BY <1>8, Still

(* A client of whose connection and session nothing is changed.            *)
LEMMA SameSeen ==
  ASSUME Inv, Over, Inv', Over', NEW c \in Clients,
         UNCHANGED <<clients, fds>>,
         UNCHANGED <<link[c], peer[c], outbox[c], cl[c], asked[c]>>,
         Sending(c)' <=> Sending(c)
  PROVE  SameView(c)
<1>1. Place(c)' = Place(c) /\ Asked(c)' = Asked(c) /\ (Connected(c)' <=> Connected(c))
  BY SamePlace
<1>2. LoggedIn(c)' <=> LoggedIn(c)
  BY DEF LoggedIn
<1>3. LogSeen(c)' <=> LogSeen(c)
  BY <1>1, <1>2, LogSeenInList, LogSeenInListNext
<1> QED
  BY <1>1, <1>3 DEF SameView

(* ... and one who was not connected, and is not.                          *)
LEMMA StaysGone ==
  ASSUME NEW c, ~Connected(c), ~Connected(c)'
  PROVE  SameView(c)
<1>1. Gone(c) /\ Gone(c)'
  BY NotSeen, NotSeenNext
<1> QED
  BY <1>1 DEF Gone, SameView

(* The first recv on a client: nobody sees it, unless it closes.           *)
LEMMA RecvLenViews ==
  ASSUME Inv, Over, Inv', Over', Running, NEW fd, RecvLen(fd)
  PROVE  [ServiceOf!Next]_ServiceOf!vars
<1>1. TypeOK /\ Sweeping /\ ClientAt(fd)
  BY DEF Inv, RecvLen
<1>2. Serving(fd) /\ pc = "sweep"
  <2>1. fd \in ClientFds /\ At(fd)
    BY <1>1, ClientSwept DEF ClientAt
  <2> QED
    BY <1>1, <2>1, Swept DEF Serving
<1> PICK c \in Clients : c = fds[fd]
  BY <1>2, ServingRuns
<1>3. CASE /\ UNCHANGED Rest /\ UNCHANGED clients /\ OnlyServed(c)
           /\ pc' = "recv_body" /\ cur' = fd
           /\ \/ peer'[c] = peer[c] /\ outbox'[c] = outbox[c]
              \/ peer[c] # "open" /\ peer'[c] # "open"
  <2>1. SameView(c)
    <3>1. CASE peer'[c] = peer[c] /\ outbox'[c] = outbox[c]
      <4>1. ~Sending(c) /\ ~Sending(c)'
        BY <1>2, <1>3 DEF Sending
      <4> QED
        BY <1>3, <3>1, <4>1, SameSeen DEF Rest
    <3>2. CASE peer[c] # "open" /\ peer'[c] # "open"
      BY <3>2, StaysGone DEF Connected
    <3> QED
      BY <1>3, <3>1, <3>2
  <2>2. \A d \in Clients \ {c} : SameView(d)
    BY <1>2, <1>3, ServeViews
  <2> QED
    BY <2>1, <2>2, Moves
<1>4. CASE CloseClient(fd, fds) /\ UNCHANGED <<peer, inbox, outbox>>
  <2>1. OnlyServed(c)
    BY <1>4 DEF OnlyServed
  <2> QED
    BY <1>1, <1>2, <1>4, <2>1, LostOrNot, CloseViews
<1>5. CASE /\ inbox' = [inbox EXCEPT ![c] = Tail(@)]
           /\ pc' = "recv_body" /\ cur' = fd
           /\ UNCHANGED <<clients, peer, outbox>> /\ UNCHANGED Rest
  <2>1. OnlyServed(c)
    BY <1>1, <1>5, NetTyped DEF OnlyServed
  <2> QED
    BY <1>3, <1>5, <2>1
<1>6. CASE /\ peer[c] = "rst" /\ peer' = [peer EXCEPT ![c] = "pipe"]
           /\ pc' = "recv_body" /\ cur' = fd
           /\ UNCHANGED <<clients, inbox, outbox>> /\ UNCHANGED Rest
  <2>1. OnlyServed(c) /\ peer'[c] = "pipe"
    BY <1>1, <1>6, NetTyped DEF OnlyServed
  <2> QED
    BY <1>3, <1>6, <2>1
<1> QED
  BY <1>4, <1>5, <1>6 DEF RecvLen

(* The second, and the request: who asked is served, or waits if the game  *)
(* sends nothing back, or is closed.                                       *)
LEMMA RecvBodyViews ==
  ASSUME Inv, Over, Inv', Over', Running, RecvBody
  PROVE  [ServiceOf!Next]_ServiceOf!vars
<1>1. TypeOK /\ Sweeping /\ pc = "recv_body"
  BY DEF Inv, RecvBody
<1> PICK fd : fd = cur
  OBVIOUS
<1>2. Serving(fd) /\ fd \in ClientFds
  BY <1>1 DEF Serving, Sweeping, AtClient
<1> PICK c \in Clients : c = fds[fd]
  BY <1>2, ServingRuns
<1>3. Exchange /\ Books /\ link[c] = "up" /\ Exchange'
  <2>1. Exchange /\ Books /\ link[c] = "up"
    BY <1>2, ServingRuns
  <2>2. Running' => Exchange'
    BY DEF Inv
  <2>3. Running'
    BY DEF RecvBody, Running, Execute, CloseClient, Done
  <2> QED
    BY <2>1, <2>2, <2>3
<1>4. CASE /\ inbox[c] # <<>>
           /\ inbox' = [inbox EXCEPT ![c] = Tail(@)]
           /\ Execute(fd, asked[c])
           /\ UNCHANGED <<peer, outbox>>
  <2>1. OnlyServed(c)
    BY <1>1, <1>4, NetTyped DEF OnlyServed
  <2>2. CASE /\ \/ asked[c] \in {"LOGIN", "ADMIN"} /\ ~Logged(fd) /\ SetLogged(fd, BOOLEAN)
                \/ asked[c] = "LOGOUT" /\ SetLogged(fd, {FALSE})
                \/ asked[c] \in {"GMN", "BAD"} /\ UNCHANGED clients
             /\ pc' = "send_len" /\ UNCHANGED cur /\ UNCHANGED Rest
    <3>1. /\ Len(clients') = Len(clients)
          /\ \A i \in 1..Len(clients) : /\ clients'[i].fd = clients[i].fd
                                        /\ clients[i].fd # fd => clients'[i] = clients[i]
      <4>1. CASE UNCHANGED clients
        BY <4>1
      <4>2. CASE SetLogged(fd, BOOLEAN) \/ SetLogged(fd, {FALSE})
        <5>1. /\ Len(clients') = Len(clients)
              /\ \A i \in 1..Len(clients) : clients'[i].fd = clients[i].fd
              /\ \A i \in 1..Len(clients) : i # Find(fd) => clients'[i] = clients[i]
          BY <1>1, <1>2, <1>3, <4>2, SetLoggedKeeps
        <5>2. clients[Find(fd)].fd = fd
          BY <1>1, <1>2, <1>3, Found
        <5> QED
          BY <5>1, <5>2
      <4> QED
        BY <2>2, <4>1, <4>2
    <3>2. \A d \in Clients \ {c} : SameView(d)
      BY <1>2, <2>1, <2>2, <3>1, ServeViews
    <3>3. UNCHANGED <<fds, link, peer, outbox, cl, asked>>
      BY <1>4, <2>2 DEF Rest
    <3>4. CASE ~Connected(c)
      <4>1. ~Connected(c)'
        BY <3>3, <3>4 DEF Connected
      <4> QED
        BY <3>2, <3>4, <4>1, StaysGone, Moves
    <3>5. CASE Connected(c)
      <4>1. Held(c) /\ cl[c] = "wait" /\ outbox[c] = 0
        BY <1>1, <1>3, <1>4, <3>5 DEF Exchange, Exchanging, Held, AtClient, Talk
      <4>2. Place(c) = "asking"
        BY <1>1, <3>5, <4>1 DEF Place, Sending
      <4>3. Connected(c)' /\ Sending(c)' /\ cl'[c] = "wait"
        BY <2>2, <3>3, <3>5, <4>1 DEF Connected, Sending
      <4>4. Place(c)' = "served"
        BY <4>3 DEF Place
      <4>5. Asked(c)' = Asked(c) /\ Asked(c) = asked[c]
        BY <3>3, <3>5, <4>3 DEF Asked
      <4>6. LogSeen(c) <=> LoggedIn(c)
        BY <1>3, <3>5, LogSeenInList
      <4>7. LogSeen(c)' <=> LoggedIn(c)'
        BY <1>3, <3>3, <4>3, LogSeenInListNext
      <4>8. LoggedIn(c) <=> Logged(fd)
        BY <1>2, FdOfClient
      <4>9. CASE asked[c] \in {"LOGIN", "ADMIN"} /\ ~Logged(fd)
        BY <3>2, <4>2, <4>4, <4>5, <4>6, <4>8, <4>9, Moves
      <4>10. CASE asked[c] = "LOGOUT" /\ SetLogged(fd, {FALSE})
        <5>1. /\ \E v \in {FALSE} : clients'[Find(fd)].is_logged = v
              /\ Find(fd) \in 1..Len(clients) /\ clients[Find(fd)].fd = fd
          <6>1. PICK values \in SUBSET BOOLEAN : values = {FALSE}
            OBVIOUS
          <6>2. \E v \in values : clients'[Find(fd)].is_logged = v
            BY <1>1, <1>2, <1>3, <4>10, <6>1, SetLoggedKeeps
          <6>3. Find(fd) \in 1..Len(clients) /\ clients[Find(fd)].fd = fd
            BY <1>1, <1>2, <1>3, Found
          <6> QED
            BY <6>1, <6>2, <6>3
        <5> PICK k \in 1..Len(clients) : k = Find(fd)
          BY <5>1
        <5>2. \A i \in 1..Len(clients) : clients[i].fd \in ClientFds
          BY <1>3 DEF Books
        <5>3. \A i \in 1..Len(clients) : fds[clients[i].fd] = c => clients[i].fd = fd
          BY <1>2, <5>2, ServingRuns DEF Links
        <5>4. \A i \in 1..Len(clients) : clients[i].fd = fd => i = k
          BY <1>3, <5>1 DEF Books
        <5>5. \A i \in 1..Len(clients') : fds'[clients'[i].fd] = c => ~clients'[i].is_logged
          BY <3>1, <3>3, <5>1, <5>3, <5>4, ZenonT(60)
        <5>6. ~LoggedIn(c)'
          BY <5>5 DEF LoggedIn
        <5>7. ~LogSeen(c)'
          BY <4>7, <5>6
        <5> QED
          BY <3>2, <4>2, <4>4, <4>5, <4>10, <5>7, Moves
      <4>11. CASE asked[c] \in {"GMN", "BAD"} /\ UNCHANGED clients
        <5>1. LoggedIn(c)' <=> LoggedIn(c)
          BY <3>3, <4>11 DEF LoggedIn
        <5>2. LogSeen(c)' <=> LogSeen(c)
          BY <4>6, <4>7, <5>1
        <5> QED
          BY <3>2, <4>2, <4>4, <4>5, <4>11, <5>2, Moves
      <4> QED
        BY <2>2, <4>9, <4>10, <4>11
    <3> QED
      BY <3>4, <3>5
  <2>3. CASE Done(fd) /\ UNCHANGED clients /\ UNCHANGED Rest
    <3>1. \A d \in Clients \ {c} : SameView(d)
      BY <1>2, <2>1, <2>3, ServeViews
    <3>2. ~Sending(c) /\ ~Sending(c)'
      BY <1>1, <2>3 DEF Sending, Done
    <3>3. SameView(c)
      BY <1>4, <2>3, <3>2, SameSeen DEF Rest
    <3> QED
      BY <3>1, <3>3, Moves
  <2>4. CASE CloseClient(fd, fds)
    BY <1>1, <1>2, <2>1, <2>4, LostOrNot, CloseViews
  <2>5. CASE /\ FreeFds # {}
             /\ CloseClient(fd, [f \in DOMAIN fds \cup {Lowest} |->
                                   IF f = Lowest THEN LOST ELSE fds[f]])
    <3>1. PICK open : /\ open = [f \in DOMAIN fds \cup {Lowest} |->
                                   IF f = Lowest THEN LOST ELSE fds[f]]
                      /\ Lost(open) /\ CloseClient(fd, open)
      BY <1>1, <2>5, LostOrNot
    <3> QED
      BY <1>2, <2>1, <3>1, CloseViews
  <2>6. \/ /\ \/ asked[c] \in {"LOGIN", "ADMIN"} /\ ~Logged(fd) /\ SetLogged(fd, BOOLEAN)
              \/ asked[c] = "LOGOUT" /\ SetLogged(fd, {FALSE})
              \/ asked[c] \in {"GMN", "BAD"} /\ UNCHANGED clients
           /\ pc' = "send_len" /\ UNCHANGED cur /\ UNCHANGED Rest
        \/ Done(fd) /\ UNCHANGED clients /\ UNCHANGED Rest
        \/ CloseClient(fd, fds)
        \/ /\ FreeFds # {}
           /\ CloseClient(fd, [f \in DOMAIN fds \cup {Lowest} |->
                                 IF f = Lowest THEN LOST ELSE fds[f]])
    BY <1>4 DEF Execute
  <2> QED
    BY <2>2, <2>3, <2>4, <2>5, <2>6
<1>5. CASE /\ CloseClient(fd, fds)
           /\ UNCHANGED <<peer, inbox, outbox>>
  <2>1. OnlyServed(c)
    BY <1>5 DEF OnlyServed
  <2> QED
    BY <1>1, <1>2, <1>5, <2>1, LostOrNot, CloseViews
<1>6. Find(fd) # 0
  BY <1>1, <1>2, <1>3, Found
<1> QED
  BY <1>4, <1>5, <1>6 DEF RecvBody

(* Sending: with the second part the client is answered.                   *)
LEMMA SendViews ==
  ASSUME Inv, Over, Inv', Over', Running, SendLen \/ SendBody
  PROVE  [ServiceOf!Next]_ServiceOf!vars
<1>1. TypeOK /\ Sweeping /\ pc \in {"send_len", "send_body"}
  BY DEF Inv, SendLen, SendBody
<1> PICK fd : fd = cur
  OBVIOUS
<1>2. Serving(fd) /\ fd \in ClientFds
  BY <1>1 DEF Serving, Sweeping, AtClient
<1> PICK c \in Clients : c = fds[fd]
  BY <1>2, ServingRuns
<1>3. Exchange /\ link[c] = "up" /\ Held(c)
  BY <1>1, <1>2, ServingRuns DEF Held, AtClient
<1>4. CASE /\ Delivered(c)
           /\ \/ pc = "send_len" /\ pc' = "send_body" /\ UNCHANGED cur
              \/ pc = "send_body" /\ Done(fd)
           /\ UNCHANGED <<clients, inbox>> /\ UNCHANGED Rest
  <2>1. OnlyServed(c) /\ (Connected(c)' <=> Connected(c))
    <3>1. CASE peer[c] = "open" /\ outbox' = [outbox EXCEPT ![c] = @ + 1] /\ UNCHANGED peer
      BY <1>1, <1>4, <3>1, NetTyped DEF OnlyServed, Connected, Rest
    <3>2. CASE peer[c] = "fin" /\ peer' \in {peer, [peer EXCEPT ![c] = "pipe"]} /\ UNCHANGED outbox
      <4>1. peer'[c] # "open" /\ \A d \in Clients \ {c} : peer'[d] = peer[d]
        BY <1>1, <3>2, NetTyped
      <4> QED
        BY <1>4, <3>2, <4>1 DEF OnlyServed, Connected
    <3> QED
      BY <1>4, <3>1, <3>2 DEF Delivered
  <2>2. \A d \in Clients \ {c} : SameView(d)
    <3>1. (pc' \in {"recv_body", "send_len", "send_body"} /\ cur' = fd) \/ Done(fd)
      BY <1>4
    <3> QED
      BY <1>2, <1>4, <2>1, <3>1, ServeViews
  <2>3. CASE ~Connected(c)
    BY <2>1, <2>2, <2>3, StaysGone, Moves
  <2>4. CASE Connected(c)
    <3>1. /\ UNCHANGED <<clients, fds, link, cl, asked>>
          /\ peer'[c] = peer[c] /\ outbox'[c] = outbox[c] + 1
      <4>1. peer[c] = "open" /\ outbox' = [outbox EXCEPT ![c] = @ + 1] /\ UNCHANGED peer
        BY <1>4, <2>4 DEF Delivered, Connected
      <4> QED
        BY <1>1, <1>4, <4>1, NetTyped DEF Rest
    <3>2. Connected(c)'
      BY <2>1, <2>4
    <3>3. Asked(c)' = Asked(c)
      BY <2>4, <3>1, <3>2 DEF Asked
    <3>4. LoggedIn(c)' <=> LoggedIn(c)
      BY <3>1 DEF LoggedIn
    <3>5. LogSeen(c)' <=> LogSeen(c)
      BY <2>1, <3>1, <3>4, LogSeenInList, LogSeenInListNext
    <3>6. Exchanging(c)
      BY <1>3 DEF Exchange
    <3>7. cl[c] \in {"wait", "got_len"} /\ Place(c) = "served"
      <4>1. cl[c] \in {"wait", "got_len"}
        BY <1>1, <1>3, <2>4, <3>6 DEF Exchanging, Talk
      <4> QED
        BY <1>1, <2>4, <4>1 DEF Place, Sending
    <3>8. CASE pc' = "send_body"
      <4>1. Place(c)' = "served"
        <5>1. UNCHANGED cur
          BY <1>4, <3>8 DEF Done
        <5>2. Sending(c)'
          BY <3>1, <3>8, <5>1 DEF Sending
        <5> QED
          BY <3>1, <3>2, <3>7, <5>2 DEF Place
      <4> QED
        BY <2>2, <3>3, <3>5, <3>7, <4>1, Moves DEF SameView
    <3>9. CASE pc = "send_body" /\ pc' = "sweep"
      <4>1. \/ cl'[c] = "wait" /\ outbox'[c] = 2
            \/ cl'[c] = "got_len" /\ outbox'[c] = 1
        <5>1. <<cl[c], outbox[c]>> \in {<<"wait", 1>>, <<"got_len", 0>>}
          BY <1>3, <2>4, <3>6, <3>9 DEF Exchanging, Talk
        <5> QED
          BY <3>1, <5>1
      <4>2. ~Sending(c)'
        BY <3>9 DEF Sending
      <4>3. Place(c)' = "answered"
        BY <3>2, <4>1, <4>2 DEF Place
      <4> QED
        BY <2>2, <3>3, <3>5, <3>7, <4>3, Moves
    <3> QED
      BY <1>4, <3>8, <3>9 DEF Done
  <2> QED
    BY <2>3, <2>4
<1>5. CASE SendFails(c)
  <2>1. /\ OnlyServed(c) /\ ~Connected(c) /\ peer'[c] # "open"
    BY <1>1, <1>5, NetTyped DEF SendFails, OnlyServed, Connected
  <2>2. CASE CloseClient(fd, fds)
    BY <1>1, <1>2, <2>1, <2>2, LostOrNot, CloseViews
  <2>3. CASE Done(fd) /\ UNCHANGED clients /\ UNCHANGED Rest
    <3>1. \A d \in Clients \ {c} : SameView(d)
      BY <1>2, <2>1, <2>3, ServeViews
    <3>2. SameView(c)
      BY <2>1, StaysGone DEF Connected
    <3> QED
      BY <3>1, <3>2, Moves
  <2> QED
    BY <1>5, <2>2, <2>3 DEF SendFails
<1>6. CASE Killed(c)
  BY <1>6, EndViews DEF Killed
<1> QED
  BY <1>4, <1>5, <1>6 DEF SendLen, SendBody

(* A client's own step is not seen of the others.                          *)
LEMMA ClientViews ==
  ASSUME Inv, Over, Inv', Over', NEW c \in Clients, UNCHANGED <<process, fds>>,
         \A d \in Clients \ {c} :
           UNCHANGED <<link[d], peer[d], outbox[d], cl[d], asked[d]>>
  PROVE  /\ \A d \in Clients \ {c} : SameView(d)
         /\ \A d \in Clients : (Sending(d)' <=> Sending(d)) /\ (LoggedIn(d)' <=> LoggedIn(d))
<1>1. UNCHANGED <<pc, cur, clients, fds>>
  BY DEF process
<1>2. \A d \in Clients : (Sending(d)' <=> Sending(d)) /\ (LoggedIn(d)' <=> LoggedIn(d))
  BY <1>1 DEF Sending, LoggedIn
<1>3. ASSUME NEW d \in Clients \ {c} PROVE SameView(d)
  BY <1>1, <1>2, SameSeen
<1> QED
  BY <1>2, <1>3

(* The operator types a line: nobody sees it.                              *)
LEMMA TypeViews ==
  ASSUME Inv, Over, Inv', Over', NEW command \in Commands, Type(command)
  PROVE  [ServiceOf!Next]_ServiceOf!vars
<1>1. UNCHANGED <<pc, cur, clients, fds, link, peer, outbox, cl, asked>>
  BY DEF Type, process, net
<1>2. ASSUME NEW c \in Clients PROVE SameView(c)
  <2>1. Sending(c)' <=> Sending(c)
    BY <1>1 DEF Sending
  <2> QED
    BY <1>1, <2>1, SameSeen
<1> QED
  BY <1>2, Still

(* A client that connects enters, not logged in.                           *)
LEMMA ConnectViews ==
  ASSUME Inv, Over, Inv', Over', NEW c \in Clients, Connect(c)
  PROVE  [ServiceOf!Next]_ServiceOf!vars
<1>1. /\ link[c] = "none" /\ link' = [link EXCEPT ![c] = "queued"]
      /\ UNCHANGED <<process, fds, peer, outbox, cl, asked>>
  BY DEF Connect
<1>2. peer[c] = "open" /\ cl[c] = "idle" /\ asked[c] = "none"
  BY <1>1 DEF Inv, Fresh, Talk
<1>3. link'[c] = "queued" /\ \A d \in Clients \ {c} : link'[d] = link[d]
  BY <1>1, NetTyped DEF Inv
<1>4. \A d \in Clients \ {c} : SameView(d)
  BY <1>1, <1>3, ClientViews
<1>5. ~Connected(c) /\ Connected(c)'
  BY <1>1, <1>2, <1>3 DEF Connected
<1>6. Place(c) = "away" /\ Place(c)' = "in"
  BY <1>1, <1>2, <1>5 DEF Place
<1>7. Asked(c)' = Asked(c)
  BY <1>1, <1>2, <1>5 DEF Asked
<1>8. ~LogSeen(c) /\ ~LogSeen(c)'
  BY <1>1, <1>3 DEF LogSeen
<1> QED
  BY <1>4, <1>6, <1>7, <1>8, Moves

(* The process runs as long as a client is connected to it.                *)
LEMMA ConnectedRuns ==
  ASSUME Inv, Over, NEW c \in Clients, Connected(c)
  PROVE  Running /\ Exchanging(c)
<1>1. Running
  BY DEF Over, Connected
<1> QED
  BY <1>1 DEF Inv, Exchange

(* Only with the body has a client asked.                                  *)
LEMMA AskViews ==
  ASSUME Inv, Over, Inv', Over', NEW c \in Clients, AskLen(c) \/ AskBody(c)
  PROVE  [ServiceOf!Next]_ServiceOf!vars
<1>1. Connected(c) /\ UNCHANGED <<process, fds, link, peer, outbox>>
  BY DEF AskLen, AskBody
<1>2. Connected(c)'
  BY <1>1 DEF Connected
<1>3. /\ \A d \in Clients \ {c} : cl'[d] = cl[d] /\ asked'[d] = asked[d]
      /\ \/ cl[c] = "idle" /\ cl'[c] = "half" /\ asked'[c] = asked[c]
         \/ cl[c] = "half" /\ cl'[c] = "wait" /\ asked'[c] \in Requests
  <2>1. TypeOK
    BY DEF Inv
  <2>2. CASE AskLen(c)
    BY <2>1, <2>2, NetTyped DEF AskLen
  <2>3. CASE AskBody(c)
    <3> PICK r \in Requests : asked' = [asked EXCEPT ![c] = r]
      BY <2>3 DEF AskBody
    <3>1. cl[c] = "half" /\ cl' = [cl EXCEPT ![c] = "wait"]
      BY <2>3 DEF AskBody
    <3> QED
      BY <2>1, <3>1, NetTyped
  <2> QED
    BY <2>2, <2>3
<1>4. /\ \A d \in Clients \ {c} : SameView(d)
      /\ (Sending(c)' <=> Sending(c)) /\ (LoggedIn(c)' <=> LoggedIn(c))
  BY <1>1, <1>3, ClientViews
<1>5. LogSeen(c)' <=> LogSeen(c)
  BY <1>1, <1>2, <1>4, LogSeenInList, LogSeenInListNext
<1>6. CASE cl[c] = "idle" /\ cl'[c] = "half" /\ asked'[c] = asked[c]
  <2>1. Place(c)' = Place(c) /\ Asked(c)' = Asked(c)
    BY <1>1, <1>2, <1>6 DEF Place, Asked
  <2> QED
    BY <1>4, <1>5, <2>1, Moves DEF SameView
<1>7. CASE cl[c] = "half" /\ cl'[c] = "wait" /\ asked'[c] \in Requests
  <2>1. Exchanging(c)
    BY <1>1, ConnectedRuns
  <2>2. outbox[c] = 0 /\ ~Sending(c)
    BY <1>1, <1>7, <2>1 DEF Exchanging, Talk, Held, AtClient, Sending
  <2>3. Place(c) = "in" /\ Place(c)' = "asking"
    BY <1>1, <1>2, <1>4, <1>7, <2>2 DEF Place
  <2>4. Asked(c)' \in Requests
    BY <1>2, <1>7 DEF Asked
  <2> QED
    BY <1>4, <1>5, <2>3, <2>4, Moves
<1> QED
  BY <1>3, <1>6, <1>7

(* With the second part of the reply it is in again.                       *)
LEMMA ReadViews ==
  ASSUME Inv, Over, Inv', Over', NEW c \in Clients, ReadReply(c)
  PROVE  [ServiceOf!Next]_ServiceOf!vars
<1>1. UNCHANGED <<process, fds, link, peer, inbox>> /\ outbox[c] > 0
  BY DEF ReadReply
<1>2. Connected(c)' <=> Connected(c)
  BY <1>1 DEF Connected
<1>3. /\ \A d \in Clients \ {c} : outbox'[d] = outbox[d] /\ cl'[d] = cl[d] /\ asked'[d] = asked[d]
      /\ outbox'[c] = outbox[c] - 1 /\ outbox[c] \in 0..2
      /\ \/ cl[c] = "wait" /\ cl'[c] = "got_len" /\ asked'[c] = asked[c]
         \/ cl[c] = "got_len" /\ cl'[c] = "idle" /\ asked'[c] = "none"
  <2>1. TypeOK
    BY DEF Inv
  <2>2. \A d \in Clients \ {c} : outbox'[d] = outbox[d]
    BY <2>1, NetTyped DEF ReadReply
  <2>3. outbox'[c] = outbox[c] - 1 /\ outbox[c] \in 0..2
    BY <2>1, NetTyped DEF ReadReply
  <2> QED
    BY <2>1, <2>2, <2>3, NetTyped DEF ReadReply
<1>4. /\ \A d \in Clients \ {c} : SameView(d)
      /\ (Sending(c)' <=> Sending(c)) /\ (LoggedIn(c)' <=> LoggedIn(c))
  BY <1>1, <1>3, ClientViews
<1>5. CASE ~Connected(c)
  BY <1>2, <1>4, <1>5, StaysGone, Moves
<1>6. CASE Connected(c)
  <2>1. LogSeen(c)' <=> LogSeen(c)
    BY <1>1, <1>2, <1>4, LogSeenInList, LogSeenInListNext
  <2>2. Exchanging(c)
    BY <1>6, ConnectedRuns
  <2>3. \/ ~Sending(c) /\ cl[c] = "wait" /\ outbox[c] = 2
        \/ ~Sending(c) /\ cl[c] = "got_len" /\ outbox[c] = 1
        \/ Sending(c) /\ cl[c] = "wait"
    BY <1>1, <1>3, <1>6, <2>2 DEF Exchanging, Talk, Held, AtClient, Sending
  <2>4. CASE cl[c] = "wait" /\ cl'[c] = "got_len" /\ asked'[c] = asked[c]
    <3>1. Place(c)' = Place(c)
      <4>1. CASE Sending(c)
        BY <1>2, <1>4, <1>6, <2>4, <4>1 DEF Place
      <4>2. CASE ~Sending(c)
        <5>1. outbox[c] = 2 /\ outbox'[c] = 1
          BY <1>3, <2>3, <2>4, <4>2
        <5> QED
          BY <1>2, <1>4, <1>6, <2>4, <4>2, <5>1 DEF Place
      <4> QED
        BY <4>1, <4>2
    <3>2. Asked(c)' = Asked(c)
      BY <1>2, <2>4 DEF Asked
    <3> QED
      BY <1>4, <2>1, <3>1, <3>2, Moves DEF SameView
  <2>5. CASE cl[c] = "got_len" /\ cl'[c] = "idle" /\ asked'[c] = "none"
    <3>1. ~Sending(c) /\ outbox[c] = 1
      BY <2>3, <2>5
    <3>2. Place(c) = "answered"
      BY <1>6, <2>5, <3>1 DEF Place
    <3>3. Place(c)' = "in" /\ Asked(c)' = "none"
      BY <1>2, <1>6, <2>5 DEF Place, Asked
    <3> QED
      BY <1>4, <2>1, <3>2, <3>3, Moves
  <2> QED
    BY <1>3, <2>4, <2>5
<1> QED
  BY <1>5, <1>6

(* A client that closes is gone; when it may start again it still is.      *)
LEMMA GoViews ==
  ASSUME Inv, Over, Inv', Over', NEW c \in Clients, Close(c) \/ Leave(c)
  PROVE  [ServiceOf!Next]_ServiceOf!vars
<1>1. TypeOK /\ UNCHANGED <<process, fds>>
  BY DEF Inv, Close, Leave
<1>2. \A d \in Clients \ {c} :
        UNCHANGED <<link[d], peer[d], outbox[d], cl[d], asked[d]>>
  <2>1. CASE Close(c)
    BY <1>1, <2>1, NetTyped DEF Close
  <2>2. CASE Leave(c)
    BY <1>1, <2>2, NetTyped DEF Leave
  <2> QED
    BY <2>1, <2>2
<1>3. \A d \in Clients \ {c} : SameView(d)
  BY <1>1, <1>2, ClientViews
<1>4. ~Connected(c)'
  <2>1. peer'[c] # "open" \/ link'[c] = "none"
    BY <1>1, NetTyped DEF Close, Leave
  <2> QED
    BY <2>1 DEF Connected
<1>5. Gone(c)'
  BY <1>4, NotSeenNext
<1> QED
  BY <1>3, <1>5, Moves

(* At the start nobody is seen.                                            *)
LEMMA ServiceInit == Init => ServiceOf!Init
<1> SUFFICES ASSUME Init PROVE ServiceOf!Init
  OBVIOUS
<1>1. ASSUME NEW c \in Clients PROVE Gone(c)
  <2>1. ~Connected(c)
    BY DEF Init, Connected
  <2> QED
    BY <2>1, NotSeen
<1> QED
  BY <1>1 DEF ServiceOf!Init, Gone, Asked, LogSeen

(* Every step is one that Service allows, or one it does not see.          *)
LEMMA ServiceNext ==
  Inv /\ Over /\ [Next]_vars => [ServiceOf!Next]_ServiceOf!vars
<1> SUFFICES ASSUME Inv, Over, [Next]_vars PROVE [ServiceOf!Next]_ServiceOf!vars
  OBVIOUS
<1>1. Inv' /\ Over'
  BY NextInv, OverNext
<1>2. CASE ServerStep
  <2>1. Running
    BY <1>2, ServerStepInv
  <2>2. ASSUME NEW fd \in ready, RecvLen(fd) PROVE [ServiceOf!Next]_ServiceOf!vars
    BY <1>1, <2>1, <2>2, RecvLenViews
  <2>3. CASE Stop
    BY <2>1, <2>3, StopViews
  <2>4. CASE Select \/ SweepEnd \/ Start \/ StartFails \/ Ignored \/ AcceptFails
    BY <1>1, <2>1, <2>4, LoopViews
  <2>5. CASE Accept
    BY <1>1, <2>1, <2>5, AcceptViews
  <2>6. CASE RecvBody
    BY <1>1, <2>1, <2>6, RecvBodyViews
  <2>7. CASE SendLen \/ SendBody
    BY <1>1, <2>1, <2>7, SendViews
  <2> QED
    BY <1>2, <2>2, <2>3, <2>4, <2>5, <2>6, <2>7 DEF ServerStep
<1>3. ASSUME NEW command \in Commands, Type(command) PROVE [ServiceOf!Next]_ServiceOf!vars
  BY <1>1, <1>3, TypeViews
<1>4. ASSUME NEW c \in Clients,
             Connect(c) \/ AskLen(c) \/ AskBody(c) \/ ReadReply(c) \/ Close(c) \/ Leave(c)
      PROVE  [ServiceOf!Next]_ServiceOf!vars
  BY <1>1, <1>4, ConnectViews, AskViews, ReadViews, GoViews
<1>5. CASE UNCHANGED vars
  <2>1. UNCHANGED <<pc, cur, clients, fds, link, peer, outbox, cl, asked>>
    BY <1>5 DEF vars, process, net
  <2>2. ASSUME NEW c \in Clients PROVE SameView(c)
    <3>1. Sending(c)' <=> Sending(c)
      BY <2>1 DEF Sending
    <3> QED
      BY <1>1, <2>1, <3>1, SameSeen
  <2> QED
    BY <2>2, Still
<1> QED
  BY <1>2, <1>3, <1>4, <1>5 DEF Next, Environment

(* Seen from the clients, however many there are and whatever they do, the *)
(* server is Service: one who waits is answered once, for what it asked,   *)
(* or sent away, and nobody is logged in with the session of another who   *)
(* had the same descriptor before.                                         *)
THEOREM ServerImplementsService == Spec => ImplementsService
<1>1. Spec => [](Inv /\ Over)
  <2>1. Init => Inv /\ Over
    BY InitInv, OverInit
  <2>2. Inv /\ Over /\ [Next]_vars => Inv' /\ Over'
    BY NextInv, OverNext
  <2> QED
    BY <2>1, <2>2, PTL DEF Spec
<1> QED
  BY <1>1, ServiceInit, ServiceNext, PTL DEF Spec, ImplementsService, ServiceOf!Spec

=============================================================================
