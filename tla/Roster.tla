------------------------------- MODULE Roster -------------------------------
(***************************************************************************)
(* The list of clients as the administrator comes to see it and to use it: *)
(* the linked list of client_session.c in its order, the text that ADM     *)
(* LIST sends of it, what the admin page shows of that text, and the ADM   *)
(* UPDATE of an id taken from there while connections come and go.         *)
(*                                                                         *)
(* A text is the sequence of the entries it has lines for, with its length *)
(* where buffers end. Who may administer is left to Sessions, what becomes *)
(* of a deadline to Game1.                                                 *)
(***************************************************************************)
EXTENDS Integers, Sequences, SequencesExt

CONSTANTS
  FirstFd,       (* the lowest descriptor a client may get                  *)
  LastFd,        (* bound: and the highest                                  *)
  Names,         (* user names, NoName of a session without a login         *)
  NoName,
  NameLen,       (* the length of each name                                 *)
  Zeroed,        (* the names that contain the digit 0                      *)
  LIMIT,         (* limit: 1000 in the code                                 *)
  RESPONSE,      (* the size of the list's buffers: 1024 in the code        *)
  MaxConns       (* bound: connections ever accepted                        *)

ASSUME FdsAssumption   == FirstFd \in Nat /\ LastFd \in Nat /\ FirstFd <= LastFd
(* An fd_set has no descriptor from FD_SETSIZE on.                         *)
ASSUME FdSetAssumption == LastFd < 1024
ASSUME NamesAssumption == /\ NoName \in Names /\ Zeroed \subseteq Names \ {NoName}
                          /\ NameLen \in [Names -> 0..31] /\ NameLen[NoName] = 0
ASSUME SizesAssumption == LIMIT \in Nat /\ LIMIT > 2 /\ RESPONSE \in Nat /\ RESPONSE >= LIMIT + 4
                          /\ MaxConns \in Nat

VARIABLES
  list,          (* the entries from the head: fd, conn, username, playing  *)
  open,          (* the kernel's: which connection a descriptor is          *)
  n_conns,       (* connections are numbered as they are accepted           *)
  sent,          (* the list as it was sent last, or Refused                *)
  n_sent,        (* history: n_conns when it was                            *)
  shown,         (* what the admin page has shown of it                     *)
  updated        (* history: id and connection of the last update           *)

connections == <<list, open, n_conns>>
page        == <<sent, n_sent, shown>>
vars        == <<connections, page, updated>>

Fds     == FirstFd..LastFd
Refused == << [fd |-> -1, conn |-> 0, username |-> NoName, playing |-> FALSE] >>
Never   == [id |-> -1, conn |-> 0]

Init ==
  /\ list = <<>> /\ n_conns = 0
  /\ open = [fd \in {} |-> 0]
  /\ sent = <<>> /\ n_sent = 0 /\ shown = <<>>
  /\ updated = Never

-----------------------------------------------------------------------------
(* Connections. *)

(* accept gives the lowest free descriptor; LIST_INSERT_HEAD.              *)
Accept(fd) ==
  /\ fd \notin DOMAIN open
  /\ \A lower \in FirstFd..fd - 1 : lower \in DOMAIN open
  /\ n_conns < MaxConns
  /\ n_conns' = n_conns + 1
  /\ open' = [f \in DOMAIN open \cup {fd} |-> IF f = fd THEN n_conns' ELSE open[f]]
  /\ list' = <<[fd |-> fd, conn |-> n_conns', username |-> NoName, playing |-> FALSE]>> \o list
  /\ UNCHANGED <<page, updated>>

\* Slip: the first entry whose descriptor is not below it.
IndexOfAbove(fd) == SelectInSeq(list, LAMBDA e : e.fd >= fd)

(* my_list_find: the first entry with the descriptor, 0 if there is none.  *)
IndexOf(fd) == SelectInSeq(list, LAMBDA e : e.fd = fd)

\* Slip: the head is removed, whoever it is.
CloseHead(fd) ==
  /\ fd \in DOMAIN open
  /\ open' = [f \in DOMAIN open \ {fd} |-> open[f]]
  /\ list' = Tail(list)
  /\ UNCHANGED <<n_conns, page, updated>>

Close(fd) ==
  /\ fd \in DOMAIN open
  /\ open' = [f \in DOMAIN open \ {fd} |-> open[f]]
  /\ list' = IF IndexOf(fd) = 0 THEN list ELSE RemoveAt(list, IndexOf(fd))
  /\ UNCHANGED <<n_conns, page, updated>>

(* A request is served on the entry that is found for its descriptor.      *)
Login(fd, name) ==
  /\ fd \in DOMAIN open
  /\ name # NoName
  /\ list' = [list EXCEPT ![IndexOf(fd)].username = name]
  /\ UNCHANGED <<open, n_conns, page, updated>>

Playing(fd, is_playing) ==
  /\ fd \in DOMAIN open
  /\ list' = [list EXCEPT ![IndexOf(fd)].playing = is_playing]
  /\ UNCHANGED <<open, n_conns, page, updated>>

-----------------------------------------------------------------------------
(* ADM LIST *)

Digits(n) == IF n < 10 THEN 1 ELSE IF n < 100 THEN 2 ELSE IF n < 1000 THEN 3 ELSE 4
(* "fd: %d, user: %s\n"                                                    *)
LineLen(e) == 13 + Digits(e.fd) + NameLen[e.username]
(* What has been written once the i-th entry is, from the head on.         *)
Written(entries) ==
  LET upTo[i \in 0..Len(entries)] == IF i = 0 THEN 0 ELSE upTo[i - 1] + LineLen(entries[i])
  IN  upTo
TextLen(entries) == Written(entries)[Len(entries)]

\* Slip: what has been written is compared, not what is going to be.
GetAllLate ==
  IF \E i \in 1..Len(list) : Written(list)[i - 1] + 2 >= LIMIT
  THEN Refused ELSE list

(* my_list_get_usernames: from the head, up to the limit or not at all.    *)
GetAll ==
  IF \E i \in 1..Len(list) : Written(list)[i] + 2 >= LIMIT
  THEN Refused ELSE list

(* do_list: the scanset ends at a digit 0, in a number or in a name; of an *)
(* entry that is cut only whole ones are counted as shown.                 *)
HasZero(e)    == e.fd % 10 = 0 \/ e.username \in Zeroed
Page(entries) ==
  IF entries = Refused THEN <<>>
  ELSE SubSeq(entries, 1, SelectInSeq(entries \o Refused, LAMBDA e : e.fd = -1 \/ HasZero(e)) - 1)

AdminList ==
  /\ sent' = GetAll
  /\ n_sent' = n_conns
  /\ shown' = Page(sent')
  /\ UNCHANGED <<connections, updated>>

(* ADM UPDATE, of an id: a descriptor, that of a client which is playing.  *)
AdminUpdate(id) ==
  /\ IndexOf(id) # 0
  /\ list[IndexOf(id)].playing
  /\ updated' = [id |-> id, conn |-> list[IndexOf(id)].conn]
  /\ UNCHANGED <<connections, page>>

Next ==
  \/ \E fd \in Fds : \/ Accept(fd) \/ Close(fd)
                     \/ \E name \in Names : Login(fd, name)
                     \/ \E b \in BOOLEAN : Playing(fd, b)
                     \/ AdminUpdate(fd)
  \/ AdminList

Spec == Init /\ [][Next]_vars

-----------------------------------------------------------------------------
(* Properties *)

Entry == [fd : Fds, conn : 1..MaxConns, username : Names, playing : BOOLEAN]

(* An entry is at a descriptor the kernel gave, an id that is updated one  *)
(* that a connection had.                                                  *)
TypeOK ==
  /\ list \in Seq(Entry)
  /\ DOMAIN open \subseteq Fds /\ \A fd \in DOMAIN open : open[fd] \in 1..n_conns
  /\ n_conns \in 0..MaxConns
  /\ sent \in Seq(Entry) \cup {Refused} /\ shown \in Seq(Entry)
  /\ n_sent \in 0..n_conns
  /\ updated \in [id : Fds, conn : 1..n_conns] \cup {Never}

(* The list has one entry for each open connection and no other, at its    *)
(* descriptor and newest first, whatever descriptors are used again: so    *)
(* what find returns for a request is the session of who made it.          *)
ListMirrorsConnections ==
  /\ TypeOK
  /\ {<<list[i].fd, list[i].conn>> : i \in DOMAIN list} = {<<fd, open[fd]>> : fd \in DOMAIN open}
  /\ \A i, j \in DOMAIN list : i < j => list[i].conn > list[j].conn

(* A list that is sent fits, with its "OK " and its NUL, the buffers of    *)
(* the server and of the page, however many clients there are and whatever *)
(* their names; and the list is there to be sent as long as two bytes more *)
(* would not reach the limit.                                              *)
ListFits ==
  /\ sent # Refused => TextLen(sent) + 4 <= RESPONSE
  /\ TextLen(list) + 2 < LIMIT <=> GetAll = list /\ GetAll # Refused

(* An update of an id the page has shown moves the deadline of the client  *)
(* that was shown or of one who connected since, never of another who was  *)
(* there: descriptors pass from one to the next and not among the open.    *)
UpdatesShownOrNewer ==
  [][\A i \in DOMAIN shown :
       updated' # updated /\ updated'.id = shown[i].fd
         => /\ updated'.conn \in {open[fd] : fd \in DOMAIN open}
            /\ updated'.conn = shown[i].conn \/ updated'.conn > n_sent]_vars

(* On the admin page "the admin user can view and modify clients data"     *)
(* (admin_page.c): all the clients of a list that was sent are shown.      *)
PageIsWhole == sent # Refused => shown = sent

=============================================================================
