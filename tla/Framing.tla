------------------------------- MODULE Framing -------------------------------
(***************************************************************************)
(* The bytes of one connection: request (Client/src/connection.c) against  *)
(* receive_from_fd and send_to_fd (Server/src/connection.c). A message is  *)
(* sent by two calls, its length in two bytes and its text with the NUL,   *)
(* and received by two calls of recv, each of which takes what has come:   *)
(* TCP keeps the order of the bytes and not their boundaries.              *)
(*                                                                         *)
(* A text is a sequence of byte values, of which only NUL is not among     *)
(* them: the user may type control bytes too. What a request does is left  *)
(* out: the server answers it with some reply, or closes the connection,   *)
(* or, if it is none that a page asks in its turn, does neither.           *)
(***************************************************************************)
EXTENDS Integers, Sequences, SequencesExt

CONSTANTS
  Payloads,      (* the texts the client sends                              *)
  Replies,       (* the texts the server sends                              *)
  RespLen,       (* resp_len: the size of the caller's response             *)
  RequestLen,    (* the size of handle_client_fd's request: 128             *)
  Garbage,       (* what unread memory may hold before its first NUL        *)
  MaxRequests    (* bound: requests on the connection                       *)

MAX_LEN   == 1024                  \* of a request, and of a reply
Byte      == 0..255

ASSUME TextsAssumption  == /\ Payloads \cup Replies \cup Garbage \subseteq Seq(Byte \ {0})
                           /\ \A t \in Payloads \cup Replies : Len(t) \in 1..MAX_LEN - 1
(* A request is made of fields of 15, 31 or 63 bytes, the longest of two    *)
(* of 31 in 81 bytes: it fits the server's request with its NUL and one    *)
(* byte more, and the first of the two bytes of its length is 0.           *)
ASSUME LinesAssumption  == \A t \in Payloads : Len(t) + 1 < RequestLen
ASSUME BoundsAssumption == /\ RespLen \in 1..MAX_LEN
                           /\ RequestLen \in 2..255
                           /\ MaxRequests \in Nat

VARIABLES
  c_pc,          (* the call the client is at                               *)
  c_len,         (* its msg_len, as two bytes                               *)
  got,           (* what request returned last                              *)
  c_open,        (* conn_is_open                                            *)
  s_pc,          (* the call the server is at                               *)
  s_len,         (* its len                                                 *)
  link,          (* "up", "closed" by the server, or the server is "dead"   *)
  c2s, s2c,      (* bytes sent and not yet received                         *)
  sent,          (* history: the requests sent                              *)
  served,        (* history: the requests executed, as they were received   *)
  replied,       (* history: the replies given                              *)
  whole,         (* history: each recv has found all of what it asked for   *)
  heard          (* history: each recv of the client has                    *)

client == <<c_pc, c_len, got, c_open>>
server == <<s_pc, s_len, link>>
log    == <<sent, served, replied, whole, heard>>
vars   == <<client, server, c2s, s2c, log>>

-----------------------------------------------------------------------------
(* Bytes *)

Length(bytes) == 256 * bytes[1] + bytes[2]              \* ntohs
TwoBytes(n)   == <<n \div 256, n % 256>>                \* htons

\* Slip: strlen without the terminator.
BareText(text) == text
Terminated(text) == Append(text, 0)

(* The C string that begins a buffer.                                      *)
String(bytes) ==
  LET nul == SelectInSeq(bytes, LAMBDA b : b = 0)
  IN  IF nul = 0 THEN bytes ELSE SubSeq(bytes, 1, nul - 1)

First(n, bytes) == SubSeq(bytes, 1, n)
After(n, bytes) == SubSeq(bytes, n + 1, Len(bytes))

(* How many bytes a recv that asks for some may take; none means that it   *)
(* waits. On a connection whose other end is gone it returns at once.      *)
Taken(stream, want) == 1..Min({want, Len(stream)})
Asked(n, want)      == whole' = (whole /\ n = want)
AskedReply(n, want) == Asked(n, want) /\ heard' = (heard /\ n = want)

(* strncpy to a response of RespLen bytes, the last of which is NUL.       *)
Shown(text) == First(Min({Len(text), RespLen - 1}), text)

Init ==
  /\ c_pc = "idle" /\ c_len = <<0, 0>> /\ got = <<>> /\ c_open = TRUE
  /\ s_pc = "select" /\ s_len = 0 /\ link = "up"
  /\ c2s = <<>> /\ s2c = <<>>
  /\ sent = <<>> /\ served = <<>> /\ replied = <<>>
  /\ whole = TRUE /\ heard = TRUE

-----------------------------------------------------------------------------
(* request: two sends, two recvs. A result -1 leaves the connection open   *)
(* for the next request; the pages decide whether there is one.            *)

\* The result -1, told from every text.
Error == <<-1>>
Result(r) == c_pc' = "idle" /\ got' = r

(* What is sent to a closed end provokes a reset, by which what the client *)
(* has not received yet may be lost.                                       *)
Transmit(bytes) ==
  IF link = "up" THEN c2s' = c2s \o bytes /\ UNCHANGED s2c
  ELSE s2c' \in {s2c, <<>>} /\ UNCHANGED c2s

AskLen(text) ==
  /\ c_pc = "idle" /\ c_open
  /\ Len(sent) < MaxRequests
  /\ sent' = Append(sent, text)
  /\ c_len' = TwoBytes(Len(Terminated(text)))
  /\ Transmit(c_len')
  /\ c_pc' = "send_body"
  /\ got' = <<>>
  /\ UNCHANGED <<c_open, server, served, replied, whole, heard>>

AskBody ==
  /\ c_pc = "send_body"
  /\ Transmit(Terminated(Last(sent)))
  /\ c_pc' = "recv_len"
  /\ UNCHANGED <<c_len, got, c_open, server, log>>

(* A send to a connection that is known to be reset.                       *)
AskFails ==
  /\ c_pc \in {"idle", "send_body"} /\ c_open
  /\ link # "up"
  /\ c_pc = "idle" => Len(sent) < MaxRequests
  /\ sent' = IF c_pc = "idle" THEN Append(sent, <<>>) ELSE sent
  /\ Result(Error)
  /\ UNCHANGED <<c_len, c_open, server, c2s, s2c, served, replied, whole, heard>>

(* That only one byte of the length has come is not looked at: the other   *)
(* is still that of the request.                                           *)
ReadLen ==
  /\ c_pc = "recv_len"
  /\ \E n \in Taken(s2c, 2) :
       /\ c_len' = First(n, s2c) \o After(n, c_len)
       /\ s2c' = After(n, s2c)
       /\ AskedReply(n, 2)
  /\ IF Length(c_len') > MAX_LEN THEN Result(Error) ELSE c_pc' = "recv_body" /\ UNCHANGED got
  /\ UNCHANGED <<c_open, server, c2s, sent, served, replied>>

(* A reset closes the socket and leaves conn_is_open, an end clears it.    *)
ReadLenFails ==
  /\ c_pc = "recv_len"
  /\ s2c = <<>> /\ link # "up"
  /\ Result(Error)
  /\ c_open' \in BOOLEAN
  /\ UNCHANGED <<c_len, server, c2s, s2c, log>>

(* The buffer is taken for a string, wherever the bytes received end.      *)
ReadBody ==
  /\ c_pc = "recv_body"
  /\ \E n \in Taken(s2c, Length(c_len)), rest \in Garbage :
       /\ Result(Shown(String(First(n, s2c) \o Terminated(rest))))
       /\ s2c' = After(n, s2c)
       /\ AskedReply(n, Length(c_len))
  /\ UNCHANGED <<c_len, c_open, server, c2s, sent, served, replied>>

(* recv returns 0, which is not looked at: no length, or no server.        *)
ReadBodyNone ==
  /\ c_pc = "recv_body"
  /\ Length(c_len) = 0 \/ (s2c = <<>> /\ link # "up")
  /\ \E rest \in Garbage : Result(Shown(rest))
  /\ UNCHANGED <<c_len, c_open, server, c2s, s2c, log>>

(* recv returns -1: the connection was reset.                              *)
ReadBodyFails ==
  /\ c_pc = "recv_body"
  /\ s2c = <<>> /\ link # "up"
  /\ Result(Error)
  /\ UNCHANGED <<c_len, c_open, server, c2s, s2c, log>>

Client ==
  \/ AskBody
  \/ ReadLen \/ ReadLenFails
  \/ ReadBody \/ ReadBodyNone \/ ReadBodyFails

-----------------------------------------------------------------------------
(* handle_client_fd around receive_from_fd and send_to_fd *)

(* Closing with bytes unread resets the connection.                        *)
Close(how, unread) ==
  /\ link' = how
  /\ c2s' = <<>>
  /\ s2c' \in IF unread = <<>> THEN {s2c} ELSE {s2c, <<>>}
  /\ s_pc' = "select"
  /\ UNCHANGED <<s_len, client>>

\* Slip: a length of one byte is not looked at.
RecvLenUnchecked ==
  /\ s_pc = "select" /\ link = "up"
  /\ \E n \in Taken(c2s, 2) :
       /\ c2s' = After(n, c2s)
       /\ s_len' = Length(First(n, c2s) \o After(n, <<0, 3>>))
       /\ Asked(n, 2)
  /\ s_len' <= MAX_LEN
  /\ s_pc' = "recv_body"
  /\ UNCHANGED <<link, s2c, client, sent, served, replied, heard>>

\* Slip: a length beyond the buffer is taken.
RecvLenUnbounded ==
  /\ s_pc = "select" /\ link = "up"
  /\ \E n \in Taken(c2s, 2) :
       /\ Asked(n, 2)
       /\ IF n = 2
          THEN /\ c2s' = After(2, c2s)
               /\ s_len' = Length(First(2, c2s))
               /\ s_pc' = "recv_body"
               /\ UNCHANGED <<link, s2c, client>>
          ELSE Close("closed", After(n, c2s))
  /\ UNCHANGED <<sent, served, replied, heard>>

\* Slip: the request is flushed, and the connection stays.
RecvLenFlushed ==
  /\ s_pc = "select" /\ link = "up"
  /\ \E n \in Taken(c2s, 2) :
       /\ Asked(n, 2)
       /\ IF n = 2 /\ Length(First(2, c2s)) <= MAX_LEN
          THEN /\ c2s' = After(2, c2s)
               /\ s_len' = Length(First(2, c2s))
               /\ s_pc' = "recv_body"
          ELSE c2s' = <<>> /\ UNCHANGED <<s_len, s_pc>>
  /\ UNCHANGED <<link, s2c, client, sent, served, replied, heard>>

(* A length of one byte, or beyond the maximum, closes the connection.     *)
RecvLen ==
  /\ s_pc = "select" /\ link = "up"
  /\ \E n \in Taken(c2s, 2) :
       /\ Asked(n, 2)
       /\ IF n = 2 /\ Length(First(2, c2s)) <= MAX_LEN
          THEN /\ c2s' = After(2, c2s)
               /\ s_len' = Length(First(2, c2s))
               /\ s_pc' = "recv_body"
               /\ UNCHANGED <<link, s2c, client>>
          ELSE Close("closed", After(n, c2s))
  /\ UNCHANGED <<sent, served, replied, heard>>

(* recv's 1024 bytes leave no room for the NUL of buf, and request takes   *)
(* RequestLen of what is copied: what is written beyond may end the        *)
(* process, when the handler returns or the connection is closed.          *)
Overrun(n, text) == n = MAX_LEN \/ Len(text) >= RequestLen
Fate(n, text)    == {"closed"} \cup {how \in {"dead"} : Overrun(n, text)}

(* The body, or as much of it as has come, is executed and answered, or    *)
(* the connection is closed for what it says. A command of a game that was *)
(* not started has neither: what the pages ask in their turn, told what    *)
(* the server answered, is never that.                                     *)
RecvBody ==
  /\ s_pc = "recv_body" /\ link = "up"
  /\ \E n \in Taken(c2s, s_len) :
       /\ served' = Append(served, String(First(n, c2s)))
       /\ Asked(n, s_len)
       /\ \/ /\ c2s' = After(n, c2s)
             /\ \E r \in Replies : replied' = Append(replied, r)
             /\ s_pc' = "send_len"
             /\ UNCHANGED <<s_len, link, s2c, client>>
          \/ /\ ~whole' /\ (~heard \/ served' # sent)
             /\ c2s' = After(n, c2s)
             /\ s_pc' = "select"
             /\ UNCHANGED <<s_len, link, s2c, client, replied>>
          \/ /\ \E how \in Fate(n, String(First(n, c2s))) : Close(how, After(n, c2s))
             /\ UNCHANGED replied
  /\ UNCHANGED <<sent, heard>>

(* A length of zero: recv returns 0.                                       *)
RecvNothing ==
  /\ s_pc = "recv_body" /\ link = "up"
  /\ s_len = 0
  /\ Close("closed", c2s)
  /\ UNCHANGED log

Send(from, to, bytes) ==
  /\ s_pc = from /\ link = "up"
  /\ s2c' = s2c \o bytes
  /\ s_pc' = to
  /\ UNCHANGED <<s_len, link, c2s, client, log>>

SendLen  == Send("send_len", "send_body", TwoBytes(Len(Terminated(Last(replied)))))
SendBody == Send("send_body", "select", Terminated(Last(replied)))

Server == RecvLen \/ RecvBody \/ RecvNothing \/ SendLen \/ SendBody

(* The process ends between any two calls: it is killed, or is stopped for *)
(* this client's sake or another's.                                        *)
Die ==
  /\ link = "up"
  /\ Close("dead", c2s)
  /\ UNCHANGED log

Next ==
  \/ \E text \in Payloads : AskLen(text)
  \/ AskFails
  \/ Client
  \/ Server
  \/ Die

Spec     == Init /\ [][Next]_vars
(* Both programs run on while a call of theirs can return; what was sent   *)
(* arrives; the user need not ask and the server need not die.             *)
FairSpec == Spec /\ WF_vars(Client) /\ WF_vars(Server)

-----------------------------------------------------------------------------
(* Properties *)

(* Every variable keeps its type; the length that recv is made with is at  *)
(* most MAX_LEN.                                                           *)
TypeOK ==
  /\ c_pc \in {"idle", "send_body", "recv_len", "recv_body"}
  /\ c_len \in Byte \X Byte
  /\ got = Error \/ got \in Seq(Byte \ {0})
  /\ c_open \in BOOLEAN
  /\ s_pc \in {"select", "recv_body", "send_len", "send_body"}
  /\ s_len \in 0..MAX_LEN
  /\ link \in {"up", "closed", "dead"}
  /\ c2s \in Seq(Byte) /\ s2c \in Seq(Byte)
  /\ sent \in Seq(Payloads \cup {<<>>})
  /\ served \in Seq(Seq(Byte \ {0}))
  /\ replied \in Seq(Replies)
  /\ whole \in BOOLEAN /\ heard \in BOOLEAN

(* The first byte of a length that receive_from_fd accepts is 4 at most.   *)
Plain == \A i \in 1..Len(sent) : \A j \in 1..Len(sent[i]) : sent[i][j] \notin 1..4

(* What the server executes are the requests in the order they were sent   *)
(* and whole, but that the last may be the beginning of one.               *)
Truncated ==
  /\ Len(served) <= Len(sent)
  /\ \A i \in 1..Len(served) :
       /\ served[i] # <<>>
       /\ IsPrefix(served[i], sent[i])
       /\ i < Len(served) => served[i] = sent[i]

(* The server may be cut short once and is never misled, unless the user   *)
(* typed one of the bytes 1 to 4: however TCP cuts the bytes, the rest of  *)
(* a request that was cut can not pass for a length, so the connection is  *)
(* closed before anything else of it is executed (receive_from_fd).        *)
OnlyLastCut == Plain => Truncated

(* Cut or misread, what strcpy copies into handle_client_fd's request fits *)
(* it, for no more than a request and a byte of its length is without a    *)
(* NUL; recv is made with no length beyond buf (TypeOK), and buf[ret] is   *)
(* in it too unless the user typed one of those bytes.                     *)
BuffersHold ==
  /\ TypeOK
  /\ \A i \in 1..Len(served) : Len(served[i]) < RequestLen
  /\ Plain => s_len < MAX_LEN

(* "1 send/recv for the effective message" (readme): what is executed is   *)
(* what was sent.                                                          *)
RequestsWhole == \A i \in 1..Len(served) : served[i] = sent[i]

(* request "returns -1 if any error, e.g. connection unexpectedly closed"  *)
(* (Client/src/connection.c): if it returns a response, that is the reply  *)
(* to its request, even if nothing else than the server's end came between.*)
ErrorsReported ==
  whole /\ c_pc = "idle" /\ got \notin {Error, <<>>} =>
    Len(replied) = Len(sent) /\ got = Shown(Last(replied))

(* A request returns, with a response or -1, however it was cut: what is   *)
(* left of it closes the connection, if the server neither answered nor    *)
(* closed it itself. Not so if a reply was cut, after which a page may ask *)
(* what it should not, nor if a rest of control bytes passed for a length. *)
Returned == c_pc # "idle" ~> c_pc = "idle" \/ ~heard \/ ~Plain

(* As long as what is sent arrives as it was sent, the bytes do what a     *)
(* call does, until the server is gone.                                    *)
Broken == link # "up" \/ ~whole
Stage  ==
  IF Broken THEN "broken"
  ELSE IF Len(replied) < Len(sent) THEN "asked"
  ELSE IF c_pc \in {"recv_len", "recv_body"} THEN "executed"
  ELSE "idle"
OfLast(texts) == IF Broken \/ sent = <<>> \/ Len(texts) < Len(sent) THEN <<>> ELSE Last(texts)
CallOf == INSTANCE Call WITH
  Requests <- Payloads,
  Nothing  <- <<>>,
  stage    <- Stage,
  request  <- OfLast(sent),
  executed <- OfLast(served),
  answer   <- OfLast(replied),
  told     <- IF Broken THEN <<>> ELSE got
ImplementsCall == CallOf!Spec

=============================================================================
