------------------------------- MODULE Console -------------------------------
(***************************************************************************)
(* What is typed and what is read: get_input_line (utility.c, the same in  *)
(* both programs) and the two getchar of the client, on top of the stream  *)
(* that stdio keeps over read, and, in the server, below a select that     *)
(* sees what the kernel holds and not what the stream holds.               *)
(*                                                                         *)
(* A character is what the constants say it is, NL ends a line. What the   *)
(* lines say is left to Server and Client, which take them as commands.    *)
(***************************************************************************)
EXTENDS Integers, Sequences, SequencesExt

CONSTANTS
  Texts,         (* what is typed before Enter, or before an end of file    *)
  NL, END,       (* the newline; what stands for an end of file             *)
  BufferLen,     (* buffer_len: the size of the caller's line               *)
  Setups,        (* the programs and their stdins, see Setup                *)
  MaxTyped,      (* bound: how often something is typed                     *)
  MaxKeys,       (* bound: how often a key is waited for                    *)
  MaxHanded      (* bound: the lines handed out while one is asked for again *)

Chars == UNION {Range(t) : t \in Texts}
ASSUME TextsAssumption  == Texts \subseteq Seq(Chars \ {NL, END}) /\ NL # END
ASSUME BoundsAssumption == /\ BufferLen \in Nat \ {0, 1}
                           /\ MaxTyped \in Nat /\ MaxKeys \in Nat /\ MaxHanded \in Nat
(* server: its main, or else the client's. terminal: a read returns one    *)
(* line, or else all there is. parts, ends: an end of file may be typed    *)
(* within a line, on its own.                                              *)
Setup == [server : BOOLEAN, terminal : BOOLEAN, parts : BOOLEAN, ends : BOOLEAN]
ASSUME SetupsAssumption == Setups \subseteq Setup

VARIABLES
  setup,         (* which of the setups it is, once for all                 *)
  tty,           (* the kernel's: what each read may return, in order       *)
  stream,        (* stdin's: characters read and not yet consumed           *)
  eof,           (* stdin's: its end-of-file indicator                      *)
  pc,            (* what the program is doing                               *)
  buffer,        (* the caller's line: what this call has put into it       *)
  line,          (* ... and what the call before it has left there          *)
  ready,         (* select found the client's descriptor ready              *)
  waiting,       (* another party waits to be served: a client's request    *)
  n_typed,       (* how often something was typed                           *)
  n_keys,        (* how often a key was waited for                          *)
  typed,         (* history: the characters typed for lines, and the ends   *)
  commands       (* history: the lines handed to the callers                *)

operator == <<n_typed, typed>>
stdin    == <<tty, stream, eof>>
caller   == <<buffer, line, commands>>
loop     == <<setup, ready, waiting>>
vars     == <<operator, stdin, caller, loop, pc, n_keys>>

Start == IF setup.server THEN "select" ELSE "prompt"

Init ==
  /\ setup \in Setups
  /\ tty = <<>> /\ stream = <<>> /\ eof = FALSE
  /\ pc = Start /\ buffer = <<>> /\ line = <<>>
  /\ ready = FALSE /\ waiting = FALSE
  /\ n_typed = 0 /\ n_keys = 0
  /\ typed = <<>> /\ commands = <<>>

-----------------------------------------------------------------------------
(* The operator, and the clients of the server *)

(* What a read returns at a terminal: a line, a part of one that was sent  *)
(* with an end of file, or nothing.                                        *)
Pieces == {Append(t, NL) : t \in Texts}
            \cup (IF setup.parts THEN Texts \ {<<>>} ELSE {})
            \cup (IF setup.ends THEN {<<END>>} ELSE {})

Type(piece) ==
  /\ n_typed < MaxTyped
  /\ setup.terminal \/ END \notin Range(typed)
  /\ n_typed' = n_typed + 1
  /\ tty' = Append(tty, piece)
  /\ typed' = typed \o piece
  /\ UNCHANGED <<stream, eof, caller, loop, pc, n_keys>>

Ask ==
  /\ setup.server /\ ~waiting
  /\ waiting' = TRUE
  /\ UNCHANGED <<setup, ready, operator, stdin, caller, pc, n_keys>>

-----------------------------------------------------------------------------
(* The server's loop: descriptor 0 is looked at first in a sweep. *)

\* Slip: stdin is read in every sweep.
SelectBlind ==
  /\ pc = "select"
  /\ tty # <<>> \/ waiting
  /\ ready' = waiting
  /\ pc' = "fgets"
  /\ buffer' = <<>> /\ line' = <<>>
  /\ UNCHANGED <<setup, waiting, commands, operator, stdin, n_keys>>

Select ==
  /\ pc = "select"
  /\ tty # <<>> \/ waiting
  /\ ready' = waiting
  /\ pc' = IF tty # <<>> THEN "fgets" ELSE "clients"
  /\ buffer' = <<>> /\ line' = <<>>
  /\ UNCHANGED <<setup, waiting, commands, operator, stdin, n_keys>>

Clients ==
  /\ pc = "clients"
  /\ waiting' = (waiting /\ ~ready)
  /\ ready' = FALSE
  /\ pc' = "select"
  /\ UNCHANGED <<setup, operator, stdin, caller, n_keys>>

-----------------------------------------------------------------------------
(* The client: a page asks for a line, or for a key. *)

(* A line of its own, or, where a name and a password are asked for once   *)
(* more (login_page.c), the one that was not good enough.                  *)
AskLine ==
  /\ pc = "prompt"
  /\ pc' = "fgets"
  /\ buffer' = <<>>
  /\ line' \in {<<>>, line}
  /\ line' # <<>> => Len(commands) < MaxHanded
  /\ UNCHANGED <<commands, operator, stdin, loop, n_keys>>

AskKey ==
  /\ pc = "prompt" /\ n_keys < MaxKeys
  /\ n_keys' = n_keys + 1
  /\ pc' = "getchar"
  /\ line' = <<>>
  /\ UNCHANGED <<buffer, commands, operator, stdin, loop>>

(* The one character that getchar consumes was not typed for a line.       *)
GetChar ==
  /\ pc = "getchar" /\ stream # <<>>
  /\ stream' = Tail(stream)
  /\ LET unread == Len(stream) + Len(FlattenSeq(tty))
     IN  typed' = RemoveAt(typed, Len(typed) - unread + 1)
  /\ pc' = "prompt"
  /\ UNCHANGED <<n_typed, tty, eof, caller, loop, n_keys>>

-----------------------------------------------------------------------------
(* The stream. An indicator that is set stays set: what is typed after it  *)
(* is not read any more.                                                   *)

Reading == pc \in {"fgets", "skip", "newline", "getchar"} /\ stream = <<>>

Fill ==
  /\ Reading /\ ~eof /\ tty # <<>>
  /\ LET end  == SelectInSeq(Append(tty, <<END>>), LAMBDA piece : piece = <<END>>)
         read == IF setup.terminal \/ end = 1 THEN 1 ELSE end - 1
     IN  /\ stream' = IF end = 1 THEN <<>> ELSE FlattenSeq(SubSeq(tty, 1, read))
         /\ tty' = SubSeq(tty, read + 1, Len(tty))
         /\ eof' = (end = 1)
  /\ UNCHANGED <<operator, caller, loop, pc, n_keys>>

-----------------------------------------------------------------------------
(* get_input_line *)

After == IF setup.server THEN "clients" ELSE "prompt"

(* The line is the buffer up to its newline. An end of file with nothing   *)
(* read leaves the caller's line as it was: if that is empty, it is no     *)
(* command.                                                                *)
Return(result) ==
  /\ pc' = After
  /\ line' = result
  /\ commands' = IF eof /\ result = <<>> THEN commands ELSE Append(commands, result)
  /\ UNCHANGED <<buffer, operator, loop, n_keys>>

\* Slip: the line is flushed whether or not its newline was read.
FgetsFlushed ==
  /\ pc = "fgets" /\ stream # <<>>
  /\ LET nl   == SelectInSeq(stream, LAMBDA c : c = NL)
         room == BufferLen - 1 - Len(buffer)
         end  == IF nl \in 1..room THEN nl ELSE room
     IN  /\ buffer' = buffer \o SelectSeq(SubSeq(stream, 1, Min({end, Len(stream)})), LAMBDA c : c # NL)
         /\ stream' = SubSeq(stream, end + 1, Len(stream))
         /\ pc' = IF nl \in 1..room \/ Len(buffer') = BufferLen - 1 THEN "skip" ELSE "fgets"
  /\ UNCHANGED <<tty, eof, line, commands, operator, loop, n_keys>>

(* Characters up to a newline, or one less than the buffer holds; what the *)
(* stream has not enough of, it reads.                                     *)
Fgets ==
  /\ pc = "fgets" /\ stream # <<>>
  /\ LET nl   == SelectInSeq(stream, LAMBDA c : c = NL)
         room == BufferLen - 1 - Len(buffer)
     IN  IF nl \in 1..room
         THEN /\ stream' = SubSeq(stream, nl + 1, Len(stream))
              /\ Return(buffer \o SubSeq(stream, 1, nl - 1))
         ELSE /\ buffer' = buffer \o SubSeq(stream, 1, Min({room, Len(stream)}))
              /\ stream' = SubSeq(stream, room + 1, Len(stream))
              /\ pc' = IF Len(buffer') < BufferLen - 1 THEN "fgets" ELSE "skip"
              /\ UNCHANGED <<line, commands, operator, loop, n_keys>>
  /\ UNCHANGED <<tty, eof>>

\* Slip: the newline is left in the stream.
SkipNoNewline ==
  /\ pc = "skip" /\ stream # <<>>
  /\ stream' = IF Head(stream) = NL THEN stream ELSE Tail(stream)
  /\ IF Head(stream) = NL THEN Return(buffer)
     ELSE UNCHANGED <<pc, operator, caller, loop, n_keys>>
  /\ UNCHANGED <<tty, eof>>

(* scanf("%*[^\n]"): the rest of a line that was too long.                 *)
Skip ==
  /\ pc = "skip" /\ stream # <<>>
  /\ stream' = IF Head(stream) = NL THEN stream ELSE Tail(stream)
  /\ pc' = IF Head(stream) = NL THEN "newline" ELSE "skip"
  /\ UNCHANGED <<tty, eof, operator, caller, loop, n_keys>>

(* scanf("%*c"): its newline.                                              *)
SkipNewline ==
  /\ pc = "newline" /\ stream # <<>>
  /\ stream' = Tail(stream)
  /\ Return(buffer)
  /\ UNCHANGED <<tty, eof>>

(* At the end of the file every one of these calls returns at once.        *)
AtEnd ==
  /\ Reading /\ eof
  /\ IF pc = "getchar"
     THEN pc' = "prompt" /\ UNCHANGED <<operator, caller, loop, n_keys>>
     ELSE Return(IF buffer = <<>> THEN line ELSE buffer)
  /\ UNCHANGED stdin

Program ==
  \/ Select \/ Clients
  \/ AskLine \/ GetChar
  \/ Fill \/ Fgets \/ Skip \/ SkipNewline \/ AtEnd

Next == (\E piece \in Pieces : Type(piece)) \/ Ask \/ AskKey \/ Program

Spec     == Init /\ [][Next]_vars
(* The program runs on while a call of its returns; nobody need type.      *)
FairSpec == Spec /\ WF_vars(Program)

-----------------------------------------------------------------------------
(* Properties *)

(* fgets writes no more than the buffer of get_input_line holds.           *)
TypeOK ==
  /\ tty \in Seq(Pieces) /\ stream \in Seq(Chars \cup {NL}) /\ eof \in BOOLEAN
  /\ pc \in {"select", "clients", "prompt", "getchar", "fgets", "skip", "newline"}
  /\ Len(buffer) < BufferLen /\ buffer \in Seq(Chars)
  /\ Len(line) < BufferLen /\ line \in Seq(Chars)
  /\ ready \in BOOLEAN /\ waiting \in BOOLEAN
  /\ setup \in Setups
  /\ n_typed \in 0..MaxTyped /\ n_keys \in 0..MaxKeys
  /\ typed \in Seq(Chars \cup {NL, END})
  /\ commands \in Seq(Seq(Chars))

(* Where the lines of a text end: at its newlines, and one that is not     *)
(* terminated behind its last character.                                   *)
EndAfter(text, e) ==
  Min({j \in e + 1..Len(text) : text[j] = NL} \cup {Len(text) + 1})
LineEnds(text) ==
  LET end[k \in 0..Len(text)] == IF k = 0 THEN 0 ELSE EndAfter(text, end[k - 1])
  IN  end

(* The k-th line of a text, cut to what a buffer holds: there is one if    *)
(* anything follows the end of the line before.                            *)
Cut(text) == SubSeq(text, 1, Min({Len(text), BufferLen - 1}))
HasLine(text, k) == k \in 1..Len(text) /\ LineEnds(text)[k - 1] < Len(text)
IsLine(command, text, k) ==
  LET end == LineEnds(text)
  IN  /\ HasLine(text, k)
      /\ command = Cut(SubSeq(text, end[k - 1] + 1, end[k] - 1))

BeforeEnd(text)   == SubSeq(text, 1, SelectInSeq(Append(text, END), LAMBDA c : c = END) - 1)
IsAgain(k)        == k > 1 /\ ~HasLine(BeforeEnd(typed), k) /\ commands[k] = commands[k - 1]
NumNewlines(text) == Len(SelectSeq(text, LAMBDA c : c = NL))

(* "store in buffer an entire line from stdin until buffer_len or newline" *)
(* (utility.c): however the characters come, the lines handed out are the  *)
(* lines typed, in their order, none split in two and none empty that was  *)
(* not typed so, each cut to the buffer, but for the keys getchar took.    *)
(* Once a client has handed out all lines before an end of file, it may    *)
(* hand out the last of them again (login_page.c:143-158), and no other.   *)
Faithful ==
  /\ TypeOK
  /\ \A k \in DOMAIN commands :
       IsLine(commands[k], BeforeEnd(typed), k) \/ (eof /\ ~setup.server /\ IsAgain(k))

(* The same without the exception: no line is handed out that was not      *)
(* typed.                                                                  *)
FaithfulAlways == \A k \in DOMAIN commands : IsLine(commands[k], BeforeEnd(typed), k)

(* A line that was typed before an end of file is handed out: no call      *)
(* waits for more than the line, and none is left in the stream.           *)
Executed ==
  \A k \in 1..MaxTyped :
    LET lines == NumNewlines(BeforeEnd(typed)) IN
    lines >= k ~> Len(commands) >= k \/ lines < k

(* "serve multiple clients, multiple requests from clients and stdin"      *)
(* (readme): a client's request is served, whatever the operator types.    *)
Served == waiting ~> ~waiting

(* The same of stdin: what is typed at the terminal is handed out, also    *)
(* after an end of file.                                                   *)
StdinServed == \A k \in 1..MaxTyped : NumNewlines(typed) >= k ~> Len(commands) >= k

=============================================================================
