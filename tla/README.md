# Reti Informatiche: models and proofs

The program is an escape room over TCP: one iterative server (`Server/`), a
terminal client (`Client/`), one game, "Elementals". This directory holds TLA+
models of it, the TLC configurations that check them and proofs that TLAPS
checks.

## The system

| component | state | operations | with whom |
|---|---|---|---|
| select loop (`Server/main.c`, `fdcontroller.c`) | watch set, ready set, largest descriptor, loop end | select, sweep 0..max, dispatch | calls the three handlers |
| operator commands (`handle_input`) | `is_listening`, `listener_fd`, `can_close_server` | `start`, `stop` | opens and closes the listener |
| connections (`Server/src/connection.c`) | the listener | listen, accept, length and body by two recv, reply by two send, close | kernel, clients |
| line input (`utility.c` of either side) | stdin's stream and its end-of-file indicator | `get_input_line`, `parse_port`; getchar | select, which does not see the stream |
| client list (`client_session.c`) | linked list of descriptor and `ClientState`, `n_clients` | add, remove, find, get_all | all handlers |
| accounts and administration (`handle_user`, `handle_admin`) | `is_logged`, `is_admin`, `username`; `user.txt`, `admin.txt` | SIGNUP, LOGIN, LOGOUT; ADM LOGIN, LIST, UPDATE | another client's game, by descriptor |
| game (`game1.c`) | status, phase, deadline, tokens, flags, `is_playing` | init, look, take, drop, use, objs, status | the clock; the administrator |
| messages of the game (`game1.c`) | a constant table by id | getMessage, the ids composed by the handlers | the player's picture of the game |
| client program (`Client/main.c`, pages, `game.c`) | `Session`, `GameSession`, the page | commands of the pages, the game loop | one request, one reply |
| client connection (`Client/src/connection.c`) | the socket | connect, request, close | the server |

Logging, the wording of texts, scripts and the trial programs `test.c` keep no
state the rest depends on; they are not modelled.

What is hard here:

* **One thread.** Everything waits for the handler that runs; a recv that has
  nothing to receive stops the server. The sweep works through a ready set
  taken before its own handlers closed and opened descriptors.
* **Descriptors as identities.** Watch set, list, counter and administrator
  all name a client by a number the kernel gives to the next one.
* **Clients that vanish** between request and reply, or half way through a
  request; clients that are connected and not yet accepted.
* **The clock is read only by requests.** The deadline passes unnoticed; an
  administrator moves it meanwhile; the winner asks for the verdict later.
* **Two copies of one state**: the pages of the client and the session of the
  server, the game shown and the game played, what the player has been told,
  the list an administrator looks at while descriptors change hands.
* **Bytes and characters**: TCP keeps no boundaries, a length is believed,
  select looks at the kernel and fgets at stdio's memory.
* **Numbers** that pass through int, long, %d and %lu on their way.
* **Error paths** that leave files and sockets open, or a variable unwritten.

`PROJECT.json` lists each of these hazards at its line with the properties that
would catch it.

## Modules

| module | models | state and actions |
|---|---|---|
| `Game1` | `handle_game1` on one session, the clock, ADM UPDATE TIME | the fields of `GameData`; an action per kind of request, one per phase of `use` |
| `Story` | what the game promises, abstractly | phase, tokens, verdict; `Game1` implements it |
| `Game1Proofs` | | theorems about `Game1` and `Replies` |
| `ListLemmas` | | facts about numbers, sums and lists, of their parts and of lists put together, that the other proofs cite |
| `Server` | main, `fdcontroller`, the handlers' bookkeeping, `connection`, kernel, operator, clients | an action per blocking or visible system call |
| `Service` | what a client may rely on, abstractly | where each client is in its exchange, its request, its login; `Server` implements it |
| `ServerProofs` | | theorems about `Server`, and that it implements `Service` |
| `Sessions` | `handle_user` and `handle_admin` on all sessions and `user.txt` | an action per request |
| `SessionsProofs` | | theorems about `Sessions` |
| `Client` | the client program: pages, game loop, request | a request and its return are two actions |
| `Play` | `Client` and `Game1` joined by the server's session and dispatch | the actions of both, the server's replies, what happens elsewhere |
| `System` | `Play` with an administrator's program and session beside the player's | Play's actions; the administrator's client, its requests, ADM UPDATE on the player's game; implements `Play` |
| `PlayProofs` | | theorems about `Play` and `System`, and that `System` implements `Play` |
| `Framing` | `request` against `receive_from_fd` and `send_to_fd`, byte by byte | one action per send or recv of either side; TCP's cuts; the ends of both |
| `Call` | what a connection is for, abstractly | ask, execute, tell, break; `Framing` implements it if messages arrive whole |
| `FramingProofs` | | theorems about `Framing`, and that it implements `Call` |
| `Console` | `get_input_line`, getchar, stdio's stream, the server's select over stdin | an action per call of fgets, scanf, getchar, read, select |
| `Replies` | the answers of `handle_game1` over `Game1`, the table of messages, the player's picture | Game1's actions, each with its message |
| `Roster` | the linked list, ADM LIST with its limits, the admin page, ADM UPDATE of an id that was shown | accept, close, login, play, list, update |
| `RosterProofs` | | theorems about `Roster` |
| `Deadline` | a number of seconds from `do_update` to the "Time left" line | update typed and served, status served and shown, as messages apart |
| `InputProofs` | | theorems about `Console` and `Deadline` |

`MCReplies`, `MCServer` and so on give the constants their values for TLC; `Game1`
is checked as part of `Replies`, which extends it, `Play` as part of `System`.
Operators marked "Slip" are plausible mistakes (a dropped test, a missing
reset); none is used by a specification, they show that the properties notice.

How the pieces fit: `Server` treats the text of a request as one of eight
kinds, by what the reply and the session's login do; `Sessions` is what the USR
and ADM kinds do to all the sessions; `Game1` is what GMN does to one game;
`Play` is the whole exchange of one client with them. The server is iterative,
so a request is atomic for every module but `Server`, and `Server` shows why
that may be assumed: each request is executed whole, between a recv and a send
of the same connection (`ImplementsService`). `Framing` justifies the two whole
parts of `Server` where messages arrive whole (`ImplementsCall`) and says what
remains true where they do not (`OnlyLastCut`, `BuffersHold`). `System`
replaces what `Play` leaves to an environment by a second client of the program
and shows that nothing else is needed (`ImplementsPlay`), so `Play`'s
invariants hold of the player in it. `Console` gives `Server` and `Client`
their lines; `Deadline` and `Replies` look at data that `Game1` leaves out.

### Correspondence worth knowing

* `Game1`: the read of `next_phase` after the `goto` of `take`
  (`game1.c:184`) is undefined; it is a choice from `UninitPhases`, which the
  proofs leave arbitrary (any integers). `phaseLost` is a history variable:
  the phase has been overwritten so since the last init. Properties of the
  story speak of games whose phase was not lost; `BagBound`, `ClockAgrees`,
  `TypeOK` and `FairVerdict` of all.
* `Server`: a request is two parts, a reply is two parts, each received whole.
  `peer` follows a closed client through what TCP reports of it: a first send
  is swallowed and provokes a reset, a pending reset fails one send or recv,
  and a send after that is a SIGPIPE. A recv of the length that fails is taken
  for two bytes received (`connection.c:122` compares with an unsigned size):
  the next recv, with an arbitrary length, then finds the end. Descriptors are
  the lowest free ones up to `MaxFd`. EARLY, a game request before any init,
  has no reply: see `server_handler.c:193`. ADMIN, the ADM LOGIN, is a kind of
  its own because `handle_admin` sends its reply itself and does not look
  whether that went out.
* `Sessions`: passwords matter only by which begins which, because `strstr`
  accepts a prefix. `user`, `granted` and `mover` are history variables: who a
  login is in truth, whom `admin.txt` let in, and whose request the last step
  was if it asked for a deadline to be moved. LOGOUT clears `is_logged` alone
  (`server_handler.c:239`): who logs in next on an administrator's connection
  has the administrator's right. `DeadlinesMoved` therefore speaks of the
  connection that asks, `MovedByAdministrator`, of its user, does not hold.
* `Client`: a result of -1 of `request` is a reply of kind "none". `told` is
  the verdict printed. `link` is "down" when the server has closed, "cut" when
  that was between the length and the text of a reply. recv then returns 0 for
  the text, which is not looked at (`Client/src/connection.c:172`): `request`
  returns 0 and the response is unread memory, any of `Unread`. `link` is
  "lost" from then on, the one case in which `ToldTruly` claims nothing.
* `Play`: `won` records that the game was won since its init. What the server
  does between two requests of this client to others does not reach it, but
  for deadline changes and the end of the process (`Elsewhere`). A login is
  refused also when the file of the accounts cannot be opened.
* `System`: the administrator logs in through ADM LOGIN only. A session is
  there to be updated while its connection is; both connections go when the
  process ends, with a reply to one of them half sent at most. `handle_admin`
  has an action per branch, each with its own reply (`Listed`, `TooLarge`,
  `NotFound`, `NotPlaying`, `Updated`), so that `BothReplied` would see a
  branch that forgets it.
* `Framing`: a text has any bytes but NUL: the solution of a riddle and the
  fields of a login are what was typed, control bytes too. `Garbage` is what a
  buffer that nothing was received into may hold; `whole` and `heard` are
  history variables: each recv, or each of the client's, has found all it asked
  for, so far. `got` is what `request` returned, `Error` its -1. The histories
  `sent`, `served`, `replied` are what the properties compare. `RecvBody` has
  the three outcomes of `handle_client_fd`: a reply, the connection closed, and
  neither (`server_handler.c:193`). The last is of a request the pages do not
  make in their turn, so of one cut or misread, or asked after a cut reply; a
  request that came whole, of a client that was told what the server answered,
  is never that (`Play`'s `Welcome`). `Overrun`: more than
  `handle_client_fd`'s 128 bytes were copied, or `buf[1024]` was written
  (`Server/src/connection.c:152`); the process may then end when the
  handler returns. `BuffersHold` says when that does not come to pass.
* `Console`: the same module is the server's stdin or the client's, by `setup`.
  An end of file typed after characters sends them without a newline, on its
  own it makes read return 0 once; stdio's indicator stays set, and fgets does
  not look at the terminal again. `line` is what the caller's line held before
  the call. Most callers declare it anew for each; do_login, do_signup and
  do_admin declare it outside the loop that asks again (`login_page.c:135`),
  and an fgets that finds the end of the file leaves it: the line that was
  refused is handed out once more, for ever. `AskLine` chooses between the two,
  and `Faithful` allows that repetition and no other.
* `Replies`: a message is its id; `view` is what one believes who takes every
  message at its word. An answer to objs or status changes no belief.
* `Roster`: a text is the sequence of entries it has lines for and its length;
  connections are numbered to tell two of one descriptor apart.
* `Deadline`: what the C standard leaves undefined (a number that `%d` cannot
  hold, minus the least int) is modelled as glibc and gcc do it, the compiler
  of the makefile.

## Runs

| run | question | result |
|---|---|---|
| `game1` | does every order of requests, ticks and deadline changes keep the game sound, fair, winnable, and on the story; is who believes its messages right | passes, 252 thousand states |
| `server` | do the books agree, is no recv blind, is stop clean, is each client served as `Service` says | passes, 1.5 million states |
| `server_fair` | is every request answered, every connection admitted, every gone client forgotten | passes, 224 thousand states |
| `sessions` | are accounts unique, are rights those that were granted, does a deadline move only by a new game or on the request of a connection that was let in and is logged in | passes, 128 thousand states |
| `system` | do client and server stay in step, is what is shown true, is a verdict that is printed the server's unless it was read from a text that never came, do a player and an administrator together do what `Play` allows, is a deadline moved only on a request that waits, does neither wait for ever | passes, 610 thousand states |
| `framing` | however TCP cuts the bytes, is the server misled at most once and last, and do its buffers hold what it copies, if no byte of 1 to 4 was typed; does every request return, if no reply was cut either; if all arrive as sent, is a call executed once, whole, and told its own answer | passes, 620 thousand states |
| `console` | at the server's terminal and in the client, are the lines handed out those typed, all of them, but for a last line again at the end of file, and are clients served meanwhile | passes, 77 thousand states |
| `roster` | does the list mirror the connections, does a list fit its buffers, whom does an update of a listed id reach | passes, 952 thousand states |
| `deadline` | is a deadline moved as typed and shown as it is, below zero too | passes, 101 thousand states |
| `server_sigpipe` | can no client end the server | no: SIGPIPE |
| `play_won` | is a winner told so | no: a timeout overwrites the win before the status request |
| `framing_lost` | does request report the end of the connection | no: recv's 0 for the text is not looked at |

The last three state what the readme or a comment says; the findings in
`PROJECT.json` quote it.

Some more configurations each show one thing that the code does not do, and
where the properties above stop. They are not among the runs: `tlc -config
ServerStop.cfg MCServer` and so on finds the violation within a minute.

| configuration, of | property | violated because |
|---|---|---|
| `Game1Lost.cfg`, `MCReplies` | `PhasesInOrder`: phases are unlocked one after one | `take` with a full bag reads `next_phase` unwritten |
| `ServerStop.cfg`, `MCServer` | `StopsAlone`: stop spares the connected | who is not yet accepted is reset |
| `ServerLeak.cfg`, `MCServer` | `Admitted`, without the spare descriptor | signups of a known name use up the descriptors |
| `ServerStall.cfg`, `MCServer` | `Answered`, if a client may stop half way | the body's recv blocks |
| `SessionsList.cfg`, `MCSessions` | `ListNamesUser`: a session names its user | not after a signup |
| `SessionsRight.cfg`, `MCSessions` | `MovedByAdministrator`: who moves a deadline is the administrator | LOGOUT leaves `is_admin` to who logs in next |
| `PlayCut.cfg`, `MCPlay` | `ToldAlways`: each verdict printed is the server's | the text of a status reply that never came is scanned all the same |
| `FramingControl.cfg`, `MCFraming` | `Truncated`: only the last request is cut, whatever was typed | the rest of a cut request that begins with a byte of 1 to 4 passes for a length |
| `FramingCut.cfg`, `MCFraming` | `RequestsWhole`: what is executed was sent | one recv may return a part of the text |
| `ConsoleAgain.cfg`, `MCConsole` | `FaithfulAlways`: no line is handed out that was not typed | a loop that asks again keeps its line, and fgets leaves it at the end of the file |
| `ConsolePipe.cfg`, `MCConsole` | `Executed`, of a pipe | select does not see what fgets has left in the stream |
| `ConsolePart.cfg`, `MCConsole` | `Served`, if a part of a line is sent | fgets waits for the rest |
| `ConsoleEnd.cfg`, `MCConsole` | `StdinServed`: stdin after an end of file | it is not read again, and the loop spins |
| `RosterPage.cfg`, `MCRoster` | `PageIsWhole`: the page shows the list | up to its first digit 0 |
| `DeadlineAdd.cfg`, `MCDeadline` | `AddtimeAdds` | 2147483648 seconds are subtracted |

### Bounds

* `game1`: a game of 2 seconds, a clock to 2, deadlines 0..4, changes of -2
  and 2: a game can expire, be extended after expiry but before it is noticed,
  be cut to the past, be finished in time or late. Lost phases 0, 5 and 32764
  land before, inside and outside the story. Tokens stop at 5, one more than
  the story pays.
* `server`: two clients, each connecting any number of times, and descriptors
  3..5: the listener and the two clients use them up, so that failed sockets,
  leaked files and accepts without a descriptor occur, and closed descriptors
  are used again in the same sweep. Clients are interchangeable (symmetry);
  the liveness runs use none. One typed line is pending at a time.
* `server_fair`: one more descriptor, because LOGIN opens a file: with none
  free a connection waits for ever, which `ServerLeak.cfg` shows.
* `sessions`: two descriptors, two names, two passwords of which one begins the
  other; deadlines moved by at most one.
* `system`: one player and one administrator; a game of one second, deadlines
  0..2 and a change of 1: a game can expire and be extended before that is
  noticed. The value of a lost phase is one outside the story. A text that
  never came looks like a game that was won.
* `play_won`, `PlayCut.cfg`: a game of two seconds, a clock to 2, deadlines
  0..4, and five unread texts, one of each kind that the program tells apart.
* `framing`: three requests, so that the rest of one can meet the length of
  the next; texts of two and three bytes; a reply that fits the response and
  one that does not. Lengths have two bytes, as in the code, and the server's
  maximum is the code's. One text has a byte 4, with which a length that is
  accepted may begin. `RequestLen`, the 128 of the code, is 5: the
  longest request fits with its NUL and one byte of a length, and nothing more
  does. A length of 1024 whose bytes all come is out of reach of texts so
  short; the proofs are about it.
* `console`: a buffer of three against lines that are empty, shorter, of just
  its length and longer; up to three things typed, ends of file among them, and
  two keys: a line left over by one call meets the next and the one after.
  A line is handed out again up to four lines in all.
* `roster`: descriptors 8..10, so that one has two digits and a 0; four
  connections, one more than there are descriptors, so that one is used again;
  `LIMIT` is scaled so that some three sessions pass it and others do not, the
  slack between the limit and the buffers is the code's.
* `deadline`: ints of three bits and longs of six, days of four seconds;
  numbers typed within, at and beyond the ends of both; three updates, a game
  of two seconds, a clock to 4. Deadlines fall below zero, as with 31 bits they
  do: the clock is below 2^31, the least int's magnitude.

CHECK_DEADLOCK is off: the server exits after stop, the client after end, and
the clock of the games stops at its bound.

### Fairness

`Server!FairSpec` assumes that the process runs on while a step of it is
possible (weak fairness of `ServerStep`: it is an endless loop, and a blocked
call is not enabled), and that a client which has sent a length sends the body,
its next statement (`Client/src/connection.c:122` and `:135`). Nobody is assumed to
read, to close, to ask or to type. Without the second assumption `Answered`
fails: `ServerStall.cfg`.

`System!SFairSpec` assumes that the server serves either client whose request
has come, which is `Answered` of `Server`: the sweep reaches every ready
descriptor. `Framing!FairSpec` assumes that either program runs on while a call
of it can return, and that what was sent arrives: TCP while the connection is
up. `Console!FairSpec` assumes that the program runs on while its call can
return; nobody is assumed to type.

## Proofs

Every invariant that a passing run checks is a theorem but `NoDeadEnd`, which
says ENABLED; so are all action properties, the three refinements of programs
(`ServerImplementsService`, `BytesImplementCall`, `SystemImplementsPlay`) and
that of the game (`Game1ImplementsStory`). An
invariant that is not inductive is proved from one that is, `Inv` in most
modules; under its step there is a lemma per action, or per group of actions
that touch the same state.

`Game1Proofs`, for every game time, deadline, administrator's value, clock and
uninitialised phase:

* `TypeCorrect`: `TypeOK` is inductive; its three parts (numbers, truth values,
  flags) are preserved by separate lemmas, because SMT handles one kind of
  reasoning at a time.
* `ClockAlwaysAgrees`: inductive with the types. The administrator's step needs
  `is_playing <=> status = "PLAYING"` to see that a timed out game is not moved.
* `AlwaysOnStory`: inductive with the types. `PlacesMove` is the heart: a take
  or drop moves an object only between bag and room, and does so only where the
  phase allows both.
* `BagAlwaysBounded`: inductive with the types, by the cardinality of the bag
  before and after; a `use` that frees or locks an object never adds one.
* `VerdictsAreFair`: an action property from the types.
* `Game1ImplementsStory`: initial states and steps map; the step lemma uses
  `OnStory` for the tokens of the new phase, and that a started game stays
  started.

`SessionsProofs`, for every set of descriptors, names and passwords:

* `TypeCorrect`; `AccountsUnique` (the only change of `user.txt` is a line
  with a name that is new); `RightsAreGranted` (inductive with the types, and
  `KnownStands`: accounts are never removed); `DeadlinesAreMoved` (the mover
  passed the test of `handle_admin`, and by `RightsGranted` its right was
  granted to its connection). The theorem does not say that the mover's user is
  the administrator, which `SessionsRight.cfg` refutes.

The second half of `Game1Proofs` is about `Replies`, for the same games. A
request with its answer is a step of `Game1` (`RepliesPlayGame1`), so the
invariants of the game are those of `Replies`.

* `AnswersInStep`: a message is composed as thing, flag and phase; that the
  table has it is shown thing by thing, and that look answers the latest by the
  greatest phase not beyond that of the game.
* `PlayerIsRight`: `ViewAgrees` is inductive with `TypeOK`, `OnStory` and
  the type of the view. One lemma per request: what the message says has
  changed is what the handler changed. The new phase takes things out of the
  bag that no message names one by one (`BagLoses`).

`PlayProofs`, for every game of `Game1Proofs`, in every order of pages, requests
and failures:

* The inductive invariant has the game's (`GameInv`, from the lemmas of
  `Game1Proofs` by an instance of it; `SameGame`), and five parts about the
  exchange. `Conversation`: what is awaited, the request or the reply on its
  way and the page belong together. `InStep`: the session is ahead of the page
  by the reply that is on its way and by nothing else. `Carried`: a game on its
  way is still the server's. `Shown`: at the prompt so is the game that was
  stored. The verdict itself (`ToldAlways`). Once a reply that never came was
  read (`link` is "lost") the last four are dropped: the program's picture of
  the game is then whatever memory held, and the link never comes up again.
  `Carried` is what the shown game needs: between a reply's sending and its
  reading the server may serve others, and a deadline may be moved, but phase,
  tokens and status are not.
* From it `TypeCorrect`, `AlwaysWelcome`, `StateLineIsTrue`, `VerdictIsTrue`.
* `SystemImplementsPlay`: the administrator's steps are Play's `Elsewhere` or
  stutter, and the invariant shows that the two programs' steps map with it.
  So the four above hold in `System`.
* `DeadlineMovedOnRequest`: with `Asking`, the same relation for the
  administrator's page, which is inductive in `System`.

`RosterProofs`, for every range of descriptors an fd_set holds, all names and
lengths of them, and every limit:

* `ListIsConnections`: `Mirrors` is inductive with the types. An entry that is
  removed is the one with the descriptor, because descriptors are distinct in
  the list; the kernel's reuse of a descriptor puts a new entry in front.
* `ListsAlwaysFit`: the length written after an entry is a sum along the list
  (`WrittenRises`); a list that is not refused is below the limit at each entry,
  and its last line ends within the slack between limit and buffer.
* `UpdatesOfShown`: an action property from `ShownThen`: an entry the page
  shows is of the connection that has the descriptor, or of one that has been
  closed, and then whoever has it now came after the list was sent.

`ServerProofs`, for every set of clients, number of descriptors, set of requests
and of commands:

* The inductive invariant is `TypeOK`, `Fresh` (who is not connected has nothing
  on its way) and, while the process runs, six parts. `Books`: counter, list,
  watch set and largest descriptor are those of the descriptors open for
  clients. `Links`: those are the connections the kernel has, one each.
  `Queued`, `ListenerKnown`: likewise for what waits and for the listener.
  `Sweeping`: each client descriptor the sweep has yet to come to is connected
  and readable, although the ready set is older than the handlers that ran.
  `Exchange`: what a client is doing, what is on its way and where the server is
  fit together.
* `TypeCorrect`, `BooksAgree`, `NeverBlindRecv` and `StopsClean` follow.
  `NoBlindRecv` is not inductive without the books: that a client still to be
  swept is not the one an earlier handler closed needs each connection to have
  one descriptor, and that no handler but its own and accept's changes what is
  at a descriptor. `StopsClean` needs that `stop` leaves no listener to accept
  from, and that no `start` follows it: the sweep is past the operator.
* `ServerImplementsService`: for each client, what a step changes of its place
  in an exchange, its request and its login is one step of `Service` or none;
  one lemma per action (`RecvBodyViews`, ...), and `Over` for the end of
  the process.

`FramingProofs`, for every set of texts that the assumptions allow, every number
of requests and everything that unread memory may hold:

* `TypeCorrect`: inductive with `Underway` (who sends has something to send).
* `CutOnceAtMost`: if no byte of 1 to 4 was typed (`Plain`), `InTouch`, while
  the connection is up, is one of three. `Aligned`: what the server has not
  read is the parts of the requests not yet executed, one after another
  (`Reads`). `Misled`: a request was cut, and what comes next begins with a
  byte that is no length's first, or with a zero. `Doomed`: a length of 0 was
  read, and the recv of no bytes is the end of the connection. From `Misled`
  and `Doomed` nothing is executed any more.
* `NothingOverrun`: what the server copies is a string, and among any bytes
  that came one after the other a NUL follows after no more than a request and
  the first byte of a length, however they were cut; so it fits
  `RequestLen`, without any assumption on what was typed. That no length is
  `MAX_LEN` itself, whose NUL would be written behind `buf`, is by `Plain`
  again.
* `BytesImplementCall`: `InExchange` lists the states the two programs pass
  through together while every recv finds all it asks for; each step between
  two of them is one of `Call` or a stutter, and a short recv and an
  end are `Break`.

`InputProofs`, for every set of texts, every size of the buffer and every
setup of `Console`, and every width of int and long of `Deadline`:

* `ConsoleHolds`: what was typed is, in this order, the lines that are `done`,
  the `rest` that is being read, and what is `Unread`, in the stream or with
  the kernel. `Handed`: the lines of `done`, each cut to the buffer, are those
  the callers got. `Complete`: the rest is in the buffer, or as much of it as
  that holds while the remainder of a long line is thrown away; `Ended`: the
  rest was handed out at an end of file, and in a client nothing after it but
  the last line again (`AndAgain`), which is what the caller's line still holds
  (`Left`). One lemma per action. TLC has checked
  the invariant in the run's instance before.
* `LinesAreFaithful` follows (`InvFaithful`): a text that begins with `done`
  has its lines where `done` has them, and behind them there is no more line
  (`NoMoreLines`), which is when `Faithful` allows a repetition. `Faithful`
  says where each line ends by a recursive function, because nothing can be
  proved about one that takes the rest of the text; that this function exists,
  and is the only one, is `LineEndsAre`.
* `DeadlineHolds`: `Reached` bounds the deadline by the updates served so far,
  each of which moves it by one int at most; `Replying` says that a status
  reply has the deadline as it is, unless that has moved, and that a deadline
  does not move any more after a timeout.
* `UpdatesMoveAsTyped`: from the value of an update (`ValueIs`). The least int,
  whose negation is itself, is why only `subtime` keeps its promise for every
  number; of `addtime` see `DeadlineAdd.cfg`.
* `ShownIsWhatIsLeft`: `ThroughUnsigned`, a long printed as unsigned and scanned
  again is the same long, and `Reached`, which keeps deadlines within a long.

The attempt to prove `LinesAreFaithful` found that the assumption on texts said
less than was meant: that no text contains a newline was not part of it, and it
is false without.

`ListLemmas`: what the proofs need of numbers and lists: a minimum is the least,
a list with an entry removed, sums along a list, pieces put together
(`FlattenSplit`) and a text cut at a character (`CutAt`, `CutAround`). Where a
proof would be by induction over a list, the least position at which the claim
fails is taken (`LeastNat`, a set of naturals has a least member) and the step
before it refutes it.

### Assumptions

Those that the modules name. Most say that a bound is a number. The others:

* names are not empty, the administrator's password is one of the passwords
  (`Sessions`);
* there is a descriptor for a listener; no client is called like the listener
  (`Server`);
* the bound on tokens is not below what the story pays (`Play`);
* no text contains a newline or an end of file, which are two things; a buffer
  holds a character and its NUL at least (`Console`);
* a deadline stays within time_t: the time of a game, the clock and the updates
  ever sent, each by one int, are below the greatest long (`Deadline`). With 31
  bits of an int and 63 of a long that allows four thousand million updates;
* descriptors are those an fd_set holds, below 1024; the limit of a list is
  above 2 and its buffers four bytes above that, 1000 and 1024 in
  `client_session.c` (`Roster`);
* texts have no NUL within and are shorter than the server's `MAX_LEN`; a
  request with its NUL is shorter than `RequestLen`, the 128 bytes of
  `handle_client_fd`, which are fewer than 256 (`Framing`). The last is the
  code's: a request is a keyword and fields of at most 15, 31 or 63 characters
  (`game.c:247`, `:397`, `login_page.c:151`, `admin_page.c:91`). Which bytes
  they are is not assumed: where a claim needs that none is 1 to 4, it says so
  (`Plain`);
* unread memory may look like any text with any fields (`UnreadMemory` in
  `Play`, which gives their types).

### Only model-checked

* `NoDeadEnd`, which says ENABLED, and liveness under fairness (`Answered`,
  `Admitted`, `Forgotten`, `BothReplied`, `Returned`, `Executed`, `Served`):
  out of the prover's reach.
* That the violation runs are violated.

## Not modelled

* The wording of texts, the client's help pages (`message.c`), the log: nothing
  depends on them. What a player learns from a message is in `Replies`, the
  length of a list in `Roster`.
* `Server` receives each part of a message whole; `Framing` does not, for one
  connection. A signal within a call (EINTR) is not modelled, the programs
  install no handlers.
* How `start` scans the text of its port (`parse_port`: a sign, text behind the
  number, 2^32): it keeps no state, and `Server` tries whatever comes out.
* The second room that the client's list names and the server does not have is
  modelled by its refusal only.
* The clock is never set back. Both programs read the clock of one machine,
  because the address is 127.0.0.1 on both sides.
* Of the time left, whole days: the line has no place for them, and
  `ShownIsLeft` speaks of less than a day.
* More than two clients in `System`, and the pages of two players at once: the
  sessions of players share nothing but the list, which is in `Roster`.
* The trial programs `test.c` are not linked into the programs; the makefile
  and the scripts start them.

## Plan

Done: `Game1` and `Story`, `Server` and `Service`, `Sessions`, `Client`, `Play`
and `System`, `Framing` and `Call`, `Replies`, `Roster`, `Console` and
`Deadline`, with proofs of their safety properties and refinements.

Left is what the prover cannot reach: liveness, and `NoDeadEnd`.
