---------------------------- MODULE RosterProofs ----------------------------
(***************************************************************************)
(* Proofs about Roster, for every number of descriptors and connections,   *)
(* every set of names and every limit.                                     *)
(***************************************************************************)
EXTENDS Roster, ListLemmas

USE FdsAssumption, NamesAssumption, SizesAssumption
    DEF FdsAssumption, NamesAssumption, SizesAssumption

-----------------------------------------------------------------------------
(* The list. *)

(* Each entry is at the descriptor the kernel gave to its connection, each *)
(* open connection has its entry, and who came later comes first.          *)
Mirrors ==
  /\ \A i \in 1..Len(list) : list[i].fd \in DOMAIN open /\ open[list[i].fd] = list[i].conn
  /\ \A fd \in DOMAIN open : \E i \in 1..Len(list) : list[i].fd = fd
  /\ \A i, j \in 1..Len(list) : i < j => list[i].conn > list[j].conn

(* The types of what the connections change.                               *)
Connected ==
  /\ list \in Seq(Entry)
  /\ DOMAIN open \subseteq Fds /\ \A fd \in DOMAIN open : open[fd] \in 1..n_conns
  /\ n_conns \in 0..MaxConns

(* Each entry has the types of one, and the number of its connection.      *)
LEMMA EntriesTyped ==
  ASSUME Connected
  PROVE  /\ Len(list) \in Nat
         /\ \A i \in 1..Len(list) : list[i] \in Entry /\ list[i].conn \in Int
<1>1. list \in Seq(Entry)
  BY DEF Connected
<1>2. ASSUME NEW i \in 1..Len(list) PROVE list[i] \in Entry
  BY <1>1, <1>2, ElementOfSeq
<1>3. \A e \in Entry : e.conn \in Int
  BY DEF Entry
<1> QED
  BY <1>1, <1>2, <1>3

(* No two entries have the same descriptor, nor the same connection.       *)
LEMMA EntriesApart ==
  ASSUME Connected, Mirrors
  PROVE  \A i, j \in 1..Len(list) :
           list[i].fd = list[j].fd \/ list[i].conn = list[j].conn => i = j
<1> SUFFICES ASSUME NEW i \in 1..Len(list), NEW j \in 1..Len(list),
                    list[i].conn = list[j].conn
             PROVE  i = j
  BY DEF Mirrors
<1>1. list[i].conn \in Int /\ list[j].conn \in Int /\ i \in Int /\ j \in Int
  BY EntriesTyped
<1>2. /\ i < j => list[i].conn > list[j].conn
      /\ j < i => list[j].conn > list[i].conn
  BY DEF Mirrors
<1> QED
  BY <1>1, <1>2

(* The entry of an open connection is found by its descriptor.             *)
LEMMA FoundIfOpen ==
  ASSUME Connected, Mirrors, NEW fd \in DOMAIN open
  PROVE  IndexOf(fd) \in 1..Len(list) /\ list[IndexOf(fd)].fd = fd
<1>1. \/ IndexOf(fd) \in 1..Len(list) /\ list[IndexOf(fd)].fd = fd
      \/ IndexOf(fd) = 0 /\ \A j \in 1..Len(list) : list[j].fd # fd
  BY FindByFd DEF IndexOf, Connected
<1> QED
  BY <1>1 DEF Mirrors

(* A new connection becomes the head of the list.                          *)
LEMMA AcceptMirrors ==
  ASSUME Connected, Mirrors, NEW fd \in Fds, Accept(fd)
  PROVE  Connected' /\ Mirrors'
<1> DEFINE e == [fd |-> fd, conn |-> n_conns + 1, username |-> NoName, playing |-> FALSE]
<1>1. /\ n_conns' = n_conns + 1 /\ n_conns' \in 1..MaxConns /\ n_conns \in Nat
      /\ fd \notin DOMAIN open
      /\ list' = <<e>> \o list
      /\ open' = [f \in DOMAIN open \cup {fd} |-> IF f = fd THEN n_conns + 1 ELSE open[f]]
  BY DEF Accept, Connected
<1>2. e \in Entry /\ list \in Seq(Entry) /\ Len(list) \in Nat
  BY <1>1 DEF Connected, Entry
<1>3. /\ list' \in Seq(Entry) /\ Len(list') = Len(list) + 1
      /\ list'[1] = e /\ \A i \in 1..Len(list) : list'[i + 1] = list[i]
  <2> HIDE DEF e
  <2> QED
    BY <1>1, <1>2, ConsProperties
<1>4. ASSUME NEW i \in 1..Len(list')
      PROVE  i = 1 \/ (i - 1 \in 1..Len(list) /\ list'[i] = list[i - 1])
  <2>1. i = 1 \/ (i - 1 \in 1..Len(list) /\ (i - 1) + 1 = i)
    BY <1>2, <1>3
  <2> QED
    BY <1>3, <2>1
<1>5. DOMAIN open' = DOMAIN open \cup {fd} /\ open'[fd] = n_conns + 1
      /\ \A f \in DOMAIN open : open'[f] = open[f]
  BY <1>1
<1>6. Connected'
  BY <1>1, <1>3, <1>5 DEF Connected
<1>7. ASSUME NEW i \in 1..Len(list')
      PROVE  list'[i].fd \in DOMAIN open' /\ open'[list'[i].fd] = list'[i].conn
  <2>1. CASE i = 1
    BY <1>3, <1>5, <2>1
  <2>2. CASE i - 1 \in 1..Len(list) /\ list'[i] = list[i - 1]
    BY <1>5, <2>2 DEF Mirrors
  <2> QED
    BY <1>4, <2>1, <2>2
<1>8. ASSUME NEW f \in DOMAIN open'
      PROVE  \E i \in 1..Len(list') : list'[i].fd = f
  <2>1. CASE f = fd
    BY <1>2, <1>3, <2>1
  <2>2. CASE f \in DOMAIN open
    <3>1. PICK i \in 1..Len(list) : list[i].fd = f
      BY <2>2 DEF Mirrors
    <3>2. i + 1 \in 1..Len(list') /\ list'[i + 1].fd = f
      BY <1>2, <1>3, <3>1
    <3> QED
      BY <3>2
  <2> QED
    BY <1>5, <2>1, <2>2
<1>9. ASSUME NEW i \in 1..Len(list'), NEW j \in 1..Len(list'), i < j
      PROVE  list'[i].conn > list'[j].conn
  <2>1. j - 1 \in 1..Len(list) /\ list'[j] = list[j - 1]
    BY <1>4, <1>9
  <2>2. CASE i = 1
    <3>1. list[j - 1].conn \in 1..n_conns
      <4>1. list[j - 1].fd \in DOMAIN open /\ open[list[j - 1].fd] = list[j - 1].conn
        BY <2>1 DEF Mirrors
      <4> QED
        BY <4>1 DEF Connected
    <3>2. list'[i].conn = n_conns + 1
      BY <1>3, <2>2
    <3> QED
      BY <1>1, <2>1, <3>1, <3>2
  <2>3. CASE i - 1 \in 1..Len(list) /\ list'[i] = list[i - 1]
    <3>1. i - 1 < j - 1
      BY <1>9, <1>2, <1>3
    <3>2. list[i - 1].conn > list[j - 1].conn
      BY <2>1, <2>3, <3>1 DEF Mirrors
    <3> QED
      BY <2>1, <2>3, <3>2
  <2> QED
    BY <1>4, <2>2, <2>3
<1> QED
  BY <1>6, <1>7, <1>8, <1>9 DEF Mirrors

(* A connection that is closed leaves no entry behind, and takes none of   *)
(* another with it.                                                        *)
LEMMA CloseMirrors ==
  ASSUME Connected, Mirrors, NEW fd \in Fds, Close(fd)
  PROVE  Connected' /\ Mirrors'
<1> DEFINE k == IndexOf(fd)
           Old(i) == IF i < k THEN i ELSE i + 1
<1>1. /\ fd \in DOMAIN open /\ n_conns' = n_conns
      /\ open' = [f \in DOMAIN open \ {fd} |-> open[f]]
  BY DEF Close
<1>2. k \in 1..Len(list) /\ list[k].fd = fd
  BY <1>1, FoundIfOpen
<1> HIDE DEF k
<1>3. list' = RemoveAt(list, k)
  BY <1>2 DEF Close, k
<1>4. /\ list' \in Seq(Entry) /\ Len(list') = Len(list) - 1 /\ Len(list) \in Nat
      /\ \A i \in 1..Len(list) - 1 : list'[i] = list[Old(i)]
  <2>1. list \in Seq(Entry) /\ Len(list) \in Nat
    BY EntriesTyped DEF Connected
  <2>2. /\ RemoveAt(list, k) \in Seq(Entry)
        /\ Len(RemoveAt(list, k)) = Len(list) - 1
        /\ \A j \in 1..Len(list) - 1 : RemoveAt(list, k)[j] = list[IF j < k THEN j ELSE j + 1]
    BY <1>2, <2>1, RemoveAtProperties
  <2> QED
    BY <1>3, <2>1, <2>2
<1>5. /\ \A i \in 1..Len(list') : Old(i) \in 1..Len(list) /\ Old(i) # k
      /\ \A i, j \in 1..Len(list') : i < j => Old(i) < Old(j)
      /\ \A m \in 1..Len(list) : m # k => \E i \in 1..Len(list') : Old(i) = m
  <2>1. ASSUME NEW m \in 1..Len(list), m # k PROVE \E i \in 1..Len(list') : Old(i) = m
    <3>1. CASE m < k
      BY <1>2, <1>4, <3>1
    <3>2. CASE m > k
      <4>1. m - 1 \in 1..Len(list') /\ Old(m - 1) = m
        BY <1>2, <1>4, <3>2
      <4> QED
        BY <4>1
    <3> QED
      BY <1>2, <2>1, <3>1, <3>2
  <2> QED
    BY <1>2, <1>4, <2>1
<1> HIDE DEF Old
<1>6. \A i \in 1..Len(list') : list'[i] = list[Old(i)] /\ list[Old(i)].fd # fd
  BY <1>2, <1>4, <1>5, EntriesApart
<1>7. Connected'
  BY <1>1, <1>4 DEF Connected
<1>8. \A i \in 1..Len(list') : list'[i].fd \in DOMAIN open' /\ open'[list'[i].fd] = list'[i].conn
  <2> TAKE i \in 1..Len(list')
  <2>1. Old(i) \in 1..Len(list) /\ list'[i] = list[Old(i)] /\ list[Old(i)].fd # fd
    BY <1>5, <1>6
  <2>2. list[Old(i)].fd \in DOMAIN open /\ open[list[Old(i)].fd] = list[Old(i)].conn
    BY <2>1 DEF Mirrors
  <2> QED
    BY <1>1, <2>1, <2>2
<1>9. ASSUME NEW f \in DOMAIN open' PROVE \E i \in 1..Len(list') : list'[i].fd = f
  <2>1. f \in DOMAIN open /\ f # fd
    BY <1>1
  <2>2. PICK m \in 1..Len(list) : list[m].fd = f
    BY <2>1 DEF Mirrors
  <2> QED
    BY <1>2, <1>5, <1>6, <2>1, <2>2, SMTT(30)
<1>10. \A i, j \in 1..Len(list') : i < j => list'[i].conn > list'[j].conn
  <2> TAKE i, j \in 1..Len(list')
  <2>1. i < j => Old(i) < Old(j) /\ Old(i) \in 1..Len(list) /\ Old(j) \in 1..Len(list)
    BY <1>5
  <2>2. i < j => list[Old(i)].conn > list[Old(j)].conn
    BY <2>1 DEF Mirrors
  <2> QED
    BY <1>6, <2>2
<1> QED
  BY <1>7, <1>8, <1>9, <1>10 DEF Mirrors

(* A login or a game changes one entry, which keeps its descriptor and its *)
(* connection.                                                             *)
LEMMA EntryMirrors ==
  ASSUME Connected, Mirrors, UNCHANGED <<open, n_conns>>,
         list' \in Seq(Entry), Len(list') = Len(list),
         \A i \in 1..Len(list) : list'[i].fd = list[i].fd /\ list'[i].conn = list[i].conn
  PROVE  Connected' /\ Mirrors'
<1>1. Connected'
  BY DEF Connected
<1>2. \A i \in 1..Len(list') : list'[i].fd \in DOMAIN open' /\ open'[list'[i].fd] = list'[i].conn
  BY DEF Mirrors
<1>3. \A fd \in DOMAIN open' : \E i \in 1..Len(list') : list'[i].fd = fd
  BY SMTT(30) DEF Mirrors
<1>4. \A i, j \in 1..Len(list') : i < j => list'[i].conn > list'[j].conn
  BY DEF Mirrors
<1> QED
  BY <1>1, <1>2, <1>3, <1>4 DEF Mirrors

(* The same, of the two requests that do it.                               *)
LEMMA RequestMirrors ==
  ASSUME Connected, Mirrors, NEW fd \in Fds,
         \/ \E name \in Names : Login(fd, name)
         \/ \E b \in BOOLEAN : Playing(fd, b)
  PROVE  Connected' /\ Mirrors'
<1> DEFINE k == IndexOf(fd)
<1>1. fd \in DOMAIN open /\ UNCHANGED <<open, n_conns>>
  BY DEF Login, Playing
<1>2. k \in 1..Len(list)
  BY <1>1, FoundIfOpen
<1>3. list \in Seq(Entry) /\ list[k] \in Entry
  BY <1>2 DEF Connected
<1>4. PICK e \in Entry : /\ list' = [list EXCEPT ![k] = e]
                         /\ e.fd = list[k].fd /\ e.conn = list[k].conn
  <2>1. ASSUME NEW name \in Names, Login(fd, name)
        PROVE  /\ list' = [list EXCEPT ![k] = [list[k] EXCEPT !.username = name]]
               /\ [list[k] EXCEPT !.username = name] \in Entry
               /\ [list[k] EXCEPT !.username = name].fd = list[k].fd
               /\ [list[k] EXCEPT !.username = name].conn = list[k].conn
    <3> HIDE DEF k
    <3>1. list' = [list EXCEPT ![k] = [list[k] EXCEPT !.username = name]]
      BY <2>1, <1>2, <1>3 DEF Login, k
    <3> QED
      BY <1>3, <3>1 DEF Entry
  <2>2. ASSUME NEW b \in BOOLEAN, Playing(fd, b)
        PROVE  /\ list' = [list EXCEPT ![k] = [list[k] EXCEPT !.playing = b]]
               /\ [list[k] EXCEPT !.playing = b] \in Entry
               /\ [list[k] EXCEPT !.playing = b].fd = list[k].fd
               /\ [list[k] EXCEPT !.playing = b].conn = list[k].conn
    <3> HIDE DEF k
    <3>1. list' = [list EXCEPT ![k] = [list[k] EXCEPT !.playing = b]]
      BY <2>2, <1>2, <1>3 DEF Playing, k
    <3> QED
      BY <1>3, <3>1, ZenonT(60) DEF Entry
  <2> QED
    BY <2>1, <2>2
<1> HIDE DEF k
<1>5. /\ list' \in Seq(Entry) /\ Len(list') = Len(list)
      /\ \A i \in 1..Len(list) : list'[i] = IF i = k THEN e ELSE list[i]
  BY <1>2, <1>3, <1>4, ExceptSeq
<1> QED
  BY <1>1, <1>4, <1>5, EntryMirrors

-----------------------------------------------------------------------------
(* The text of the list. *)

(* A line has a length.                                                    *)
LEMMA LineLenTyped == \A e \in Entry : LineLen(e) \in Nat
  BY DEF Entry, LineLen, Digits

(* What has been written of a list after each of its entries: never less   *)
(* than before, and the whole text in the end.                             *)
LEMMA WrittenRises ==
  ASSUME NEW entries \in Seq(Entry)
  PROVE  /\ TextLen(entries) \in Nat
         /\ \A i \in 1..Len(entries) : /\ Written(entries)[i] \in Nat
                                       /\ Written(entries)[i] <= TextLen(entries)
         /\ entries = <<>> => TextLen(entries) = 0
<1> DEFINE n == Len(entries)
           a == [i \in 1..n |-> LineLen(entries[i])]
           W == Written(entries)
<1>1. n \in Nat /\ a \in [1..n -> Nat]
  <2>1. n \in Nat /\ \A i \in 1..n : entries[i] \in Entry
    BY ElementOfSeq
  <2> QED
    BY <2>1, LineLenTyped
<1>2. \E f : f = [i \in 0..n |-> IF i = 0 THEN 0 ELSE f[i - 1] + a[i]]
  <2> HIDE DEF n, a
  <2> QED
    BY <1>1, SumsExist
<1>3. \A f : [i \in 0..n |-> IF i = 0 THEN 0 ELSE f[i - 1] + a[i]]
               = [i \in 0..n |-> IF i = 0 THEN 0 ELSE f[i - 1] + LineLen(entries[i])]
  BY <1>1
<1>4. \E f : f = [i \in 0..n |-> IF i = 0 THEN 0 ELSE f[i - 1] + LineLen(entries[i])]
  <2>1. PICK f : f = [i \in 0..n |-> IF i = 0 THEN 0 ELSE f[i - 1] + a[i]]
    BY <1>2
  <2>2. f = [i \in 0..n |-> IF i = 0 THEN 0 ELSE f[i - 1] + LineLen(entries[i])]
    BY <1>3, <2>1
  <2> QED
    BY <2>2
<1>5. W = CHOOSE f : f = [i \in 0..n |-> IF i = 0 THEN 0 ELSE f[i - 1] + LineLen(entries[i])]
  BY DEF Written
<1>6. W = [i \in 0..n |-> IF i = 0 THEN 0 ELSE W[i - 1] + LineLen(entries[i])]
  <2> HIDE DEF W, n
  <2> QED
    BY <1>4, <1>5
<1>7. W = [i \in 0..n |-> IF i = 0 THEN 0 ELSE W[i - 1] + a[i]]
  <2> HIDE DEF W
  <2> QED
    BY <1>1, <1>3, <1>6
<1>8. W \in [0..n -> Nat] /\ \A i \in 0..n : W[i] <= W[n]
  <2> HIDE DEF W, n, a
  <2> QED
    BY <1>1, <1>7, SumsRise
<1>9. TextLen(entries) = W[n]
  BY DEF TextLen
<1>10. n = 0 => W[n] = 0
  <2> HIDE DEF W
  <2> QED
    BY <1>6
<1> HIDE DEF W, n
<1>11. /\ W[n] \in Nat /\ \A i \in 1..n : W[i] \in Nat /\ W[i] <= W[n]
  BY <1>1, <1>8
<1> QED
  BY <1>9, <1>10, <1>11 DEF W, n

(* An entry of the list is not a refusal, nor is the list.                 *)
LEMMA NotRefused == ASSUME NEW entries \in Seq(Entry) PROVE entries # Refused
<1>1. Len(Refused) = 1 /\ Refused[1].fd = -1
  BY DEF Refused
<1>2. \A i \in 1..Len(entries) : entries[i] \in Entry
  BY ElementOfSeq
<1>3. \A e \in Entry : e.fd # -1
  BY DEF Entry, Fds
<1>4. Len(entries) = 1 => entries[1].fd # -1
  BY <1>2, <1>3
<1> QED
  BY <1>1, <1>4

(* The list that would be sent now is the whole list or a refusal, and     *)
(* which of the two is decided by the length of the whole text.            *)
LEMMA GetAllFits ==
  ASSUME Connected
  PROVE  /\ GetAll \in Seq(Entry) \cup {Refused}
         /\ GetAll # Refused => GetAll = list /\ TextLen(list) + 4 <= RESPONSE
         /\ TextLen(list) + 2 < LIMIT <=> GetAll = list /\ GetAll # Refused
<1> DEFINE T == TextLen(list)
<1>1. list \in Seq(Entry) /\ list # Refused /\ Len(list) \in Nat
  BY NotRefused DEF Connected
<1>2. /\ T \in Nat
      /\ \A i \in 1..Len(list) : Written(list)[i] \in Nat /\ Written(list)[i] <= T
      /\ list = <<>> => T = 0
      /\ T = Written(list)[Len(list)]
  BY <1>1, WrittenRises DEF TextLen
<1> HIDE DEF T
<1>3. T + 2 >= LIMIT <=> \E i \in 1..Len(list) : Written(list)[i] + 2 >= LIMIT
  <2>1. CASE Len(list) = 0
    <3>1. list = <<>>
      BY <1>1, <2>1
    <3> QED
      BY <1>2, <2>1, <3>1
  <2>2. CASE Len(list) > 0
    BY <1>1, <1>2, <2>2
  <2> QED
    BY <1>1, <2>1, <2>2
<1>4. GetAll = IF T + 2 >= LIMIT THEN Refused ELSE list
  BY <1>3 DEF GetAll
<1>5. T + 2 < LIMIT => T + 4 <= RESPONSE
  BY <1>2
<1>6. T + 2 < LIMIT <=> ~(T + 2 >= LIMIT)
  BY <1>2
<1> QED
  BY <1>1, <1>4, <1>5, <1>6 DEF T

(* The page shows a list from its head on.                                 *)
LEMMA PageIsPrefix ==
  ASSUME NEW entries \in Seq(Entry)
  PROVE  /\ Page(entries) \in Seq(Entry)
         /\ Len(Page(entries)) <= Len(entries)
         /\ \A i \in 1..Len(Page(entries)) : Page(entries)[i] = entries[i]
<1> DEFINE both == entries \o Refused
           I == {j \in 1..Len(both) : both[j].fd = -1 \/ HasZero(both[j])}
           k == SelectInSeq(both, LAMBDA e : e.fd = -1 \/ HasZero(e))
<1>1. Len(both) = Len(entries) + 1 /\ Len(entries) \in Nat /\ both[Len(entries) + 1].fd = -1
  BY DEF Refused
<1>2. k = IF I # {} THEN Min(I) ELSE 0
  BY DEF SelectInSeq
<1>3. I \in SUBSET Nat /\ I \subseteq 1..Len(both) /\ Len(entries) + 1 \in I
  <2> HIDE DEF both
  <2> QED
    BY <1>1
<1> HIDE DEF I, k, both
<1>4. k \in 1..Len(entries) + 1
  BY <1>1, <1>2, <1>3, MinIsLeast
<1>5. Page(entries) = SubSeq(entries, 1, k - 1)
  BY NotRefused DEF Page, k, both
<1>6. /\ SubSeq(entries, 1, k - 1) \in Seq(Entry)
      /\ Len(SubSeq(entries, 1, k - 1)) = k - 1
      /\ \A i \in 1..k - 1 : SubSeq(entries, 1, k - 1)[i] = entries[i]
  <2>1. \A i \in 1..k - 1 : entries[i] \in Entry
    BY <1>1, <1>4, ElementOfSeq
  <2>2. 1 \in Int /\ k - 1 \in Int
    BY <1>4
  <2>3. /\ SubSeq(entries, 1, k - 1) \in Seq(Entry)
        /\ Len(SubSeq(entries, 1, k - 1)) = IF 1 <= k - 1 THEN k - 1 - 1 + 1 ELSE 0
        /\ \A i \in 1..k - 1 - 1 + 1 : SubSeq(entries, 1, k - 1)[i] = entries[1 + i - 1]
    BY <2>1, <2>2, SubSeqProperties
  <2> QED
    BY <1>4, <2>3
<1> QED
  BY <1>1, <1>4, <1>5, <1>6

-----------------------------------------------------------------------------
(* The invariant. *)

(* What was sent and what was shown of it.                                 *)
Listed ==
  /\ sent \in Seq(Entry) \cup {Refused} /\ shown \in Seq(Entry)
  /\ n_sent \in 0..n_conns
  /\ updated \in [id : Fds, conn : 1..n_conns] \cup {Never}

(* A descriptor that was shown is, if it is open at all, that of the       *)
(* connection it was shown with or of one accepted since.                  *)
ShownThen ==
  \A i \in 1..Len(shown) :
    shown[i].fd \in DOMAIN open =>
      open[shown[i].fd] = shown[i].conn \/ open[shown[i].fd] > n_sent

(* What was sent fitted when it was.                                       *)
Fits == sent # Refused => TextLen(sent) + 4 <= RESPONSE

Inv == Connected /\ Mirrors /\ Listed /\ ShownThen /\ Fits

(* The invariant at the start: no connection, no list.                     *)
LEMMA InitInv == Init => Inv
<1> SUFFICES ASSUME Init PROVE Inv
  OBVIOUS
<1>1. DOMAIN open = {} /\ list = <<>> /\ sent = <<>> /\ shown = <<>>
  BY DEF Init
<1>2. <<>> \in Seq(Entry) /\ Len(<<>>) = 0
  OBVIOUS
<1>3. Connected /\ Mirrors /\ Listed /\ ShownThen
  BY <1>1, <1>2 DEF Init, Connected, Mirrors, Listed, ShownThen
<1>4. Fits
  <2>1. TextLen(sent) = 0
    BY <1>1, <1>2, WrittenRises
  <2> QED
    BY <2>1 DEF Fits
<1> QED
  BY <1>3, <1>4 DEF Inv

(* An administrator's list is the list of that moment, and what it shows   *)
(* is at the descriptors it is shown with.                                 *)
LEMMA ListStep == Inv /\ AdminList => Inv'
<1> SUFFICES ASSUME Inv, AdminList PROVE Inv'
  OBVIOUS
<1>1. /\ Connected /\ Mirrors /\ Listed
      /\ UNCHANGED <<list, open, n_conns, updated>>
      /\ sent' = GetAll /\ n_sent' = n_conns /\ shown' = Page(sent')
  BY DEF Inv, AdminList, connections
<1>2. Connected' /\ Mirrors'
  BY <1>1 DEF Connected, Mirrors
<1>3. /\ sent' \in Seq(Entry) \cup {Refused}
      /\ sent' # Refused => sent' = list /\ TextLen(list) + 4 <= RESPONSE
  BY <1>1, GetAllFits
<1>4. Fits'
  <2>1. sent' # Refused => TextLen(sent') + 4 <= RESPONSE
    BY <1>3
  <2>2. Refused' = Refused /\ (TextLen(sent))' = TextLen(sent')
    BY DEF Refused, TextLen, Written, LineLen
  <2> QED
    BY <2>1, <2>2 DEF Fits
<1>5. /\ shown' \in Seq(Entry)
      /\ Len(shown') <= Len(list) /\ Len(shown') \in Nat /\ Len(list) \in Nat
      /\ \A i \in 1..Len(shown') : shown'[i] = list[i]
  <2>1. CASE sent' = Refused
    BY <1>1, <2>1, EntriesTyped DEF Page
  <2>2. CASE sent' # Refused
    BY <1>1, <1>3, <2>2, PageIsPrefix, EntriesTyped
  <2> QED
    BY <2>1, <2>2
<1>6. Listed'
  <2>1. n_sent' \in 0..n_conns' /\ updated' \in [id : Fds, conn : 1..n_conns'] \cup {Never}
    BY <1>1 DEF Connected, Listed
  <2> QED
    BY <1>3, <1>5, <2>1 DEF Listed
<1>7. ShownThen'
  <2> SUFFICES ASSUME NEW i \in 1..Len(shown')
               PROVE  open'[shown'[i].fd] = shown'[i].conn
    BY DEF ShownThen
  <2>1. i \in 1..Len(list) /\ shown'[i] = list[i]
    BY <1>5
  <2> QED
    BY <1>1, <2>1 DEF Mirrors
<1> QED
  BY <1>2, <1>4, <1>6, <1>7 DEF Inv

(* A connection that is accepted, closed or served: the list follows it,   *)
(* and a descriptor never passes to an older connection.                   *)
LEMMA ConnectionStep ==
  ASSUME Inv, NEW fd \in Fds,
         \/ Accept(fd) \/ Close(fd)
         \/ \E name \in Names : Login(fd, name)
         \/ \E b \in BOOLEAN : Playing(fd, b)
  PROVE  Inv'
<1>1. Connected /\ Mirrors /\ Listed /\ ShownThen /\ Fits
  BY DEF Inv
<1>2. Connected' /\ Mirrors'
  BY <1>1, AcceptMirrors, CloseMirrors, RequestMirrors
<1>3. UNCHANGED <<sent, n_sent, shown, updated>>
  BY DEF Accept, Close, Login, Playing, page
<1>4. /\ n_conns \in Nat /\ n_conns' \in Nat /\ n_conns <= n_conns'
      /\ \A f \in DOMAIN open' : (f \in DOMAIN open /\ open'[f] = open[f]) \/ open'[f] > n_conns
  <2>1. n_conns \in Nat /\ n_conns' \in Nat
    BY <1>1, <1>2 DEF Connected
  <2>2. CASE Accept(fd)
    BY <2>1, <2>2 DEF Accept
  <2>3. CASE Close(fd)
    BY <2>1, <2>3 DEF Close
  <2>4. CASE UNCHANGED <<open, n_conns>>
    BY <2>1, <2>4
  <2>5. \/ Accept(fd) \/ Close(fd) \/ UNCHANGED <<open, n_conns>>
    BY DEF Login, Playing
  <2> QED
    BY <2>2, <2>3, <2>4, <2>5
<1>5. Listed'
  <2>1. n_sent' \in 0..n_conns' /\ 1..n_conns \subseteq 1..n_conns'
    BY <1>1, <1>3, <1>4 DEF Listed
  <2> QED
    BY <1>1, <1>3, <2>1 DEF Listed
<1>6. ShownThen'
  <2> SUFFICES ASSUME NEW i \in 1..Len(shown), shown[i].fd \in DOMAIN open'
               PROVE  open'[shown[i].fd] = shown[i].conn \/ open'[shown[i].fd] > n_sent
    BY <1>3 DEF ShownThen
  <2> DEFINE f == shown[i].fd
  <2>1. n_sent \in Nat /\ n_sent <= n_conns
    BY <1>1, <1>4 DEF Listed
  <2>2. CASE f \in DOMAIN open /\ open'[f] = open[f]
    BY <1>1, <2>2 DEF ShownThen
  <2>3. CASE open'[f] > n_conns
    <3>1. open'[f] \in Int
      BY <1>2 DEF Connected
    <3> QED
      BY <1>4, <2>1, <2>3, <3>1
  <2> QED
    BY <1>4, <2>2, <2>3
<1>7. Fits'
  <2>1. Refused' = Refused /\ (TextLen(sent))' = TextLen(sent')
    BY DEF Refused, TextLen, Written, LineLen
  <2> QED
    BY <1>1, <1>3, <2>1 DEF Fits
<1> QED
  BY <1>2, <1>5, <1>6, <1>7 DEF Inv

(* An update changes the deadline of an open connection.                   *)
LEMMA UpdateStep ==
  ASSUME Inv, NEW id \in Fds, AdminUpdate(id)
  PROVE  /\ Inv'
         /\ updated'.id = id /\ id \in DOMAIN open /\ updated'.conn = open[id]
<1>1. Connected /\ Mirrors /\ Listed /\ ShownThen /\ Fits
  BY DEF Inv
<1>2. /\ UNCHANGED <<list, open, n_conns, sent, n_sent, shown>>
      /\ IndexOf(id) # 0
      /\ updated' = [id |-> id, conn |-> list[IndexOf(id)].conn]
  BY DEF AdminUpdate, connections, page
<1>3. IndexOf(id) \in 1..Len(list) /\ list[IndexOf(id)].fd = id
  <2>1. \/ IndexOf(id) \in 1..Len(list) /\ list[IndexOf(id)].fd = id
        \/ IndexOf(id) = 0 /\ \A j \in 1..Len(list) : list[j].fd # id
    BY <1>1, FindByFd DEF IndexOf, Connected
  <2> QED
    BY <1>2, <2>1
<1>4. id \in DOMAIN open /\ open[id] = list[IndexOf(id)].conn
  BY <1>1, <1>3 DEF Mirrors
<1>5. open[id] \in 1..n_conns
  BY <1>1, <1>4 DEF Connected
<1>6. Connected' /\ Mirrors' /\ ShownThen'
  BY <1>1, <1>2 DEF Connected, Mirrors, ShownThen
<1>7. Fits'
  <2>1. Refused' = Refused /\ (TextLen(sent))' = TextLen(sent')
    BY DEF Refused, TextLen, Written, LineLen
  <2> QED
    BY <1>1, <1>2, <2>1 DEF Fits
<1>8. Listed'
  BY <1>1, <1>2, <1>4, <1>5 DEF Listed
<1> QED
  BY <1>2, <1>4, <1>6, <1>7, <1>8 DEF Inv

(* A step that changes nothing.                                            *)
LEMMA StutterStep == Inv /\ UNCHANGED vars => Inv'
<1> SUFFICES ASSUME Inv, UNCHANGED vars PROVE Inv'
  OBVIOUS
<1>1. UNCHANGED <<list, open, n_conns, sent, n_sent, shown, updated>>
  BY DEF vars, connections, page
<1>2. Connected' /\ Mirrors' /\ Listed' /\ ShownThen'
  BY <1>1 DEF Inv, Connected, Mirrors, Listed, ShownThen
<1>3. Fits'
  <2>1. Refused' = Refused /\ (TextLen(sent))' = TextLen(sent')
    BY DEF Refused, TextLen, Written, LineLen
  <2> QED
    BY <1>1, <2>1 DEF Inv, Fits
<1> QED
  BY <1>2, <1>3 DEF Inv

(* Every step keeps the invariant.                                         *)
LEMMA NextInv == Inv /\ [Next]_vars => Inv'
<1> SUFFICES ASSUME Inv, [Next]_vars PROVE Inv'
  OBVIOUS
<1>1. ASSUME NEW fd \in Fds,
             \/ Accept(fd) \/ Close(fd)
             \/ \E name \in Names : Login(fd, name)
             \/ \E b \in BOOLEAN : Playing(fd, b)
      PROVE  Inv'
  BY <1>1, ConnectionStep
<1>2. ASSUME NEW fd \in Fds, AdminUpdate(fd) PROVE Inv'
  BY <1>2, UpdateStep
<1>3. CASE AdminList
  BY <1>3, ListStep
<1>4. CASE UNCHANGED vars
  BY <1>4, StutterStep
<1> QED
  BY <1>1, <1>2, <1>3, <1>4 DEF Next

(* The invariant holds in every state.                                     *)
THEOREM Invariance == Spec => []Inv
  BY InitInv, NextInv, PTL DEF Spec

-----------------------------------------------------------------------------
(* The properties. *)

(* Whatever connects and goes, in any order and on any descriptors, the    *)
(* list of sessions is that of the open connections, newest first: each    *)
(* request is served on the session of who made it.                        *)
THEOREM ListIsConnections == Spec => []ListMirrorsConnections
<1>1. Inv => ListMirrorsConnections
  <2> SUFFICES ASSUME Inv PROVE ListMirrorsConnections
    OBVIOUS
  <2>1. Connected /\ Mirrors /\ Listed
    BY DEF Inv
  <2>2. TypeOK
    BY <2>1 DEF TypeOK, Connected, Listed
  <2>3. DOMAIN list = 1..Len(list)
    BY <2>1 DEF Connected
  <2>4. ASSUME NEW i \in 1..Len(list)
        PROVE  <<list[i].fd, list[i].conn>> \in {<<fd, open[fd]>> : fd \in DOMAIN open}
    BY <2>1 DEF Mirrors
  <2>5. ASSUME NEW fd \in DOMAIN open
        PROVE  <<fd, open[fd]>> \in {<<list[i].fd, list[i].conn>> : i \in 1..Len(list)}
    <3>1. PICK i \in 1..Len(list) : list[i].fd = fd
      BY <2>1 DEF Mirrors
    <3>2. open[fd] = list[i].conn
      BY <2>1, <3>1 DEF Mirrors
    <3> QED
      BY <3>1, <3>2
  <2>6. {<<list[i].fd, list[i].conn>> : i \in 1..Len(list)} = {<<fd, open[fd]>> : fd \in DOMAIN open}
    BY <2>4, <2>5
  <2> QED
    BY <2>1, <2>2, <2>3, <2>6 DEF ListMirrorsConnections, Mirrors
<1> QED
  BY <1>1, Invariance, PTL

(* A list that is sent never ends outside the buffers it is written in, on *)
(* either side, for every limit that leaves four bytes of them; and a list *)
(* that is short enough is never refused.                                  *)
THEOREM ListsAlwaysFit == Spec => []ListFits
<1>1. Inv => ListFits
  BY GetAllFits DEF Inv, Fits, ListFits
<1> QED
  BY <1>1, Invariance, PTL

(* An update of an id the page has shown is of the client it was shown     *)
(* with, or of one who came later: however often descriptors are reused.   *)
THEOREM UpdatesOfShown == Spec => UpdatesShownOrNewer
<1> DEFINE Of(i) == updated' # updated /\ updated'.id = shown[i].fd
                      => /\ updated'.conn \in {open[fd] : fd \in DOMAIN open}
                         /\ updated'.conn = shown[i].conn \/ updated'.conn > n_sent
<1>1. Inv /\ [Next]_vars => [\A i \in DOMAIN shown : Of(i)]_vars
  <2> SUFFICES ASSUME Inv, Next, NEW i \in DOMAIN shown, updated' # updated, updated'.id = shown[i].fd
               PROVE  /\ updated'.conn \in {open[fd] : fd \in DOMAIN open}
                      /\ updated'.conn = shown[i].conn \/ updated'.conn > n_sent
    OBVIOUS
  <2>1. PICK id \in Fds : AdminUpdate(id)
    BY DEF Next, Accept, Close, Login, Playing, AdminList, page
  <2>2. updated'.id = id /\ id \in DOMAIN open /\ updated'.conn = open[id]
    BY <2>1, UpdateStep
  <2>3. i \in 1..Len(shown)
    BY DEF Inv, Listed
  <2>4. open[id] = shown[i].conn \/ open[id] > n_sent
    BY <2>2, <2>3 DEF Inv, ShownThen
  <2> QED
    BY <2>2, <2>4
<1> QED
  BY <1>1, Invariance, PTL DEF Spec, UpdatesShownOrNewer

=============================================================================
