---------------------------- MODULE FramingProofs ----------------------------
(***************************************************************************)
(* Proofs about Framing, for every set of texts the sizes of the programs' *)
(* buffers allow, every number of requests and everything that unread      *)
(* memory may hold.                                                        *)
(***************************************************************************)
EXTENDS Framing, ListLemmas

-----------------------------------------------------------------------------
(* Bytes. *)

Text == Byte \ {0}

(* A sequence of which every element is of a set.                          *)
LEMMA SeqFromElements ==
  ASSUME NEW E, NEW S, NEW s \in Seq(E), \A i \in 1..Len(s) : s[i] \in S
  PROVE  s \in Seq(S)
<1>1. Len(s) \in Nat /\ s = [i \in 1..Len(s) |-> s[i]]
  BY LenProperties
<1>2. [i \in 1..Len(s) |-> s[i]] \in Seq(S)
  BY <1>1, IsASeq
<1> QED
  BY <1>1, <1>2

(* The first bytes of a sequence and those after them.                     *)
LEMMA FirstAfter ==
  ASSUME NEW E, NEW s \in Seq(E), NEW n \in 0..Len(s)
  PROVE  /\ First(n, s) \in Seq(E) /\ Len(First(n, s)) = n
         /\ \A i \in 1..n : First(n, s)[i] = s[i]
         /\ After(n, s) \in Seq(E) /\ Len(After(n, s)) = Len(s) - n
         /\ \A i \in 1..Len(s) - n : After(n, s)[i] = s[n + i]
<1>1. Len(s) \in Nat /\ \A i \in 1..Len(s) : s[i] \in E
  BY ElementOfSeq, LenProperties
<1>2. /\ First(n, s) \in Seq(E) /\ Len(First(n, s)) = n
      /\ \A i \in 1..n : First(n, s)[i] = s[i]
  <2>1. n \in Int /\ \A i \in 1..n : s[i] \in E
    BY <1>1
  <2>2. /\ SubSeq(s, 1, n) \in Seq(E)
        /\ Len(SubSeq(s, 1, n)) = IF 1 <= n THEN n - 1 + 1 ELSE 0
        /\ \A i \in 1..n - 1 + 1 : SubSeq(s, 1, n)[i] = s[1 + i - 1]
    BY <2>1, SubSeqProperties
  <2> QED
    BY <1>1, <2>2 DEF First
<1>3. /\ After(n, s) \in Seq(E) /\ Len(After(n, s)) = Len(s) - n
      /\ \A i \in 1..Len(s) - n : After(n, s)[i] = s[n + i]
  <2>1. n + 1 \in Int /\ Len(s) \in Int /\ \A i \in n + 1..Len(s) : s[i] \in E
    BY <1>1
  <2>2. /\ SubSeq(s, n + 1, Len(s)) \in Seq(E)
        /\ Len(SubSeq(s, n + 1, Len(s))) = IF n + 1 <= Len(s) THEN Len(s) - (n + 1) + 1 ELSE 0
        /\ \A i \in 1..Len(s) - (n + 1) + 1 : SubSeq(s, n + 1, Len(s))[i] = s[n + 1 + i - 1]
    BY <2>1, SubSeqProperties
  <2>3. \A i \in 1..Len(s) - n : n + 1 + i - 1 = n + i
    BY <1>1
  <2> QED
    BY <1>1, <2>2, <2>3 DEF After
<1> QED
  BY <1>2, <1>3

(* A text with its terminator.                                             *)
LEMMA TerminatedText ==
  ASSUME NEW t \in Seq(Text)
  PROVE  /\ Terminated(t) \in Seq(Byte) /\ Len(Terminated(t)) = Len(t) + 1
         /\ \A i \in 1..Len(t) : Terminated(t)[i] = t[i]
         /\ Terminated(t)[Len(t) + 1] = 0
<1>1. t \in Seq(Byte) /\ 0 \in Byte
  BY SeqMonotonic DEF Text, Byte
<1> QED
  BY <1>1, AppendProperties DEF Terminated

(* A string ends before its first NUL.                                     *)
LEMMA StringEnds ==
  ASSUME NEW s \in Seq(Byte), NEW m \in 0..Len(s), \A i \in 1..m : s[i] # 0,
         m < Len(s) => s[m + 1] = 0
  PROVE  String(s) = First(m, s)
<1> DEFINE I == {j \in 1..Len(s) : s[j] = 0}
           nul == IF I # {} THEN Min(I) ELSE 0
<1>1. String(s) = IF nul = 0 THEN s ELSE SubSeq(s, 1, nul - 1)
  BY DEF String, SelectInSeq
<1>2. I \in SUBSET Nat /\ Len(s) \in Nat
  BY LenProperties
<1>3. CASE m = Len(s)
  <2>1. I = {}
    BY <1>3
  <2>2. First(m, s) = s
    BY <1>3, SubSeqFull DEF First
  <2> QED
    BY <1>1, <2>1, <2>2
<1>4. CASE m < Len(s)
  <2>1. m + 1 \in I /\ \A j \in I : j >= m + 1
    BY <1>2, <1>4
  <2>2. Min(I) \in I /\ \A j \in I : Min(I) <= j
    BY <1>2, <2>1, MinIsLeast
  <2>3. Min(I) = m + 1
    BY <1>2, <2>1, <2>2
  <2>4. nul = m + 1
    BY <2>1, <2>3
  <2> HIDE DEF nul, I
  <2> QED
    BY <1>1, <1>2, <2>4 DEF First
<1> QED
  BY <1>2, <1>3, <1>4

(* It is one of no bytes that are NUL, however the buffer ends.            *)
LEMMA StringIsText ==
  ASSUME NEW s \in Seq(Byte)
  PROVE  /\ String(s) \in Seq(Text) /\ Len(String(s)) <= Len(s)
         /\ \A i \in 1..Len(String(s)) : s[i] # 0
<1> DEFINE I == {j \in 1..Len(s) : s[j] = 0}
<1>1. Len(s) \in Nat /\ \A i \in 1..Len(s) : s[i] \in Byte
  BY LenProperties, ElementOfSeq
<1>2. PICK m \in 0..Len(s) : (\A i \in 1..m : s[i] # 0) /\ (m < Len(s) => s[m + 1] = 0)
  <2>0. I \in SUBSET Nat
    OBVIOUS
  <2>1. CASE I = {}
    BY <1>1, <2>1
  <2>2. CASE I # {}
    <3>1. PICK x \in I : \A y \in I : x <= y
      BY <2>0, <2>2, LeastNat
    <3>2. x - 1 \in 0..Len(s) /\ s[(x - 1) + 1] = 0
      BY <1>1, <3>1
    <3>3. \A i \in 1..(x - 1) : s[i] # 0
      BY <1>1, <3>1
    <3> QED
      BY <3>2, <3>3
  <2> QED
    BY <2>1, <2>2
<1>3. String(s) = First(m, s)
  BY <1>2, StringEnds
<1>4. First(m, s) \in Seq(Byte) /\ Len(First(m, s)) = m /\ \A i \in 1..m : First(m, s)[i] = s[i]
  BY FirstAfter
<1>5. \A i \in 1..Len(First(m, s)) : First(m, s)[i] \in Text
  BY <1>1, <1>2, <1>4 DEF Text
<1>6. Len(String(s)) <= Len(s) /\ \A i \in 1..Len(String(s)) : s[i] # 0
  BY <1>1, <1>2, <1>3, <1>4
<1> QED
  BY <1>3, <1>4, <1>5, <1>6, SeqFromElements

(* How many bytes a recv takes.                                            *)
LEMMA TakenIs ==
  ASSUME NEW s \in Seq(Byte), NEW want \in Nat, NEW n
  PROVE  n \in Taken(s, want) <=> n \in Int /\ 1 <= n /\ n <= want /\ n <= Len(s)
<1> DEFINE S == {want, Len(s)}
<1>1. S \in SUBSET Nat /\ S # {} /\ want \in S /\ Len(s) \in S /\ \A x \in S : x = want \/ x = Len(s)
  BY LenProperties
<1> HIDE DEF S
<1>2. Min(S) \in S /\ \A y \in S : Min(S) <= y
  BY <1>1, MinIsLeast
<1>3. Taken(s, want) = 1..Min(S)
  BY DEF Taken, S
<1>4. Min(S) \in Nat /\ Min(S) <= want /\ Min(S) <= Len(s) /\ (Min(S) = want \/ Min(S) = Len(s))
  BY <1>1, <1>2
<1> QED
  BY <1>1, <1>3, <1>4

(* Bytes, and the sizes of the buffers, by their bounds.                   *)
LEMMA ByteIs == \A b : b \in Byte <=> b \in Int /\ 0 <= b /\ b < 256
<1>1. \A m, n \in Int : \A b : b \in m..n <=> b \in Int /\ m <= b /\ b <= n
  OBVIOUS
<1>2. PICK low, high \in Int : low = 0 /\ high = 255
  OBVIOUS
<1>3. Byte = low..high
  BY <1>2 DEF Byte
<1> QED
  BY <1>1, <1>2, <1>3

(* What an interval from 1 has.                                            *)
LEMMA InRange == ASSUME NEW m \in Int, NEW x \in 1..m PROVE x \in Nat /\ 1 <= x /\ x <= m
  OBVIOUS

(* MAX_LEN of both programs.                                               *)
LEMMA MaxLenIs == MAX_LEN \in Int /\ MAX_LEN = 1024
  BY DEF MAX_LEN

(* A pair is a sequence of two.                                            *)
LEMMA PairIs ==
  ASSUME NEW S, NEW p \in S \X S
  PROVE  p \in Seq(S) /\ Len(p) = 2
<1>1. PICK a \in S, b \in S : p = <<a, b>>
  OBVIOUS
<1>2. <<a, b>> \in Seq(S) /\ Len(<<a, b>>) = 2
  OBVIOUS
<1> QED
  BY <1>1, <1>2

(* How many lengths two bytes can tell.                                    *)
Words == 65536

(* A length in two bytes.                                                  *)
LEMMA TwoBytesOf ==
  ASSUME NEW n \in Nat, n < Words
  PROVE  /\ TwoBytes(n) \in Seq(Byte) /\ Len(TwoBytes(n)) = 2 /\ TwoBytes(n) \in Byte \X Byte
         /\ TwoBytes(n)[1] = n \div 256 /\ TwoBytes(n)[2] = n % 256
         /\ n = 256 * (n \div 256) + (n % 256)
<1>1. n \div 256 \in Byte /\ n % 256 \in Byte /\ n = 256 * (n \div 256) + (n % 256)
  <2>1. /\ n \div 256 \in Int /\ 0 <= n \div 256 /\ n \div 256 < 256
        /\ n % 256 \in Int /\ 0 <= n % 256 /\ n % 256 < 256
        /\ n = 256 * (n \div 256) + (n % 256)
    BY DEF Words
  <2> QED
    BY <2>1, ByteIs
<1> QED
  BY <1>1 DEF TwoBytes

(* Two bytes are the length they say.                                      *)
LEMMA LengthOf ==
  ASSUME NEW p \in Seq(Byte), Len(p) = 2
  PROVE  Length(p) \in Nat /\ Length(p) < Words /\ TwoBytes(Length(p)) = p
<1>1. p[1] \in Byte /\ p[2] \in Byte
  BY ElementOfSeq, SMTT(30)
<1>2. p[1] \in Int /\ 0 <= p[1] /\ p[1] < 256 /\ p[2] \in Int /\ 0 <= p[2] /\ p[2] < 256
  BY <1>1, ByteIs
<1>3. /\ Length(p) \in Nat /\ Length(p) < Words
      /\ Length(p) \div 256 = p[1] /\ Length(p) % 256 = p[2]
  BY <1>2 DEF Length, Words
<1>4. /\ TwoBytes(Length(p)) \in Seq(Byte) /\ Len(TwoBytes(Length(p))) = 2
      /\ TwoBytes(Length(p))[1] = p[1] /\ TwoBytes(Length(p))[2] = p[2]
  BY <1>3, TwoBytesOf
<1>5. \A i \in 1..Len(p) : TwoBytes(Length(p))[i] = p[i]
  BY <1>4
<1> QED
  BY <1>3, <1>4, <1>5, SeqEqual

(* What begins with a length tells it.                                     *)
LEMMA SameBegin ==
  \A p, q, s, t \in Seq(Byte) : Len(p) = Len(q) /\ p \o s = q \o t => p = q /\ s = t
<1> SUFFICES ASSUME NEW p \in Seq(Byte), NEW q \in Seq(Byte), Len(p) = Len(q),
                    NEW s \in Seq(Byte), NEW t \in Seq(Byte), p \o s = q \o t
             PROVE  p = q /\ s = t
  BY ZenonT(60)
<1> DEFINE u == p \o s
           v == q \o t
<1>1. Len(p) \in Nat /\ Len(s) \in Nat /\ Len(t) \in Nat
  BY LenProperties
<1>2. /\ Len(u) = Len(p) + Len(s)
      /\ \A i \in 1..Len(p) + Len(s) : u[i] = IF i <= Len(p) THEN p[i] ELSE s[i - Len(p)]
  BY ConcatProperties
<1>3. /\ Len(v) = Len(q) + Len(t)
      /\ \A i \in 1..Len(q) + Len(t) : v[i] = IF i <= Len(q) THEN q[i] ELSE t[i - Len(q)]
  BY ConcatProperties
<1>4. u = v
  OBVIOUS
<1> HIDE DEF u, v
<1>5. Len(s) = Len(t)
  BY <1>1, <1>2, <1>3, <1>4
<1>6. \A i \in 1..Len(p) : p[i] = q[i]
  BY <1>1, <1>2, <1>3, <1>4
<1>7. \A i \in 1..Len(s) : s[i] = t[i]
  <2> SUFFICES ASSUME NEW i \in 1..Len(s) PROVE s[i] = t[i]
    OBVIOUS
  <2>0. \A l, m \in Nat : \A x \in 1..m : \E j \in 1..l + m : j > l /\ j - l = x
    <3> SUFFICES ASSUME NEW l \in Nat, NEW m \in Nat, NEW x \in 1..m
                 PROVE  x + l \in 1..l + m /\ x + l > l /\ (x + l) - l = x
      OBVIOUS
    <3> QED
      OBVIOUS
  <2>1. PICK j \in 1..Len(p) + Len(s) : j > Len(p) /\ j - Len(p) = i
    BY <1>1, <2>0, Zenon
  <2>2. u[j] = s[i]
    BY <1>1, <1>2, <2>1
  <2>3. v[j] = t[i]
    <3>1. j \in 1..Len(q) + Len(t) /\ ~(j <= Len(q)) /\ j - Len(q) = i
      BY <1>1, <1>5, <2>1
    <3> QED
      BY <1>3, <3>1
  <2> QED
    BY <1>4, <2>2, <2>3
<1>8. p = q
  BY <1>6, SeqEqual
<1>9. s = t
  BY <1>5, <1>7, SeqEqual
<1> QED
  BY <1>8, <1>9

(* What follows a length follows no other.                                 *)
LEMMA Prefixed ==
  \A a, b \in Nat : \A s, t \in Seq(Byte) :
    a < Words /\ b < Words /\ TwoBytes(a) \o s = TwoBytes(b) \o t => a = b /\ s = t
<1> SUFFICES ASSUME NEW a \in Nat, a < Words, NEW b \in Nat, b < Words,
                    NEW s \in Seq(Byte), NEW t \in Seq(Byte), TwoBytes(a) \o s = TwoBytes(b) \o t
             PROVE  a = b /\ s = t
  BY ZenonT(60)
<1>1. TwoBytes(a) \in Seq(Byte) /\ Len(TwoBytes(a)) = 2 /\ TwoBytes(b) \in Seq(Byte) /\ Len(TwoBytes(b)) = 2
  BY TwoBytesOf
<1>2. TwoBytes(a) = TwoBytes(b) /\ s = t
  <2> DEFINE p == TwoBytes(a)
             q == TwoBytes(b)
  <2>1. p \in Seq(Byte) /\ q \in Seq(Byte) /\ Len(p) = Len(q) /\ p \o s = q \o t
    BY <1>1
  <2> HIDE DEF p, q
  <2>2. p = q /\ s = t
    BY <2>1, SameBegin, Zenon
  <2> QED
    BY <2>2 DEF p, q
<1>3. a \div 256 = b \div 256 /\ a % 256 = b % 256
  BY <1>2, TwoBytesOf
<1>4. a = 256 * (a \div 256) + (a % 256) /\ b = 256 * (b \div 256) + (b % 256)
  BY TwoBytesOf
<1>5. a = b
  BY <1>3, <1>4
<1> QED
  BY <1>2, <1>5

(* The texts are of bytes that are not NUL.                                *)
LEMMA Texts ==
  /\ \A t \in Payloads \cup Replies \cup Garbage : t \in Seq(Text)
  /\ \A t \in Payloads : /\ Len(t) \in Nat /\ 1 <= Len(t) /\ Len(t) + 1 < 256
                        /\ Len(t) + 1 < RequestLen
  /\ \A t \in Replies : Len(t) \in Nat /\ 1 <= Len(t) /\ Len(t) < 1024
<1>3. \A t \in Payloads \cup Replies \cup Garbage : t \in Seq(Text)
  BY TextsAssumption DEF TextsAssumption, Text
<1>4. \A t \in Payloads \cup Replies : Len(t) \in Nat /\ 1 <= Len(t) /\ Len(t) <= MAX_LEN - 1
  <2> SUFFICES ASSUME NEW t \in Payloads \cup Replies
               PROVE  Len(t) \in Nat /\ 1 <= Len(t) /\ Len(t) <= MAX_LEN - 1
    OBVIOUS
  <2>1. Len(t) \in 1..(MAX_LEN - 1)
    BY TextsAssumption DEF TextsAssumption
  <2>2. MAX_LEN - 1 \in Int
    BY MaxLenIs
  <2> QED
    BY <2>1, <2>2, InRange
<1>5. \A t \in Payloads : Len(t) + 1 < RequestLen
  BY LinesAssumption DEF LinesAssumption
<1>6. RequestLen \in Int /\ RequestLen < 256
  BY BoundsAssumption DEF BoundsAssumption
<1>7. \A t \in Replies : Len(t) < 1024
  BY <1>4, MaxLenIs
<1> QED
  BY <1>3, <1>4, <1>5, <1>6, <1>7

-----------------------------------------------------------------------------
(* Types. *)

ClientTyped ==
  /\ c_pc \in {"idle", "send_body", "recv_len", "recv_body"}
  /\ c_len \in Byte \X Byte
  /\ got = Error \/ got \in Seq(Text)
  /\ c_open \in BOOLEAN
ServerTyped ==
  /\ s_pc \in {"select", "recv_body", "send_len", "send_body"}
  /\ s_len \in 0..MAX_LEN
  /\ link \in {"up", "closed", "dead"}
StreamsTyped == c2s \in Seq(Byte) /\ s2c \in Seq(Byte)
LogTyped ==
  /\ sent \in Seq(Payloads \cup {<<>>})
  /\ served \in Seq(Seq(Text))
  /\ replied \in Seq(Replies)
  /\ whole \in BOOLEAN /\ heard \in BOOLEAN

(* These parts are the type invariant.                                     *)
LEMMA TypeParts == TypeOK <=> ClientTyped /\ ServerTyped /\ StreamsTyped /\ LogTyped
  BY DEF TypeOK, ClientTyped, ServerTyped, StreamsTyped, LogTyped, Text

(* Who is sent something has something to be sent.                         *)
Underway ==
  /\ c_pc # "idle" => sent # <<>>
  /\ s_pc \in {"send_len", "send_body"} => replied # <<>>

(* The last of a sequence, one more, none at all.                          *)
LEMMA LastIs ==
  ASSUME NEW E, NEW l \in Seq(E)
  PROVE  /\ l # <<>> => Last(l) \in E /\ Last(l) = l[Len(l)] /\ Len(l) \in Nat /\ Len(l) >= 1
         /\ \A e \in E : Append(l, e) \in Seq(E) /\ Append(l, e) # <<>> /\ Last(Append(l, e)) = e
<1>1. ASSUME l # <<>> PROVE Last(l) \in E /\ Last(l) = l[Len(l)] /\ Len(l) \in Nat /\ Len(l) >= 1
  <2>1. Len(l) \in Nat \ {0}
    BY <1>1, EmptySeq
  <2>2. Len(l) \in 1..Len(l)
    BY <2>1
  <2> QED
    BY <2>1, <2>2, ElementOfSeq DEF Last
<1>2. ASSUME NEW e \in E
      PROVE  Append(l, e) \in Seq(E) /\ Append(l, e) # <<>> /\ Last(Append(l, e)) = e
  BY AppendProperties DEF Last
<1> QED
  BY <1>1, <1>2

(* What the client sends and what it is told is bytes.                     *)
LEMMA TransmitTyped ==
  ASSUME StreamsTyped, NEW bytes \in Seq(Byte), Transmit(bytes)
  PROVE  StreamsTyped'
<1>1. c2s \o bytes \in Seq(Byte) /\ <<>> \in Seq(Byte)
  BY ConcatProperties, EmptySeq DEF StreamsTyped
<1> QED
  BY <1>1 DEF StreamsTyped, Transmit

(* What a page shows of a reply is a text.                                 *)
LEMMA ShownTyped ==
  ASSUME NEW text \in Seq(Text)
  PROVE  Shown(text) \in Seq(Text)
<1>1. RespLen \in Nat /\ RespLen - 1 \in Nat
  <2>1. RespLen \in 1..MAX_LEN /\ MAX_LEN \in Int
    BY BoundsAssumption, MaxLenIs DEF BoundsAssumption
  <2> QED
    BY <2>1, InRange
<1> DEFINE S == {Len(text), RespLen - 1}
<1>2. S \in SUBSET Nat /\ S # {} /\ Len(text) \in S /\ Len(text) \in Nat
  BY <1>1, LenProperties
<1> HIDE DEF S
<1>3. Min(S) \in 0..Len(text)
  <2>1. Min(S) \in S /\ Min(S) <= Len(text)
    BY <1>2, MinIsLeast
  <2> QED
    <3>1. \A m, n \in Nat : m <= n => m \in 0..n
      OBVIOUS
    <3>2. Min(S) \in Nat
      BY <1>2, <2>1
    <3> QED
      BY <1>2, <2>1, <3>1, <3>2
<1> QED
  BY <1>3, FirstAfter DEF Shown, S

(* Lengths.                                                                *)
LEMMA Lengths ==
  /\ \A t \in Seq(Text) : Len(t) < 1024 =>
       /\ Len(Terminated(t)) \in Nat /\ Len(Terminated(t)) < Words
       /\ TwoBytes(Len(Terminated(t))) \in Seq(Byte) /\ TwoBytes(Len(Terminated(t))) \in Byte \X Byte
       /\ Terminated(t) \in Seq(Byte)
<1> SUFFICES ASSUME NEW t \in Seq(Text), Len(t) < 1024
             PROVE  /\ Len(Terminated(t)) \in Nat /\ Len(Terminated(t)) < Words
                    /\ TwoBytes(Len(Terminated(t))) \in Seq(Byte) /\ TwoBytes(Len(Terminated(t))) \in Byte \X Byte
                    /\ Terminated(t) \in Seq(Byte)
  OBVIOUS
<1>1. Len(Terminated(t)) = Len(t) + 1 /\ Terminated(t) \in Seq(Byte) /\ Len(t) \in Nat
  BY TerminatedText, LenProperties
<1>2. Len(Terminated(t)) \in Nat /\ Len(Terminated(t)) < Words
  BY <1>1 DEF Words
<1> QED
  BY <1>1, <1>2, TwoBytesOf

(* What is to be sent is a text that fits, or none.                        *)
LEMMA ToSend ==
  \A t : t \in Payloads \cup {<<>>} \/ t \in Replies => t \in Seq(Text) /\ Len(t) < 1024
<1>1. <<>> \in Seq(Text) /\ Len(<<>>) < 1024
  BY EmptySeq
<1>2. \A t \in Payloads \cup Replies : t \in Seq(Text)
  BY Texts
<1>3. \A t \in Payloads : Len(t) < 1024
  BY Texts
<1>5. \A t : t \in Payloads \cup {<<>>} => t \in Payloads \/ t = <<>>
  OBVIOUS
<1>4. \A t \in Replies : Len(t) < 1024
  BY Texts
<1> QED
  <2> TAKE t
  <2>1. CASE t \in Payloads
    BY <1>2, <1>3, <2>1
  <2>2. CASE t \in Replies
    BY <1>2, <1>4, <2>2
  <2>3. CASE t = <<>>
    BY <1>1, <2>3
  <2> QED
    BY <1>5, <2>1, <2>2, <2>3

(* A step of the client keeps its types.                                   *)
LEMMA AskTyped ==
  ASSUME TypeOK, Underway, (\E text \in Payloads : AskLen(text)) \/ AskBody \/ AskFails
  PROVE  TypeOK' /\ Underway'
<1>0. ClientTyped /\ ServerTyped /\ StreamsTyped /\ LogTyped
  BY TypeParts
<1>e. <<>> \in Seq(Text) /\ <<>> \in Payloads \cup {<<>>}
  BY EmptySeq
<1>1. ASSUME NEW text \in Payloads, AskLen(text) PROVE TypeOK' /\ Underway'
  <2>1. /\ TwoBytes(Len(Terminated(text))) \in Seq(Byte) /\ TwoBytes(Len(Terminated(text))) \in Byte \X Byte
    BY ToSend, Lengths
  <2>2. /\ c_len' = TwoBytes(Len(Terminated(text))) /\ Transmit(c_len') /\ sent' = Append(sent, text)
        /\ c_pc' = "send_body" /\ got' = <<>>
        /\ UNCHANGED <<c_open, s_pc, s_len, link, served, replied, whole, heard>>
    BY <1>1 DEF AskLen, server
  <2>3. Transmit(TwoBytes(Len(Terminated(text))))
    BY <2>2
  <2>4. StreamsTyped'
    BY <1>0, <2>1, <2>3, TransmitTyped
  <2>5. LogTyped' /\ sent' # <<>>
    <3>1. sent' \in Seq(Payloads \cup {<<>>}) /\ sent' # <<>>
      BY <1>0, <2>2, LastIs DEF LogTyped
    <3> QED
      BY <1>0, <2>2, <3>1 DEF LogTyped
  <2>6. ClientTyped'
    BY <1>0, <1>e, <2>1, <2>2 DEF ClientTyped
  <2>7. ServerTyped' /\ Underway'
    BY <1>0, <2>2, <2>5 DEF ServerTyped, Underway
  <2> QED
    BY <2>4, <2>5, <2>6, <2>7, TypeParts, PTL
<1>2. CASE AskBody
  <2>1. /\ c_pc = "send_body" /\ Transmit(Terminated(Last(sent))) /\ c_pc' = "recv_len"
        /\ UNCHANGED <<c_len, got, c_open, s_pc, s_len, link, sent, served, replied, whole, heard>>
    BY <1>2 DEF AskBody, server, log
  <2>2. Terminated(Last(sent)) \in Seq(Byte)
    <3>1. Last(sent) \in Payloads \cup {<<>>}
      BY <1>0, <2>1, LastIs DEF Underway, LogTyped
    <3> QED
      BY <3>1, ToSend, Lengths
  <2>3. StreamsTyped'
    BY <1>0, <2>1, <2>2, TransmitTyped
  <2>4. ClientTyped' /\ ServerTyped' /\ LogTyped' /\ Underway'
    BY <1>0, <2>1 DEF ClientTyped, ServerTyped, LogTyped, Underway
  <2> QED
    BY <2>3, <2>4, TypeParts, PTL
<1>3. CASE AskFails
  <2>1. /\ c_pc' = "idle" /\ got' = Error
        /\ sent' = Append(sent, <<>>) \/ sent' = sent
        /\ UNCHANGED <<c_len, c_open, s_pc, s_len, link, c2s, s2c, served, replied, whole, heard>>
    BY <1>3 DEF AskFails, Result, server
  <2>2. sent' \in Seq(Payloads \cup {<<>>})
    <3>1. sent \in Seq(Payloads \cup {<<>>})
      BY <1>0 DEF LogTyped
    <3>2. Append(sent, <<>>) \in Seq(Payloads \cup {<<>>})
      BY <1>e, <3>1, LastIs
    <3> QED
      BY <2>1, <3>1, <3>2
  <2>3. ClientTyped' /\ ServerTyped' /\ StreamsTyped' /\ LogTyped' /\ Underway'
    BY <1>0, <2>1, <2>2 DEF ClientTyped, ServerTyped, StreamsTyped, LogTyped, Underway
  <2> QED
    BY <2>3, TypeParts, PTL
<1> QED
  BY <1>1, <1>2, <1>3

(* The client's steps keep the types: reading a reply, ...                 *)
LEMMA ReadTyped ==
  ASSUME TypeOK, Underway, ReadLen \/ ReadLenFails \/ ReadBody \/ ReadBodyNone \/ ReadBodyFails
  PROVE  TypeOK' /\ Underway'
<1>0. ClientTyped /\ ServerTyped /\ StreamsTyped /\ LogTyped
  BY TypeParts
<1>f. /\ ServerTyped' <=> ServerTyped
      /\ LogTyped' <=> LogTyped /\ whole' \in BOOLEAN /\ heard' \in BOOLEAN
      /\ c2s' = c2s /\ Underway'
  <2>1. UNCHANGED <<s_pc, s_len, link, c2s, sent, served, replied>> /\ c_pc # "idle"
    BY DEF ReadLen, ReadLenFails, ReadBody, ReadBodyNone, ReadBodyFails, server, log
  <2> QED
    BY <1>0, <2>1 DEF ServerTyped, LogTyped, Underway
<1>1. CASE ReadLen
  <2>1. PICK n \in Taken(s2c, 2) : /\ c_len' = First(n, s2c) \o After(n, c_len)
                                  /\ s2c' = After(n, s2c) /\ whole' = (whole /\ n = 2)
                                  /\ heard' = (heard /\ n = 2)
    BY <1>1 DEF ReadLen, AskedReply, Asked
  <2>2. n \in Int /\ 1 <= n /\ n <= 2 /\ n <= Len(s2c)
    BY <1>0, <2>1, TakenIs DEF StreamsTyped
  <2>3. /\ First(n, s2c) \in Seq(Byte) /\ Len(First(n, s2c)) = n /\ s2c' \in Seq(Byte)
    BY <1>0, <2>1, <2>2, FirstAfter, LenProperties DEF StreamsTyped
  <2>4. c_len \in Seq(Byte) /\ Len(c_len) = 2
    BY <1>0, PairIs DEF ClientTyped
  <2>5. After(n, c_len) \in Seq(Byte) /\ Len(After(n, c_len)) = 2 - n
    <3>1. n \in 0..Len(c_len)
      BY <2>2, <2>4
    <3>2. After(n, c_len) \in Seq(Byte) /\ Len(After(n, c_len)) = Len(c_len) - n
      BY <2>4, <3>1, FirstAfter
    <3> QED
      BY <2>4, <3>2
  <2>6. c_len' \in Seq(Byte) /\ Len(c_len') = 2
    BY <2>1, <2>2, <2>3, <2>5, ConcatProperties
  <2>7. c_len' \in Byte \X Byte
    <3>1. TwoBytes(Length(c_len')) = c_len' /\ Length(c_len') \in Nat /\ Length(c_len') < Words
      BY <2>6, LengthOf
    <3> QED
      BY <3>1, TwoBytesOf
  <2>8. c_pc' \in {"idle", "recv_body"} /\ (got' = Error \/ got' = got) /\ c_open' = c_open
    BY <1>1 DEF ReadLen, Result
  <2>9. ClientTyped' /\ StreamsTyped' /\ LogTyped'
    BY <1>0, <1>f, <2>1, <2>3, <2>7, <2>8 DEF ClientTyped, StreamsTyped, LogTyped
  <2> QED
    BY <1>0, <1>f, <2>9, TypeParts, PTL
<1>2. CASE ReadLenFails \/ ReadBodyFails
  <2>1. /\ c_pc' = "idle" /\ got' = Error /\ c_len' = c_len /\ c_open' \in {c_open, TRUE, FALSE}
        /\ s2c' = s2c /\ whole' = whole /\ heard' = heard
    BY <1>2 DEF ReadLenFails, ReadBodyFails, Result, log
  <2>2. ClientTyped' /\ StreamsTyped' /\ LogTyped'
    BY <1>0, <1>f, <2>1 DEF ClientTyped, StreamsTyped, LogTyped
  <2> QED
    BY <1>0, <1>f, <2>2, TypeParts, PTL
<1>3. CASE ReadBody
  <2>1. PICK n \in Taken(s2c, Length(c_len)), rest \in Garbage :
          /\ c_pc' = "idle" /\ got' = Shown(String(First(n, s2c) \o Terminated(rest)))
          /\ s2c' = After(n, s2c) /\ whole' = (whole /\ n = Length(c_len))
          /\ heard' = (heard /\ n = Length(c_len))
    BY <1>3 DEF ReadBody, AskedReply, Asked, Result
  <2>2. Length(c_len) \in Nat
    <3>1. c_len \in Seq(Byte) /\ Len(c_len) = 2
      BY <1>0, PairIs DEF ClientTyped
    <3> QED
      BY <3>1, LengthOf
  <2>3. n \in 0..Len(s2c)
    BY <1>0, <2>1, <2>2, TakenIs, LenProperties DEF StreamsTyped
  <2>4. First(n, s2c) \in Seq(Byte) /\ s2c' \in Seq(Byte)
    BY <1>0, <2>1, <2>3, FirstAfter DEF StreamsTyped
  <2>5. First(n, s2c) \o Terminated(rest) \in Seq(Byte)
    <3>1. Terminated(rest) \in Seq(Byte)
      BY Texts, TerminatedText
    <3> QED
      BY <2>4, <3>1, ConcatProperties
  <2>6. got' \in Seq(Text)
    BY <2>1, <2>5, StringIsText, ShownTyped
  <2>7. UNCHANGED <<c_len, c_open>>
    BY <1>3 DEF ReadBody
  <2>8. ClientTyped' /\ StreamsTyped' /\ LogTyped'
    BY <1>0, <1>f, <2>1, <2>4, <2>6, <2>7 DEF ClientTyped, StreamsTyped, LogTyped
  <2> QED
    BY <1>0, <1>f, <2>8, TypeParts, PTL
<1>4. CASE ReadBodyNone
  <2>1. PICK rest \in Garbage : c_pc' = "idle" /\ got' = Shown(rest)
    BY <1>4 DEF ReadBodyNone, Result
  <2>2. got' \in Seq(Text)
    BY <2>1, Texts, ShownTyped
  <2>3. UNCHANGED <<c_len, c_open, s2c, whole, heard>>
    BY <1>4 DEF ReadBodyNone, log
  <2>4. ClientTyped' /\ StreamsTyped' /\ LogTyped'
    BY <1>0, <1>f, <2>1, <2>2, <2>3 DEF ClientTyped, StreamsTyped, LogTyped
  <2> QED
    BY <1>0, <1>f, <2>4, TypeParts, PTL
<1> QED
  BY <1>1, <1>2, <1>3, <1>4

(* A step of the server keeps its types.                                   *)
LEMMA CloseTyped ==
  ASSUME TypeOK, Underway, NEW how \in {"closed", "dead"}, NEW unread, Close(how, unread),
         sent' = sent
  PROVE  ClientTyped' /\ ServerTyped' /\ StreamsTyped' /\ Underway'
<1>0. ClientTyped /\ ServerTyped /\ StreamsTyped /\ LogTyped
  BY TypeParts
<1>1. /\ link' = how /\ c2s' = <<>> /\ s_pc' = "select" /\ s2c' \in {s2c, <<>>}
      /\ UNCHANGED <<s_len, c_pc, c_len, got, c_open>>
  BY DEF Close, client
<1>2. StreamsTyped'
  BY <1>0, <1>1, EmptySeq DEF StreamsTyped
<1> QED
  BY <1>0, <1>1, <1>2 DEF ClientTyped, ServerTyped, Underway

(* ... and so do the server's, and its end.                                *)
LEMMA ServerStepTyped ==
  ASSUME TypeOK, Underway, Server \/ Die
  PROVE  TypeOK' /\ Underway'
<1>0. ClientTyped /\ ServerTyped /\ StreamsTyped /\ LogTyped
  BY TypeParts
<1>1. ASSUME RecvLen PROVE TypeOK' /\ Underway'
  <2>1. PICK n \in Taken(c2s, 2) :
          /\ whole' = (whole /\ n = 2)
          /\ IF n = 2 /\ Length(First(2, c2s)) <= MAX_LEN
             THEN /\ c2s' = After(2, c2s) /\ s_len' = Length(First(2, c2s))
                  /\ s_pc' = "recv_body" /\ UNCHANGED <<link, s2c, client>>
             ELSE Close("closed", After(n, c2s))
    BY <1>1 DEF RecvLen, Asked
  <2>2. UNCHANGED <<sent, served, replied, heard>>
    BY <1>1 DEF RecvLen
  <2>3. LogTyped'
    BY <1>0, <2>1, <2>2 DEF LogTyped
  <2>4. CASE n = 2 /\ Length(First(2, c2s)) <= MAX_LEN
    <3>1. 2 \in 0..Len(c2s)
      BY <1>0, <2>1, <2>4, TakenIs, LenProperties DEF StreamsTyped
    <3>2. First(2, c2s) \in Seq(Byte) /\ Len(First(2, c2s)) = 2 /\ After(2, c2s) \in Seq(Byte)
      BY <1>0, <3>1, FirstAfter DEF StreamsTyped
    <3>3. s_len' \in 0..MAX_LEN
      <4>1. Length(First(2, c2s)) \in Nat
        BY <3>2, LengthOf
      <4>2. \A m \in Int, k \in Nat : k <= m => k \in 0..m
        OBVIOUS
      <4>3. MAX_LEN \in Int
        BY MaxLenIs
      <4> QED
        BY <2>1, <2>4, <4>1, <4>2, <4>3
    <3>4. s_pc' = "recv_body" /\ c2s' = After(2, c2s) /\ UNCHANGED <<link, s2c, c_pc, c_len, got, c_open>>
      BY <2>1, <2>4 DEF client
    <3>5. ClientTyped' /\ ServerTyped' /\ StreamsTyped' /\ Underway'
      BY <1>0, <2>2, <3>2, <3>3, <3>4 DEF ClientTyped, ServerTyped, StreamsTyped, Underway
    <3> QED
      BY <2>3, <3>5, TypeParts, PTL
  <2>5. CASE ~(n = 2 /\ Length(First(2, c2s)) <= MAX_LEN)
    <3>1. Close("closed", After(n, c2s))
      BY <2>1, <2>5
    <3>2. ClientTyped' /\ ServerTyped' /\ StreamsTyped' /\ Underway'
      BY <2>2, <3>1, CloseTyped
    <3> QED
      BY <2>3, <3>2, TypeParts, PTL
  <2> QED
    BY <2>4, <2>5
<1>2. ASSUME RecvBody PROVE TypeOK' /\ Underway'
  <2>1. PICK n \in Taken(c2s, s_len) :
          /\ served' = Append(served, String(First(n, c2s))) /\ whole' = (whole /\ n = s_len)
          /\ \/ /\ c2s' = After(n, c2s) /\ \E r \in Replies : replied' = Append(replied, r)
                /\ s_pc' = "send_len" /\ UNCHANGED <<s_len, link, s2c, client>>
             \/ /\ c2s' = After(n, c2s) /\ s_pc' = "select"
                /\ UNCHANGED <<s_len, link, s2c, client, replied>>
             \/ \E how \in {"closed", "dead"} : Close(how, After(n, c2s)) /\ UNCHANGED replied
    BY <1>2 DEF RecvBody, Asked, Fate
  <2>2. sent' = sent /\ heard' = heard
    BY <1>2 DEF RecvBody
  <2>3. s_len \in Nat
    <3>1. \A m \in Int : \A k \in 0..m : k \in Nat
      OBVIOUS
    <3> QED
      BY <1>0, <3>1, MaxLenIs DEF ServerTyped
  <2>4. n \in 0..Len(c2s)
    BY <1>0, <2>1, <2>3, TakenIs, LenProperties DEF StreamsTyped
  <2>5. First(n, c2s) \in Seq(Byte) /\ After(n, c2s) \in Seq(Byte)
    BY <1>0, <2>4, FirstAfter DEF StreamsTyped
  <2>6. served' \in Seq(Seq(Text))
    BY <1>0, <2>1, <2>5, StringIsText, LastIs DEF LogTyped
  <2>7. CASE /\ c2s' = After(n, c2s) /\ \E r \in Replies : replied' = Append(replied, r)
             /\ s_pc' = "send_len" /\ UNCHANGED <<s_len, link, s2c, client>>
    <3>1. replied' \in Seq(Replies) /\ replied' # <<>>
      BY <1>0, <2>7, LastIs DEF LogTyped
    <3>2. UNCHANGED <<c_pc, c_len, got, c_open>>
      BY <2>7 DEF client
    <3>3. ClientTyped' /\ ServerTyped' /\ StreamsTyped' /\ LogTyped' /\ Underway'
      BY <1>0, <2>1, <2>2, <2>5, <2>6, <2>7, <3>1, <3>2
      DEF ClientTyped, ServerTyped, StreamsTyped, LogTyped, Underway
    <3> QED
      BY <3>3, TypeParts, PTL
  <2>9. CASE /\ c2s' = After(n, c2s) /\ s_pc' = "select"
             /\ UNCHANGED <<s_len, link, s2c, client, replied>>
    <3>1. UNCHANGED <<c_pc, c_len, got, c_open>>
      BY <2>9 DEF client
    <3>2. ClientTyped' /\ ServerTyped' /\ StreamsTyped' /\ LogTyped' /\ Underway'
      BY <1>0, <2>1, <2>2, <2>5, <2>6, <2>9, <3>1
      DEF ClientTyped, ServerTyped, StreamsTyped, LogTyped, Underway
    <3> QED
      BY <3>2, TypeParts, PTL
  <2>8. CASE \E how \in {"closed", "dead"} : Close(how, After(n, c2s)) /\ UNCHANGED replied
    <3>1. ClientTyped' /\ ServerTyped' /\ StreamsTyped' /\ Underway'
      BY <2>2, <2>8, CloseTyped
    <3>2. LogTyped'
      BY <1>0, <2>1, <2>2, <2>6, <2>8 DEF LogTyped
    <3> QED
      BY <3>1, <3>2, TypeParts, PTL
  <2> QED
    BY <2>1, <2>7, <2>8, <2>9
<1>3. ASSUME RecvNothing \/ Die PROVE TypeOK' /\ Underway'
  <2>1. \E how \in {"closed", "dead"} : Close(how, c2s)
    BY <1>3 DEF RecvNothing, Die
  <2>2. UNCHANGED <<sent, served, replied, whole, heard>>
    BY <1>3 DEF RecvNothing, Die, log
  <2>3. ClientTyped' /\ ServerTyped' /\ StreamsTyped' /\ Underway'
    BY <2>1, <2>2, CloseTyped
  <2>4. LogTyped'
    BY <1>0, <2>2 DEF LogTyped
  <2> QED
    BY <2>3, <2>4, TypeParts, PTL
<1>4. ASSUME SendLen \/ SendBody PROVE TypeOK' /\ Underway'
  <2>1. /\ s_pc \in {"send_len", "send_body"} /\ s_pc' \in {"send_body", "select"}
        /\ s2c' \in {s2c \o TwoBytes(Len(Terminated(Last(replied)))), s2c \o Terminated(Last(replied))}
        /\ UNCHANGED <<s_len, link, c2s, c_pc, c_len, got, c_open, sent, served, replied, whole, heard>>
    BY <1>4 DEF SendLen, SendBody, Send, client, log
  <2>2. Last(replied) \in Replies
    BY <1>0, <2>1, LastIs DEF Underway, LogTyped
  <2>3. TwoBytes(Len(Terminated(Last(replied)))) \in Seq(Byte) /\ Terminated(Last(replied)) \in Seq(Byte)
    BY <2>2, ToSend, Lengths
  <2>4. s2c' \in Seq(Byte)
    BY <1>0, <2>1, <2>3, ConcatProperties DEF StreamsTyped
  <2>5. ClientTyped' /\ ServerTyped' /\ StreamsTyped' /\ LogTyped' /\ Underway'
    BY <1>0, <2>1, <2>4 DEF ClientTyped, ServerTyped, StreamsTyped, LogTyped, Underway
  <2> QED
    BY <2>5, TypeParts, PTL
<1> QED
  BY <1>1, <1>2, <1>3, <1>4 DEF Server

(* Every step keeps the types.                                             *)
LEMMA TypeStep == TypeOK /\ Underway /\ [Next]_vars => TypeOK' /\ Underway'
<1> SUFFICES ASSUME TypeOK, Underway, [Next]_vars PROVE TypeOK' /\ Underway'
  OBVIOUS
<1>1. CASE UNCHANGED vars
  BY <1>1 DEF vars, client, server, log, TypeOK, Underway
<1> QED
  BY <1>1, AskTyped, ReadTyped, ServerStepTyped DEF Next, Client

(* They hold when the connection is accepted.                              *)
LEMMA TypeInit == Init => TypeOK /\ Underway
<1> SUFFICES ASSUME Init PROVE TypeOK /\ Underway
  OBVIOUS
<1>1. /\ <<>> \in Seq(Byte) /\ <<>> \in Seq(Text) /\ <<>> \in Seq(Payloads \cup {<<>>})
      /\ <<>> \in Seq(Seq(Text)) /\ <<>> \in Seq(Replies)
  BY EmptySeq
<1>2. <<0, 0>> \in Byte \X Byte
  BY ByteIs
<1>3. 0 \in 0..MAX_LEN
  BY MaxLenIs
<1>4. ClientTyped /\ ServerTyped /\ StreamsTyped /\ LogTyped
  BY <1>1, <1>2, <1>3 DEF Init, ClientTyped, ServerTyped, StreamsTyped, LogTyped
<1> QED
  BY <1>4, TypeParts DEF Init, Underway

(* However the bytes are cut, lost or left over, the server's recv is not  *)
(* made with more than MAX_LEN, no text has a NUL within it, and what      *)
(* request returns is a text or -1.                                        *)
THEOREM TypeCorrect == Spec => []TypeOK
  BY TypeInit, TypeStep, PTL DEF Spec

-----------------------------------------------------------------------------
(* A stream that is what is left of a sequence of parts. *)

(* The stream is the parts after the first j, each before the rest.        *)
Reads(parts, j, stream) ==
  \E rest \in [j..Len(parts) -> Seq(Byte)] :
    /\ rest[j] = stream /\ rest[Len(parts)] = <<>>
    /\ \A i \in j + 1..Len(parts) : rest[i - 1] = parts[i] \o rest[i]

(* Joining is associative.                                                 *)
LEMMA Regrouped == \A a, b, c \in Seq(Byte) : (a \o b) \o c = a \o (b \o c)
  OBVIOUS

(* At most so many parts have been read.                                   *)
LEMMA Between ==
  ASSUME NEW k \in Nat, NEW j \in 0..k
  PROVE  /\ j \in j..k /\ k \in j..k
         /\ \A i \in j + 1..k : i \in j..k /\ i - 1 \in j..k /\ i \in 1..k
  OBVIOUS

(* Nothing is read part by part from nothing.                              *)
LEMMA ReadsNone == Reads(<<>>, 0, <<>>)
<1> DEFINE rest == [i \in 0..0 |-> <<>>]
<1>1. <<>> \in Seq(Byte) /\ Len(<<>>) = 0
  BY EmptySeq
<1>2. rest \in [0..0 -> Seq(Byte)] /\ rest[0] = <<>>
  BY <1>1
<1>3. 0 + 1..0 = {}
  OBVIOUS
<1> HIDE DEF rest
<1> QED
  BY <1>1, <1>2, <1>3 DEF Reads

(* What is left of a stream that is read so is a stream.                   *)
LEMMA ReadsTyped ==
  ASSUME NEW parts \in Seq(Seq(Byte)), NEW j \in 0..Len(parts), NEW s, Reads(parts, j, s)
  PROVE  s \in Seq(Byte) /\ (j = Len(parts) => s = <<>>)
<1>1. Len(parts) \in Nat
  BY LenProperties
<1>2. PICK rest \in [j..Len(parts) -> Seq(Byte)] : rest[j] = s /\ rest[Len(parts)] = <<>>
  BY DEF Reads
<1> QED
  BY <1>1, <1>2, Between

(* One part more at its end.                                               *)
LEMMA ReadsMore ==
  ASSUME NEW parts \in Seq(Seq(Byte)), NEW j \in 0..Len(parts), NEW s, Reads(parts, j, s),
         NEW p \in Seq(Byte)
  PROVE  Reads(Append(parts, p), j, s \o p)
<1> DEFINE k == Len(parts)
           longer == Append(parts, p)
<1>0. k \in Nat
  BY LenProperties
<1>1. PICK rest \in [j..k -> Seq(Byte)] :
        /\ rest[j] = s /\ rest[k] = <<>>
        /\ \A i \in j + 1..k : rest[i - 1] = parts[i] \o rest[i]
  BY DEF Reads
<1> DEFINE more == [i \in j..k + 1 |-> IF i = k + 1 THEN <<>> ELSE rest[i] \o p]
<1>2. Len(longer) = k + 1 /\ (\A i \in 1..k : longer[i] = parts[i]) /\ longer[k + 1] = p
  BY AppendProperties
<1>3. /\ more \in [j..k + 1 -> Seq(Byte)] /\ more[k + 1] = <<>>
      /\ \A i \in j..k : more[i] = rest[i] \o p
  <2>1. ASSUME NEW i \in j..k + 1 PROVE (IF i = k + 1 THEN <<>> ELSE rest[i] \o p) \in Seq(Byte)
    <3>1. CASE i = k + 1
      BY <3>1, EmptySeq
    <3>2. CASE i # k + 1
      <4>1. i \in j..k
        BY <1>0, <3>2
      <4>2. rest[i] \o p \in Seq(Byte)
        BY <1>1, <4>1, ConcatProperties
      <4> QED
        BY <3>2, <4>2
    <3> QED
      BY <3>1, <3>2
  <2>2. more \in [j..k + 1 -> Seq(Byte)]
    BY <2>1
  <2>3. k + 1 \in j..k + 1 /\ \A i \in j..k : i \in j..k + 1 /\ i # k + 1
    BY <1>0
  <2> QED
    BY <2>2, <2>3
<1>4. \A i \in j + 1..k + 1 : more[i - 1] = longer[i] \o more[i]
  <2> SUFFICES ASSUME NEW i \in j + 1..k + 1 PROVE more[i - 1] = longer[i] \o more[i]
    OBVIOUS
  <2> HIDE DEF more, longer
  <2>1. CASE i = k + 1
    <3>1. k \in j..k /\ i - 1 = k
      BY <1>0, <2>1
    <3>2. more[i - 1] = <<>> \o p
      BY <1>1, <1>3, <3>1
    <3>3. longer[i] = p /\ more[i] = <<>>
      BY <1>2, <1>3, <2>1
    <3>4. <<>> \o p = p /\ p \o <<>> = p
      BY ConcatEmptySeq
    <3> QED
      BY <3>2, <3>3, <3>4
  <2>2. CASE i # k + 1
    <3>1. i \in j + 1..k
      BY <1>0, <2>2
    <3>2. i \in j..k /\ i - 1 \in j..k /\ i \in 1..k
      BY <1>0, <3>1
    <3>3. parts[i] \in Seq(Byte) /\ rest[i] \in Seq(Byte)
      BY <1>1, <3>2, ElementOfSeq
    <3>4. (parts[i] \o rest[i]) \o p = parts[i] \o (rest[i] \o p)
      <4> DEFINE a == parts[i]
                 b == rest[i]
      <4>1. a \in Seq(Byte) /\ b \in Seq(Byte) /\ p \in Seq(Byte)
        BY <3>3
      <4> HIDE DEF a, b
      <4>2. (a \o b) \o p = a \o (b \o p)
        BY <4>1, Regrouped, Zenon
      <4> QED
        BY <4>2 DEF a, b
    <3>5. more[i - 1] = rest[i - 1] \o p /\ more[i] = rest[i] \o p /\ longer[i] = parts[i]
      BY <1>2, <1>3, <3>2
    <3>6. rest[i - 1] = parts[i] \o rest[i]
      BY <1>1, <3>1
    <3> QED
      BY <3>4, <3>5, <3>6
  <2> QED
    BY <2>1, <2>2
<1>5. more[j] = s \o p
  <2>1. j \in j..k
    BY <1>0
  <2> QED
    BY <1>1, <1>3, <2>1
<1> HIDE DEF more, longer
<1>6. Reads(longer, j, s \o p)
  BY <1>2, <1>3, <1>4, <1>5 DEF Reads
<1> QED
  BY <1>6 DEF longer

(* Its last part longer.                                                   *)
LEMMA ReadsLonger ==
  ASSUME NEW parts \in Seq(Seq(Byte)), NEW j \in 0..Len(parts), j # Len(parts),
         NEW s, Reads(parts, j, s), NEW p \in Seq(Byte),
         NEW longer, Len(longer) = Len(parts), longer[Len(parts)] = parts[Len(parts)] \o p,
         \A i \in 1..Len(parts) : i # Len(parts) => longer[i] = parts[i]
  PROVE  Reads(longer, j, s \o p)
<1> DEFINE k == Len(parts)
<1>0. k \in Nat /\ k >= 1 /\ j < k
  BY LenProperties
<1>1. PICK rest \in [j..k -> Seq(Byte)] :
        /\ rest[j] = s /\ rest[k] = <<>>
        /\ \A i \in j + 1..k : rest[i - 1] = parts[i] \o rest[i]
  BY DEF Reads
<1> DEFINE more == [i \in j..k |-> IF i = k THEN <<>> ELSE rest[i] \o p]
<1>3. /\ more \in [j..k -> Seq(Byte)] /\ more[k] = <<>>
      /\ \A i \in j..k : i # k => more[i] = rest[i] \o p
  <2>1. ASSUME NEW i \in j..k PROVE (IF i = k THEN <<>> ELSE rest[i] \o p) \in Seq(Byte)
    <3>1. rest[i] \o p \in Seq(Byte) /\ <<>> \in Seq(Byte)
      BY <1>1, ConcatProperties, EmptySeq
    <3> QED
      BY <3>1
  <2>2. more \in [j..k -> Seq(Byte)]
    BY <2>1
  <2>3. k \in j..k
    BY <1>0
  <2> QED
    BY <2>2, <2>3
<1>4. \A i \in j + 1..k : more[i - 1] = longer[i] \o more[i]
  <2> SUFFICES ASSUME NEW i \in j + 1..k PROVE more[i - 1] = longer[i] \o more[i]
    OBVIOUS
  <2> HIDE DEF more
  <2>0. i \in j..k /\ i - 1 \in j..k /\ i - 1 # k /\ i \in 1..k
    BY <1>0
  <2>3. parts[i] \in Seq(Byte) /\ rest[i] \in Seq(Byte)
    BY <1>1, <2>0, ElementOfSeq
  <2>5. more[i - 1] = (parts[i] \o rest[i]) \o p
    BY <1>1, <1>3, <2>0
  <2>1. CASE i = k
    <3>1. rest[i] = <<>> /\ more[i] = <<>> /\ longer[i] = parts[i] \o p
      BY <1>1, <1>3, <2>1
    <3>2. parts[i] \o p \in Seq(Byte)
      BY <2>3, ConcatProperties
    <3>3. parts[i] \o <<>> = parts[i] /\ (parts[i] \o p) \o <<>> = parts[i] \o p
      BY <2>3, <3>2, ConcatEmptySeq
    <3> QED
      BY <2>5, <3>1, <3>3
  <2>2. CASE i # k
    <3>4. (parts[i] \o rest[i]) \o p = parts[i] \o (rest[i] \o p)
      <4> DEFINE a == parts[i]
                 b == rest[i]
      <4>1. a \in Seq(Byte) /\ b \in Seq(Byte) /\ p \in Seq(Byte)
        BY <2>3
      <4> HIDE DEF a, b
      <4>2. (a \o b) \o p = a \o (b \o p)
        BY <4>1, Regrouped, Zenon
      <4> QED
        BY <4>2 DEF a, b
    <3>5. more[i] = rest[i] \o p /\ longer[i] = parts[i]
      BY <1>3, <2>0, <2>2
    <3> QED
      BY <2>5, <3>4, <3>5
  <2> QED
    BY <2>1, <2>2
<1>5. more[j] = s \o p
  <2>1. j \in j..k /\ j # k
    BY <1>0
  <2> QED
    BY <1>1, <1>3, <2>1
<1> HIDE DEF more
<1> QED
  BY <1>3, <1>4, <1>5 DEF Reads

(* Its first part read.                                                    *)
LEMMA ReadsFirst ==
  ASSUME NEW parts \in Seq(Seq(Byte)), NEW j \in 0..Len(parts), j # Len(parts),
         NEW s, Reads(parts, j, s)
  PROVE  \E t \in Seq(Byte) : s = parts[j + 1] \o t /\ Reads(parts, j + 1, t)
<1> DEFINE k == Len(parts)
<1>0. k \in Nat /\ j + 1 \in j + 1..k /\ j + 1 \in j..k /\ (j + 1) - 1 = j
      /\ \A i \in j + 1..k : i \in j..k
  BY LenProperties
<1>1. PICK rest \in [j..k -> Seq(Byte)] :
        /\ rest[j] = s /\ rest[k] = <<>>
        /\ \A i \in j + 1..k : rest[i - 1] = parts[i] \o rest[i]
  BY DEF Reads
<1>2. s = parts[j + 1] \o rest[j + 1] /\ rest[j + 1] \in Seq(Byte)
  <2>1. rest[(j + 1) - 1] = parts[j + 1] \o rest[j + 1]
    BY <1>0, <1>1
  <2> QED
    BY <1>0, <1>1, <2>1
<1> DEFINE less == [i \in j + 1..k |-> rest[i]]
<1>3. less \in [j + 1..k -> Seq(Byte)] /\ less[j + 1] = rest[j + 1] /\ less[k] = <<>>
  <2>1. k \in j + 1..k
    BY <1>0
  <2> QED
    BY <1>0, <1>1, <2>1
<1>4. \A i \in (j + 1) + 1..k : less[i - 1] = parts[i] \o less[i]
  <2> SUFFICES ASSUME NEW i \in (j + 1) + 1..k PROVE less[i - 1] = parts[i] \o less[i]
    OBVIOUS
  <2>1. i \in j + 1..k /\ i - 1 \in j + 1..k
    BY <1>0
  <2>2. less[i] = rest[i] /\ less[i - 1] = rest[i - 1]
    BY <2>1
  <2> QED
    BY <1>1, <2>1, <2>2
<1> HIDE DEF less
<1>5. Reads(parts, j + 1, rest[j + 1])
  BY <1>3, <1>4 DEF Reads
<1> QED
  BY <1>2, <1>5

-----------------------------------------------------------------------------
(* What the server reads is what the client sent. *)

(* A request and its length, as they are sent.                             *)
Size(text) == TwoBytes(Len(Terminated(text)))

(* What a request is, and its length.                                      *)
LEMMA Request ==
  \A t \in Payloads :
    /\ t \in Seq(Text) /\ Len(t) \in Nat /\ 1 <= Len(t) /\ Len(t) + 1 < RequestLen
    /\ Terminated(t) \in Seq(Byte) /\ Len(Terminated(t)) = Len(t) + 1 /\ Len(t) + 1 < Words
    /\ (\A i \in 1..Len(t) : Terminated(t)[i] = t[i]) /\ Terminated(t)[Len(t) + 1] = 0
    /\ Size(t) \in Seq(Byte) /\ Len(Size(t)) = 2 /\ Size(t)[1] = 0
<1> SUFFICES ASSUME NEW t \in Payloads
             PROVE
    /\ t \in Seq(Text) /\ Len(t) \in Nat /\ 1 <= Len(t) /\ Len(t) + 1 < RequestLen
    /\ Terminated(t) \in Seq(Byte) /\ Len(Terminated(t)) = Len(t) + 1 /\ Len(t) + 1 < Words
    /\ (\A i \in 1..Len(t) : Terminated(t)[i] = t[i]) /\ Terminated(t)[Len(t) + 1] = 0
    /\ Size(t) \in Seq(Byte) /\ Len(Size(t)) = 2 /\ Size(t)[1] = 0
  OBVIOUS
<1>1. /\ t \in Seq(Text) /\ Len(t) \in Nat /\ 1 <= Len(t) /\ Len(t) + 1 < 256
      /\ Len(t) + 1 < RequestLen
  BY Texts
<1>2. /\ Terminated(t) \in Seq(Byte) /\ Len(Terminated(t)) = Len(t) + 1
      /\ (\A i \in 1..Len(t) : Terminated(t)[i] = t[i]) /\ Terminated(t)[Len(t) + 1] = 0
  BY <1>1, TerminatedText
<1>3. Len(t) + 1 \in Nat /\ Len(t) + 1 < Words
  BY <1>1 DEF Words
<1>4. /\ TwoBytes(Len(t) + 1) \in Seq(Byte) /\ Len(TwoBytes(Len(t) + 1)) = 2
      /\ TwoBytes(Len(t) + 1)[1] = (Len(t) + 1) \div 256
  BY <1>3, TwoBytesOf
<1>5. (Len(t) + 1) \div 256 = 0
  BY <1>1
<1>6. Size(t) \in Seq(Byte) /\ Len(Size(t)) = 2 /\ Size(t)[1] = 0
  BY <1>2, <1>4, <1>5 DEF Size
<1> QED
  BY <1>1, <1>2, <1>3, <1>6

(* What has been sent of the i-th request, and what the server has not     *)
(* read: what is on the way, and the length it has read of a request.      *)
Part(i) ==
  IF i = Len(sent) /\ c_pc = "send_body" THEN Size(sent[i]) ELSE Size(sent[i]) \o Terminated(sent[i])
Wire    == [i \in 1..Len(sent) |-> Part(i)]
Pending == IF s_pc = "recv_body" THEN TwoBytes(s_len) \o c2s ELSE c2s

(* ... is a list with one entry for each request.                          *)
LEMMA WireTyped ==
  sent \in Seq(Payloads) =>
    /\ Wire \in Seq(Seq(Byte)) /\ Len(Wire) = Len(sent) /\ Len(sent) \in Nat
    /\ \A i \in 1..Len(sent) : Wire[i] = Part(i) /\ sent[i] \in Payloads
<1> SUFFICES ASSUME sent \in Seq(Payloads)
             PROVE  /\ Wire \in Seq(Seq(Byte)) /\ Len(Wire) = Len(sent) /\ Len(sent) \in Nat
                    /\ \A i \in 1..Len(sent) : Wire[i] = Part(i) /\ sent[i] \in Payloads
  OBVIOUS
<1>1. Len(sent) \in Nat /\ \A i \in 1..Len(sent) : sent[i] \in Payloads
  BY LenProperties, ElementOfSeq
<1>2. ASSUME NEW i \in 1..Len(sent) PROVE Part(i) \in Seq(Byte)
  <2>1. Size(sent[i]) \in Seq(Byte) /\ Terminated(sent[i]) \in Seq(Byte)
    BY <1>1, Request
  <2>2. Size(sent[i]) \o Terminated(sent[i]) \in Seq(Byte)
    BY <2>1, ConcatProperties
  <2> QED
    BY <2>1, <2>2 DEF Part
<1>3. [i \in 1..Len(sent) |-> Part(i)] \in Seq(Seq(Byte))
  BY <1>1, <1>2, IsASeq
<1>4. Wire \in Seq(Seq(Byte)) /\ \A i \in 1..Len(sent) : Wire[i] = Part(i)
  BY <1>3 DEF Wire
<1>5. Len(Wire) = Len(sent)
  BY <1>1 DEF Wire
<1> QED
  BY <1>1, <1>4, <1>5

(* What the server has not read yet is a stream.                           *)
LEMMA PendingTyped ==
  TypeOK => TwoBytes(s_len) \in Seq(Byte) /\ Len(TwoBytes(s_len)) = 2 /\ s_len \in Nat /\ s_len < Words
            /\ Pending \in Seq(Byte)
<1> SUFFICES ASSUME TypeOK
             PROVE  /\ TwoBytes(s_len) \in Seq(Byte) /\ Len(TwoBytes(s_len)) = 2
                    /\ s_len \in Nat /\ s_len < Words /\ Pending \in Seq(Byte)
  OBVIOUS
<1>1. \A m \in Int : \A k \in 0..m : k \in Nat /\ k <= m
  OBVIOUS
<1>2. s_len \in Nat /\ s_len <= MAX_LEN /\ c2s \in Seq(Byte)
  BY <1>1, MaxLenIs DEF TypeOK
<1>3. s_len < Words
  BY <1>2, MaxLenIs DEF Words
<1>4. TwoBytes(s_len) \in Seq(Byte) /\ Len(TwoBytes(s_len)) = 2
  BY <1>2, <1>3, TwoBytesOf
<1>5. TwoBytes(s_len) \o c2s \in Seq(Byte)
  BY <1>2, <1>4, ConcatProperties
<1> QED
  BY <1>2, <1>3, <1>4, <1>5 DEF Pending

(* Either all that was executed is what was sent and what the server has   *)
(* not read begins with the next request; or a request was cut, and it     *)
(* reads what is too much for a length, or none, next; or it has read it.  *)
InOrder == Len(served) <= Len(sent) /\ \A i \in 1..Len(served) : served[i] = sent[i]
Aligned ==
  /\ InOrder
  /\ c_pc = "send_body" => Len(served) < Len(sent)
  /\ Reads(Wire, Len(served), Pending)
NoLength(stream) ==
  /\ Len(stream) >= 1
  /\ stream[1] > 4 \/ (stream[1] = 0 /\ (Len(stream) > 1 => stream[2] = 0))
Misled  ==
  /\ s_pc # "recv_body"
  /\ NoLength(c2s)
  /\ Len(c2s) = 1 => c_pc # "send_body"
Doomed  == s_pc = "recv_body" /\ s_len = 0
InTouch == link = "up" => sent \in Seq(Payloads) /\ (Aligned \/ Misled \/ Doomed)

(* What is no length stays none, as what the client sends next begins with *)
(* a 0.                                                                    *)
LEMMA NoLengthStays ==
  ASSUME NEW s \in Seq(Byte), NEW p \in Seq(Byte), NoLength(s), Len(p) >= 1, Len(s) > 1 \/ p[1] = 0
  PROVE  NoLength(s \o p) /\ Len(s \o p) > 1
<1>1. Len(s) \in Nat /\ Len(p) \in Nat
  BY LenProperties
<1>2. /\ Len(s \o p) = Len(s) + Len(p)
      /\ \A i \in 1..Len(s) + Len(p) : (s \o p)[i] = IF i <= Len(s) THEN s[i] ELSE p[i - Len(s)]
  BY ConcatProperties
<1> DEFINE t == s \o p
<1>3. Len(t) > 1 /\ t[1] = s[1]
  BY <1>1, <1>2 DEF NoLength
<1>4. t[2] = IF Len(s) > 1 THEN s[2] ELSE p[1]
  BY <1>1, <1>2 DEF NoLength
<1> HIDE DEF t
<1>5. NoLength(t)
  BY <1>3, <1>4 DEF NoLength
<1> QED
  BY <1>3, <1>5 DEF t

(* The client adds to what it sends.                                       *)
LEMMA AskLenInTouch ==
  ASSUME TypeOK, InTouch, NEW text \in Payloads, AskLen(text)
  PROVE  InTouch'
<1> SUFFICES ASSUME link' = "up"
             PROVE  sent' \in Seq(Payloads) /\ (Aligned \/ Misled \/ Doomed)'
  BY DEF InTouch
<1>1. /\ c_pc = "idle" /\ c_pc' = "send_body" /\ sent' = Append(sent, text) /\ link = "up"
      /\ UNCHANGED <<s_pc, s_len, served>>
  BY DEF AskLen, server
<1>2. c2s' = c2s \o Size(text)
  BY <1>1 DEF AskLen, Transmit, Size
<1>3. sent \in Seq(Payloads) /\ (Aligned \/ Misled \/ Doomed)
  BY <1>1 DEF InTouch
<1>4. Size(text) \in Seq(Byte) /\ Len(Size(text)) = 2 /\ Size(text)[1] = 0
  BY Request
<1>5. /\ sent' \in Seq(Payloads) /\ Len(sent') = Len(sent) + 1 /\ sent'[Len(sent) + 1] = text
      /\ \A i \in 1..Len(sent) : sent'[i] = sent[i]
  BY <1>1, <1>3, AppendProperties
<1>6. CASE Aligned
  <2>0. PICK k \in Nat : k = Len(sent)
    BY <1>3, LenProperties
  <2>1. k = Len(sent) /\ k \in Nat /\ Wire \in Seq(Seq(Byte)) /\ Len(Wire) = k /\ \A i \in 1..k : Wire[i] = Part(i)
    BY <1>3, <2>0, WireTyped
  <2>2. Wire' = Append(Wire, Size(text))
    <3>1. /\ Wire' \in Seq(Seq(Byte)) /\ Len(Wire') = Len(sent')
          /\ \A i \in 1..Len(sent') : Wire'[i] = Part(i)'
      <4>1. (sent \in Seq(Payloads) =>
              /\ Wire \in Seq(Seq(Byte)) /\ Len(Wire) = Len(sent) /\ Len(sent) \in Nat
              /\ \A i \in 1..Len(sent) : Wire[i] = Part(i) /\ sent[i] \in Payloads)'
        BY WireTyped, PTL
      <4> QED
        BY <1>5, <4>1
    <3>2. \A i \in 1..k : Part(i)' = Part(i)
      BY <1>1, <1>5, <2>1 DEF Part
    <3>3. \A i \in 1..k + 1 : i = k + 1 => Part(i)' = Size(text)
      BY <1>1, <1>5, <2>1 DEF Part
    <3>4. /\ Append(Wire, Size(text)) \in Seq(Seq(Byte)) /\ Len(Append(Wire, Size(text))) = k + 1
          /\ \A i \in 1..k : Append(Wire, Size(text))[i] = Wire[i]
          /\ Append(Wire, Size(text))[k + 1] = Size(text)
      BY <1>4, <2>1, AppendProperties
    <3>5. \A i \in 1..k + 1 : i \in 1..k \/ i = k + 1
      BY <2>1
    <3>6. \A i \in 1..Len(Wire') : Wire'[i] = Append(Wire, Size(text))[i]
      <4> SUFFICES ASSUME NEW i \in 1..k + 1 PROVE Wire'[i] = Append(Wire, Size(text))[i]
        BY <1>5, <2>1, <3>1
      <4>1. Wire'[i] = Part(i)'
        BY <1>5, <2>1, <3>1
      <4>2. CASE i \in 1..k
        BY <2>1, <3>2, <3>4, <4>1, <4>2
      <4>3. CASE i = k + 1
        BY <3>3, <3>4, <4>1, <4>3
      <4> QED
        BY <3>5, <4>2, <4>3
    <3> QED
      BY <1>5, <2>1, <3>1, <3>4, <3>6, SeqEqual
  <2>3. Pending' = Pending \o Size(text)
    <3>1. TwoBytes(s_len) \in Seq(Byte) /\ c2s \in Seq(Byte)
      BY PendingTyped DEF TypeOK
    <3>2. (TwoBytes(s_len) \o c2s) \o Size(text) = TwoBytes(s_len) \o (c2s \o Size(text))
      BY <1>4, <3>1, Regrouped, Zenon
    <3>3. TwoBytes(s_len)' = TwoBytes(s_len)
      BY <1>1 DEF TwoBytes
    <3> QED
      BY <1>1, <1>2, <3>2, <3>3 DEF Pending
  <2>4. Len(served) \in 0..k /\ Reads(Wire, Len(served), Pending) /\ InOrder
    <3>1. Len(served) \in Nat
      BY LenProperties DEF TypeOK
    <3> QED
      BY <1>6, <2>1, <3>1 DEF Aligned, InOrder
  <2>5. Reads(Append(Wire, Size(text)), Len(served), Pending \o Size(text))
    BY <1>4, <2>1, <2>4, ReadsMore
  <2>6. Reads(Wire, Len(served), Pending)'
    <3>1. Reads(Wire', Len(served'), Pending')
      BY <1>1, <2>2, <2>3, <2>5, Zenon
    <3> QED
      BY <3>1 DEF Reads
  <2>7. InOrder' /\ Len(served') < Len(sent')
    <3>1. Len(served) \in Nat /\ Len(served) <= k /\ Len(sent') = k + 1 /\ served' = served
      BY <1>1, <1>5, <2>1, <2>4
    <3>2. \A i \in 1..Len(served) : i \in 1..k
      BY <2>1, <3>1
    <3>3. \A i \in 1..Len(served) : served[i] = sent[i] /\ sent'[i] = sent[i]
      BY <1>5, <2>1, <2>4, <3>2 DEF InOrder
    <3>4. Len(served) <= Len(sent') /\ Len(served) < Len(sent')
      BY <2>1, <3>1
    <3> QED
      BY <3>1, <3>3, <3>4 DEF InOrder
  <2> QED
    BY <1>5, <2>6, <2>7 DEF Aligned
<1>7. CASE Misled
  <2>1. c2s \in Seq(Byte) /\ NoLength(c2s)
    BY <1>7 DEF Misled, TypeOK
  <2>2. NoLength(c2s \o Size(text)) /\ Len(c2s \o Size(text)) > 1
    BY <1>4, <2>1, NoLengthStays
  <2>3. NoLength(c2s') /\ Len(c2s') > 1
    BY <1>2, <2>2
  <2>4. NoLength(c2s)'
    BY <2>3 DEF NoLength
  <2>5. ~(Len(c2s') = 1)
    BY <2>3
  <2> QED
    BY <1>1, <1>5, <1>7, <2>4, <2>5 DEF Misled
<1>8. CASE Doomed
  BY <1>1, <1>5, <1>8 DEF Doomed
<1> QED
  BY <1>3, <1>6, <1>7, <1>8

(* The client's second send: the request is on its way.                    *)
LEMMA AskBodyInTouch ==
  ASSUME TypeOK, Underway, InTouch, AskBody
  PROVE  InTouch'
<1> SUFFICES ASSUME link' = "up"
             PROVE  sent' \in Seq(Payloads) /\ (Aligned \/ Misled \/ Doomed)'
  BY DEF InTouch
<1> DEFINE k == Len(sent)
           body == Terminated(sent[k])
<1>1. /\ c_pc = "send_body" /\ c_pc' = "recv_len" /\ link = "up"
      /\ UNCHANGED <<s_pc, s_len, sent, served>>
  BY DEF AskBody, server, log
<1>2. c2s' = c2s \o body
  BY <1>1 DEF AskBody, Transmit, Last
<1>3. sent \in Seq(Payloads) /\ (Aligned \/ Misled \/ Doomed)
  BY <1>1 DEF InTouch
<1>8. CASE Doomed
  BY <1>1, <1>3, <1>8 DEF Doomed
<1>4. k \in Nat /\ Len(served) \in Nat
  BY <1>3, LenProperties DEF TypeOK
<1>6. CASE Aligned
  <2>1. /\ Wire \in Seq(Seq(Byte)) /\ Len(Wire) = k
        /\ \A i \in 1..k : Wire[i] = Part(i) /\ sent[i] \in Payloads
    BY <1>3, WireTyped
  <2>2. Len(served) \in 0..k /\ Len(served) # k /\ Reads(Wire, Len(served), Pending) /\ InOrder
    BY <1>1, <1>4, <1>6 DEF Aligned, InOrder
  <2>3. k \in 1..k /\ sent[k] \in Payloads
    BY <1>4, <2>1, <2>2
  <2>4. body \in Seq(Byte)
    BY <2>3, Request
  <2>5. /\ Wire' \in Seq(Seq(Byte)) /\ Len(Wire') = k
        /\ \A i \in 1..k : Wire'[i] = Part(i)'
    <3>1. (sent \in Seq(Payloads) =>
            /\ Wire \in Seq(Seq(Byte)) /\ Len(Wire) = Len(sent) /\ Len(sent) \in Nat
            /\ \A i \in 1..Len(sent) : Wire[i] = Part(i) /\ sent[i] \in Payloads)'
      BY WireTyped, PTL
    <3> QED
      BY <1>1, <1>3, <3>1
  <2>6. \A i \in 1..k : i # k => Wire'[i] = Wire[i]
    <3>1. \A i \in 1..k : i # k => Part(i)' = Part(i)
      BY <1>1 DEF Part
    <3> QED
      BY <2>1, <2>5, <3>1
  <2>7. Wire'[k] = Wire[k] \o body
    <3>1. \A i \in 1..k : i = k => Part(i)' = Part(i) \o body
      BY <1>1 DEF Part
    <3>2. \A i \in 1..k : i = k => Wire'[i] = Wire[i] \o body
      BY <2>1, <2>5, <3>1
    <3> QED
      BY <2>3, <3>2
  <2>8. Pending' = Pending \o body
    <3>1. TwoBytes(s_len) \in Seq(Byte) /\ c2s \in Seq(Byte)
      BY PendingTyped DEF TypeOK
    <3>2. (TwoBytes(s_len) \o c2s) \o body = TwoBytes(s_len) \o (c2s \o body)
      <4> HIDE DEF body
      <4> QED
        BY <2>4, <3>1, Regrouped, Zenon
    <3>3. TwoBytes(s_len)' = TwoBytes(s_len)
      BY <1>1 DEF TwoBytes
    <3> QED
      BY <1>1, <1>2, <3>2, <3>3 DEF Pending
  <2> HIDE DEF body
  <2>9. Reads(Wire', Len(served), Pending \o body)
    BY <2>1, <2>2, <2>4, <2>5, <2>6, <2>7, ReadsLonger
  <2>10. Reads(Wire, Len(served), Pending)'
    <3>1. Reads(Wire', Len(served'), Pending')
      BY <1>1, <2>8, <2>9
    <3> QED
      BY <3>1 DEF Reads
  <2>11. InOrder'
    BY <1>1, <2>2 DEF InOrder
  <2> QED
    BY <1>1, <1>3, <2>10, <2>11 DEF Aligned
<1>7. CASE Misled
  <2>1. c2s \in Seq(Byte) /\ NoLength(c2s) /\ Len(c2s) > 1
    <3>1. c2s \in Seq(Byte) /\ NoLength(c2s) /\ Len(c2s) # 1 /\ Len(c2s) \in Nat
      BY <1>1, <1>7, LenProperties DEF Misled, TypeOK
    <3>2. Len(c2s) >= 1
      BY <3>1 DEF NoLength
    <3> QED
      BY <3>1, <3>2
  <2>2. body \in Seq(Byte) /\ Len(body) >= 1
    <3>1. k \in 1..k /\ sent[k] \in Payloads
      <4>1. sent # <<>>
        BY <1>1 DEF Underway
      <4> QED
        BY <1>3, <4>1, LastIs, ElementOfSeq
    <3>2. Len(body) = Len(sent[k]) + 1 /\ Len(sent[k]) \in Nat /\ body \in Seq(Byte)
      BY <3>1, Request
    <3> QED
      BY <3>2
  <2> HIDE DEF body
  <2>3. NoLength(c2s \o body) /\ Len(c2s \o body) > 1
    BY <2>1, <2>2, NoLengthStays
  <2>4. NoLength(c2s)' /\ Len(c2s') # 1
    BY <1>2, <2>3 DEF NoLength
  <2> QED
    BY <1>1, <1>3, <1>7, <2>4 DEF Misled
<1> QED
  BY <1>3, <1>6, <1>7, <1>8

(* What of the steps changes nothing of this.                              *)
LEMMA StillInTouch ==
  ASSUME TypeOK, InTouch, UNCHANGED <<c2s, sent, served, s_len>>, link' = link \/ link' # "up",
         (c_pc = "send_body") <=> (c_pc = "send_body")', (s_pc = "recv_body") <=> (s_pc = "recv_body")'
  PROVE  InTouch'
<1> SUFFICES ASSUME link' = "up"
             PROVE  sent' \in Seq(Payloads) /\ (Aligned \/ Misled \/ Doomed)'
  BY DEF InTouch
<1>1. sent \in Seq(Payloads) /\ (Aligned \/ Misled \/ Doomed)
  BY DEF InTouch
<1>2. Aligned => Aligned'
  <2>1. Wire' = Wire
    BY DEF Wire, Part
  <2>2. Pending' = Pending
    BY DEF Pending
  <2> QED
    BY <2>1, <2>2 DEF Aligned, InOrder, Reads
<1>3. (Misled => Misled') /\ (Doomed => Doomed')
  BY DEF Misled, Doomed, NoLength
<1> QED
  BY <1>1, <1>2, <1>3

(* The server reads a length.                                              *)
LEMMA Joined ==
  ASSUME NEW s \in Seq(Byte), NEW n \in 0..Len(s)
  PROVE  First(n, s) \o After(n, s) = s
<1>1. /\ First(n, s) \in Seq(Byte) /\ Len(First(n, s)) = n
      /\ \A i \in 1..n : First(n, s)[i] = s[i]
      /\ After(n, s) \in Seq(Byte) /\ Len(After(n, s)) = Len(s) - n
      /\ \A i \in 1..Len(s) - n : After(n, s)[i] = s[n + i]
  BY FirstAfter
<1> DEFINE u == First(n, s) \o After(n, s)
<1>2. /\ u \in Seq(Byte) /\ Len(u) = n + (Len(s) - n)
      /\ \A i \in 1..n + (Len(s) - n) : u[i] = IF i <= n THEN First(n, s)[i] ELSE After(n, s)[i - n]
  BY <1>1, ConcatProperties
<1>3. Len(s) \in Nat /\ n + (Len(s) - n) = Len(s)
  BY LenProperties
<1> HIDE DEF u
<1>4. \A i \in 1..Len(u) : u[i] = s[i]
  <2> SUFFICES ASSUME NEW i \in 1..Len(s) PROVE u[i] = s[i]
    BY <1>2, <1>3
  <2>1. CASE i <= n
    BY <1>1, <1>2, <1>3, <2>1
  <2>2. CASE ~(i <= n)
    <3>1. i - n \in 1..Len(s) - n /\ n + (i - n) = i
      BY <1>3, <2>2
    <3>2. After(n, s)[i - n] = s[n + (i - n)]
      BY <1>1, <3>1
    <3> QED
      BY <1>2, <1>3, <2>2, <3>1, <3>2
  <2> QED
    BY <2>1, <2>2
<1>5. u = s
  BY <1>2, <1>3, <1>4, SeqEqual
<1> QED
  BY <1>5 DEF u

(* The server reads a length, whole or not.                                *)
LEMMA RecvLenInTouch ==
  ASSUME TypeOK, InTouch, RecvLen
  PROVE  InTouch'
<1> SUFFICES ASSUME link' = "up"
             PROVE  sent' \in Seq(Payloads) /\ (Aligned \/ Misled \/ Doomed)'
  BY DEF InTouch
<1> DEFINE two == First(2, c2s)
<1>1. PICK n \in Taken(c2s, 2) :
        IF n = 2 /\ Length(two) <= MAX_LEN
        THEN /\ c2s' = After(2, c2s) /\ s_len' = Length(two)
             /\ s_pc' = "recv_body" /\ UNCHANGED <<link, s2c, client>>
        ELSE Close("closed", After(n, c2s))
  BY DEF RecvLen
<1>2. s_pc = "select" /\ link = "up" /\ UNCHANGED <<sent, served>>
  BY DEF RecvLen
<1>3. n = 2 /\ Length(two) <= MAX_LEN
  BY <1>1 DEF Close
<1>4. c2s' = After(2, c2s) /\ s_len' = Length(two) /\ s_pc' = "recv_body" /\ c_pc' = c_pc
  BY <1>1, <1>3 DEF client
<1>5. sent \in Seq(Payloads) /\ (Aligned \/ Misled)
  BY <1>2 DEF InTouch, Doomed
<1>6. c2s \in Seq(Byte) /\ 2 \in 0..Len(c2s) /\ Len(c2s) > 1
  BY <1>1, <1>3, TakenIs, LenProperties DEF TypeOK
<1>7. two \in Seq(Byte) /\ Len(two) = 2 /\ two[1] = c2s[1] /\ two[2] = c2s[2]
  <2>1. /\ First(2, c2s) \in Seq(Byte) /\ Len(First(2, c2s)) = 2
        /\ \A i \in 1..2 : First(2, c2s)[i] = c2s[i]
    BY <1>6, FirstAfter
  <2>2. 1 \in 1..2 /\ 2 \in 1..2
    OBVIOUS
  <2> QED
    BY <2>1, <2>2
<1>8. CASE Aligned
  <2>1. TwoBytes(Length(two)) = two
    BY <1>7, LengthOf
  <2>2. two \o After(2, c2s) = c2s
    BY <1>6, Joined
  <2>3. Pending = c2s
    BY <1>2 DEF Pending
  <2> HIDE DEF two
  <2>4. Pending' = Pending
    <3>1. TwoBytes(s_len)' = two
      BY <1>4, <2>1 DEF TwoBytes
    <3> QED
      BY <1>4, <2>2, <2>3, <3>1 DEF Pending
  <2>5. Wire' = Wire
    BY <1>2, <1>4 DEF Wire, Part
  <2> QED
    BY <1>2, <1>4, <1>5, <1>8, <2>4, <2>5 DEF Aligned, InOrder, Reads
<1>9. CASE Misled
  <2>1. two[1] > 4 \/ (two[1] = 0 /\ two[2] = 0)
    BY <1>6, <1>7, <1>9 DEF Misled, NoLength
  <2>2. /\ two[1] \in Int /\ two[2] \in Int /\ two[2] >= 0
    <3>1. two[1] \in Byte /\ two[2] \in Byte
      BY <1>7, ElementOfSeq
    <3> QED
      BY <3>1, ByteIs
  <2> HIDE DEF two
  <2>3. Length(two) = 0
    <3>1. Length(two) = 256 * two[1] + two[2]
      BY DEF Length
    <3> QED
      BY <1>3, <2>1, <2>2, <3>1, MaxLenIs
  <2> QED
    BY <1>2, <1>4, <1>5, <2>3 DEF Doomed
<1> QED
  BY <1>5, <1>8, <1>9

(* What the client has sent next begins with the first byte of a length.   *)
LEMMA NextBegins ==
  ASSUME sent \in Seq(Payloads), NEW j \in 0..Len(sent), j # Len(sent), NEW s, Reads(Wire, j, s)
  PROVE  s \in Seq(Byte) /\ Len(s) >= 2 /\ s[1] = 0
<1>1. /\ Wire \in Seq(Seq(Byte)) /\ Len(Wire) = Len(sent) /\ Len(sent) \in Nat
      /\ \A i \in 1..Len(sent) : Wire[i] = Part(i) /\ sent[i] \in Payloads
  BY WireTyped
<1>2. PICK t \in Seq(Byte) : s = Wire[j + 1] \o t /\ Reads(Wire, j + 1, t)
  <2>1. j \in 0..Len(Wire) /\ j # Len(Wire)
    BY <1>1
  <2> QED
    BY <1>1, <2>1, ReadsFirst
<1>3. j + 1 \in 1..Len(sent)
  BY <1>1
<1> DEFINE p == Wire[j + 1]
<1>4. p \in Seq(Byte) /\ Len(p) >= 2 /\ p[1] = 0
  <2> DEFINE z == Size(sent[j + 1])
             b == Terminated(sent[j + 1])
  <2>1. z \in Seq(Byte) /\ Len(z) = 2 /\ z[1] = 0 /\ b \in Seq(Byte) /\ Len(b) \in Nat
    BY <1>1, <1>3, Request, LenProperties
  <2>2. p = z \/ p = z \o b
    BY <1>1, <1>3 DEF Part
  <2> HIDE DEF z, b, p
  <2>3. /\ z \o b \in Seq(Byte) /\ Len(z \o b) = Len(z) + Len(b)
        /\ \A i \in 1..Len(z) + Len(b) : (z \o b)[i] = IF i <= Len(z) THEN z[i] ELSE b[i - Len(z)]
    BY <2>1, ConcatProperties
  <2>4. z \o b \in Seq(Byte) /\ Len(z \o b) >= 2 /\ (z \o b)[1] = 0
    BY <2>1, <2>3
  <2>5. CASE p = z
    <3>1. Len(z) >= 2
      BY <2>1
    <3> QED
      BY <2>1, <2>5, <3>1, Zenon
  <2>6. CASE p = z \o b
    BY <2>4, <2>6, Zenon
  <2> QED
    BY <2>2, <2>5, <2>6
<1> HIDE DEF p
<1>5. /\ p \o t \in Seq(Byte) /\ Len(p \o t) = Len(p) + Len(t) /\ Len(t) \in Nat /\ Len(p) \in Nat
      /\ \A i \in 1..Len(p) + Len(t) : (p \o t)[i] = IF i <= Len(p) THEN p[i] ELSE t[i - Len(p)]
  BY <1>4, ConcatProperties, LenProperties
<1>6. Len(p \o t) >= 2 /\ (p \o t)[1] = 0
  BY <1>4, <1>5
<1> QED
  BY <1>2, <1>5, <1>6 DEF p

(* The server reads a text: what has come of the next request, whatever    *)
(* else follows it.                                                        *)
LEMMA NextRequest ==
  ASSUME TypeOK, link = "up", InTouch, s_pc = "recv_body", s_len # 0, c2s # <<>>
  PROVE  /\ sent \in Seq(Payloads) /\ InOrder /\ Len(served) + 1 \in 1..Len(sent)
         /\ sent[Len(served) + 1] \in Payloads
         /\ s_len = Len(Terminated(sent[Len(served) + 1]))
         /\ c_pc = "send_body" => Len(served) + 1 # Len(sent)
         /\ \E t \in Seq(Byte) : /\ c2s = Terminated(sent[Len(served) + 1]) \o t
                                 /\ Reads(Wire, Len(served) + 1, t)
<1>1. sent \in Seq(Payloads) /\ Aligned
  BY DEF InTouch, Misled, Doomed
<1>2. /\ Wire \in Seq(Seq(Byte)) /\ Len(Wire) = Len(sent) /\ Len(sent) \in Nat
      /\ \A i \in 1..Len(sent) : Wire[i] = Part(i) /\ sent[i] \in Payloads
  BY <1>1, WireTyped
<1>3. c2s \in Seq(Byte) /\ Len(served) \in Nat
  BY LenProperties DEF TypeOK
<1>4. /\ TwoBytes(s_len) \in Seq(Byte) /\ Len(TwoBytes(s_len)) = 2
      /\ s_len \in Nat /\ s_len < Words /\ Pending \in Seq(Byte)
  BY PendingTyped
<1>5. PICK j \in 0..Len(Wire) : j = Len(served) /\ Reads(Wire, j, Pending)
  BY <1>1, <1>2, <1>3 DEF Aligned, InOrder
<1>6. Pending = TwoBytes(s_len) \o c2s
  BY DEF Pending
<1>7. j # Len(Wire)
  <2> SUFFICES ASSUME j = Len(Wire) PROVE FALSE
    OBVIOUS
  <2>1. Pending = <<>>
    BY <1>2, <1>5, ReadsTyped
  <2>2. c2s = <<>>
    <3>1. Len(TwoBytes(s_len) \o c2s) = 2 + Len(c2s) /\ Len(c2s) \in Nat
      <4> DEFINE z == TwoBytes(s_len)
      <4>1. z \in Seq(Byte) /\ Len(z) = 2
        BY <1>4
      <4> HIDE DEF z
      <4>2. Len(z \o c2s) = Len(z) + Len(c2s) /\ Len(c2s) \in Nat
        BY <1>3, <4>1, ConcatProperties, LenProperties
      <4> QED
        BY <4>1, <4>2 DEF z
    <3>2. Len(TwoBytes(s_len) \o c2s) = 0
      BY <1>6, <2>1
    <3> QED
      BY <3>1, <3>2
  <2> QED
    BY <2>2
<1>8. PICK t \in Seq(Byte) : Pending = Wire[j + 1] \o t /\ Reads(Wire, j + 1, t)
  BY <1>2, <1>5, <1>7, ReadsFirst
<1>9. PICK k \in 1..Len(sent) : k = j + 1
  BY <1>2, <1>5, <1>7
<1>10. Wire[k] = Part(k) /\ sent[k] \in Payloads /\ Reads(Wire, k, t) /\ Pending = Part(k) \o t
  BY <1>2, <1>8, <1>9
<1> DEFINE body == Terminated(sent[k])
<1>11. /\ body \in Seq(Byte) /\ Len(body) \in Nat /\ Len(body) < Words
       /\ Size(sent[k]) = TwoBytes(Len(body)) /\ Size(sent[k]) \in Seq(Byte)
  BY <1>10, Request DEF Size
<1>12. ~(k = Len(sent) /\ c_pc = "send_body")
  <2> SUFFICES ASSUME k = Len(sent), c_pc = "send_body" PROVE FALSE
    OBVIOUS
  <2>1. k \in 0..Len(Wire) /\ k = Len(Wire)
    BY <1>2
  <2>2. t = <<>>
    BY <1>2, <1>10, <2>1, ReadsTyped
  <2>3. Part(k) = TwoBytes(Len(body))
    BY <1>11 DEF Part
  <2> HIDE DEF body
  <2>4. TwoBytes(s_len) \o c2s = TwoBytes(Len(body)) \o t
    BY <1>6, <1>10, <2>3
  <2>5. c2s = t
    BY <1>3, <1>4, <1>11, <2>4, Prefixed, Zenon
  <2> QED
    BY <2>2, <2>5
<1>13. Part(k) = TwoBytes(Len(body)) \o body
  BY <1>11, <1>12 DEF Part
<1> HIDE DEF body
<1>14. TwoBytes(s_len) \o c2s = TwoBytes(Len(body)) \o (body \o t)
  <2> DEFINE z == TwoBytes(Len(body))
  <2>1. z \in Seq(Byte)
    BY <1>11
  <2>2. Pending = (z \o body) \o t
    BY <1>10, <1>13, Zenon
  <2> HIDE DEF z
  <2>3. (z \o body) \o t = z \o (body \o t)
    BY <1>11, <2>1, Regrouped, Zenon
  <2> QED
    BY <1>6, <2>2, <2>3, Zenon DEF z
<1>15. body \o t \in Seq(Byte)
  BY <1>11, ConcatProperties
<1>16. s_len = Len(body) /\ c2s = body \o t
  BY <1>3, <1>4, <1>11, <1>14, <1>15, Prefixed, Zenon
<1>17. k = Len(served) + 1 /\ InOrder
  BY <1>1, <1>5, <1>9 DEF Aligned
<1> QED
  BY <1>1, <1>9, <1>10, <1>12, <1>16, <1>17 DEF body

(* No byte of a plain text can begin a length.                             *)
LEMMA PlainText ==
  ASSUME sent \in Seq(Payloads), Plain, NEW k \in 1..Len(sent), NEW i \in 1..Len(sent[k])
  PROVE  sent[k][i] > 4
<1>1. sent[k] \in Seq(Text)
  BY ElementOfSeq, Request
<1>2. sent[k][i] \in Byte /\ sent[k][i] # 0
  BY <1>1, ElementOfSeq DEF Text
<1>3. sent[k][i] \in Int /\ 0 <= sent[k][i] /\ sent[k][i] \notin 1..4
  BY <1>2, ByteIs DEF Plain
<1> QED
  BY <1>2, <1>3

(* What is said is the beginning of the text, up to its end at the most.   *)
Heard(text, t, s, n) ==
  /\ n \in 1..Len(s) /\ Len(s) = Len(text) + 1 + Len(t)
  /\ String(First(n, s)) = IF n <= Len(text) THEN First(n, text) ELSE text
  /\ n <= Len(text) => s[n + 1] = 0 \/ s[n + 1] > 4
  /\ n < Len(text) => s[n + 1] > 4
  /\ \A i \in 1..Len(t) : s[Len(text) + 1 + i] = t[i]

(* ... so much is what the server hears of a text.                         *)
LEMMA SaidIs ==
  \A text \in Payloads : \A t \in Seq(Byte) : \A s : \A n \in 1..Len(Terminated(text)) :
    (\A i \in 1..Len(text) : text[i] > 4) /\ s = Terminated(text) \o t => Heard(text, t, s, n)
<1> SUFFICES ASSUME NEW text \in Payloads, NEW t \in Seq(Byte), NEW s,
                    NEW n \in 1..Len(Terminated(text)), s = Terminated(text) \o t,
                    \A i \in 1..Len(text) : text[i] > 4
             PROVE  Heard(text, t, s, n)
  OBVIOUS
<1> DEFINE body == Terminated(text)
<1>1. /\ text \in Seq(Text) /\ Len(text) \in Nat /\ 1 <= Len(text) /\ \A i \in 1..Len(text) : text[i] > 4
      /\ body \in Seq(Byte) /\ Len(body) = Len(text) + 1
      /\ (\A i \in 1..Len(text) : body[i] = text[i]) /\ body[Len(text) + 1] = 0
  BY Request
<1>2. text \in Seq(Byte)
  BY <1>1, SeqMonotonic DEF Text
<1> HIDE DEF body
<1>3. /\ s \in Seq(Byte) /\ Len(s) = Len(body) + Len(t) /\ Len(t) \in Nat
      /\ \A i \in 1..Len(body) + Len(t) : s[i] = IF i <= Len(body) THEN body[i] ELSE t[i - Len(body)]
  <2>1. s = body \o t
    BY DEF body
  <2>2. /\ body \o t \in Seq(Byte) /\ Len(body \o t) = Len(body) + Len(t) /\ Len(t) \in Nat
        /\ \A i \in 1..Len(body) + Len(t) : (body \o t)[i] = IF i <= Len(body) THEN body[i] ELSE t[i - Len(body)]
    BY <1>1, ConcatProperties, LenProperties, ZenonT(60)
  <2> QED
    BY <2>1, <2>2, Zenon
<1>4. n \in 1..Len(text) + 1
  BY <1>1 DEF body
<1>5. n \in 1..Len(s) /\ n \in 0..Len(s) /\ Len(s) = Len(text) + 1 + Len(t)
  BY <1>1, <1>3, <1>4
<1>6. (\A i \in 1..Len(text) : s[i] = text[i]) /\ s[Len(text) + 1] = 0
  <2>1. ASSUME NEW i \in 1..Len(text) + 1 PROVE s[i] = body[i]
    BY <1>1, <1>3
  <2>2. Len(text) + 1 \in 1..Len(text) + 1 /\ \A i \in 1..Len(text) : i \in 1..Len(text) + 1
    BY <1>1
  <2> QED
    BY <1>1, <2>1, <2>2
<1>7. \A i \in 1..Len(t) : s[Len(text) + 1 + i] = t[i]
  <2> TAKE i \in 1..Len(t)
  <2>1. PICK x \in 1..Len(body) + Len(t) : x = Len(text) + 1 + i
    BY <1>1, <1>3
  <2>2. ~(x <= Len(body)) /\ x - Len(body) = i
    BY <1>1, <1>3, <2>1
  <2> QED
    BY <1>3, <2>1, <2>2
<1>8. /\ First(n, s) \in Seq(Byte) /\ Len(First(n, s)) = n
      /\ \A i \in 1..n : First(n, s)[i] = s[i]
  BY <1>3, <1>5, FirstAfter
<1>9. CASE n <= Len(text)
  <2>1. n \in 0..Len(text) /\ n + 1 \in 1..Len(text) + 1
    BY <1>1, <1>4, <1>9
  <2>2. \A i \in 1..n : First(n, s)[i] = text[i] /\ First(n, s)[i] # 0
    <3> TAKE i \in 1..n
    <3>1. i \in 1..Len(text)
      BY <1>1, <2>1
    <3>2. text[i] # 0
      BY <1>1, <3>1
    <3> QED
      BY <1>6, <1>8, <3>1, <3>2
  <2>3. String(First(n, s)) = First(n, First(n, s))
    <3>1. n \in 0..Len(First(n, s)) /\ ~(n < Len(First(n, s)))
      BY <1>8, <2>1
    <3> QED
      BY <1>8, <2>2, <3>1, StringEnds
  <2>4. First(n, First(n, s)) = First(n, s)
    BY <1>8, SubSeqFull DEF First
  <2>5. First(n, text) = First(n, s)
    <3>1. /\ First(n, text) \in Seq(Byte) /\ Len(First(n, text)) = n
          /\ \A i \in 1..n : First(n, text)[i] = text[i]
      BY <1>2, <2>1, FirstAfter
    <3>2. \A i \in 1..Len(First(n, text)) : First(n, text)[i] = First(n, s)[i]
      BY <2>2, <3>1
    <3> QED
      BY <1>8, <3>1, <3>2, SeqEqual
  <2>7. n < Len(text) => s[n + 1] > 4
    <3> SUFFICES ASSUME n < Len(text) PROVE s[n + 1] > 4
      OBVIOUS
    <3>1. n + 1 \in 1..Len(text)
      BY <1>1, <2>1
    <3>2. \A i \in 1..Len(text) : s[i] > 4
      BY <1>1, <1>6
    <3> QED
      BY <3>1, <3>2
  <2>6. s[n + 1] = 0 \/ s[n + 1] > 4
    <3>1. n < Len(text) \/ n + 1 = Len(text) + 1
      BY <1>1, <1>9, <2>1
    <3> QED
      BY <1>6, <2>7, <3>1
  <2> QED
    BY <1>5, <1>7, <1>9, <2>3, <2>4, <2>5, <2>6, <2>7 DEF Heard
<1>10. CASE ~(n <= Len(text))
  <2>1. n = Len(text) + 1
    BY <1>1, <1>4, <1>10
  <2> DEFINE head == First(n, s)
             m == Len(text)
  <2>2. /\ head \in Seq(Byte) /\ Len(head) = m + 1 /\ m \in Nat
        /\ (\A i \in 1..m : head[i] = text[i] /\ head[i] # 0) /\ head[m + 1] = 0
    <3>1. \A i \in 1..m : i \in 1..n
      BY <1>1, <2>1
    <3>2. \A i \in 1..m : text[i] # 0
      BY <1>1
    <3>3. m + 1 \in 1..n
      BY <1>1, <2>1
    <3> QED
      BY <1>1, <1>6, <1>8, <2>1, <3>1, <3>2, <3>3
  <2> HIDE DEF head
  <2>3. String(head) = First(m, head)
    <3>1. m \in 0..Len(head)
      BY <2>2
    <3> QED
      BY <2>2, <3>1, StringEnds
  <2>4. First(m, head) = text
    <3>1. m \in 0..Len(head)
      BY <2>2
    <3>2. /\ First(m, head) \in Seq(Byte) /\ Len(First(m, head)) = m
          /\ \A i \in 1..m : First(m, head)[i] = head[i]
      BY <2>2, <3>1, FirstAfter, ZenonT(60)
    <3>3. \A i \in 1..Len(First(m, head)) : First(m, head)[i] = text[i]
      BY <2>2, <3>2
    <3> QED
      BY <1>2, <3>2, <3>3, SeqEqual
  <2> QED
    BY <1>5, <1>7, <1>10, <2>3, <2>4 DEF head, Heard
<1> QED
  BY <1>9, <1>10

(* What RecvBody reads: as much of the next request as has come.           *)
LEMMA RecvBodyIs ==
  ASSUME TypeOK, Plain, InTouch, RecvBody
  PROVE  \E text \in Payloads, n \in Nat, t \in Seq(Byte) :
           /\ n \in 1..Len(Terminated(text))
           /\ sent \in Seq(Payloads) /\ InOrder
           /\ Len(served) + 1 \in 1..Len(sent) /\ text = sent[Len(served) + 1]
           /\ c_pc = "send_body" => Len(served) + 1 # Len(sent)
           /\ c2s = Terminated(text) \o t /\ Reads(Wire, Len(served) + 1, t)
           /\ served' = Append(served, IF n <= Len(text) THEN First(n, text) ELSE text)
           /\ sent' = sent
           /\ link' = "up" => c2s' = After(n, c2s) /\ s_pc' # "recv_body" /\ c_pc' = c_pc
<1>1. PICK n \in Taken(c2s, s_len) :
        /\ served' = Append(served, String(First(n, c2s)))
        /\ \/ c2s' = After(n, c2s) /\ s_pc' \in {"select", "send_len"} /\ UNCHANGED client
           \/ \E how \in {"closed", "dead"} : Close(how, After(n, c2s))
  BY DEF RecvBody, Fate
<1>2. s_pc = "recv_body" /\ link = "up" /\ sent' = sent
  BY DEF RecvBody
<1>3. c2s \in Seq(Byte) /\ s_len \in Nat
  BY PendingTyped DEF TypeOK
<1>4. n \in Int /\ 1 <= n /\ n <= s_len /\ n <= Len(c2s)
  BY <1>1, <1>3, TakenIs
<1>5. s_len # 0 /\ c2s # <<>>
  <2>1. c2s = <<>> => Len(c2s) = 0
    OBVIOUS
  <2> QED
    BY <1>3, <1>4, <2>1
<1>6. /\ sent \in Seq(Payloads) /\ InOrder /\ Len(served) + 1 \in 1..Len(sent)
      /\ sent[Len(served) + 1] \in Payloads
      /\ s_len = Len(Terminated(sent[Len(served) + 1]))
      /\ c_pc = "send_body" => Len(served) + 1 # Len(sent)
      /\ \E t \in Seq(Byte) : /\ c2s = Terminated(sent[Len(served) + 1]) \o t
                              /\ Reads(Wire, Len(served) + 1, t)
  BY <1>2, <1>5, NextRequest
<1>7. PICK text \in Payloads : text = sent[Len(served) + 1]
  BY <1>6
<1>8. PICK t \in Seq(Byte) : c2s = Terminated(text) \o t /\ Reads(Wire, Len(served) + 1, t)
  BY <1>6, <1>7
<1>9. n \in Nat /\ n \in 1..Len(Terminated(text))
  BY <1>3, <1>4, <1>6, <1>7
<1>10. String(First(n, c2s)) = IF n <= Len(text) THEN First(n, text) ELSE text
  <2>1. \A i \in 1..Len(text) : text[i] > 4
    BY <1>6, <1>7, PlainText
  <2> QED
    BY <1>8, <1>9, <2>1, SaidIs, Zenon DEF Heard
<1>11. served' = Append(served, IF n <= Len(text) THEN First(n, text) ELSE text)
  BY <1>1, <1>10
<1>12. link' = "up" => c2s' = After(n, c2s) /\ s_pc' # "recv_body" /\ c_pc' = c_pc
  BY <1>1 DEF Close, client
<1> QED
  BY <1>2, <1>6, <1>7, <1>8, <1>9, <1>11, <1>12

(* The server reads a request: none but the last is cut short.             *)
LEMMA RecvBodyCut ==
  ASSUME TypeOK, Plain, InTouch, RecvBody
  PROVE  Truncated'
<1>1. PICK text \in Payloads, n \in Nat :
        /\ n \in 1..Len(Terminated(text))
        /\ sent \in Seq(Payloads) /\ InOrder
        /\ Len(served) + 1 \in 1..Len(sent) /\ text = sent[Len(served) + 1]
        /\ served' = Append(served, IF n <= Len(text) THEN First(n, text) ELSE text)
        /\ sent' = sent
  BY RecvBodyIs
<1> DEFINE said == IF n <= Len(text) THEN First(n, text) ELSE text
           j    == Len(served)
<1>2. /\ text \in Seq(Text) /\ Len(text) \in Nat /\ 1 <= Len(text)
      /\ Len(Terminated(text)) = Len(text) + 1
  BY Request
<1>3. said \in Seq(Text) /\ said # <<>> /\ IsPrefix(said, text)
  <2>1. CASE n <= Len(text)
    <3>1. n \in 0..Len(text) /\ n >= 1
      BY <1>1, <1>2, <2>1
    <3>2. First(n, text) \in Seq(Text) /\ Len(First(n, text)) = n
      BY <1>2, <3>1, FirstAfter
    <3>3. SubSeq(First(n, text), 1, n) = First(n, text)
      BY <3>2, SubSeqFull
    <3>4. IsPrefix(First(n, text), text)
      BY <2>1, <3>2, <3>3 DEF IsPrefix, First
    <3>5. First(n, text) # <<>>
      BY <3>1, <3>2
    <3> QED
      BY <2>1, <3>2, <3>4, <3>5
  <2>2. CASE ~(n <= Len(text))
    <3>1. text # <<>> /\ IsPrefix(text, text)
      BY <1>2 DEF IsPrefix
    <3> QED
      BY <1>2, <2>2, <3>1
  <2> QED
    BY <2>1, <2>2
<1> HIDE DEF said
<1>4. served' = Append(served, said)
  BY <1>1 DEF said
<1>5. served \in Seq(Seq(Text)) /\ Len(served) \in Nat /\ Len(sent) \in Nat
  BY <1>1, TypeParts, LenProperties DEF LogTyped
<1>6. /\ Len(served') = j + 1 /\ served'[j + 1] = said
      /\ \A i \in 1..j : served'[i] = served[i]
  BY <1>3, <1>4, <1>5, AppendProperties
<1>7. j + 1 <= Len(sent) /\ text = sent[j + 1] /\ \A i \in 1..j : served[i] = sent[i]
  BY <1>1, <1>5 DEF InOrder
<1>8. \A i \in 1..j : sent[i] # <<>> /\ IsPrefix(sent[i], sent[i])
  <2> TAKE i \in 1..j
  <2>1. i \in 1..Len(sent)
    BY <1>5, <1>7
  <2>2. sent[i] \in Payloads
    BY <1>1, <2>1, ElementOfSeq
  <2>3. Len(sent[i]) \in Nat /\ 1 <= Len(sent[i])
    BY <2>2, Request
  <2> QED
    BY <2>3 DEF IsPrefix
<1>9. \A i \in 1..j + 1 : i \in 1..j \/ i = j + 1
  BY <1>5
<1> SUFFICES ASSUME NEW i \in 1..Len(served')
             PROVE  /\ served'[i] # <<>> /\ IsPrefix(served'[i], sent'[i])
                    /\ i < Len(served') => served'[i] = sent'[i]
  <2>1. Len(served') <= Len(sent')
    BY <1>1, <1>6, <1>7
  <2> QED
    BY <2>1 DEF Truncated, IsPrefix
<1>10. CASE i \in 1..j
  BY <1>1, <1>6, <1>7, <1>8, <1>10
<1>11. CASE i = j + 1
  BY <1>1, <1>3, <1>5, <1>6, <1>7, <1>11
<1> QED
  BY <1>6, <1>9, <1>10, <1>11

(* ... and it is the client's next, or the connection is lost.             *)
LEMMA RecvBodyInTouch ==
  ASSUME TypeOK, Plain, InTouch, RecvBody
  PROVE  InTouch'
<1> SUFFICES ASSUME link' = "up"
             PROVE  sent' \in Seq(Payloads) /\ (Aligned \/ Misled \/ Doomed)'
  BY DEF InTouch
<1>1. PICK text \in Payloads, n \in Nat, t \in Seq(Byte) :
        /\ n \in 1..Len(Terminated(text))
        /\ sent \in Seq(Payloads) /\ InOrder
        /\ Len(served) + 1 \in 1..Len(sent) /\ text = sent[Len(served) + 1]
        /\ c_pc = "send_body" => Len(served) + 1 # Len(sent)
        /\ c2s = Terminated(text) \o t /\ Reads(Wire, Len(served) + 1, t)
        /\ served' = Append(served, IF n <= Len(text) THEN First(n, text) ELSE text)
        /\ sent' = sent
        /\ c2s' = After(n, c2s) /\ s_pc' # "recv_body" /\ c_pc' = c_pc
  BY RecvBodyIs
<1>2. /\ text \in Seq(Text) /\ Len(text) \in Nat /\ 1 <= Len(text)
      /\ Len(Terminated(text)) = Len(text) + 1
  BY Request
<1>3. served \in Seq(Seq(Text)) /\ Len(served) \in Nat /\ Len(sent) \in Nat /\ Len(t) \in Nat
      /\ c2s \in Seq(Byte)
  BY <1>1, TypeParts, LenProperties DEF LogTyped, StreamsTyped
<1>4. /\ n \in 1..Len(c2s) /\ Len(c2s) = Len(text) + 1 + Len(t)
      /\ n <= Len(text) => c2s[n + 1] = 0 \/ c2s[n + 1] > 4
      /\ n < Len(text) => c2s[n + 1] > 4
      /\ \A i \in 1..Len(t) : c2s[Len(text) + 1 + i] = t[i]
  <2>1. c2s = Terminated(text) \o t /\ n \in 1..Len(Terminated(text))
    BY <1>1
  <2>3. \A i \in 1..Len(text) : text[i] > 4
    BY <1>1, PlainText
  <2>2. Heard(text, t, c2s, n)
    BY <2>1, <2>3, SaidIs, Zenon
  <2> QED
    BY <2>2 DEF Heard
<1>5. /\ c2s' \in Seq(Byte) /\ Len(c2s') = Len(c2s) - n
      /\ \A i \in 1..Len(c2s) - n : c2s'[i] = c2s[n + i]
  <2>1. n \in 0..Len(c2s)
    BY <1>4
  <2> QED
    BY <1>1, <1>3, <2>1, FirstAfter, ZenonT(60)
<1>6. CASE n <= Len(text)
  <2>1. NoLength(c2s)' /\ (Len(c2s') = 1 => c_pc' # "send_body")
    <3>0. n \in Nat /\ n >= 1
      BY <1>4
    <3>1. Len(c2s') >= 1 /\ c2s'[1] = c2s[n + 1]
      <4>1. Len(c2s) - n >= 1 /\ 1 \in 1..Len(c2s) - n
        BY <1>2, <1>3, <1>4, <1>6, <3>0
      <4> QED
        BY <1>5, <4>1
    <3>2. c2s'[1] = 0 \/ c2s'[1] > 4
      BY <1>4, <1>6, <3>1
    <3>3. Len(served) + 1 # Len(sent) => Len(t) >= 2 /\ t[1] = 0
      <4>1. Len(served) + 1 \in 0..Len(sent)
        BY <1>1, <1>3
      <4> QED
        BY <1>1, <4>1, NextBegins
    <3>4. Len(t) # 0 => Len(served) + 1 # Len(sent)
      <4> SUFFICES ASSUME Len(served) + 1 = Len(sent) PROVE Len(t) = 0
        OBVIOUS
      <4>1. Wire \in Seq(Seq(Byte)) /\ Len(Wire) = Len(sent)
        BY <1>1, WireTyped
      <4>2. Len(served) + 1 \in 0..Len(Wire) /\ Len(served) + 1 = Len(Wire)
        BY <1>3, <4>1
      <4>3. t = <<>>
        BY <1>1, <4>1, <4>2, ReadsTyped
      <4> QED
        BY <4>3
    <3>5. Len(c2s') > 1 /\ ~(c2s'[1] > 4) => c2s'[2] = 0
      <4> SUFFICES ASSUME Len(c2s') > 1, ~(c2s'[1] > 4) PROVE c2s'[2] = 0
        OBVIOUS
      <4>1. n = Len(text)
        BY <1>2, <1>4, <1>6, <3>0, <3>1
      <4>2. 2 \in 1..Len(c2s) - n /\ n + 2 = Len(text) + 1 + 1
        BY <1>2, <1>3, <1>5, <4>1
      <4>3. Len(t) >= 1 /\ 1 \in 1..Len(t)
        BY <1>2, <1>3, <1>4, <1>5, <4>1
      <4>4. c2s'[2] = c2s[n + 2]
        BY <1>5, <4>2
      <4>5. c2s[Len(text) + 1 + 1] = t[1]
        BY <1>4, <4>3
      <4>6. t[1] = 0
        BY <1>3, <3>3, <3>4, <4>3
      <4> QED
        BY <4>2, <4>4, <4>5, <4>6
    <3>6. NoLength(c2s)'
      <4>1. Len(c2s') >= 1 /\ (c2s'[1] > 4 \/ (c2s'[1] = 0 /\ (Len(c2s') > 1 => c2s'[2] = 0)))
        BY <3>1, <3>2, <3>5
      <4> QED
        BY <4>1 DEF NoLength
    <3>7. Len(c2s') = 1 => c_pc' # "send_body"
      <4> SUFFICES ASSUME Len(c2s') = 1, c_pc = "send_body" PROVE FALSE
        BY <1>1
      <4>1. Len(t) >= 2
        BY <1>1, <3>3
      <4> QED
        <5>1. Len(c2s') = (Len(text) + 1 + Len(t)) - n
          BY <1>4, <1>5
        <5>2. Len(text) \in Nat /\ Len(t) \in Nat
          BY <1>2, <1>3
        <5>3. \A a, b, x \in Nat : x <= a /\ b >= 2 => (a + 1 + b) - x # 1
          OBVIOUS
        <5> QED
          BY <1>6, <3>0, <4>1, <5>1, <5>2, <5>3
    <3> QED
      BY <3>6, <3>7
  <2> QED
    BY <1>1, <2>1 DEF Misled
<1>7. CASE ~(n <= Len(text))
  <2>1. n = Len(text) + 1 /\ n \in Nat
    BY <1>1, <1>2, <1>7
  <2>2. c2s' = t
    <3>1. Len(c2s') = Len(t)
      BY <1>2, <1>3, <1>4, <1>5, <2>1
    <3>2. \A i \in 1..Len(c2s') : c2s'[i] = t[i]
      BY <1>2, <1>3, <1>4, <1>5, <2>1, <3>1
    <3> QED
      BY <1>5, <3>1, <3>2, SeqEqual
  <2>3. Pending' = t /\ Wire' = Wire
    <3>1. Pending' = c2s'
      BY <1>1 DEF Pending
    <3>2. Wire' = Wire
      BY <1>1 DEF Wire, Part
    <3> QED
      BY <2>2, <3>1, <3>2
  <2>4. served' = Append(served, text)
    BY <1>1, <1>7
  <2>5. /\ Len(served') = Len(served) + 1 /\ served'[Len(served) + 1] = text
        /\ \A i \in 1..Len(served) : served'[i] = served[i]
    BY <1>2, <1>3, <2>4, AppendProperties
  <2>6. InOrder'
    <3>1. Len(served) <= Len(sent) /\ \A i \in 1..Len(served) : served[i] = sent[i]
      BY <1>1 DEF InOrder
    <3>2. Len(served') <= Len(sent')
      BY <1>1, <1>3, <2>5
    <3>3. \A i \in 1..Len(served') : i \in 1..Len(served) \/ i = Len(served) + 1
      BY <1>3, <2>5
    <3>4. \A i \in 1..Len(served') : served'[i] = sent'[i]
      BY <1>1, <2>5, <3>1, <3>3
    <3> QED
      BY <3>2, <3>4 DEF InOrder
  <2>7. c_pc' = "send_body" => Len(served') < Len(sent')
    BY <1>1, <1>3, <2>5
  <2>8. Reads(Wire, Len(served), Pending)'
    <3>1. Reads(Wire', Len(served'), Pending')
      BY <1>1, <2>3, <2>5
    <3> QED
      BY <3>1 DEF Reads
  <2> QED
    BY <1>1, <2>6, <2>7, <2>8 DEF Aligned
<1> QED
  BY <1>1, <1>6, <1>7

(* What was executed is not changed by what is sent after it.              *)
LEMMA CutStays ==
  ASSUME TypeOK, Truncated, served' = served,
         sent' = sent \/ \E t \in Payloads \cup {<<>>} : sent' = Append(sent, t)
  PROVE  Truncated'
<1>1. sent \in Seq(Payloads \cup {<<>>}) /\ Len(sent) \in Nat /\ Len(served) \in Nat
  BY LenProperties DEF TypeOK
<1>2. Len(served) <= Len(sent)
  BY DEF Truncated
<1>3. Len(served) <= Len(sent') /\ \A i \in 1..Len(served) : sent'[i] = sent[i]
  <2>1. CASE sent' = sent
    BY <1>2, <2>1
  <2>2. ASSUME NEW t \in Payloads \cup {<<>>}, sent' = Append(sent, t)
        PROVE  Len(served) <= Len(sent') /\ \A i \in 1..Len(served) : sent'[i] = sent[i]
    <3>1. Len(sent') = Len(sent) + 1 /\ \A i \in 1..Len(sent) : sent'[i] = sent[i]
      BY <1>1, <2>2, AppendProperties
    <3> QED
      BY <1>1, <1>2, <3>1
  <2> QED
    BY <2>1, <2>2
<1> QED
  BY <1>3 DEF Truncated, IsPrefix

(* What was sent stays sent.                                               *)
LEMMA SentGrows ==
  ASSUME [Next]_vars
  PROVE  sent' = sent \/ \E t \in Payloads \cup {<<>>} : sent' = Append(sent, t)
<1>1. ASSUME NEW text \in Payloads, AskLen(text) PROVE sent' = Append(sent, text)
  BY <1>1 DEF AskLen
<1>2. CASE AskFails
  BY <1>2 DEF AskFails
<1>3. CASE Client
  BY <1>3 DEF Client, AskBody, ReadLen, ReadLenFails, ReadBody, ReadBodyNone, ReadBodyFails, log
<1>4. CASE Server \/ Die
  BY <1>4 DEF Server, RecvLen, RecvBody, RecvNothing, SendLen, SendBody, Send, Die, log
<1>5. CASE UNCHANGED vars
  BY <1>5 DEF vars, log
<1> QED
  BY <1>1, <1>2, <1>3, <1>4, <1>5 DEF Next

(* It is plain if it is with what is sent after it.                        *)
LEMMA PlainWas ==
  ASSUME TypeOK, Plain',
         sent' = sent \/ \E t \in Payloads \cup {<<>>} : sent' = Append(sent, t)
  PROVE  Plain
<1>1. sent \in Seq(Payloads \cup {<<>>}) /\ Len(sent) \in Nat
  BY LenProperties DEF TypeOK
<1>2. CASE sent' = sent
  BY <1>2 DEF Plain
<1>3. ASSUME NEW t \in Payloads \cup {<<>>}, sent' = Append(sent, t) PROVE Plain
  <2>1. Len(sent') = Len(sent) + 1 /\ \A i \in 1..Len(sent) : sent'[i] = sent[i]
    BY <1>1, <1>3, AppendProperties
  <2>2. \A i \in 1..Len(sent) : i \in 1..Len(sent')
    BY <1>1, <2>1
  <2> QED
    BY <2>1, <2>2 DEF Plain
<1> QED
  BY <1>2, <1>3

CutInv == TypeOK /\ Underway /\ (Plain => Truncated /\ InTouch)

(* ... holds when the connection is accepted,                              *)
LEMMA CutInit == Init => CutInv
<1> SUFFICES ASSUME Init PROVE CutInv
  OBVIOUS
<1>1. TypeOK /\ Underway
  BY TypeInit
<1>2. sent = <<>> /\ served = <<>> /\ c2s = <<>> /\ s_pc = "select" /\ c_pc = "idle"
  BY DEF Init
<1>3. <<>> \in Seq(Payloads) /\ Len(<<>>) = 0
  BY EmptySeq
<1>4. InOrder /\ Truncated
  BY <1>2, <1>3 DEF InOrder, Truncated
<1>5. Reads(Wire, Len(served), Pending)
  <2>1. sent \in Seq(Payloads)
    BY <1>2, <1>3
  <2>2. Wire \in Seq(Seq(Byte)) /\ Len(Wire) = 0
    BY <1>2, <1>3, <2>1, WireTyped
  <2>3. Wire = <<>>
    BY <2>2, EmptySeq
  <2>4. Pending = <<>>
    BY <1>2 DEF Pending
  <2> QED
    BY <1>2, <1>3, <2>3, <2>4, ReadsNone
<1>6. InTouch
  BY <1>2, <1>3, <1>4, <1>5 DEF InTouch, Aligned
<1> QED
  BY <1>1, <1>4, <1>6 DEF CutInv

(* ... and every step keeps it.                                            *)
LEMMA CutStep == CutInv /\ [Next]_vars => CutInv'
<1> SUFFICES ASSUME CutInv, [Next]_vars PROVE CutInv'
  OBVIOUS
<1>1. TypeOK' /\ Underway'
  BY TypeStep DEF CutInv
<1>e. <<>> \in Payloads \cup {<<>>}
  OBVIOUS
<1> SUFFICES ASSUME Plain' PROVE Truncated' /\ InTouch'
  BY <1>1 DEF CutInv
<1>0. TypeOK /\ Underway /\ Plain /\ Truncated /\ InTouch
  BY SentGrows, PlainWas DEF CutInv
<1>2. ASSUME NEW text \in Payloads, AskLen(text) PROVE Truncated' /\ InTouch'
  <2>1. served' = served /\ sent' = Append(sent, text)
    BY <1>2 DEF AskLen
  <2> QED
    BY <1>0, <1>2, <2>1, CutStays, AskLenInTouch
<1>3. CASE AskFails
  <2>1. served' = served /\ (sent' = sent \/ sent' = Append(sent, <<>>)) /\ link' = link /\ link # "up"
    BY <1>3 DEF AskFails, server
  <2> QED
    BY <1>0, <1>e, <2>1, CutStays DEF InTouch
<1>4. CASE AskBody
  <2>1. served' = served /\ sent' = sent
    BY <1>4 DEF AskBody, log
  <2> QED
    BY <1>0, <1>4, <2>1, CutStays, AskBodyInTouch
<1>5. CASE ReadLen \/ ReadLenFails \/ ReadBody \/ ReadBodyNone \/ ReadBodyFails
  <2>1. /\ UNCHANGED <<c2s, sent, served, s_len, s_pc, link>>
        /\ c_pc # "send_body" /\ c_pc' # "send_body"
    BY <1>5 DEF ReadLen, ReadLenFails, ReadBody, ReadBodyNone, ReadBodyFails, Result, server, log
  <2> QED
    BY <1>0, <2>1, CutStays, StillInTouch
<1>6. CASE RecvLen
  <2>1. served' = served /\ sent' = sent
    BY <1>6 DEF RecvLen
  <2> QED
    BY <1>0, <1>6, <2>1, CutStays, RecvLenInTouch
<1>7. CASE RecvBody
  BY <1>0, <1>7, RecvBodyCut, RecvBodyInTouch
<1>8. CASE RecvNothing \/ Die
  <2>1. served' = served /\ sent' = sent /\ link' # "up"
    BY <1>8 DEF RecvNothing, Die, Close, log
  <2> QED
    BY <1>0, <2>1, CutStays DEF InTouch
<1>9. CASE SendLen \/ SendBody
  <2>1. /\ UNCHANGED <<c2s, sent, served, s_len, link, c_pc>>
        /\ s_pc # "recv_body" /\ s_pc' # "recv_body"
    BY <1>9 DEF SendLen, SendBody, Send, client, log
  <2> QED
    BY <1>0, <2>1, CutStays, StillInTouch
<1>10. CASE UNCHANGED vars
  <2>1. UNCHANGED <<c2s, sent, served, s_len, s_pc, link, c_pc>>
    BY <1>10 DEF vars, client, server, log
  <2> QED
    BY <1>0, <2>1, CutStays, StillInTouch
<1> QED
  BY <1>2, <1>3, <1>4, <1>5, <1>6, <1>7, <1>8, <1>9, <1>10 DEF Next, Client, Server

(* However TCP cuts what the client sends, as long as it has none of the   *)
(* bytes that may begin an acceptable length, the server executes the      *)
(* requests in the order they were sent and whole, but that the last may   *)
(* be the beginning of one: what is left of it is no length.               *)
THEOREM CutOnceAtMost == Spec => []OnlyLastCut
<1>1. CutInv => OnlyLastCut
  BY DEF CutInv, OnlyLastCut
<1> QED
  BY <1>1, CutInit, CutStep, PTL DEF Spec

-----------------------------------------------------------------------------
(* What the server writes into its buffers. *)

(* Of so many bytes as request has, one is NUL.                            *)
Within(s) == \A i \in 0..(Len(s) - RequestLen) : \E j \in 1..RequestLen : s[i + j] = 0

(* It is so of all that is on the way, and the last text of it has ended,  *)
(* or its length has been sent and it comes next.                          *)
Ended(s)  == Len(s) >= 1 => s[Len(s)] = 0
Begun(s)  == Len(s) >= 2 => s[Len(s) - 1] = 0
Stopped   ==
  /\ Within(c2s)
  /\ IF c_pc = "send_body" THEN Begun(c2s) ELSE Ended(c2s)
  /\ link # "up" => c2s = <<>>
Fits      == \A i \in 1..Len(served) : Len(served[i]) < RequestLen
Short     == Plain => s_len < MAX_LEN

(* The length of a buffer.                                                 *)
LEMMA RequestLenIs == RequestLen \in Nat /\ RequestLen >= 2
  BY BoundsAssumption DEF BoundsAssumption

(* Nothing has none that are not.                                          *)
LEMMA NothingStopped == Within(<<>>) /\ Begun(<<>>) /\ Ended(<<>>)
<1>1. Len(<<>>) = 0
  BY EmptySeq
<1>2. 0..(0 - RequestLen) = {}
  BY RequestLenIs
<1> QED
  BY <1>1, <1>2 DEF Within, Begun, Ended

(* A length is sent after a text,                                          *)
LEMMA LengthSent ==
  ASSUME NEW s \in Seq(Byte), Within(s), Ended(s),
         NEW p \in Seq(Byte), Len(p) = 2, p[1] = 0, RequestLen >= 3
  PROVE  Within(s \o p) /\ Begun(s \o p)
<1> DEFINE t == s \o p
           k == Len(s)
<1>1. /\ k \in Nat /\ t \in Seq(Byte) /\ Len(t) = k + 2
      /\ \A i \in 1..k + 2 : t[i] = IF i <= k THEN s[i] ELSE p[i - k]
  <2>1. /\ t \in Seq(Byte) /\ Len(t) = k + Len(p) /\ k \in Nat
        /\ \A i \in 1..k + Len(p) : t[i] = IF i <= k THEN s[i] ELSE p[i - k]
    BY ConcatProperties, LenProperties, Zenon
  <2> HIDE DEF t, k
  <2>2. k + Len(p) = k + 2
    BY <2>1
  <2> QED
    BY <2>1, <2>2
<1> HIDE DEF t
<1>2. \A i \in 1..k : t[i] = s[i]
  BY <1>1
<1>3. t[k + 1] = 0
  <2>1. k + 1 \in 1..k + 2 /\ ~(k + 1 <= k) /\ (k + 1) - k = 1
    BY <1>1
  <2> QED
    BY <1>1, <2>1
<1>4. Begun(t)
  <2>1. Len(t) - 1 = k + 1
    BY <1>1
  <2> QED
    BY <1>3, <2>1 DEF Begun
<1>5. Within(t)
  <2> SUFFICES ASSUME NEW i \in 0..(Len(t) - RequestLen)
               PROVE  \E j \in 1..RequestLen : t[i + j] = 0
    BY DEF Within
  <2>1. i \in Nat /\ i + RequestLen <= k + 2
    BY <1>1, RequestLenIs
  <2>2. CASE i + RequestLen <= k
    <3>1. i \in 0..(Len(s) - RequestLen)
      BY <1>1, <2>1, <2>2, RequestLenIs
    <3>2. PICK j \in 1..RequestLen : s[i + j] = 0
      BY <3>1 DEF Within
    <3>3. i + j \in 1..k
      BY <1>1, <2>1, <2>2, RequestLenIs
    <3> QED
      BY <1>2, <3>2, <3>3
  <2>3. CASE ~(i + RequestLen <= k)
    <3>1. (k + 1) - i \in 1..RequestLen /\ i + ((k + 1) - i) = k + 1
      BY <1>1, <2>1, <2>3, RequestLenIs
    <3> QED
      BY <1>3, <3>1
  <2> QED
    BY <2>2, <2>3
<1> QED
  BY <1>4, <1>5 DEF t

(* ... and a text after its length.                                        *)
LEMMA TextSent ==
  ASSUME NEW s \in Seq(Byte), Within(s), Begun(s),
         NEW p \in Seq(Byte), NEW m \in Nat, Len(p) = m + 1, p[m + 1] = 0, m + 2 <= RequestLen
  PROVE  Within(s \o p) /\ Ended(s \o p)
<1> DEFINE t == s \o p
           k == Len(s)
<1>1. /\ k \in Nat /\ t \in Seq(Byte) /\ Len(t) = k + m + 1
      /\ \A i \in 1..k + m + 1 : t[i] = IF i <= k THEN s[i] ELSE p[i - k]
  <2>1. /\ t \in Seq(Byte) /\ Len(t) = k + Len(p) /\ k \in Nat
        /\ \A i \in 1..k + Len(p) : t[i] = IF i <= k THEN s[i] ELSE p[i - k]
    BY ConcatProperties, LenProperties, Zenon
  <2> HIDE DEF t, k
  <2>2. k + Len(p) = k + m + 1
    BY <2>1
  <2> QED
    BY <2>1, <2>2
<1> HIDE DEF t
<1>2. \A i \in 1..k : t[i] = s[i]
  BY <1>1
<1>3. t[k + m + 1] = 0
  <2>1. k + m + 1 \in 1..k + m + 1 /\ ~(k + m + 1 <= k) /\ (k + m + 1) - k = m + 1
    BY <1>1
  <2> QED
    BY <1>1, <2>1
<1>4. Ended(t)
  BY <1>1, <1>3 DEF Ended
<1>5. Within(t)
  <2> SUFFICES ASSUME NEW i \in 0..(Len(t) - RequestLen)
               PROVE  \E j \in 1..RequestLen : t[i + j] = 0
    BY DEF Within
  <2>1. i \in Nat /\ i + RequestLen <= k + m + 1
    BY <1>1, RequestLenIs
  <2>2. CASE i + RequestLen <= k
    <3>1. i \in 0..(Len(s) - RequestLen)
      BY <1>1, <2>1, <2>2, RequestLenIs
    <3>2. PICK j \in 1..RequestLen : s[i + j] = 0
      BY <3>1 DEF Within
    <3>3. i + j \in 1..k
      BY <1>1, <2>1, <2>2, RequestLenIs
    <3> QED
      BY <1>2, <3>2, <3>3
  <2>3. CASE i + RequestLen = k + m + 1
    <3>1. RequestLen \in 1..RequestLen /\ i + RequestLen = k + m + 1
      BY <2>3, RequestLenIs
    <3> QED
      BY <1>3, <3>1
  <2>4. CASE i + RequestLen > k /\ i + RequestLen <= k + m
    <3>1. k >= 2 /\ k - 1 \in 1..k /\ (k - 1) - i \in 1..RequestLen /\ i + ((k - 1) - i) = k - 1
      BY <1>1, <2>1, <2>4, RequestLenIs
    <3>2. s[k - 1] = 0
      BY <3>1 DEF Begun
    <3> QED
      BY <1>2, <3>1, <3>2
  <2> QED
    BY <1>1, <2>1, <2>2, <2>3, <2>4, RequestLenIs
<1> QED
  BY <1>4, <1>5 DEF t

(* What is received is off the way.                                        *)
LEMMA RestStopped ==
  ASSUME NEW s \in Seq(Byte), NEW n \in 0..Len(s), Within(s)
  PROVE  /\ Within(After(n, s))
         /\ Begun(s) => Begun(After(n, s))
         /\ Ended(s) => Ended(After(n, s))
<1> DEFINE t == After(n, s)
           k == Len(s)
<1>1. /\ k \in Nat /\ n \in Nat /\ Len(t) = k - n /\ \A i \in 1..k - n : t[i] = s[n + i]
  <2>1. k \in Nat /\ Len(t) = k - n /\ \A i \in 1..k - n : t[i] = s[n + i]
    BY FirstAfter, LenProperties, Zenon
  <2>2. \A x \in Nat : n \in 0..x => n \in Nat
    OBVIOUS
  <2> HIDE DEF t
  <2> QED
    BY <2>1, <2>2
<1> HIDE DEF t
<1>2. Within(t)
  <2> SUFFICES ASSUME NEW i \in 0..(Len(t) - RequestLen)
               PROVE  \E j \in 1..RequestLen : t[i + j] = 0
    BY DEF Within
  <2>1. i \in Nat /\ i + RequestLen <= k - n /\ n + i \in 0..(Len(s) - RequestLen)
    BY <1>1, RequestLenIs
  <2>2. PICK j \in 1..RequestLen : s[(n + i) + j] = 0
    BY <2>1 DEF Within
  <2>3. i + j \in 1..k - n /\ n + (i + j) = (n + i) + j
    BY <1>1, <2>1, RequestLenIs
  <2> QED
    BY <1>1, <2>2, <2>3
<1>3. Begun(s) => Begun(t)
  <2> SUFFICES ASSUME Begun(s), Len(t) >= 2 PROVE t[Len(t) - 1] = 0
    BY DEF Begun
  <2>1. k >= 2 /\ Len(t) - 1 \in 1..k - n /\ n + (Len(t) - 1) = k - 1
    BY <1>1
  <2> QED
    BY <1>1, <2>1 DEF Begun
<1>4. Ended(s) => Ended(t)
  <2> SUFFICES ASSUME Ended(s), Len(t) >= 1 PROVE t[Len(t)] = 0
    BY DEF Ended
  <2>1. k >= 1 /\ Len(t) \in 1..k - n /\ n + Len(t) = k
    BY <1>1
  <2> QED
    BY <1>1, <2>1 DEF Ended
<1> QED
  BY <1>2, <1>3, <1>4 DEF t

(* The string that such bytes begin with fits request.                     *)
LEMMA StringFits ==
  ASSUME NEW s \in Seq(Byte), NEW n \in 0..Len(s), Within(s)
  PROVE  Len(String(First(n, s))) < RequestLen
<1> DEFINE u == First(n, s)
<1>1. u \in Seq(Byte) /\ Len(u) = n /\ (\A i \in 1..n : u[i] = s[i]) /\ Len(s) \in Nat
  BY FirstAfter, LenProperties
<1> HIDE DEF u
<1>2. /\ Len(String(u)) \in Nat /\ Len(String(u)) <= n
      /\ \A i \in 1..Len(String(u)) : u[i] # 0
  BY <1>1, StringIsText, LenProperties
<1> SUFFICES ASSUME Len(String(u)) >= RequestLen PROVE FALSE
  BY <1>2, RequestLenIs DEF u
<1>3. 0 \in 0..(Len(s) - RequestLen)
  BY <1>1, <1>2, RequestLenIs
<1>4. PICK j \in 1..RequestLen : s[0 + j] = 0
  BY <1>3 DEF Within
<1>5. 0 + j = j /\ j \in 1..n /\ j \in 1..Len(String(u))
  BY <1>1, <1>2, RequestLenIs
<1> QED
  BY <1>1, <1>2, <1>4, <1>5

(* The client sends a request of which the NUL is in time.                 *)
LEMMA AskStopped ==
  ASSUME TypeOK, Underway, Stopped, (\E text \in Payloads : AskLen(text)) \/ AskBody
  PROVE  Stopped'
<1>1. c2s \in Seq(Byte) /\ Within(c2s) /\ UNCHANGED link
  BY DEF TypeOK, Stopped, AskLen, AskBody, server
<1>2. ASSUME NEW text \in Payloads, AskLen(text) PROVE Stopped'
  <2>1. /\ c_pc = "idle" /\ c_pc' = "send_body"
        /\ IF link = "up" THEN c2s' = c2s \o Size(text) ELSE c2s' = c2s
    BY <1>2 DEF AskLen, Transmit, Size
  <2>2. Size(text) \in Seq(Byte) /\ Len(Size(text)) = 2 /\ Size(text)[1] = 0
    BY Request
  <2>3. RequestLen >= 3
    <3>1. Len(text) \in Nat /\ 1 <= Len(text) /\ Len(text) + 1 < RequestLen
      BY Request
    <3> QED
      BY <3>1, RequestLenIs
  <2>4. CASE link = "up"
    <3>1. Ended(c2s)
      BY <2>1 DEF Stopped
    <3>2. Within(c2s \o Size(text)) /\ Begun(c2s \o Size(text))
      BY <1>1, <2>2, <2>3, <3>1, LengthSent
    <3> QED
      BY <1>1, <2>1, <2>4, <3>2 DEF Stopped, Within, Begun
  <2>5. CASE link # "up"
    <3>1. c2s' = <<>>
      BY <2>1, <2>5 DEF Stopped
    <3> QED
      BY <2>1, <3>1, NothingStopped DEF Stopped, Within, Begun
  <2> QED
    BY <2>4, <2>5
<1>3. CASE AskBody
  <2> DEFINE text == Last(sent)
             body == Terminated(text)
  <2>1. /\ c_pc = "send_body" /\ c_pc' = "recv_len"
        /\ IF link = "up" THEN c2s' = c2s \o body ELSE c2s' = c2s
    BY <1>3 DEF AskBody, Transmit
  <2>2. text \in Payloads \cup {<<>>}
    BY <2>1, LastIs DEF Underway, TypeOK
  <2> HIDE DEF text
  <2>3. text \in Seq(Text) /\ Len(text) \in Nat /\ Len(text) + 2 <= RequestLen
    <3>1. CASE text \in Payloads
      <4>1. text \in Seq(Text) /\ Len(text) \in Nat /\ Len(text) + 1 < RequestLen
        BY <3>1, Request
      <4> QED
        BY <4>1, RequestLenIs
    <3>2. CASE text = <<>>
      <4>1. text \in Seq(Text) /\ Len(text) = 0
        BY <3>2, EmptySeq
      <4> QED
        BY <4>1, RequestLenIs
    <3> QED
      BY <2>2, <3>1, <3>2
  <2>4. body \in Seq(Byte) /\ Len(body) = Len(text) + 1 /\ body[Len(text) + 1] = 0
    BY <2>3, TerminatedText
  <2> HIDE DEF body
  <2>5. CASE link = "up"
    <3>1. Begun(c2s)
      BY <2>1 DEF Stopped
    <3>2. Within(c2s \o body) /\ Ended(c2s \o body)
      BY <1>1, <2>3, <2>4, <3>1, TextSent
    <3> QED
      BY <1>1, <2>1, <2>5, <3>2 DEF Stopped, Within, Ended
  <2>6. CASE link # "up"
    <3>1. c2s' = <<>>
      BY <2>1, <2>6 DEF Stopped
    <3> QED
      BY <2>1, <3>1, NothingStopped DEF Stopped, Within, Ended
  <2> QED
    BY <2>5, <2>6
<1> QED
  BY <1>2, <1>3

(* What is taken off the way, or lost with the connection.                 *)
LEMMA LessStopped ==
  ASSUME TypeOK, Stopped,
         \/ \E n \in 0..Len(c2s) : c2s' = After(n, c2s) /\ link' = link /\ c_pc' = c_pc
         \/ c2s' = <<>> /\ link' # "up"
         \/ c2s' = c2s /\ link' = link /\ (c_pc' = "send_body" <=> c_pc = "send_body")
  PROVE  Stopped'
<1>1. c2s \in Seq(Byte) /\ Within(c2s) /\ Len(c2s) \in Nat
  BY LenProperties DEF TypeOK, Stopped
<1>2. ASSUME NEW n \in 0..Len(c2s), c2s' = After(n, c2s), link' = link, c_pc' = c_pc
      PROVE  Stopped'
  <2>1. /\ Within(c2s)'
        /\ Begun(c2s) => Begun(c2s)'
        /\ Ended(c2s) => Ended(c2s)'
    BY <1>1, <1>2, RestStopped DEF Within, Begun, Ended
  <2>2. link' # "up" => c2s' = <<>>
    <3> SUFFICES ASSUME link' # "up" PROVE c2s' = <<>>
      OBVIOUS
    <3>1. c2s = <<>> /\ Len(c2s) = 0
      BY <1>2 DEF Stopped
    <3>2. c2s' \in Seq(Byte) /\ Len(c2s') = Len(c2s) - n
      BY <1>1, <1>2, FirstAfter
    <3>3. n = 0 /\ Len(c2s') = 0
      BY <3>1, <3>2
    <3> QED
      BY <3>2, <3>3, EmptySeq
  <2> QED
    BY <1>2, <2>1, <2>2 DEF Stopped
<1>3. CASE c2s' = <<>> /\ link' # "up"
  BY <1>3, NothingStopped DEF Stopped, Within, Begun, Ended
<1>4. CASE c2s' = c2s /\ link' = link /\ (c_pc' = "send_body" <=> c_pc = "send_body")
  BY <1>4 DEF Stopped, Within, Begun, Ended
<1> QED
  BY <1>2, <1>3, <1>4

(* With its length the server reads what is on the way of a request.       *)
LEMMA LengthRead ==
  ASSUME TypeOK, InTouch, link = "up", s_pc = "recv_body"
  PROVE  s_len < MAX_LEN
<1>1. s_len \in Nat /\ TwoBytes(s_len) \in Seq(Byte) /\ Len(TwoBytes(s_len)) = 2 /\ s_len < Words
      /\ c2s \in Seq(Byte)
  BY PendingTyped DEF TypeOK
<1>2. CASE Doomed
  BY <1>2, MaxLenIs DEF Doomed
<1>3. CASE Aligned
  <2> DEFINE z == TwoBytes(s_len)
  <2>1. sent \in Seq(Payloads) /\ Reads(Wire, Len(served), Pending) /\ Pending = z \o c2s
    BY <1>3 DEF InTouch, Aligned, Pending
  <2>2. Len(sent) \in Nat /\ Len(served) \in 0..Len(sent)
    BY <1>3, <2>1, LenProperties DEF Aligned, InOrder, TypeOK
  <2>3. /\ Len(z) = 2 /\ z \in Seq(Byte) /\ z[1] = s_len \div 256
    BY <1>1, TwoBytesOf
  <2> HIDE DEF z
  <2>4. Len(Pending) >= 2 /\ Pending[1] = z[1]
    <3>1. /\ Len(z \o c2s) = Len(z) + Len(c2s) /\ Len(c2s) \in Nat
          /\ \A i \in 1..Len(z) + Len(c2s) : (z \o c2s)[i] = IF i <= Len(z) THEN z[i] ELSE c2s[i - Len(z)]
      BY <1>1, <2>3, ConcatProperties, LenProperties
    <3>2. 1 \in 1..Len(z) + Len(c2s) /\ 1 <= Len(z)
      BY <2>3, <3>1
    <3> QED
      BY <2>1, <2>3, <3>1, <3>2
  <2>5. Len(served) # Len(sent)
    <3> SUFFICES ASSUME Len(served) = Len(sent) PROVE FALSE
      OBVIOUS
    <3>1. Wire \in Seq(Seq(Byte)) /\ Len(Wire) = Len(sent)
      BY <2>1, WireTyped
    <3>2. PICK j \in 0..Len(Wire) : j = Len(Wire) /\ Reads(Wire, j, Pending)
      BY <2>1, <2>2, <3>1
    <3>3. Pending = <<>>
      BY <3>1, <3>2, ReadsTyped
    <3> QED
      BY <2>4, <3>3
  <2>6. Pending[1] = 0
    BY <2>1, <2>2, <2>5, NextBegins
  <2>7. s_len \div 256 = 0
    BY <2>3, <2>4, <2>6
  <2> QED
    BY <1>1, <2>7, MaxLenIs
<1> QED
  BY <1>2, <1>3 DEF InTouch, Misled

FitInv == CutInv /\ Stopped /\ Fits /\ Short

(* What is executed is copied into request and fits it,                    *)
LEMMA FitInit == Init => FitInv
<1> SUFFICES ASSUME Init PROVE FitInv
  OBVIOUS
<1>1. c2s = <<>> /\ link = "up" /\ served = <<>> /\ s_len = 0
  BY DEF Init
<1>2. Stopped
  BY <1>1, NothingStopped DEF Stopped
<1>3. Fits
  BY <1>1 DEF Fits
<1>4. Short
  BY <1>1, MaxLenIs DEF Short
<1> QED
  BY <1>2, <1>3, <1>4, CutInit DEF FitInv

(* ... as every step has it.                                               *)
LEMMA FitStep == FitInv /\ [Next]_vars => FitInv'
<1> SUFFICES ASSUME FitInv, [Next]_vars PROVE FitInv'
  OBVIOUS
<1>0. CutInv /\ TypeOK /\ Underway /\ Stopped /\ Fits /\ Short
  BY DEF FitInv, CutInv
<1>1. CutInv'
  BY <1>0, CutStep
<1>2. c2s \in Seq(Byte) /\ Within(c2s) /\ served \in Seq(Seq(Text)) /\ Len(served) \in Nat
  BY <1>0, TypeParts, LenProperties DEF Stopped, StreamsTyped, LogTyped
<1>3. CASE RecvBody
  <2>1. PICK n \in Taken(c2s, s_len) :
          /\ served' = Append(served, String(First(n, c2s)))
          /\ \/ c2s' = After(n, c2s) /\ UNCHANGED <<link, client, s_len>>
             \/ \E how \in {"closed", "dead"} : Close(how, After(n, c2s))
    BY <1>3 DEF RecvBody, Fate
  <2>2. n \in 0..Len(c2s)
    BY <1>0, <1>2, <2>1, PendingTyped, TakenIs, LenProperties
  <2>3. String(First(n, c2s)) \in Seq(Text) /\ Len(String(First(n, c2s))) < RequestLen
    BY <1>2, <2>2, FirstAfter, StringIsText, StringFits
  <2>4. Fits'
    <3>1. /\ Len(served') = Len(served) + 1 /\ served'[Len(served) + 1] = String(First(n, c2s))
          /\ \A i \in 1..Len(served) : served'[i] = served[i]
      BY <1>2, <2>1, <2>3, AppendProperties
    <3>2. \A i \in 1..Len(served') : i \in 1..Len(served) \/ i = Len(served) + 1
      BY <1>2, <3>1
    <3> QED
      BY <1>0, <2>3, <3>1, <3>2 DEF Fits
  <2>5. Stopped'
    BY <1>0, <2>1, <2>2, LessStopped DEF Close, client
  <2>6. Short'
    BY <1>0, <1>3, <2>1 DEF Short, Plain, Close, RecvBody
  <2> QED
    BY <1>1, <2>4, <2>5, <2>6 DEF FitInv
<1>4. CASE ~RecvBody
  <2>1. Fits'
    <3>1. served' = served
      BY <1>4 DEF Next, Client, Server, Die, AskLen, AskFails, AskBody, ReadLen, ReadLenFails, ReadBody,
                  ReadBodyNone, ReadBodyFails, RecvLen, RecvNothing, SendLen, SendBody, Send, log, vars
    <3> QED
      BY <1>0, <3>1 DEF Fits
  <2>2. Stopped'
    <3>1. CASE (\E text \in Payloads : AskLen(text)) \/ AskBody
      BY <1>0, <3>1, AskStopped
    <3>2. CASE AskFails
      <4>1. c2s' = c2s /\ link' = link /\ link # "up"
        BY <3>2 DEF AskFails, server
      <4>2. c2s' = <<>> /\ link' # "up"
        BY <1>0, <4>1 DEF Stopped
      <4> QED
        BY <1>0, <4>2, LessStopped
    <3>3. CASE ReadLen \/ ReadLenFails \/ ReadBody \/ ReadBodyNone \/ ReadBodyFails
      <4>1. UNCHANGED <<c2s, link>> /\ c_pc # "send_body" /\ c_pc' # "send_body"
        BY <3>3 DEF ReadLen, ReadLenFails, ReadBody, ReadBodyNone, ReadBodyFails, Result, server
      <4> QED
        BY <1>0, <4>1, LessStopped
    <3>4. CASE RecvLen
      <4>1. PICK n \in Taken(c2s, 2) :
              IF n = 2 /\ Length(First(2, c2s)) <= MAX_LEN
              THEN c2s' = After(2, c2s) /\ UNCHANGED <<link, client>>
              ELSE Close("closed", After(n, c2s))
        BY <3>4 DEF RecvLen
      <4>2. CASE n = 2 /\ Length(First(2, c2s)) <= MAX_LEN
        <5>1. 2 \in 0..Len(c2s)
          BY <1>2, <4>1, <4>2, TakenIs, LenProperties
        <5>2. c2s' = After(2, c2s) /\ link' = link /\ c_pc' = c_pc
          BY <4>1, <4>2 DEF client
        <5> QED
          BY <1>0, <5>1, <5>2, LessStopped
      <4>3. CASE ~(n = 2 /\ Length(First(2, c2s)) <= MAX_LEN)
        <5>1. c2s' = <<>> /\ link' # "up"
          BY <4>1, <4>3 DEF Close
        <5> QED
          BY <1>0, <5>1, LessStopped
      <4> QED
        BY <4>2, <4>3
    <3>5. CASE RecvNothing \/ Die
      <4>1. c2s' = <<>> /\ link' # "up"
        BY <3>5 DEF RecvNothing, Die, Close
      <4> QED
        BY <1>0, <4>1, LessStopped
    <3>6. CASE SendLen \/ SendBody \/ UNCHANGED vars
      <4>1. UNCHANGED <<c2s, link, c_pc>>
        BY <3>6 DEF SendLen, SendBody, Send, client, vars, server
      <4> QED
        BY <1>0, <4>1, LessStopped
    <3> QED
      BY <1>4, <3>1, <3>2, <3>3, <3>4, <3>5, <3>6 DEF Next, Client, Server
  <2>3. Short'
    <3> SUFFICES ASSUME Plain' PROVE s_len' < MAX_LEN
      BY MaxLenIs DEF Short
    <3>1. CASE s_len' = s_len
      <4>1. Plain
        BY <1>0, SentGrows, PlainWas
      <4> QED
        BY <1>0, <3>1, <4>1 DEF Short
    <3>2. CASE s_len' # s_len
      <4>1. RecvLen
        BY <1>4, <3>2 DEF Next, Client, Server, Die, AskLen, AskFails, AskBody, ReadLen, ReadLenFails,
             ReadBody, ReadBodyNone, ReadBodyFails, RecvNothing, SendLen, SendBody, Send, Close, server, vars
      <4>2. link' = "up" /\ s_pc' = "recv_body"
        BY <3>2, <4>1 DEF RecvLen, Close
      <4>3. TypeOK' /\ InTouch'
        BY <1>1 DEF CutInv
      <4>4. (TypeOK /\ InTouch /\ link = "up" /\ s_pc = "recv_body" => s_len < MAX_LEN)'
        BY LengthRead, PTL
      <4> QED
        BY <4>2, <4>3, <4>4
    <3> QED
      BY <3>1, <3>2
  <2> QED
    BY <1>1, <2>1, <2>2, <2>3 DEF FitInv
<1> QED
  BY <1>3, <1>4

(* What strcpy copies into handle_client_fd's request fits it, however the *)
(* requests are cut and whatever was typed; recv is made with no length    *)
(* beyond buf, and leaves room in it for the NUL as long as none of the    *)
(* bytes 1 to 4 was typed.                                                 *)
THEOREM NothingOverrun == Spec => []BuffersHold
<1>1. FitInv => BuffersHold
  BY DEF FitInv, CutInv, Fits, Short, BuffersHold
<1> QED
  BY <1>1, FitInit, FitStep, PTL DEF Spec

-----------------------------------------------------------------------------
(* While messages arrive as they were sent, the bytes do what a call does. *)

(* A text and its length, of either side.                                  *)
LEMMA Sized ==
  \A t : t \in Payloads \/ t \in Replies =>
    /\ t \in Seq(Text) /\ Terminated(t) \in Seq(Byte)
    /\ Len(Terminated(t)) \in Nat /\ 2 <= Len(Terminated(t)) /\ Len(Terminated(t)) <= MAX_LEN
    /\ Size(t) \in Seq(Byte) /\ Len(Size(t)) = 2 /\ Length(Size(t)) = Len(Terminated(t))
<1> SUFFICES ASSUME NEW t, t \in Payloads \/ t \in Replies
             PROVE
    /\ t \in Seq(Text) /\ Terminated(t) \in Seq(Byte)
    /\ Len(Terminated(t)) \in Nat /\ 2 <= Len(Terminated(t)) /\ Len(Terminated(t)) <= MAX_LEN
    /\ Size(t) \in Seq(Byte) /\ Len(Size(t)) = 2 /\ Length(Size(t)) = Len(Terminated(t))
  OBVIOUS
<1> DEFINE n == Len(Terminated(t))
<1>1. t \in Seq(Text) /\ Len(t) \in Nat /\ 1 <= Len(t) /\ Len(t) < 1024
  <2>1. CASE t \in Payloads
    BY <2>1, Texts
  <2>2. CASE t \in Replies
    BY <2>2, Texts
  <2> QED
    BY <2>1, <2>2
<1>2. Terminated(t) \in Seq(Byte) /\ n = Len(t) + 1
  BY <1>1, TerminatedText
<1>3. n \in Nat /\ 2 <= n /\ n <= MAX_LEN /\ n < Words
  BY <1>1, <1>2, MaxLenIs DEF Words
<1> HIDE DEF n
<1>4. /\ TwoBytes(n) \in Seq(Byte) /\ Len(TwoBytes(n)) = 2 /\ TwoBytes(n)[1] = n \div 256
      /\ TwoBytes(n)[2] = n % 256 /\ n = 256 * (n \div 256) + (n % 256)
  BY <1>3, TwoBytesOf
<1>5. Length(TwoBytes(n)) = n
  BY <1>4 DEF Length
<1> QED
  BY <1>1, <1>2, <1>3, <1>4, <1>5 DEF Size, n

(* What a recv of just one of two parts takes and leaves, and one of all.  *)
LEMMA FirstOf ==
  \A p, s \in Seq(Byte) : First(Len(p), p \o s) = p /\ After(Len(p), p \o s) = s
<1> SUFFICES ASSUME NEW p \in Seq(Byte), NEW s \in Seq(Byte)
             PROVE  First(Len(p), p \o s) = p /\ After(Len(p), p \o s) = s
  OBVIOUS
<1> DEFINE u == p \o s
           n == Len(p)
<1>1. u \in Seq(Byte) /\ Len(u) = n + Len(s) /\ n \in Nat /\ Len(s) \in Nat
  BY ConcatProperties, LenProperties
<1> HIDE DEF u, n
<1>2. n \in 0..Len(u)
  BY <1>1
<1>3. First(n, u) \in Seq(Byte) /\ Len(First(n, u)) = n /\ After(n, u) \in Seq(Byte)
  BY <1>1, <1>2, FirstAfter
<1>4. First(n, u) \o After(n, u) = u
  BY <1>1, <1>2, Joined
<1> DEFINE f == First(n, u)
           a == After(n, u)
<1>5. f \in Seq(Byte) /\ a \in Seq(Byte) /\ Len(f) = Len(p) /\ f \o a = p \o s
  BY <1>3, <1>4 DEF u, n
<1> HIDE DEF f, a
<1>6. f = p /\ a = s
  BY <1>5, SameBegin, Zenon
<1> QED
  BY <1>6 DEF f, a, n, u

(* A stream that is read whole.                                            *)
LEMMA AllOf ==
  \A p \in Seq(Byte) : First(Len(p), p) = p /\ After(Len(p), p) = <<>>
<1> SUFFICES ASSUME NEW p \in Seq(Byte) PROVE First(Len(p), p) = p /\ After(Len(p), p) = <<>>
  OBVIOUS
<1>1. p \o <<>> = p /\ <<>> \in Seq(Byte)
  BY ConcatEmptySeq, EmptySeq
<1>2. First(Len(p), p \o <<>>) = p /\ After(Len(p), p \o <<>>) = <<>>
  BY <1>1, FirstOf, Zenon
<1> QED
  BY <1>1, <1>2

(* A text with its terminator is the string in a buffer, whatever follows. *)
LEMMA StringOf ==
  \A t \in Seq(Text) : \A x \in Seq(Byte) : String(Terminated(t) \o x) = t
<1> SUFFICES ASSUME NEW t \in Seq(Text), NEW x \in Seq(Byte) PROVE String(Terminated(t) \o x) = t
  OBVIOUS
<1> DEFINE b == Terminated(t)
           u == b \o x
           m == Len(t)
<1>1. /\ b \in Seq(Byte) /\ Len(b) = m + 1 /\ m \in Nat /\ Len(x) \in Nat
      /\ (\A i \in 1..m : b[i] = t[i]) /\ b[m + 1] = 0
  BY TerminatedText, LenProperties
<1>2. \A i \in 1..m : t[i] # 0
  <2>1. \A i \in 1..m : t[i] \in Text
    BY ElementOfSeq
  <2> QED
    BY <2>1 DEF Text
<1> HIDE DEF b
<1>3. /\ u \in Seq(Byte) /\ Len(u) = Len(b) + Len(x)
      /\ \A i \in 1..Len(b) + Len(x) : u[i] = IF i <= Len(b) THEN b[i] ELSE x[i - Len(b)]
  BY <1>1, ConcatProperties
<1> HIDE DEF u
<1>4. /\ m \in 0..Len(u) /\ (\A i \in 1..m : u[i] = t[i]) /\ u[m + 1] = 0
  BY <1>1, <1>3
<1>5. String(u) = First(m, u)
  BY <1>2, <1>3, <1>4, StringEnds
<1>6. First(m, u) \in Seq(Byte) /\ Len(First(m, u)) = m /\ \A i \in 1..m : First(m, u)[i] = u[i]
  BY <1>3, <1>4, FirstAfter
<1>7. t \in Seq(Byte)
  BY SeqMonotonic DEF Text
<1>8. First(m, u) = t
  <2>1. \A i \in 1..Len(First(m, u)) : First(m, u)[i] = t[i]
    BY <1>4, <1>6
  <2> QED
    BY <1>6, <1>7, <2>1, SeqEqual
<1> QED
  BY <1>5, <1>8 DEF u, b

(* Where client and server are while each recv finds all it asks for, and  *)
(* what is between them.                                                   *)
Unanswered == sent # <<>> /\ Len(served) + 1 = Len(sent) /\ Len(replied) + 1 = Len(sent)
Answered   == Len(served) = Len(sent) /\ Len(replied) = Len(sent)
InExchange ==
  \/ /\ c_pc = "idle" /\ s_pc = "select" /\ c2s = <<>> /\ s2c = <<>> /\ Answered
  \/ /\ c_pc = "send_body" /\ s2c = <<>> /\ Unanswered
     /\ \/ s_pc = "select" /\ c2s = Size(Last(sent))
        \/ s_pc = "recv_body" /\ c2s = <<>> /\ s_len = Len(Terminated(Last(sent)))
  \/ /\ c_pc = "recv_len" /\ s2c = <<>> /\ Unanswered
     /\ \/ s_pc = "select" /\ c2s = Size(Last(sent)) \o Terminated(Last(sent))
        \/ s_pc = "recv_body" /\ c2s = Terminated(Last(sent)) /\ s_len = Len(Terminated(Last(sent)))
  \/ /\ c_pc = "recv_len" /\ c2s = <<>> /\ Answered /\ sent # <<>>
     /\ \/ s_pc = "send_len" /\ s2c = <<>>
        \/ s_pc = "send_body" /\ s2c = Size(Last(replied))
        \/ s_pc = "select" /\ s2c = Size(Last(replied)) \o Terminated(Last(replied))
  \/ /\ c_pc = "recv_body" /\ c2s = <<>> /\ Answered /\ sent # <<>> /\ c_len = Size(Last(replied))
     /\ \/ s_pc = "send_body" /\ s2c = <<>>
        \/ s_pc = "select" /\ s2c = Terminated(Last(replied))
Arriving == ~Broken => sent \in Seq(Payloads) /\ InExchange

(* The steps of a call, by what they change.                               *)
ToldNow == IF Broken THEN <<>> ELSE got

(* One that changes nothing a caller sees.                                 *)
LEMMA CallSame ==
  ASSUME Stage' = Stage, OfLast(sent)' = OfLast(sent), OfLast(served)' = OfLast(served),
         OfLast(replied)' = OfLast(replied), ToldNow' = ToldNow
  PROVE  [CallOf!Next]_(CallOf!vars)
  BY DEF CallOf!vars, ToldNow

(* The request is sent.                                                    *)
LEMMA CallAsks ==
  ASSUME Stage = "idle", Stage' = "asked", OfLast(sent)' \in Payloads,
         OfLast(served)' = <<>>, OfLast(replied)' = <<>>, ToldNow' = <<>>
  PROVE  [CallOf!Next]_(CallOf!vars)
  BY DEF CallOf!Next, CallOf!Ask, ToldNow

(* It is executed.                                                         *)
LEMMA CallExecutes ==
  ASSUME Stage = "asked", Stage' = "executed", OfLast(served)' = OfLast(sent),
         OfLast(replied)' \in Replies, OfLast(sent)' = OfLast(sent), ToldNow' = ToldNow
  PROVE  [CallOf!Next]_(CallOf!vars)
  BY DEF CallOf!Next, CallOf!Execute, ToldNow

(* The reply is told.                                                      *)
LEMMA CallTells ==
  ASSUME Stage = "executed", Stage' = "idle", ToldNow' = Shown(OfLast(replied)),
         OfLast(sent)' = OfLast(sent), OfLast(served)' = OfLast(served), OfLast(replied)' = OfLast(replied)
  PROVE  [CallOf!Next]_(CallOf!vars)
  BY DEF CallOf!Next, CallOf!Tell, ToldNow

(* The connection is lost.                                                 *)
LEMMA CallBreaks ==
  ASSUME Broken'
  PROVE  [CallOf!Next]_(CallOf!vars)
<1>1. /\ Stage' = "broken" /\ OfLast(sent)' = <<>> /\ OfLast(served)' = <<>> /\ OfLast(replied)' = <<>>
      /\ ToldNow' = <<>>
  BY DEF Stage, OfLast, ToldNow
<1> QED
  BY <1>1 DEF CallOf!Next, CallOf!Break, ToldNow

(* A step within a send or a recv.                                         *)
LEMMA CallStays ==
  ASSUME ~Broken, ~Broken', UNCHANGED <<sent, served, replied, got>>,
         \/ Len(replied) < Len(sent)
         \/ c_pc \in {"recv_len", "recv_body"} <=> c_pc' \in {"recv_len", "recv_body"}
  PROVE  [CallOf!Next]_(CallOf!vars)
<1>1. Stage' = Stage
  BY DEF Stage
<1>2. /\ OfLast(sent)' = OfLast(sent) /\ OfLast(served)' = OfLast(served)
      /\ OfLast(replied)' = OfLast(replied) /\ ToldNow' = ToldNow
  BY DEF OfLast, ToldNow
<1> QED
  BY <1>1, <1>2, CallSame

(* While nothing is broken the link is up and every recv finds all.        *)
LEMMA Unbroken == ~Broken <=> link = "up" /\ whole
  BY DEF Broken

(* The steps of the client.                                                *)
LEMMA AskLenArrives ==
  ASSUME TypeOK, Underway, Arriving, ~Broken, ~Broken', NEW text \in Payloads, AskLen(text)
  PROVE  Arriving' /\ [CallOf!Next]_(CallOf!vars)
<1>1. /\ c_pc = "idle" /\ c_pc' = "send_body" /\ sent' = Append(sent, text) /\ got' = <<>>
      /\ link = "up" /\ UNCHANGED <<s_pc, s_len, served, replied>>
  BY Unbroken DEF AskLen, server
<1>2. c2s' = c2s \o Size(text) /\ s2c' = s2c
  BY <1>1 DEF AskLen, Transmit, Size
<1>3. s_pc = "select" /\ c2s = <<>> /\ s2c = <<>> /\ Answered /\ sent \in Seq(Payloads)
  BY <1>1 DEF Arriving, InExchange
<1>4. /\ sent' \in Seq(Payloads) /\ sent' # <<>> /\ Last(sent') = text /\ Len(sent') = Len(sent) + 1
      /\ Len(sent) \in Nat
  BY <1>1, <1>3, LastIs, AppendProperties, LenProperties
<1>5. c2s' = Size(text)
  <2>1. Size(text) \in Seq(Byte)
    BY Sized
  <2>2. <<>> \o Size(text) = Size(text)
    BY <2>1, ConcatEmptySeq
  <2> QED
    BY <1>2, <1>3, <2>2
<1>6. Unanswered'
  BY <1>1, <1>3, <1>4 DEF Unanswered, Answered
<1>7. c2s' = Size(Last(sent))'
  <2>1. Size(Last(sent))' = Size(text)
    BY <1>4 DEF Size, TwoBytes, Terminated
  <2> QED
    BY <1>5, <2>1
<1>8. Arriving'
  BY <1>1, <1>2, <1>3, <1>4, <1>6, <1>7 DEF Arriving, InExchange
<1>9. Stage = "idle" /\ Stage' = "asked"
  <2>1. ~(Len(replied) < Len(sent)) /\ Len(replied') < Len(sent')
    BY <1>1, <1>3, <1>4 DEF Answered
  <2> QED
    BY <1>1, <2>1 DEF Stage
<1>10. OfLast(sent)' = text /\ OfLast(served)' = <<>> /\ OfLast(replied)' = <<>> /\ ToldNow' = <<>>
  <2>1. ~(Len(sent') < Len(sent')) /\ Len(served') < Len(sent') /\ Len(replied') < Len(sent')
    BY <1>1, <1>3, <1>4 DEF Answered
  <2> QED
    BY <1>1, <1>4, <2>1 DEF OfLast, ToldNow
<1> QED
  BY <1>8, <1>9, <1>10, CallAsks

(* The client's second send begins the call.                               *)
LEMMA AskBodyArrives ==
  ASSUME TypeOK, Underway, Arriving, ~Broken, ~Broken', AskBody
  PROVE  Arriving' /\ [CallOf!Next]_(CallOf!vars)
<1> DEFINE text == Last(sent)
<1>1. /\ c_pc = "send_body" /\ c_pc' = "recv_len" /\ link = "up"
      /\ UNCHANGED <<got, s_pc, s_len, sent, served, replied>>
  BY Unbroken DEF AskBody, server, log
<1>2. c2s' = c2s \o Terminated(text) /\ s2c' = s2c
  BY <1>1 DEF AskBody, Transmit
<1>3. /\ s2c = <<>> /\ Unanswered /\ sent \in Seq(Payloads)
      /\ \/ s_pc = "select" /\ c2s = Size(text)
         \/ s_pc = "recv_body" /\ c2s = <<>> /\ s_len = Len(Terminated(text))
  BY <1>1 DEF Arriving, InExchange
<1>4. <<>> \o Terminated(text) = Terminated(text)
  <2>1. text \in Payloads
    BY <1>3, LastIs DEF Unanswered
  <2>2. Terminated(text) \in Seq(Byte)
    BY <2>1, Sized
  <2> QED
    BY <2>2, ConcatEmptySeq
<1>5. \/ s_pc' = "select" /\ c2s' = Size(text) \o Terminated(text)
      \/ s_pc' = "recv_body" /\ c2s' = Terminated(text) /\ s_len' = Len(Terminated(text))
  BY <1>1, <1>2, <1>3, <1>4
<1>6. text' = text /\ Size(text)' = Size(text) /\ Terminated(text)' = Terminated(text)
  BY <1>1 DEF Size, TwoBytes, Terminated
<1>7. Unanswered' /\ sent' \in Seq(Payloads) /\ s2c' = <<>>
  BY <1>1, <1>2, <1>3 DEF Unanswered
<1>8. Arriving'
  BY <1>1, <1>5, <1>6, <1>7 DEF Arriving, InExchange
<1>9. Len(replied) < Len(sent)
  <2>1. Len(replied) \in Nat /\ Len(replied) + 1 = Len(sent)
    BY <1>3, LenProperties DEF TypeOK, Unanswered
  <2> QED
    BY <2>1
<1> QED
  BY <1>1, <1>8, <1>9, CallStays

(* The client waits for what is there of the answer.                       *)
LEMMA Awaited ==
  ASSUME TypeOK, Arriving, ~Broken, c_pc \in {"recv_len", "recv_body"}, s2c # <<>>
  PROVE  /\ Answered /\ sent # <<>> /\ sent \in Seq(Payloads) /\ c2s = <<>>
         /\ replied \in Seq(Replies) /\ Last(replied) \in Replies /\ Len(replied) = Len(sent)
         /\ c_pc = "recv_body" => /\ c_len = Size(Last(replied)) /\ s2c = Terminated(Last(replied))
                                  /\ s_pc = "select"
         /\ c_pc = "recv_len" =>
              \/ s_pc = "send_body" /\ s2c = Size(Last(replied))
              \/ s_pc = "select" /\ s2c = Size(Last(replied)) \o Terminated(Last(replied))
<1>1. /\ Answered /\ sent # <<>> /\ sent \in Seq(Payloads) /\ c2s = <<>>
      /\ c_pc = "recv_body" => /\ c_len = Size(Last(replied)) /\ s2c = Terminated(Last(replied))
                               /\ s_pc = "select"
      /\ c_pc = "recv_len" =>
           \/ s_pc = "send_body" /\ s2c = Size(Last(replied))
           \/ s_pc = "select" /\ s2c = Size(Last(replied)) \o Terminated(Last(replied))
  BY DEF Arriving, InExchange
<1>2. replied \in Seq(Replies) /\ replied # <<>>
  <2>1. replied \in Seq(Replies) /\ Len(sent) # 0 /\ Len(replied) = Len(sent)
    BY <1>1, EmptySeq DEF TypeOK, Answered
  <2> QED
    BY <2>1, EmptySeq
<1> QED
  BY <1>1, <1>2, LastIs DEF Answered

(* The client reads a length, which is the reply's.                        *)
LEMMA ReadLenArrives ==
  ASSUME TypeOK, Underway, Arriving, ~Broken, ~Broken', ReadLen
  PROVE  Arriving' /\ [CallOf!Next]_(CallOf!vars)
<1> DEFINE r == Last(replied)
<1>1. PICK n \in Taken(s2c, 2) : /\ c_len' = First(n, s2c) \o After(n, c_len)
                                /\ s2c' = After(n, s2c) /\ whole' = (whole /\ n = 2)
  BY DEF ReadLen, AskedReply, Asked
<1>2. /\ c_pc = "recv_len" /\ link = "up" /\ UNCHANGED <<s_pc, s_len, link, c2s, sent, served, replied>>
  BY Unbroken DEF ReadLen, server
<1>3. n = 2 /\ s2c \in Seq(Byte) /\ Len(s2c) >= 2
  <2>0. n = 2
    BY <1>1, Zenon DEF Broken
  <2>1. s2c \in Seq(Byte) /\ n <= Len(s2c)
    BY <1>1, TakenIs DEF TypeOK
  <2> QED
    BY <2>0, <2>1
<1>4. s2c # <<>>
  BY <1>3
<1>5. /\ Answered /\ sent # <<>> /\ sent \in Seq(Payloads) /\ c2s = <<>> /\ r \in Replies
      /\ Len(replied) = Len(sent)
      /\ \/ s_pc = "send_body" /\ s2c = Size(r)
         \/ s_pc = "select" /\ s2c = Size(r) \o Terminated(r)
  BY <1>2, <1>4, Awaited
<1>6. /\ Terminated(r) \in Seq(Byte) /\ Size(r) \in Seq(Byte) /\ Len(Size(r)) = 2
      /\ Length(Size(r)) = Len(Terminated(r)) /\ Len(Terminated(r)) <= MAX_LEN
  BY <1>5, Sized
<1>7. First(2, s2c) = Size(r) /\ (s_pc = "send_body" => After(2, s2c) = <<>>)
      /\ (s_pc = "select" => After(2, s2c) = Terminated(r))
  <2> DEFINE z == Size(r)
             b == Terminated(r)
  <2>1. z \in Seq(Byte) /\ b \in Seq(Byte) /\ Len(z) = 2
    BY <1>6
  <2>2. \/ s_pc = "send_body" /\ s2c = z
        \/ s_pc = "select" /\ s2c = z \o b
    BY <1>5
  <2> HIDE DEF z, b
  <2>3. First(Len(z), z) = z /\ After(Len(z), z) = <<>>
    BY <2>1, AllOf
  <2>4. First(Len(z), z \o b) = z /\ After(Len(z), z \o b) = b
    BY <2>1, FirstOf, Zenon
  <2>5. First(2, s2c) = z /\ (s_pc = "send_body" => After(2, s2c) = <<>>)
        /\ (s_pc = "select" => After(2, s2c) = b)
    BY <2>1, <2>2, <2>3, <2>4
  <2> QED
    BY <2>5 DEF z, b
<1>8. c_len' = Size(r)
  <2>1. c_len \in Seq(Byte) /\ Len(c_len) = 2
    BY PairIs DEF TypeOK
  <2>2. After(2, c_len) = <<>>
    BY <2>1, AllOf
  <2>3. Size(r) \o <<>> = Size(r)
    BY <1>6, ConcatEmptySeq
  <2> QED
    BY <1>1, <1>3, <1>7, <2>2, <2>3
<1>9. c_pc' = "recv_body" /\ got' = got
  <2>1. ~(Length(c_len') > MAX_LEN)
    <3>1. Len(Terminated(r)) \in Nat /\ MAX_LEN \in Int
      BY <1>5, Sized, MaxLenIs
    <3> QED
      BY <1>6, <1>8, <3>1
  <2> QED
    BY <2>1 DEF ReadLen
<1>10. Size(r)' = Size(r) /\ Terminated(r)' = Terminated(r)
  BY <1>2 DEF Size, TwoBytes, Terminated
<1>11. Answered'
  BY <1>2, <1>5 DEF Answered
<1>12. Arriving'
  BY <1>1, <1>2, <1>3, <1>5, <1>7, <1>8, <1>9, <1>10, <1>11 DEF Arriving, InExchange
<1> QED
  BY <1>2, <1>9, <1>12, CallStays

(* The client reads the reply: the call ends.                              *)
LEMMA ReadBodyArrives ==
  ASSUME TypeOK, Underway, Arriving, ~Broken, ~Broken', ReadBody
  PROVE  Arriving' /\ [CallOf!Next]_(CallOf!vars)
<1> DEFINE r == Last(replied)
<1>1. PICK n \in Taken(s2c, Length(c_len)), rest \in Garbage :
        /\ c_pc' = "idle" /\ got' = Shown(String(First(n, s2c) \o Terminated(rest)))
        /\ s2c' = After(n, s2c) /\ whole' = (whole /\ n = Length(c_len))
  BY DEF ReadBody, AskedReply, Asked, Result
<1>2. /\ c_pc = "recv_body" /\ link = "up" /\ UNCHANGED <<s_pc, s_len, link, c2s, sent, served, replied>>
  BY Unbroken DEF ReadBody, server
<1>3. n = Length(c_len)
  BY <1>1, Zenon DEF Broken
<1>4. s2c # <<>>
  <2>1. Length(c_len) \in Nat
    <3>1. c_len \in Seq(Byte) /\ Len(c_len) = 2
      BY PairIs DEF TypeOK
    <3> QED
      BY <3>1, LengthOf
  <2>2. n \in Int /\ 1 <= n /\ n <= Len(s2c)
    BY <1>1, <2>1, TakenIs DEF TypeOK
  <2> QED
    BY <2>2
<1>5. /\ Answered /\ sent # <<>> /\ sent \in Seq(Payloads) /\ c2s = <<>> /\ r \in Replies
      /\ Len(replied) = Len(sent)
      /\ c_len = Size(r) /\ s2c = Terminated(r) /\ s_pc = "select"
  BY <1>2, <1>4, Awaited
<1>6. r \in Seq(Text) /\ Terminated(r) \in Seq(Byte) /\ Length(Size(r)) = Len(Terminated(r))
  BY <1>5, Sized
<1>7. First(n, s2c) = Terminated(r) /\ After(n, s2c) = <<>>
  <2>1. n = Len(Terminated(r))
    BY <1>3, <1>5, <1>6
  <2>2. First(Len(Terminated(r)), Terminated(r)) = Terminated(r)
        /\ After(Len(Terminated(r)), Terminated(r)) = <<>>
    BY <1>6, AllOf
  <2> QED
    BY <1>5, <2>1, <2>2
<1>8. String(Terminated(r) \o Terminated(rest)) = r
  <2>1. Terminated(rest) \in Seq(Byte)
    BY Texts, TerminatedText
  <2> QED
    BY <1>6, <2>1, StringOf, Zenon
<1>9. got' = Shown(r)
  BY <1>1, <1>7, <1>8
<1>10. Answered'
  BY <1>2, <1>5 DEF Answered
<1>11. Arriving'
  BY <1>1, <1>2, <1>5, <1>7, <1>10 DEF Arriving, InExchange
<1>12. ~(Len(replied) < Len(sent)) /\ Len(served) = Len(sent)
  BY <1>5, LenProperties DEF Answered
<1>13. Stage = "executed" /\ Stage' = "idle"
  BY <1>1, <1>2, <1>12 DEF Stage
<1>14. /\ OfLast(sent)' = OfLast(sent) /\ OfLast(served)' = OfLast(served)
       /\ OfLast(replied)' = OfLast(replied)
  BY <1>2 DEF OfLast
<1>15. OfLast(replied) = r
  BY <1>5, <1>12 DEF OfLast
<1>16. ToldNow' = Shown(OfLast(replied))
  BY <1>9, <1>15 DEF ToldNow
<1> QED
  BY <1>11, <1>13, <1>14, <1>16, CallTells

(* The steps of the server.                                                *)
LEMMA RecvLenArrives ==
  ASSUME TypeOK, Underway, Arriving, ~Broken, ~Broken', RecvLen
  PROVE  Arriving' /\ [CallOf!Next]_(CallOf!vars)
<1> DEFINE text == Last(sent)
           two  == First(2, c2s)
<1>1. PICK n \in Taken(c2s, 2) :
        IF n = 2 /\ Length(two) <= MAX_LEN
        THEN /\ c2s' = After(2, c2s) /\ s_len' = Length(two)
             /\ s_pc' = "recv_body" /\ UNCHANGED <<link, s2c, client>>
        ELSE Close("closed", After(n, c2s))
  BY DEF RecvLen
<1>2. s_pc = "select" /\ UNCHANGED <<sent, served, replied>>
  BY DEF RecvLen
<1>3. n = 2 /\ Length(two) <= MAX_LEN
  <2>1. link' = "up"
    BY DEF Broken
  <2> QED
    BY <1>1, <2>1 DEF Close
<1>4. /\ c2s' = After(2, c2s) /\ s_len' = Length(two) /\ s_pc' = "recv_body" /\ s2c' = s2c
      /\ UNCHANGED <<c_pc, c_len, got>>
  BY <1>1, <1>3 DEF client
<1>5. c2s # <<>>
  <2>1. c2s \in Seq(Byte) /\ 2 <= Len(c2s)
    BY <1>1, <1>3, TakenIs DEF TypeOK
  <2> QED
    BY <2>1
<1>6. /\ Unanswered /\ sent \in Seq(Payloads) /\ s2c = <<>>
      /\ \/ c_pc = "send_body" /\ c2s = Size(text)
         \/ c_pc = "recv_len" /\ c2s = Size(text) \o Terminated(text)
  BY <1>2, <1>5 DEF Arriving, InExchange
<1>7. text \in Payloads
  BY <1>6, LastIs DEF Unanswered
<1>8. /\ Terminated(text) \in Seq(Byte) /\ Size(text) \in Seq(Byte) /\ Len(Size(text)) = 2
      /\ Length(Size(text)) = Len(Terminated(text))
  BY <1>7, Sized
<1>9. two = Size(text) /\ (c_pc = "send_body" => c2s' = <<>>)
      /\ (c_pc = "recv_len" => c2s' = Terminated(text))
  <2> DEFINE z == Size(text)
             b == Terminated(text)
  <2>1. z \in Seq(Byte) /\ b \in Seq(Byte) /\ Len(z) = 2
    BY <1>8
  <2>2. \/ c_pc = "send_body" /\ c2s = z
        \/ c_pc = "recv_len" /\ c2s = z \o b
    BY <1>6
  <2> HIDE DEF z, b
  <2>3. First(Len(z), z) = z /\ After(Len(z), z) = <<>>
    BY <2>1, AllOf
  <2>4. First(Len(z), z \o b) = z /\ After(Len(z), z \o b) = b
    BY <2>1, FirstOf, Zenon
  <2>5. First(2, c2s) = z /\ (c_pc = "send_body" => After(2, c2s) = <<>>)
        /\ (c_pc = "recv_len" => After(2, c2s) = b)
    BY <2>1, <2>2, <2>3, <2>4
  <2> QED
    BY <1>4, <2>5 DEF z, b
<1> HIDE DEF two
<1>10. s_len' = Len(Terminated(text))
  BY <1>4, <1>8, <1>9
<1>11. text' = text /\ Terminated(text)' = Terminated(text)
  BY <1>2 DEF Terminated
<1>12. Unanswered' /\ sent' \in Seq(Payloads) /\ s2c' = <<>>
  BY <1>2, <1>4, <1>6 DEF Unanswered
<1>13. Len(Terminated(text))' = Len(Terminated(text))
  BY <1>11
<1>14. s_len' = Len(Terminated(text))'
  BY <1>10, <1>13
<1>15. Arriving'
  BY <1>4, <1>6, <1>9, <1>11, <1>12, <1>14 DEF Arriving, InExchange
<1> QED
  BY <1>2, <1>4, <1>15, CallStays

(* The server reads the request and executes it.                           *)
LEMMA RecvBodyArrives ==
  ASSUME TypeOK, Underway, Arriving, ~Broken, ~Broken', RecvBody
  PROVE  Arriving' /\ [CallOf!Next]_(CallOf!vars)
<1> DEFINE text == Last(sent)
<1>1. PICK n \in Taken(c2s, s_len) :
        /\ served' = Append(served, String(First(n, c2s))) /\ whole' = (whole /\ n = s_len)
        /\ \/ /\ c2s' = After(n, c2s) /\ \E r \in Replies : replied' = Append(replied, r)
              /\ s_pc' = "send_len" /\ UNCHANGED <<s_len, link, s2c, client>>
           \/ ~whole'
           \/ \E how \in {"closed", "dead"} : Close(how, After(n, c2s))
  BY DEF RecvBody, Asked, Fate
<1>2. s_pc = "recv_body" /\ sent' = sent
  BY DEF RecvBody
<1>3. n = s_len
  BY <1>1, Zenon DEF Broken
<1>4. /\ c2s' = After(n, c2s) /\ s_pc' = "send_len" /\ s2c' = s2c /\ UNCHANGED <<c_pc, c_len, got>>
      /\ \E r \in Replies : replied' = Append(replied, r)
  <2>1. link' = "up" /\ whole'
    BY DEF Broken
  <2> QED
    BY <1>1, <2>1 DEF Close, client
<1>5. c2s # <<>>
  <2>1. c2s \in Seq(Byte) /\ 1 <= Len(c2s)
    <3>1. n \in Int /\ 1 <= n /\ n <= Len(c2s) /\ c2s \in Seq(Byte)
      BY <1>1, PendingTyped, TakenIs DEF TypeOK
    <3> QED
      BY <3>1, LenProperties
  <2> QED
    BY <2>1
<1>6. /\ c_pc = "recv_len" /\ Unanswered /\ sent \in Seq(Payloads) /\ s2c = <<>>
      /\ c2s = Terminated(text) /\ s_len = Len(Terminated(text))
  BY <1>2, <1>5 DEF Arriving, InExchange
<1>7. text \in Payloads
  BY <1>6, LastIs DEF Unanswered
<1>8. text \in Seq(Text) /\ Terminated(text) \in Seq(Byte)
  BY <1>7, Sized
<1>9. First(n, c2s) = Terminated(text) /\ After(n, c2s) = <<>>
  BY <1>3, <1>6, <1>8, AllOf
<1>10. String(First(n, c2s)) = text
  <2>1. <<>> \in Seq(Byte) /\ Terminated(text) \o <<>> = Terminated(text)
    BY <1>8, EmptySeq, ConcatEmptySeq
  <2>2. String(Terminated(text) \o <<>>) = text
    BY <1>8, <2>1, StringOf, Zenon
  <2> QED
    BY <1>9, <2>1, <2>2
<1>11. PICK r \in Replies : replied' = Append(replied, r)
  BY <1>4
<1>12. served' = Append(served, text)
  BY <1>1, <1>10
<1>13. /\ served \in Seq(Seq(Text)) /\ replied \in Seq(Replies)
       /\ Len(served) \in Nat /\ Len(replied) \in Nat /\ Len(sent) \in Nat
  BY <1>6, TypeParts, LenProperties DEF LogTyped
<1>14. /\ Len(served') = Len(served) + 1 /\ served' # <<>> /\ Last(served') = text
       /\ Len(replied') = Len(replied) + 1 /\ replied' # <<>> /\ Last(replied') = r
  BY <1>8, <1>11, <1>12, <1>13, LastIs, AppendProperties
<1>15. Answered' /\ sent' # <<>>
  BY <1>2, <1>6, <1>14 DEF Unanswered, Answered
<1>16. Arriving'
  BY <1>2, <1>4, <1>6, <1>9, <1>15 DEF Arriving, InExchange
<1>17. Len(replied) < Len(sent) /\ ~(Len(replied') < Len(sent')) /\ ~(Len(served') < Len(sent'))
       /\ ~(Len(sent') < Len(sent')) /\ ~(Len(sent) < Len(sent))
  BY <1>2, <1>6, <1>13, <1>14 DEF Unanswered
<1>18. Stage = "asked" /\ Stage' = "executed"
  BY <1>4, <1>6, <1>17 DEF Stage
<1>19. /\ OfLast(served)' = text /\ OfLast(replied)' = r /\ ToldNow' = ToldNow
       /\ OfLast(sent) = text /\ OfLast(sent)' = text
  BY <1>2, <1>4, <1>6, <1>14, <1>15, <1>17 DEF OfLast, ToldNow
<1> QED
  BY <1>16, <1>18, <1>19, CallExecutes

(* The server sends the reply, in two parts.                               *)
LEMMA SendArrives ==
  ASSUME TypeOK, Underway, Arriving, ~Broken, ~Broken', SendLen \/ SendBody
  PROVE  Arriving' /\ [CallOf!Next]_(CallOf!vars)
<1> DEFINE r == Last(replied)
<1>1. /\ UNCHANGED <<s_len, link, c2s, c_pc, c_len, got, sent, served, replied>>
      /\ \/ s_pc = "send_len" /\ s_pc' = "send_body" /\ s2c' = s2c \o Size(r)
         \/ s_pc = "send_body" /\ s_pc' = "select" /\ s2c' = s2c \o Terminated(r)
  BY DEF SendLen, SendBody, Send, client, log, Size
<1>2. /\ Answered /\ sent # <<>> /\ sent \in Seq(Payloads) /\ c2s = <<>>
      /\ \/ c_pc = "recv_len" /\ s_pc = "send_len" /\ s2c = <<>>
         \/ c_pc = "recv_len" /\ s_pc = "send_body" /\ s2c = Size(r)
         \/ c_pc = "recv_body" /\ s_pc = "send_body" /\ s2c = <<>> /\ c_len = Size(r)
  BY <1>1 DEF Arriving, InExchange
<1>3. r \in Replies
  BY <1>1, LastIs DEF Underway, TypeOK
<1>4. <<>> \o Size(r) = Size(r) /\ <<>> \o Terminated(r) = Terminated(r)
  <2>1. Size(r) \in Seq(Byte) /\ Terminated(r) \in Seq(Byte)
    BY <1>3, Sized
  <2> QED
    BY <2>1, ConcatEmptySeq
<1>5. \/ c_pc' = "recv_len" /\ s_pc' = "send_body" /\ s2c' = Size(r)
      \/ c_pc' = "recv_len" /\ s_pc' = "select" /\ s2c' = Size(r) \o Terminated(r)
      \/ c_pc' = "recv_body" /\ s_pc' = "select" /\ s2c' = Terminated(r) /\ c_len' = Size(r)
  BY <1>1, <1>2, <1>4
<1>6. r' = r /\ Size(r)' = Size(r) /\ Terminated(r)' = Terminated(r)
  BY <1>1 DEF Size, TwoBytes, Terminated
<1>7. Answered' /\ sent' # <<>> /\ sent' \in Seq(Payloads) /\ c2s' = <<>>
  BY <1>1, <1>2 DEF Answered
<1>8. Arriving'
  BY <1>5, <1>6, <1>7 DEF Arriving, InExchange
<1> QED
  BY <1>1, <1>8, CallStays

(* No other step leaves the link up and messages whole.                    *)
LEMMA OthersBreak ==
  ASSUME TypeOK, Underway, Arriving, ~Broken,
         AskFails \/ ReadLenFails \/ ReadBodyNone \/ ReadBodyFails \/ RecvNothing \/ Die
  PROVE  Broken'
<1>1. link = "up"
  BY Unbroken
<1>2. CASE ReadBodyNone
  <2>1. c_pc = "recv_body" /\ Length(c_len) = 0
    BY <1>1, <1>2 DEF ReadBodyNone
  <2>2. c_len = Size(Last(replied)) /\ Answered /\ sent # <<>> /\ sent \in Seq(Payloads)
    BY <2>1 DEF Arriving, InExchange
  <2>3. Last(replied) \in Replies
    <3>1. replied \in Seq(Replies) /\ Len(sent) # 0 /\ Len(replied) = Len(sent)
      BY <2>2, EmptySeq DEF TypeOK, Answered
    <3>2. replied # <<>>
      BY <3>1, EmptySeq
    <3> QED
      BY <3>1, <3>2, LastIs
  <2>4. Length(Size(Last(replied))) = Len(Terminated(Last(replied))) /\ Len(Terminated(Last(replied))) \in Nat
        /\ 2 <= Len(Terminated(Last(replied)))
    BY <2>3, Sized
  <2> QED
    BY <2>1, <2>2, <2>4
<1>3. CASE RecvNothing \/ Die
  BY <1>3 DEF RecvNothing, Die, Close, Broken
<1>4. CASE AskFails \/ ReadLenFails \/ ReadBodyFails
  BY <1>1, <1>4 DEF AskFails, ReadLenFails, ReadBodyFails
<1> QED
  BY <1>2, <1>3, <1>4

(* All is well before the first call,                                      *)
LEMMA ArrivesInit == Init => Arriving /\ CallOf!Init
<1> SUFFICES ASSUME Init PROVE Arriving /\ CallOf!Init
  OBVIOUS
<1>1. /\ c_pc = "idle" /\ s_pc = "select" /\ c2s = <<>> /\ s2c = <<>> /\ got = <<>>
      /\ sent = <<>> /\ served = <<>> /\ replied = <<>> /\ ~Broken
  BY DEF Init, Broken
<1>2. <<>> \in Seq(Payloads) /\ Len(<<>>) = 0
  BY EmptySeq
<1>3. Arriving
  BY <1>1, <1>2 DEF Arriving, InExchange, Answered
<1>4. /\ Stage = "idle" /\ OfLast(sent) = <<>> /\ OfLast(served) = <<>> /\ OfLast(replied) = <<>>
      /\ ToldNow = <<>>
  BY <1>1, <1>2 DEF Stage, OfLast, ToldNow
<1> QED
  BY <1>3, <1>4 DEF CallOf!Init, ToldNow

(* ... and every step is one of the call, or none.                         *)
LEMMA ArrivesStep ==
  TypeOK /\ Underway /\ Arriving /\ [Next]_vars => Arriving' /\ [CallOf!Next]_(CallOf!vars)
<1> SUFFICES ASSUME TypeOK, Underway, Arriving, [Next]_vars
             PROVE  Arriving' /\ [CallOf!Next]_(CallOf!vars)
  OBVIOUS
<1>1. CASE Broken'
  BY <1>1, CallBreaks DEF Arriving
<1>2. CASE ~Broken'
  <2>1. ~Broken
    <3>1. link # "up" => link' # "up"
      <4>1. CASE UNCHANGED vars
        BY <4>1 DEF vars, server
      <4>2. CASE Server \/ Die
        BY <4>2 DEF Server, Die, RecvLen, RecvBody, RecvNothing, SendLen, SendBody, Send
      <4>3. CASE ~(Server \/ Die \/ UNCHANGED vars)
        BY <4>3 DEF Next, Client, AskLen, AskFails, AskBody, ReadLen, ReadLenFails, ReadBody,
                    ReadBodyNone, ReadBodyFails, server
      <4> QED
        BY <4>1, <4>2, <4>3
    <3>2. ~whole => ~whole'
      <4>1. whole' = whole \/ \E n, m : Asked(n, m)
        <5>1. CASE UNCHANGED vars
          BY <5>1 DEF vars, log
        <5>2. CASE Server \/ Die
          BY <5>2 DEF Server, Die, RecvLen, RecvBody, RecvNothing, SendLen, SendBody, Send, log
        <5>3. CASE ~(Server \/ Die \/ UNCHANGED vars)
          BY <5>3 DEF Next, Client, AskLen, AskFails, AskBody, ReadLen, ReadLenFails, ReadBody,
                      ReadBodyNone, ReadBodyFails, AskedReply, log
        <5> QED
          BY <5>1, <5>2, <5>3
      <4> QED
        BY <4>1, Zenon DEF Asked
    <3> QED
      BY <1>2, <3>1, <3>2, Zenon DEF Broken
  <2>2. CASE UNCHANGED vars
    <3>1. /\ UNCHANGED <<sent, served, replied, got, c_pc, s_pc, c2s, s2c, c_len, s_len>>
      BY <2>2 DEF vars, client, server, log
    <3>2. InExchange' <=> InExchange
      BY <3>1 DEF InExchange, Answered, Unanswered, Size, Terminated, TwoBytes
    <3>3. Arriving'
      BY <2>1, <3>1, <3>2 DEF Arriving
    <3> QED
      BY <1>2, <2>1, <3>1, <3>3, CallStays
  <2>3. CASE Next
    BY <1>2, <2>1, <2>3, AskLenArrives, AskBodyArrives, ReadLenArrives, ReadBodyArrives,
       RecvLenArrives, RecvBodyArrives, SendArrives, OthersBreak DEF Next, Client, Server
  <2> QED
    BY <2>2, <2>3
<1> QED
  BY <1>1, <1>2

(* As long as every recv finds all of a message, the bytes of a connection *)
(* do what a call does: what is asked is executed once and whole, and the  *)
(* answer that is told is the answer to it.                                *)
THEOREM BytesImplementCall == Spec => ImplementsCall
<1>1. TypeOK /\ Underway /\ Arriving /\ [Next]_vars
        => (TypeOK /\ Underway /\ Arriving)' /\ [CallOf!Next]_(CallOf!vars)
  BY TypeStep, ArrivesStep
<1>2. Init => TypeOK /\ Underway /\ Arriving /\ CallOf!Init
  BY TypeInit, ArrivesInit
<1> QED
  BY <1>1, <1>2, PTL DEF Spec, ImplementsCall, CallOf!Spec

=============================================================================
