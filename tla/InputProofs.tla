---------------------------- MODULE InputProofs ----------------------------
(***************************************************************************)
(* Proofs about what is typed: the lines, of Console, for every text,      *)
(* every size of the buffer and every way the kernel may hand them over;   *)
(* and the seconds an administrator types, of Deadline, for every width of *)
(* an int and a long, every time of a game and every number of updates.    *)
(* The two have no state in common, and each its own specification.        *)
(***************************************************************************)
EXTENDS Console, Deadline, ListLemmas

-----------------------------------------------------------------------------
(* Lines: of a text. *)

Text == Chars \cup {NL}

(* Neither the newline nor the end is a character of a line.               *)
LEMMA CharsAre ==
  /\ NL \notin Chars /\ END \notin Chars /\ NL # END
  /\ END \notin Text
  /\ Texts \subseteq Seq(Chars)
<1>1. ASSUME NEW t \in Texts PROVE t \in Seq(Chars \ {NL, END})
  BY TextsAssumption
<1>2. \A c \in Chars : c \notin {NL, END}
  <2> SUFFICES ASSUME NEW t \in Texts, NEW c \in Range(t) PROVE c \notin {NL, END}
    BY DEF Chars
  <2>1. PICK i \in DOMAIN t : c = t[i]
    BY DEF Range
  <2>2. t \in Seq(Chars \ {NL, END})
    BY <1>1
  <2>3. i \in 1..Len(t)
    BY <2>1, <2>2, LenProperties
  <2>4. t[i] \in Chars \ {NL, END}
    BY <2>2, <2>3, ElementOfSeq
  <2> QED
    BY <2>1, <2>4
<1>3. ASSUME NEW t \in Texts PROVE t \in Seq(Chars)
  <2>1. t \in Seq(Chars \ {NL, END}) /\ Chars \ {NL, END} \subseteq Chars
    BY <1>1
  <2> QED
    BY <2>1, SeqMonotonic
<1>4. NL # END
  BY TextsAssumption
<1> QED
  BY <1>2, <1>3, <1>4 DEF Text

(* A line that is cut.                                                     *)
LEMMA CutIs ==
  ASSUME NEW E, NEW r \in Seq(E)
  PROVE  /\ Cut(r) \in Seq(E)
         /\ Len(r) <= BufferLen - 1 => Cut(r) = r
         /\ Len(r) >= BufferLen - 1 => Len(Cut(r)) = BufferLen - 1
         /\ r # <<>> => Cut(r) # <<>>
<1> DEFINE M == {Len(r), BufferLen - 1}
           m == Min(M)
<1>1. BufferLen \in Nat /\ BufferLen > 1 /\ Len(r) \in Nat
  BY BoundsAssumption
<1>2. m \in M /\ m <= Len(r) /\ m <= BufferLen - 1
  <2>1. M \in SUBSET Nat /\ M # {} /\ Len(r) \in M /\ BufferLen - 1 \in M
    BY <1>1
  <2> HIDE DEF M
  <2> QED
    BY <2>1, MinIsLeast
<1>3. m \in 0..Len(r) /\ (m = Len(r) \/ m = BufferLen - 1)
  BY <1>1, <1>2
<1>4. Cut(r) = SubSeq(r, 1, m)
  BY DEF Cut
<1> HIDE DEF m
<1>5. SubSeq(r, 1, m) \in Seq(E) /\ Len(SubSeq(r, 1, m)) = m
  <2>1. 1 \in Int /\ m \in Int /\ (\A i \in 1..m : r[i] \in E) /\ (IF 1 <= m THEN m - 1 + 1 ELSE 0) = m
    BY <1>3
  <2> QED
    BY <2>1, SubSeqProperties
<1>6. m = Len(r) => SubSeq(r, 1, m) = r
  BY SubSeqFull
<1>7. Len(r) <= BufferLen - 1 => m = Len(r)
  BY <1>1, <1>2, <1>3
<1>8. Len(r) >= BufferLen - 1 => m = BufferLen - 1
  BY <1>1, <1>2, <1>3
<1>9. r # <<>> => Len(r) > 0
  BY EmptySeq
<1>10. Cut(r) = <<>> => m = 0
  BY <1>4, <1>5, EmptySeq
<1>11. Len(r) > 0 => m # 0
  BY <1>1, <1>3
<1> QED
  BY <1>4, <1>5, <1>6, <1>7, <1>8, <1>9, <1>10, <1>11

(* What follows on a full buffer does not count.                           *)
LEMMA CutStays ==
  ASSUME NEW E, NEW r \in Seq(E), NEW c \in Seq(E), Len(r) >= BufferLen - 1
  PROVE  Cut(r \o c) = Cut(r) /\ Len(r \o c) >= BufferLen - 1
<1> DEFINE b == BufferLen - 1
           x == Cut(r)
           y == Cut(r \o c)
<1>1. b \in Nat /\ b >= 1 /\ Len(r) \in Nat /\ Len(c) \in Nat
  BY BoundsAssumption
<1>2. /\ r \o c \in Seq(E) /\ Len(r \o c) = Len(r) + Len(c)
      /\ \A i \in 1..Len(r) : (r \o c)[i] = r[i]
  <2>1. /\ r \o c \in Seq(E) /\ Len(r \o c) = Len(r) + Len(c)
        /\ \A i \in 1..Len(r) + Len(c) : (r \o c)[i] = IF i <= Len(r) THEN r[i] ELSE c[i - Len(r)]
    BY ConcatProperties
  <2> QED
    BY <1>1, <2>1
<1>3. Len(r \o c) >= b
  <2>1. Len(r) >= b /\ Len(r \o c) = Len(r) + Len(c)
    BY <1>2
  <2> HIDE DEF b
  <2> QED
    BY <1>1, <2>1
<1>4. x \in Seq(E) /\ Len(x) = b /\ y \in Seq(E) /\ Len(y) = b
  BY <1>2, <1>3, CutIs
<1>5. ASSUME NEW t \in Seq(E), Len(t) >= b
      PROVE  \A i \in 1..b : Cut(t)[i] = t[i]
  <2> DEFINE m == Min({Len(t), b})
  <2>1. Cut(t) = SubSeq(t, 1, m)
    BY DEF Cut
  <2>2. m = b
    <3>1. {Len(t), b} \in SUBSET Nat /\ {Len(t), b} # {}
      BY <1>1
    <3>2. m \in {Len(t), b} /\ \A i \in {Len(t), b} : m <= i
      BY <3>1, MinIsLeast
    <3>3. Len(t) \in Nat
      OBVIOUS
    <3> HIDE DEF m, b
    <3> QED
      BY <1>1, <1>5, <3>2, <3>3
  <2>3. 1 \in Int /\ b \in Int /\ (\A i \in 1..b : t[i] \in E) /\ b - 1 + 1 = b
    BY <1>1, <1>5
  <2> HIDE DEF m, b
  <2>4. \A i \in 1..b : SubSeq(t, 1, b)[i] = t[1 + i - 1]
    BY <2>3, SubSeqProperties
  <2>5. \A i \in 1..b : SubSeq(t, 1, b)[i] = t[i]
    BY <1>1, <2>4
  <2> QED
    BY <2>1, <2>2, <2>5, Zenon
<1>6. \A i \in 1..b : x[i] = r[i]
  BY <1>5
<1>7. \A i \in 1..b : y[i] = (r \o c)[i]
  BY <1>2, <1>3, <1>5
<1>8. \A i \in 1..b : i \in 1..Len(r)
  BY <1>1
<1> HIDE DEF x, y
<1>9. \A i \in 1..b : x[i] = y[i]
  BY <1>2, <1>6, <1>7, <1>8, Zenon
<1>10. x = y
  <2> HIDE DEF b
  <2> QED
    BY <1>4, <1>9, SeqEqual
<1> QED
  BY <1>3, <1>10 DEF x, y

(* The next end, from where a line begins.                                 *)
LEMMA EndAfterIs ==
  ASSUME NEW E, NEW t \in Seq(E), NEW e \in 0..Len(t) + 1
  PROVE  /\ EndAfter(t, e) \in 0..Len(t) + 1
         /\ \A j \in e + 1..Len(t) :
              t[j] = NL /\ (\A i \in e + 1..j - 1 : t[i] # NL) => EndAfter(t, e) = j
         /\ (\A i \in e + 1..Len(t) : t[i] # NL) => EndAfter(t, e) = Len(t) + 1
<1> DEFINE n == Len(t)
           I == {j \in e + 1..n : t[j] = NL}
           m == EndAfter(t, e)
<1>1. n \in Nat /\ I \cup {n + 1} \in SUBSET Nat /\ I \cup {n + 1} # {}
  OBVIOUS
<1>2. m \in I \cup {n + 1} /\ \A j \in I \cup {n + 1} : m <= j
  <2>1. m = Min(I \cup {n + 1})
    BY DEF EndAfter
  <2> HIDE DEF I, m
  <2> QED
    BY <1>1, <2>1, MinIsLeast
<1> HIDE DEF m
<1>3. m \in 0..n + 1
  BY <1>1, <1>2
<1>4. ASSUME NEW j \in e + 1..n, t[j] = NL, \A i \in e + 1..j - 1 : t[i] # NL PROVE m = j
  <2>1. j \in I /\ m <= j /\ m \in Int /\ j \in Int
    BY <1>2, <1>3, <1>4
  <2>2. m < j => m \in e + 1..j - 1 /\ t[m] = NL
    BY <1>1, <1>2, <2>1
  <2> QED
    BY <1>4, <2>1, <2>2
<1>5. ASSUME \A i \in e + 1..n : t[i] # NL PROVE m = n + 1
  <2>1. I = {}
    BY <1>5
  <2> QED
    BY <1>2, <2>1
<1> QED
  BY <1>3, <1>4, <1>5 DEF m

(* The ends of a text's lines are found one after another.                 *)
LEMMA LineEndsAre ==
  ASSUME NEW E, NEW t \in Seq(E)
  PROVE  /\ LineEnds(t) \in [0..Len(t) -> 0..Len(t) + 1]
         /\ LineEnds(t)[0] = 0
         /\ \A k \in 1..Len(t) : LineEnds(t)[k] = EndAfter(t, LineEnds(t)[k - 1])
<1> DEFINE n == Len(t)
           S == 0..n + 1
           next == [e \in S |-> EndAfter(t, e)]
           step == [i \in 1..n |-> next]
           Rec(f) == f = [k \in 0..n |-> IF k = 0 THEN 0 ELSE EndAfter(t, f[k - 1])]
           f0 == CHOOSE f : Rec(f)
<1>1. n \in Nat /\ 0 \in S
  OBVIOUS
<1>2. LineEnds(t) = f0
  BY DEF LineEnds
<1>3. next \in [S -> S]
  <2>1. \A e \in S : EndAfter(t, e) \in S
    BY EndAfterIs
  <2> HIDE DEF S
  <2> QED
    BY <2>1
<1>4. step \in [1..n -> [S -> S]] /\ \A i \in 1..n, e \in S : step[i][e] = EndAfter(t, e)
  <2>1. \A e \in S : next[e] = EndAfter(t, e)
    OBVIOUS
  <2> HIDE DEF next, S, n
  <2> QED
    BY <1>3, <2>1
<1> HIDE DEF step, next
<1>5. PICK f \in [0..n -> S] : Iterates(f, n, 0, step)
  <2> HIDE DEF S, n
  <2> QED
    BY <1>1, <1>4, IterationExists, Zenon
<1>6. f[0] = 0 /\ \A k \in 1..n : f[k] = step[k][f[k - 1]]
  BY <1>5, Zenon DEF Iterates
<1>7. \A k \in 1..n : k - 1 \in 0..n /\ k \in 0..n
  <2> HIDE DEF n
  <2> QED
    BY <1>1
<1>8. \A k \in 1..n : f[k] = EndAfter(t, f[k - 1])
  <2> HIDE DEF S, n
  <2>1. \A k \in 1..n : f[k - 1] \in S
    BY <1>7
  <2> QED
    BY <1>4, <1>6, <2>1, Zenon
<1>9. Rec(f)
  <2>1. \A k \in 0..n : f[k] = IF k = 0 THEN 0 ELSE EndAfter(t, f[k - 1])
    <3>1. \A k \in 0..n : k # 0 => k \in 1..n
      BY <1>1
    <3> QED
      BY <1>6, <1>8, <3>1, Zenon
  <2>2. f = [k \in 0..n |-> f[k]]
    <3> HIDE DEF n, S
    <3> QED
      OBVIOUS
  <2> HIDE DEF n, S
  <2> QED
    BY <2>1, <2>2, Zenon
<1>10. Rec(f0)
  <2> HIDE DEF Rec
  <2> QED
    BY <1>9, Zenon
<1> HIDE DEF f0
<1>11. /\ DOMAIN f0 = 0..n
       /\ \A k \in 0..n : f0[k] = IF k = 0 THEN 0 ELSE EndAfter(t, f0[k - 1])
  <2> HIDE DEF n
  <2> QED
    BY <1>10, Zenon
<1>12. 0 \in 0..n /\ \A k \in 1..n : k # 0
  BY <1>1
<1>13. f0[0] = 0 /\ \A k \in 1..n : f0[k] = EndAfter(t, f0[k - 1])
  <2> HIDE DEF n
  <2> QED
    BY <1>7, <1>11, <1>12, Zenon
<1>14. f0 \in [0..n -> S]
  <2> DEFINE P == {k \in 0..n : f0[k] \in S}
  <2>1. 0 \in P
    BY <1>1, <1>12, <1>13
  <2>2. ASSUME NEW k \in 1..n, k - 1 \in P PROVE k \in P
    <3>1. f0[k] = EndAfter(t, f0[k - 1]) /\ f0[k - 1] \in S /\ k \in 0..n
      BY <1>7, <1>13, <2>2
    <3>2. f0[k] \in S
      BY <3>1, EndAfterIs
    <3> QED
      BY <3>1, <3>2
  <2>3. \A k \in 0..n : k \in P
    <3> HIDE DEF P, n
    <3> QED
      BY <1>1, <2>1, <2>2, UpTo
  <2>4. \A k \in 0..n : f0[k] \in S
    BY <2>3
  <2>5. f0 = [k \in 0..n |-> f0[k]]
    <3> HIDE DEF n, S
    <3> QED
      BY <1>10, Zenon
  <2> HIDE DEF n, S
  <2> QED
    BY <2>4, <2>5, Zenon
<1> QED
  BY <1>2, <1>13, <1>14

(* Numbers that are found in the same way are those ends.                  *)
LEMMA EndsAre ==
  ASSUME NEW E, NEW t \in Seq(E), NEW n \in Nat, NEW end \in [0..n -> 0..Len(t) + 1],
         end[0] = 0,
         \A k \in 1..n : end[k] = EndAfter(t, end[k - 1]) /\ end[k - 1] < Len(t) /\ end[k - 1] < end[k]
  PROVE  n <= Len(t) /\ \A k \in 0..n : LineEnds(t)[k] = end[k]
<1> DEFINE f == LineEnds(t)
<1>1. Len(t) \in Nat /\ \A k \in 1..n : k - 1 \in 0..n /\ k \in 0..n
  OBVIOUS
<1>2. \A k \in 0..n : end[k] \in 0..Len(t) + 1
  BY Zenon
<1> DEFINE P == {k \in 0..n : k <= end[k]}
<1>3. \A k \in 0..n : k \in P
  <2>1. 0 \in P
    OBVIOUS
  <2>2. ASSUME NEW k \in 1..n, k - 1 \in P PROVE k \in P
    <3>1. k - 1 <= end[k - 1] /\ end[k - 1] < end[k] /\ k \in 0..n
      BY <1>1, <2>2
    <3>2. end[k] \in 0..Len(t) + 1 /\ end[k - 1] \in 0..Len(t) + 1
      BY <1>1, <1>2
    <3>3. k <= end[k]
      BY <1>1, <3>1, <3>2
    <3> QED
      BY <3>1, <3>3
  <2> HIDE DEF P
  <2> QED
    BY <2>1, <2>2, UpTo
<1>4. n <= Len(t)
  <2>1. CASE n = 0
    BY <1>1, <2>1
  <2>2. CASE n # 0
    <3>1. n \in 1..n /\ n - 1 \in 0..n
      BY <2>2
    <3>2. n - 1 <= end[n - 1] /\ end[n - 1] < Len(t) /\ end[n - 1] \in 0..Len(t) + 1
      BY <1>2, <1>3, <3>1
    <3> QED
      BY <1>1, <3>2
  <2> QED
    BY <2>1, <2>2
<1>5. f[0] = 0 /\ \A k \in 1..Len(t) : f[k] = EndAfter(t, f[k - 1])
  BY LineEndsAre
<1> DEFINE Q == {k \in 0..n : f[k] = end[k]}
<1>6. \A k \in 0..n : k \in Q
  <2> HIDE DEF f
  <2>1. 0 \in Q
    BY <1>5
  <2>2. ASSUME NEW k \in 1..n, k - 1 \in Q PROVE k \in Q
    <3>1. k \in 1..Len(t) /\ k \in 0..n
      BY <1>1, <1>4
    <3>2. f[k - 1] = end[k - 1]
      BY <2>2
    <3>3. f[k] = EndAfter(t, f[k - 1]) /\ end[k] = EndAfter(t, end[k - 1])
      BY <1>5, <3>1, Zenon
    <3>4. f[k] = end[k]
      BY <3>2, <3>3
    <3> QED
      BY <3>1, <3>4
  <2> HIDE DEF Q
  <2> QED
    BY <2>1, <2>2, UpTo
<1> QED
  BY <1>4, <1>6

(* A text that begins with another.                                        *)
Begins(text, done) == Len(done) <= Len(text) /\ \A j \in 1..Len(done) : text[j] = done[j]

(* The lines of a text that ends with a newline, or is empty, are handed   *)
(* out, each cut to the buffer.                                            *)
LinesAt(done, lines, end) ==
  /\ end \in [0..Len(lines) -> 0..Len(done)]
  /\ end[0] = 0 /\ end[Len(lines)] = Len(done)
  /\ \A k \in 1..Len(lines) :
       /\ end[k - 1] < end[k] /\ done[end[k]] = NL
       /\ \A j \in end[k - 1] + 1..end[k] - 1 : done[j] # NL
       /\ lines[k] = Cut(SubSeq(done, end[k - 1] + 1, end[k] - 1))
Handed(done, lines) == \E end \in [0..Len(lines) -> 0..Len(done)] : LinesAt(done, lines, end)

(* Nothing is handed out of nothing.                                       *)
LEMMA HandedNone == Handed(<<>>, <<>>)
<1>1. LinesAt(<<>>, <<>>, [k \in 0..0 |-> 0])
  BY DEF LinesAt
<1> QED
  BY <1>1 DEF Handed

(* A part of a text is where it is in any text that begins with it.        *)
LEMMA PartStays ==
  ASSUME NEW E, NEW t \in Seq(E), NEW d \in Seq(E), Begins(t, d),
         NEW a \in 1..Len(d) + 1, NEW b \in 0..Len(d)
  PROVE  SubSeq(t, a, b) = SubSeq(d, a, b)
<1>1. a \in Int /\ b \in Int /\ Len(d) \in Nat /\ Len(t) \in Nat /\ Len(d) <= Len(t)
  BY DEF Begins
<1>2. \A i \in a..b : i \in 1..Len(d) /\ i \in 1..Len(t)
  BY <1>1
<1>3. \A i \in a..b : t[i] = d[i] /\ d[i] \in E /\ t[i] \in E
  BY <1>2, ElementOfSeq DEF Begins
<1>4. /\ SubSeq(t, a, b) \in Seq(E) /\ Len(SubSeq(t, a, b)) = IF a <= b THEN b - a + 1 ELSE 0
      /\ \A i \in 1..b - a + 1 : SubSeq(t, a, b)[i] = t[a + i - 1]
  BY <1>1, <1>3, SubSeqProperties
<1>5. /\ SubSeq(d, a, b) \in Seq(E) /\ Len(SubSeq(d, a, b)) = IF a <= b THEN b - a + 1 ELSE 0
      /\ \A i \in 1..b - a + 1 : SubSeq(d, a, b)[i] = d[a + i - 1]
  BY <1>1, <1>3, SubSeqProperties
<1> DEFINE x == SubSeq(t, a, b)
           y == SubSeq(d, a, b)
<1>6. ASSUME NEW i \in 1..Len(x) PROVE x[i] = y[i]
  <2>1. i \in 1..b - a + 1 /\ a + i - 1 \in a..b
    BY <1>1, <1>4
  <2> QED
    BY <1>3, <1>4, <1>5, <2>1, Zenon
<1>7. x \in Seq(E) /\ y \in Seq(E) /\ Len(x) = Len(y)
  BY <1>4, <1>5
<1> HIDE DEF x, y
<1>8. x = y
  BY <1>6, <1>7, SeqEqual
<1> QED
  BY <1>8 DEF x, y

(* The next line, with its newline.                                        *)
IsNext(t, done, rest) ==
  /\ t \in Seq(Text) /\ Len(t) = Len(done) + Len(rest) + 1 /\ Begins(t, done)
  /\ \A j \in Len(done) + 1..Len(done) + Len(rest) : t[j] # NL
  /\ t[Len(t)] = NL
  /\ SubSeq(t, Len(done) + 1, Len(t) - 1) = rest

(* ... follows the lines before it.                                        *)
LEMMA NextLine ==
  ASSUME NEW done \in Seq(Text), NEW rest \in Seq(Chars)
  PROVE  IsNext((done \o rest) \o <<NL>>, done, rest)
<1> DEFINE t == (done \o rest) \o <<NL>>
           u == done \o rest
           d == Len(done)
           r == Len(rest)
<1>1. rest \in Seq(Text) /\ <<NL>> \in Seq(Text) /\ Len(<<NL>>) = 1 /\ <<NL>>[1] = NL
  BY SeqMonotonic DEF Text
<1>2. d \in Nat /\ r \in Nat
  OBVIOUS
<1>3. /\ u \in Seq(Text) /\ Len(u) = d + r
      /\ \A j \in 1..d + r : u[j] = IF j <= d THEN done[j] ELSE rest[j - d]
  BY <1>1, ConcatProperties
<1> HIDE DEF u, t
<1>4. /\ t \in Seq(Text) /\ Len(t) = (d + r) + 1
      /\ \A j \in 1..(d + r) + 1 : t[j] = IF j <= d + r THEN u[j] ELSE <<NL>>[j - (d + r)]
  <2>1. t = u \o <<NL>>
    BY DEF u, t
  <2> DEFINE z == <<NL>>
  <2>2. z \in Seq(Text) /\ Len(z) = 1
    BY <1>1
  <2> HIDE DEF z, d, r
  <2>3. /\ u \o z \in Seq(Text) /\ Len(u \o z) = Len(u) + Len(z)
        /\ \A j \in 1..Len(u) + Len(z) : (u \o z)[j] = IF j <= Len(u) THEN u[j] ELSE z[j - Len(u)]
    BY <1>3, <2>2, ConcatProperties
  <2>4. /\ t \in Seq(Text) /\ Len(t) = (d + r) + 1
        /\ \A j \in 1..(d + r) + 1 : t[j] = IF j <= d + r THEN u[j] ELSE z[j - (d + r)]
    BY <1>3, <2>1, <2>2, <2>3, Zenon DEF z
  <2> QED
    BY <2>4, Zenon DEF z
<1> HIDE DEF d, r
<1>5. \A j \in 1..d : t[j] = done[j]
  <2>1. \A j \in 1..d : j \in 1..d + r /\ j \in 1..(d + r) + 1 /\ j <= d /\ j <= d + r
    BY <1>2
  <2> QED
    BY <1>3, <1>4, <2>1, Zenon
<1>6. \A j \in 1..r : t[d + j] = rest[j]
  <2>1. \A j \in 1..r : /\ d + j \in 1..d + r /\ d + j \in 1..(d + r) + 1 /\ ~(d + j <= d)
                        /\ d + j <= d + r /\ (d + j) - d = j
    BY <1>2
  <2> QED
    BY <1>3, <1>4, <2>1
<1>7. t[(d + r) + 1] = NL
  <2>1. /\ (d + r) + 1 \in 1..(d + r) + 1 /\ ~((d + r) + 1 <= d + r) /\ ((d + r) + 1) - (d + r) = 1
    BY <1>2
  <2> QED
    BY <1>1, <1>4, <2>1
<1>8. \A j \in 1..r : rest[j] \in Chars
  BY DEF r
<1>9. ASSUME NEW j \in d + 1..d + r PROVE t[j] # NL
  <2>1. j - d \in 1..r /\ d + (j - d) = j
    BY <1>2
  <2>2. t[j] \in Chars
    BY <1>6, <1>8, <2>1
  <2> QED
    BY <2>2, CharsAre
<1>10. SubSeq(t, d + 1, Len(t) - 1) = rest
  <2> DEFINE x == SubSeq(t, d + 1, d + r)
  <2>1. Len(t) = d + r + 1 /\ d + r <= Len(t) /\ Len(t) - 1 = d + r
    <3>1. Len(t) = (d + r) + 1
      BY <1>4
    <3> DEFINE n == Len(t)
    <3>2. n = (d + r) + 1
      BY <3>1
    <3> HIDE DEF n
    <3>3. n = d + r + 1 /\ d + r <= n /\ n - 1 = d + r
      BY <1>2, <3>2
    <3> QED
      BY <3>3 DEF n
  <2>2. x \in Seq(Text) /\ Len(x) = r /\ \A i \in 1..r : x[i] = t[d + i]
    <3>1. t \in Seq(Text) /\ d + r <= Len(t)
      BY <1>4, <2>1
    <3>3. d \in Nat /\ r \in Nat
      BY <1>2
    <3>4. SubSeq(t, d + 1, d + r) \in Seq(Text) /\ Len(SubSeq(t, d + 1, d + r)) = r
      BY <3>1, <3>3, Stretch
    <3>5. \A i \in 1..r : SubSeq(t, d + 1, d + r)[i] = t[d + i]
      BY <3>1, <3>3, Stretch
    <3> QED
      BY <3>4, <3>5
  <2> HIDE DEF x
  <2>3. \A i \in 1..r : x[i] = rest[i]
    BY <1>6, <2>2, Zenon
  <2>4. x = rest
    BY <1>1, <2>2, <2>3, SeqEqual DEF r
  <2>5. SubSeq(t, d + 1, Len(t) - 1) = x
    BY <2>1, Zenon DEF x
  <2> QED
    BY <2>4, <2>5
<1>11. Begins(t, done)
  <2>1. d <= Len(t)
    BY <1>2, <1>4
  <2> QED
    BY <1>5, <2>1 DEF Begins, d
<1>12. t[Len(t)] = NL /\ Len(t) = d + r + 1
  BY <1>2, <1>4, <1>7
<1> QED
  BY <1>4, <1>9, <1>10, <1>11, <1>12 DEF IsNext, d, r, t

(* The next line is handed out with its newline, cut.                      *)
LEMMA HandedNext ==
  ASSUME NEW done \in Seq(Text), NEW rest \in Seq(Chars), NEW lines \in Seq(Seq(Chars)),
         Handed(done, lines)
  PROVE  Handed((done \o rest) \o <<NL>>, Append(lines, Cut(rest)))
<1> DEFINE t == (done \o rest) \o <<NL>>
           l == Append(lines, Cut(rest))
           n == Len(lines)
           d == Len(done)
<1>1. IsNext(t, done, rest)
  BY NextLine
<1>2. n \in Nat /\ l \in Seq(Seq(Chars)) /\ Len(l) = n + 1 /\ l[n + 1] = Cut(rest) /\ \A k \in 1..n : l[k] = lines[k]
  <2>1. Cut(rest) \in Seq(Chars)
    BY CutIs
  <2> QED
    BY <2>1, AppendProperties
<1>3. PICK end \in [0..n -> 0..d] : LinesAt(done, lines, end)
  BY Zenon DEF Handed
<1>4. d \in Nat /\ Len(rest) \in Nat
  OBVIOUS
<1> HIDE DEF t, l, n
<1>5. /\ end[0] = 0 /\ end[n] = d
      /\ \A k \in 1..n :
           /\ end[k - 1] < end[k] /\ done[end[k]] = NL
           /\ \A j \in end[k - 1] + 1..end[k] - 1 : done[j] # NL
           /\ lines[k] = Cut(SubSeq(done, end[k - 1] + 1, end[k] - 1))
  BY <1>3, Zenon DEF LinesAt, n
<1>6. /\ t \in Seq(Text) /\ Len(t) = d + Len(rest) + 1 /\ Begins(t, done)
      /\ \A j \in d + 1..d + Len(rest) : t[j] # NL
      /\ t[Len(t)] = NL
      /\ SubSeq(t, d + 1, Len(t) - 1) = rest
  BY <1>1 DEF IsNext
<1>7. \A k \in 0..n : end[k] \in 0..d
  BY Zenon
<1> DEFINE g == [k \in 0..n + 1 |-> IF k = n + 1 THEN Len(t) ELSE end[k]]
<1> HIDE DEF d
<1>14. Len(t) = d + Len(rest) + 1
  BY <1>6
<1> DEFINE m == Len(t)
<1>15. m = d + Len(rest) + 1 /\ m \in Nat /\ d < m
  <2>1. m = d + Len(rest) + 1
    BY <1>14
  <2> HIDE DEF m
  <2> QED
    BY <1>4, <2>1
<1>8. g[n + 1] = m /\ \A k \in 0..n : g[k] = end[k]
  BY <1>2
<1>9. g \in [0..n + 1 -> 0..m]
  <2> HIDE DEF m
  <2>1. \A k \in 0..n : end[k] \in 0..m
    BY <1>4, <1>7, <1>15
  <2>2. m \in 0..m /\ \A k \in 0..n + 1 : k # n + 1 => k \in 0..n
    BY <1>2, <1>15
  <2> QED
    BY <2>1, <2>2 DEF m
<1> HIDE DEF g, m
<1>10. g[0] = 0
  <2>1. 0 \in 0..n
    BY <1>2
  <2> QED
    BY <1>5, <1>8, <2>1
<1> DEFINE Q(k) == /\ g[k - 1] < g[k] /\ t[g[k]] = NL
                   /\ \A j \in g[k - 1] + 1..g[k] - 1 : t[j] # NL
                   /\ l[k] = Cut(SubSeq(t, g[k - 1] + 1, g[k] - 1))
<1>11. ASSUME NEW k \in 1..n PROVE Q(k)
  <2>1. k \in 0..n /\ k - 1 \in 0..n
    BY <1>2
  <2> DEFINE a == end[k - 1]
             b == end[k]
  <2>2. g[k - 1] = a /\ g[k] = b /\ a \in 0..d /\ b \in 0..d /\ l[k] = lines[k]
    BY <1>2, <1>7, <1>8, <2>1
  <2>3. /\ a < b /\ done[b] = NL
        /\ \A j \in a + 1..b - 1 : done[j] # NL
        /\ lines[k] = Cut(SubSeq(done, a + 1, b - 1))
    BY <1>5
  <2> HIDE DEF a, b
  <2>4. b \in 1..d /\ a + 1 \in 1..d + 1 /\ b - 1 \in 0..d /\ \A j \in a + 1..b - 1 : j \in 1..d
    BY <1>4, <2>2, <2>3
  <2>5. \A j \in 1..d : t[j] = done[j]
    BY <1>6 DEF Begins, d
  <2>6. SubSeq(t, a + 1, b - 1) = SubSeq(done, a + 1, b - 1)
    <3>1. t \in Seq(Text) /\ Begins(t, done) /\ a + 1 \in 1..Len(done) + 1 /\ b - 1 \in 0..Len(done)
      BY <1>6, <2>4 DEF d
    <3> QED
      BY <3>1, PartStays
  <2>7. t[b] = NL /\ \A j \in a + 1..b - 1 : t[j] # NL
    BY <2>3, <2>4, <2>5
  <2>8. l[k] = Cut(SubSeq(t, a + 1, b - 1))
    BY <2>2, <2>3, <2>6
  <2> QED
    BY <2>2, <2>3, <2>7, <2>8
<1>12. Q(n + 1)
  <2>1. g[(n + 1) - 1] = d /\ g[n + 1] = m
    <3>1. (n + 1) - 1 = n /\ n \in 0..n
      BY <1>2
    <3> QED
      BY <1>5, <1>8, <3>1
  <2>2. t[m] = NL /\ SubSeq(t, d + 1, m - 1) = rest
    BY <1>6 DEF m
  <2>3. m - 1 = d + Len(rest)
    BY <1>4, <1>15
  <2>4. \A j \in d + 1..m - 1 : t[j] # NL
    BY <1>6, <2>3, Zenon
  <2>5. l[n + 1] = Cut(SubSeq(t, d + 1, m - 1))
    BY <1>2, <2>2
  <2> QED
    BY <1>15, <2>1, <2>2, <2>4, <2>5
<1>13. \A k \in 1..n + 1 : Q(k)
  <2>1. \A k \in 1..n + 1 : k \in 1..n \/ k = n + 1
    BY <1>2
  <2> HIDE DEF Q
  <2> QED
    BY <1>11, <1>12, <2>1
<1>16. Len(l) = n + 1 /\ Len(t) = m
  BY <1>2 DEF m
<1>17. LinesAt(t, l, g)
  BY <1>8, <1>9, <1>10, <1>13, <1>16, Zenon DEF LinesAt
<1>18. Handed(t, l)
  BY <1>9, <1>16, <1>17, Zenon DEF Handed
<1> QED
  BY <1>18 DEF t, l

(* What is handed out of a text's beginning is the text's.                 *)
LEMMA EndsOfText ==
  ASSUME NEW t \in Seq(Text), NEW done \in Seq(Text), Begins(t, done),
         NEW lines \in Seq(Seq(Chars)), NEW end \in [0..Len(lines) -> 0..Len(done)],
         LinesAt(done, lines, end), NEW k \in 1..Len(lines)
  PROVE  /\ end[k] = EndAfter(t, end[k - 1]) /\ end[k - 1] < end[k] /\ end[k - 1] < Len(t)
         /\ lines[k] = Cut(SubSeq(t, end[k - 1] + 1, end[k] - 1))
<1> DEFINE a == end[k - 1]
           b == end[k]
           d == Len(done)
           m == Len(t)
<1>1. d \in Nat /\ m \in Nat /\ d <= m /\ \A j \in 1..d : t[j] = done[j]
  BY DEF Begins
<1>2. k \in 0..Len(lines) /\ k - 1 \in 0..Len(lines)
  OBVIOUS
<1>3. a \in 0..d /\ b \in 0..d
  BY <1>2, Zenon
<1>4. /\ a < b /\ done[b] = NL
      /\ \A j \in a + 1..b - 1 : done[j] # NL
      /\ lines[k] = Cut(SubSeq(done, a + 1, b - 1))
  BY Zenon DEF LinesAt
<1> HIDE DEF a, b, d, m
<1>5. /\ b \in 1..d /\ a + 1 \in 1..d + 1 /\ b - 1 \in 0..d /\ \A j \in a + 1..b - 1 : j \in 1..d
      /\ b \in a + 1..m /\ a \in 0..m + 1 /\ a < m
  BY <1>1, <1>3, <1>4, SMTT(30)
<1>6. t[b] = NL /\ \A j \in a + 1..b - 1 : t[j] # NL
  BY <1>1, <1>4, <1>5
<1>7. EndAfter(t, a) = b
  BY <1>5, <1>6, EndAfterIs DEF m
<1>8. SubSeq(t, a + 1, b - 1) = SubSeq(done, a + 1, b - 1)
  BY <1>5, PartStays DEF d
<1> QED
  BY <1>4, <1>5, <1>7, <1>8 DEF a, b, m

(* ... so a line handed out is the text's line of that number.             *)
LEMMA HandedLines ==
  ASSUME NEW t \in Seq(Text), NEW done \in Seq(Text), Begins(t, done),
         NEW lines \in Seq(Seq(Chars)), Handed(done, lines)
  PROVE  /\ \A k \in 1..Len(lines) : IsLine(lines[k], t, k)
         /\ Len(lines) <= Len(t) /\ LineEnds(t)[Len(lines)] = Len(done)
<1>1. PICK end \in [0..Len(lines) -> 0..Len(done)] : LinesAt(done, lines, end)
  BY Zenon DEF Handed
<1> DEFINE n == Len(lines)
           m == Len(t)
<1>2. \A k \in 1..n :
        /\ end[k] = EndAfter(t, end[k - 1]) /\ end[k - 1] < m /\ end[k - 1] < end[k]
        /\ lines[k] = Cut(SubSeq(t, end[k - 1] + 1, end[k] - 1))
  BY <1>1, EndsOfText
<1>3. end[0] = 0 /\ n \in Nat /\ m \in Nat /\ Len(done) \in Nat /\ Len(done) <= m
  BY <1>1 DEF LinesAt, Begins
<1>4. end \in [0..n -> 0..m + 1]
  <2>1. \A k \in 0..n : end[k] \in 0..Len(done)
    BY Zenon
  <2>2. 0..Len(done) \subseteq 0..m + 1
    BY <1>3
  <2> QED
    BY <2>1, <2>2, Zenon
<1>5. n <= m /\ \A k \in 0..n : LineEnds(t)[k] = end[k]
  <2> HIDE DEF n
  <2> QED
    BY <1>2, <1>3, <1>4, EndsAre
<1>6. \A k \in 1..n : k \in 0..n /\ k - 1 \in 0..n /\ k \in 1..m
  <2> HIDE DEF n, m
  <2> QED
    BY <1>3, <1>5
<1>7. \A k \in 1..n : IsLine(lines[k], t, k)
  BY <1>2, <1>5, <1>6, Zenon DEF IsLine, HasLine
<1>8. LineEnds(t)[n] = Len(done)
  <2>1. n \in 0..n /\ end[n] = Len(done)
    BY <1>1, <1>3 DEF LinesAt
  <2> QED
    BY <1>5, <2>1, Zenon
<1> QED
  BY <1>5, <1>7, <1>8

(* The last line need not be terminated.                                   *)
LEMMA HandedLast ==
  ASSUME NEW t \in Seq(Text), NEW done \in Seq(Text), Begins(t, done), Len(done) < Len(t),
         \A j \in Len(done) + 1..Len(t) : t[j] # NL,
         NEW lines \in Seq(Seq(Chars)), Handed(done, lines)
  PROVE  /\ IsLine(Cut(SubSeq(t, Len(done) + 1, Len(t))), t, Len(lines) + 1)
         /\ Len(lines) + 1 <= Len(t) /\ LineEnds(t)[Len(lines) + 1] = Len(t) + 1
<1>1. PICK end \in [0..Len(lines) -> 0..Len(done)] : LinesAt(done, lines, end)
  BY Zenon DEF Handed
<1> DEFINE n == Len(lines)
           m == Len(t)
           d == Len(done)
           g == [k \in 0..n + 1 |-> IF k = n + 1 THEN m + 1 ELSE end[k]]
<1>2. \A k \in 1..n : end[k] = EndAfter(t, end[k - 1]) /\ end[k - 1] < m /\ end[k - 1] < end[k]
  BY <1>1, EndsOfText
<1>3. end[0] = 0 /\ end[n] = d /\ n \in Nat /\ m \in Nat /\ d \in Nat /\ d < m
  BY <1>1 DEF LinesAt
<1>4. \A k \in 0..n : end[k] \in 0..d
  BY Zenon
<1>5. EndAfter(t, d) = m + 1
  <2>1. d \in 0..Len(t) + 1 /\ \A j \in d + 1..Len(t) : t[j] # NL
    BY <1>3
  <2> QED
    BY <2>1, EndAfterIs
<1> HIDE DEF n, m, d
<1>6. /\ \A k \in 1..n + 1 : k \in 0..n + 1 /\ k - 1 \in 0..n /\ (k # n + 1 => k \in 1..n /\ k \in 0..n)
      /\ (n + 1) - 1 = n /\ n + 1 \in 1..n + 1 /\ 0 \in 0..n /\ n \in 0..n
  BY <1>3
<1>7. g[n + 1] = m + 1 /\ \A k \in 0..n : g[k] = end[k]
  BY <1>3
<1>8. g \in [0..n + 1 -> 0..m + 1]
  <2>1. \A k \in 0..n : end[k] \in 0..m + 1
    BY <1>3, <1>4
  <2>2. m + 1 \in 0..m + 1 /\ \A k \in 0..n + 1 : k # n + 1 => k \in 0..n
    BY <1>3
  <2> QED
    BY <2>1, <2>2
<1> HIDE DEF g
<1>9. ASSUME NEW k \in 1..n + 1
      PROVE  g[k] = EndAfter(t, g[k - 1]) /\ g[k - 1] < m /\ g[k - 1] < g[k]
  <2>1. CASE k = n + 1
    <3>1. g[k - 1] = d /\ g[k] = m + 1
      BY <1>3, <1>6, <1>7, <2>1
    <3> QED
      BY <1>3, <1>5, <3>1
  <2>2. CASE k # n + 1
    <3>1. k \in 1..n /\ g[k - 1] = end[k - 1] /\ g[k] = end[k]
      BY <1>6, <1>7, <2>2
    <3> QED
      BY <1>2, <3>1
  <2> QED
    BY <2>1, <2>2
<1>10. n + 1 <= m /\ \A k \in 0..n + 1 : LineEnds(t)[k] = g[k]
  <2>1. n + 1 \in Nat /\ g[0] = 0 /\ g \in [0..n + 1 -> 0..Len(t) + 1]
    BY <1>3, <1>6, <1>7, <1>8 DEF m
  <2>2. \A k \in 1..n + 1 : g[k] = EndAfter(t, g[k - 1]) /\ g[k - 1] < Len(t) /\ g[k - 1] < g[k]
    BY <1>9 DEF m
  <2> DEFINE N == n + 1
  <2> HIDE DEF N
  <2>3. N \in Nat /\ g[0] = 0 /\ g \in [0..N -> 0..Len(t) + 1]
    BY <2>1 DEF N
  <2>4. \A k \in 1..N : g[k] = EndAfter(t, g[k - 1]) /\ g[k - 1] < Len(t) /\ g[k - 1] < g[k]
    BY <2>2 DEF N
  <2>5. N <= Len(t) /\ \A k \in 0..N : LineEnds(t)[k] = g[k]
    BY <2>3, <2>4, EndsAre
  <2> QED
    BY <2>5 DEF N, m
<1>11. LineEnds(t)[n] = d /\ LineEnds(t)[n + 1] = m + 1
  <2>1. n \in 0..n + 1 /\ n + 1 \in 0..n + 1
    BY <1>3
  <2> QED
    BY <1>3, <1>6, <1>7, <1>10, <2>1
<1>12. /\ n + 1 \in 1..m /\ LineEnds(t)[(n + 1) - 1] = d
       /\ d < m /\ (m + 1) - 1 = m
  BY <1>3, <1>6, <1>10, <1>11
<1>13. IsLine(Cut(SubSeq(t, d + 1, m)), t, n + 1)
  BY <1>11, <1>12, Zenon DEF IsLine, HasLine, m
<1> QED
  BY <1>10, <1>11, <1>13 DEF n, m, d

(* Where the text has ended, no line follows.                              *)
LEMMA NoMoreLines ==
  ASSUME NEW t \in Seq(Text), NEW n \in Nat, n <= Len(t), LineEnds(t)[n] >= Len(t), NEW k \in Nat, k > n
  PROVE  ~HasLine(t, k)
<1> DEFINE m == Len(t)
           f == LineEnds(t)
           P == {i \in 0..m : i >= n => f[i] >= m}
<1>1. m \in Nat /\ f \in [0..m -> 0..m + 1] /\ \A i \in 1..m : f[i] = EndAfter(t, f[i - 1])
  BY LineEndsAre
<1> HIDE DEF f
<1>2. 0 \in P
  <2>1. 0 >= n => f[0] >= m
    BY <1>1 DEF f
  <2> QED
    BY <1>1, <2>1
<1>3. ASSUME NEW i \in 1..m, i - 1 \in P PROVE i \in P
  <2>1. CASE i <= n
    <3>1. i >= n => i = n
      BY <2>1
    <3> QED
      BY <3>1 DEF f
  <2>2. CASE ~(i <= n)
    <3>1. i - 1 >= n /\ i - 1 \in 0..m
      BY <1>1, <2>2
    <3>2. f[i - 1] >= m /\ f[i - 1] \in 0..m + 1
      BY <1>1, <1>3, <3>1
    <3>3. \A j \in f[i - 1] + 1..m : t[j] # NL
      BY <1>1, <3>2
    <3>4. EndAfter(t, f[i - 1]) = m + 1
      BY <3>2, <3>3, EndAfterIs
    <3>5. f[i] = m + 1
      BY <1>1, <3>4
    <3> QED
      BY <1>1, <3>5
  <2> QED
    BY <2>1, <2>2
<1>4. \A i \in 0..m : i \in P
  <2> HIDE DEF P, m
  <2> QED
    BY <1>1, <1>2, <1>3, UpTo
<1> SUFFICES ASSUME HasLine(t, k) PROVE FALSE
  OBVIOUS
<1>5. k \in 1..m /\ f[k - 1] < m
  BY DEF HasLine, f
<1>6. k - 1 \in 0..m /\ k - 1 >= n /\ f[k - 1] \in 0..m + 1
  BY <1>1, <1>5
<1> QED
  BY <1>1, <1>4, <1>5, <1>6

(* What is typed before the first end of file.                             *)
LEMMA BeforeEndIs ==
  ASSUME NEW p \in Seq(Text), NEW u \in Seq(Text \cup {END})
  PROVE  /\ BeforeEnd(p \o u) \in Seq(Text)
         /\ Begins(BeforeEnd(p \o u), p)
         /\ u # <<>> /\ u[1] = END => BeforeEnd(p \o u) = p
<1> DEFINE A == Text \cup {END}
           x == p \o u
           y == Append(x, END)
           i == SelectInSeq(y, LAMBDA c : c = END)
           t == BeforeEnd(x)
           n == Len(p)
           m == Len(u)
<1>1. p \in Seq(A) /\ u \in Seq(A) /\ END \in A
  BY SeqMonotonic
<1>2. n \in Nat /\ m \in Nat /\ \A j \in 1..n : p[j] \in Text
  OBVIOUS
<1> HIDE DEF A
<1>3. /\ x \in Seq(A) /\ Len(x) = n + m
      /\ \A j \in 1..n + m : x[j] = IF j <= n THEN p[j] ELSE u[j - n]
  BY <1>1, ConcatProperties
<1>4. t = SubSeq(x, 1, i - 1)
  BY DEF BeforeEnd
<1> HIDE DEF x, t, n, m
<1>5. y \in Seq(A) /\ Len(y) = n + m + 1 /\ y[n + m + 1] = END /\ \A j \in 1..n + m : y[j] = x[j]
  BY <1>1, <1>3, AppendProperties
<1> HIDE DEF y
<1>6. IsFirst(i, y, END)
  BY <1>5, FindEntry, ZenonT(60) DEF SelectInSeq
<1> HIDE DEF i
<1>7. i \in 1..n + m + 1 /\ y[i] = END /\ \A j \in 1..i - 1 : y[j] # END
  <2>1. Len(y) = n + m + 1 /\ n + m + 1 \in 1..n + m + 1
    BY <1>2, <1>5
  <2> QED
    BY <1>5, <1>6, <2>1, Zenon DEF IsFirst
<1>8. \A j \in 1..n : x[j] = p[j]
  <2>1. \A j \in 1..n : j \in 1..n + m /\ j <= n
    BY <1>2
  <2> QED
    BY <1>3, <2>1, Zenon
<1>9. ~(i <= n)
  <2> SUFFICES ASSUME i <= n PROVE FALSE
    OBVIOUS
  <2>1. i \in 1..n /\ i \in 1..n + m
    BY <1>2, <1>7
  <2>2. p[i] \in Text /\ p[i] = END
    BY <1>2, <1>5, <1>7, <1>8, <2>1, Zenon
  <2> QED
    BY <2>2, CharsAre
<1> DEFINE k == i - 1
<1>10. k \in Nat /\ n <= k /\ k <= n + m /\ k + 1 = i
  BY <1>2, <1>7, <1>9
<1>11. \A j \in 1..k : y[j] # END
  BY <1>7
<1>12. t = SubSeq(x, 1, k)
  BY <1>4
<1> HIDE DEF k
<1>13. \A j \in 1..k : x[j] \in Text
  <2> SUFFICES ASSUME NEW j \in 1..k PROVE x[j] \in Text
    OBVIOUS
  <2>1. j \in 1..n + m /\ j \in 1..Len(x)
    BY <1>2, <1>3, <1>10
  <2>2. x[j] \in A /\ x[j] # END
    BY <1>3, <1>5, <1>11, <2>1, ElementOfSeq
  <2> QED
    BY <2>2 DEF A
<1>14. t \in Seq(Text) /\ Len(t) = k /\ \A j \in 1..k : t[j] = x[j]
  <2>1. 1 \in Int /\ k \in Int /\ k - 1 + 1 = k /\ (IF 1 <= k THEN k - 1 + 1 ELSE 0) = k
        /\ \A j \in 1..k : 1 + j - 1 = j
    BY <1>10
  <2>2. /\ SubSeq(x, 1, k) \in Seq(Text) /\ Len(SubSeq(x, 1, k)) = IF 1 <= k THEN k - 1 + 1 ELSE 0
        /\ \A j \in 1..k - 1 + 1 : SubSeq(x, 1, k)[j] = x[1 + j - 1]
    BY <1>13, <2>1, SubSeqProperties
  <2> QED
    BY <1>12, <2>1, <2>2
<1>15. \A j \in 1..n : t[j] = p[j]
  <2>1. \A j \in 1..n : j \in 1..k
    BY <1>2, <1>10
  <2> QED
    BY <1>8, <1>14, <2>1
<1>16. Begins(t, p)
  BY <1>10, <1>14, <1>15 DEF Begins, n
<1>17. ASSUME u # <<>>, u[1] = END PROVE t = p
  <2>1. m >= 1
    BY <1>17, EmptySeq DEF m
  <2>2. n + 1 \in 1..n + m /\ ~(n + 1 <= n) /\ (n + 1) - n = 1
    BY <1>2, <2>1
  <2>3. x[n + 1] = END
    BY <1>3, <1>17, <2>2
  <2>4. y[n + 1] = END
    BY <1>5, <2>2, <2>3, Zenon
  <2>5. ~(n + 1 \in 1..k)
    BY <1>11, <2>4
  <2>6. k = n
    BY <1>2, <1>10, <2>5
  <2>7. Len(t) = Len(p) /\ \A j \in 1..Len(t) : t[j] = p[j]
    BY <1>14, <1>15, <2>6 DEF n
  <2> QED
    BY <1>14, <2>7, SeqEqual
<1>18. t \in Seq(Text) /\ Begins(t, p) /\ (u # <<>> /\ u[1] = END => t = p)
  BY <1>14, <1>16, <1>17
<1> QED
  BY <1>18, Zenon DEF t, x

-----------------------------------------------------------------------------
(* Lines: the invariant. *)

AllText == Text \cup {END}

(* What was typed and has not been read from the stream yet; of an end of  *)
(* file, what its indicator stands for.                                    *)
Unread == IF eof THEN <<END>> \o FlattenSeq(tty) ELSE stream \o FlattenSeq(tty)

(* The lines before are handed out, and the rest is in the buffer, or as   *)
(* much of it as that holds.                                               *)
Complete(done, rest) ==
  /\ Handed(done, commands)
  /\ pc = "fgets" => buffer = rest /\ Len(rest) < BufferLen - 1
  /\ pc \in {"skip", "newline"} => buffer = Cut(rest) /\ Len(rest) >= BufferLen - 1
  /\ pc \notin {"fgets", "skip", "newline"} => rest = <<>>

(* Lines are handed out, and a client may hand out the last of them again. *)
All(lines, rest) == IF rest = <<>> THEN lines ELSE Append(lines, Cut(rest))
AndAgain(lines) ==
  /\ Len(lines) <= Len(commands)
  /\ \A k \in 1..Len(lines) : commands[k] = lines[k]
  /\ \A k \in Len(lines) + 1..Len(commands) : k > 1 /\ commands[k] = commands[k - 1]
  /\ setup.server => Len(commands) = Len(lines)

(* ... or so is the rest, after an end of file.                            *)
Ended(done, rest) ==
  /\ eof
  /\ \E lines \in Seq(Seq(Chars)) : Handed(done, lines) /\ AndAgain(All(lines, rest))
  /\ pc \notin {"skip", "newline"}
  /\ pc = "fgets" => buffer = <<>>

Read(done, rest) ==
  /\ typed = (done \o rest) \o Unread
  /\ Complete(done, rest) \/ Ended(done, rest)

Streams == /\ tty \in Seq(Pieces) /\ stream \in Seq(Text)
           /\ eof => stream = <<>>
           /\ pc = "newline" => stream # <<>> /\ Head(stream) = NL
Lines   == /\ buffer \in Seq(Chars) /\ Len(buffer) < BufferLen
           /\ line \in Seq(Chars) /\ Len(line) < BufferLen
           /\ commands \in Seq(Seq(Chars)) /\ typed \in Seq(AllText)
Counts  == n_typed \in 0..MaxTyped /\ n_keys \in 0..MaxKeys
Control == /\ pc \in {"select", "clients", "prompt", "getchar", "fgets", "skip", "newline"}
           /\ setup \in Setups
Flags   == eof \in BOOLEAN /\ ready \in BOOLEAN /\ waiting \in BOOLEAN

(* What a call has left is the last line handed out; the server's own      *)
(* calls find nothing.                                                     *)
Left    == /\ line # <<>> => Len(commands) > 0 /\ line = commands[Len(commands)]
           /\ setup.server => pc \notin {"prompt", "getchar"} /\ (pc = "fgets" => line = <<>>)

ConsoleInv ==
  /\ Streams /\ Lines /\ Counts /\ Control /\ Flags /\ Left
  /\ \E done \in Seq(Text), rest \in Seq(Chars) : Read(done, rest)

(* What is typed at once.                                                  *)
LEMMA PiecesAre ==
  \A piece \in Pieces : piece \in Seq(AllText) /\ (piece # <<END>> => piece \in Seq(Text))
<1> SUFFICES ASSUME NEW piece \in Pieces
             PROVE  piece \in Seq(AllText) /\ (piece # <<END>> => piece \in Seq(Text))
  OBVIOUS
<1>1. Chars \subseteq Text /\ Text \subseteq AllText /\ NL \in Text /\ END \in AllText
  BY DEF Text, AllText
<1> HIDE DEF Text, AllText
<1>2. ASSUME NEW t \in Texts PROVE t \in Seq(Text) /\ Append(t, NL) \in Seq(Text)
  <2>1. t \in Seq(Text)
    BY <1>1, CharsAre, SeqMonotonic
  <2> QED
    BY <1>1, <2>1, AppendProperties
<1>3. piece = <<END>> \/ piece \in Seq(Text)
  <2>1. \/ piece \in {Append(t, NL) : t \in Texts}
        \/ piece \in Texts \/ piece = <<END>>
    BY DEF Pieces
  <2> QED
    BY <1>2, <2>1, Zenon
<1>4. <<END>> \in Seq(AllText)
  BY <1>1
<1>5. piece \in Seq(Text) => piece \in Seq(AllText)
  BY <1>1, SeqMonotonic
<1> QED
  BY <1>3, <1>4, <1>5, Zenon

(* ... and what it makes when it is read.                                  *)
LEMMA TtyIs ==
  ASSUME NEW s \in Seq(Pieces)
  PROVE  s \in Seq(Seq(AllText)) /\ FlattenSeq(s) \in Seq(AllText)
<1>1. Pieces \subseteq Seq(AllText)
  BY PiecesAre
<1>2. s \in Seq(Seq(AllText))
  <2> DEFINE S == Seq(AllText)
  <2>1. Pieces \subseteq S
    BY <1>1
  <2> HIDE DEF S
  <2>2. s \in Seq(S)
    BY <2>1, SeqMonotonic
  <2> QED
    BY <2>2 DEF S
<1> QED
  BY <1>2, FlattenIsSeq

(* All these are texts.                                                    *)
LEMMA UnreadIs ==
  ASSUME Streams, NEW done \in Seq(Text), NEW rest \in Seq(Chars)
  PROVE  /\ FlattenSeq(tty) \in Seq(AllText) /\ stream \in Seq(AllText) /\ Unread \in Seq(AllText)
         /\ done \in Seq(AllText) /\ rest \in Seq(Text) /\ rest \in Seq(AllText)
         /\ done \o rest \in Seq(Text) /\ done \o rest \in Seq(AllText)
<1>1. Chars \subseteq Text /\ Text \subseteq AllText /\ END \in AllText
  BY DEF Text, AllText
<1> HIDE DEF Text, AllText
<1>2. FlattenSeq(tty) \in Seq(AllText)
  BY TtyIs, Zenon DEF Streams
<1>3. stream \in Seq(AllText) /\ done \in Seq(AllText)
  BY <1>1, SeqMonotonic DEF Streams
<1>4. rest \in Seq(Text)
  BY <1>1, SeqMonotonic
<1>5. rest \in Seq(AllText)
  BY <1>1, <1>4, SeqMonotonic
<1>6. done \o rest \in Seq(Text)
  BY <1>4, ConcatRules, Zenon
<1>7. done \o rest \in Seq(AllText)
  BY <1>3, <1>5, ConcatRules, Zenon
<1>8. <<END>> \o FlattenSeq(tty) \in Seq(AllText) /\ stream \o FlattenSeq(tty) \in Seq(AllText)
  <2>1. <<END>> \in Seq(AllText)
    BY <1>1, ConcatRules, Zenon
  <2> QED
    BY <1>2, <1>3, <2>1, ConcatRules, Zenon
<1>9. Unread \in Seq(AllText)
  BY <1>8, Zenon DEF Unread
<1> QED
  BY <1>2, <1>3, <1>4, <1>5, <1>6, <1>7, <1>9, Zenon

(* The lines that are handed out are lines of what was typed.              *)
LEMMA InvFaithful == ConsoleInv => Faithful
<1> SUFFICES ASSUME ConsoleInv PROVE Faithful
  OBVIOUS
<1>1. TypeOK
  <2>1. /\ tty \in Seq(Pieces) /\ stream \in Seq(Chars \cup {NL}) /\ buffer \in Seq(Chars) /\ Len(buffer) < BufferLen
        /\ line \in Seq(Chars) /\ Len(line) < BufferLen
        /\ commands \in Seq(Seq(Chars))
    BY Zenon DEF ConsoleInv, Streams, Lines, Text
  <2>2. typed \in Seq(Chars \cup {NL, END})
    <3>1. Chars \cup {NL, END} = AllText
      BY DEF AllText, Text
    <3> QED
      BY <3>1, Zenon DEF ConsoleInv, Lines
  <2> QED
    BY <2>1, <2>2, Zenon DEF ConsoleInv, Counts, Control, Flags, TypeOK
<1>2. PICK done \in Seq(Text), rest \in Seq(Chars) : Read(done, rest)
  BY Zenon DEF ConsoleInv
<1> DEFINE p == done \o rest
           t == BeforeEnd(typed)
<1>3. Streams /\ commands \in Seq(Seq(Chars))
  BY Zenon DEF ConsoleInv, Lines
<1>4. p \in Seq(Text) /\ Unread \in Seq(Text \cup {END}) /\ typed = p \o Unread
  BY <1>2, <1>3, UnreadIs, Zenon DEF Read, AllText
<1>5. t \in Seq(Text) /\ Begins(t, p) /\ (Unread # <<>> /\ Unread[1] = END => t = p)
  BY <1>4, BeforeEndIs, Zenon
<1>6. IsConcat(p, done, rest) /\ rest \in Seq(Text)
  BY <1>3, UnreadIs, ConcatRules, Zenon
<1>7. Len(done) \in Nat /\ Len(rest) \in Nat
  OBVIOUS
<1> HIDE DEF t, p
<1>8. /\ Len(p) = Len(done) + Len(rest)
      /\ \A i \in 1..Len(done) + Len(rest) : p[i] = IF i <= Len(done) THEN done[i] ELSE rest[i - Len(done)]
  BY <1>6 DEF IsConcat
<1>9. Begins(t, done)
  <2>1. Len(t) \in Nat /\ Len(p) <= Len(t) /\ \A i \in 1..Len(p) : t[i] = p[i]
    BY <1>5 DEF Begins
  <2> DEFINE d == Len(done)
             r == Len(rest)
             m == Len(t)
  <2>2. d + r <= m /\ m \in Nat /\ d \in Nat /\ r \in Nat
    BY <1>7, <1>8, <2>1
  <2>3. \A i \in 1..d : i \in 1..d + r /\ i <= d
    <3> HIDE DEF d, r, m
    <3> QED
      BY <2>2
  <2>4. d <= m
    <3> HIDE DEF d, r, m
    <3> QED
      BY <2>2
  <2>5. \A i \in 1..d : t[i] = done[i]
    BY <1>8, <2>1, <2>3, Zenon
  <2> QED
    BY <2>4, <2>5 DEF Begins
<1>10. CASE Complete(done, rest)
  <2>1. \A k \in 1..Len(commands) : IsLine(commands[k], t, k)
    BY <1>3, <1>5, <1>9, <1>10, HandedLines, Zenon DEF Complete
  <2>2. DOMAIN commands = 1..Len(commands)
    BY <1>3
  <2> QED
    BY <1>1, <2>1, <2>2, Zenon DEF Faithful, t
<1>11. CASE Ended(done, rest)
  <2>1. PICK lines \in Seq(Seq(Chars)) : Handed(done, lines) /\ AndAgain(All(lines, rest))
    BY <1>11, Zenon DEF Ended
  <2>2. Unread # <<>> /\ Unread[1] = END
    <3> DEFINE f == FlattenSeq(tty)
               z == <<END>>
    <3>1. Unread = z \o f
      BY <1>11, Zenon DEF Ended, Unread
    <3>2. f \in Seq(AllText) /\ z \in Seq(AllText) /\ z[1] = END /\ Len(z) = 1
      BY <1>3, UnreadIs DEF AllText
    <3> HIDE DEF f, z
    <3>3. z \o f \in Seq(AllText) /\ Len(z \o f) = Len(z) + Len(f)
          /\ \A i \in 1..Len(z) + Len(f) : (z \o f)[i] = IF i <= Len(z) THEN z[i] ELSE f[i - Len(z)]
      BY <3>2, ConcatProperties
    <3>4. Len(f) \in Nat
      BY <3>2
    <3>5. 1 \in 1..1 + Len(f) /\ 1 <= 1 /\ 1 + Len(f) # 0
      BY <3>4
    <3>6. (z \o f)[1] = END /\ Len(z \o f) # 0
      BY <3>2, <3>3, <3>5
    <3>7. z \o f # <<>>
      BY <3>6, EmptySeq
    <3> QED
      BY <3>1, <3>6, <3>7
  <2>3. t = p
    BY <1>5, <2>2
  <2> DEFINE all == All(lines, rest)
             n == Len(all)
  <2>4. /\ all \in Seq(Seq(Chars)) /\ \A k \in 1..n : IsLine(all[k], t, k)
        /\ n <= Len(t) /\ LineEnds(t)[n] >= Len(t)
    <3>1. CASE rest = <<>>
      <4>1. all = lines
        BY <3>1 DEF All
      <4>2. Len(t) = Len(done) /\ Len(t) \in Nat
        <5>1. Len(rest) = 0 /\ Len(p) = Len(done) + Len(rest)
          BY <1>8, <3>1
        <5> QED
          BY <1>7, <2>3, <5>1
      <4>3. /\ \A k \in 1..Len(lines) : IsLine(lines[k], t, k)
            /\ Len(lines) <= Len(t) /\ LineEnds(t)[Len(lines)] = Len(done)
        BY <1>5, <1>9, <2>1, HandedLines
      <4> QED
        BY <2>1, <4>1, <4>2, <4>3
    <3>2. CASE rest # <<>>
      <4>1. all = Append(lines, Cut(rest))
        BY <3>2 DEF All
      <4>2. Len(rest) \in Nat \ {0}
        BY <3>2, EmptySeq
      <4> DEFINE d == Len(done)
                 r == Len(rest)
                 l == Len(lines)
      <4>3. \A k \in 1..l : IsLine(lines[k], t, k)
        BY <1>5, <1>9, <2>1, HandedLines, Zenon
      <4>4. d < Len(t) /\ Len(t) = d + r
        <5>1. Len(t) = d + r
          BY <1>8, <2>3
        <5> DEFINE m == Len(t)
        <5>2. m = d + r /\ d \in Nat /\ r \in Nat \ {0}
          BY <1>7, <4>2, <5>1
        <5> HIDE DEF m, d, r
        <5> QED
          BY <5>2 DEF m
      <4>5. \A i \in 1..r : t[d + i] = rest[i]
        <5>1. \A i \in 1..r : d + i \in 1..d + r /\ ~(d + i <= d) /\ (d + i) - d = i
          BY <1>7
        <5> QED
          BY <1>8, <2>3, <5>1
      <4>6. \A j \in d + 1..Len(t) : t[j] # NL
        <5>1. \A i \in 1..r : rest[i] \in Chars
          OBVIOUS
        <5>2. \A j \in d + 1..d + r : j - d \in 1..r /\ d + (j - d) = j
          BY <1>7
        <5> HIDE DEF d, r
        <5>3. \A j \in d + 1..d + r : t[j] \in Chars
          BY <4>5, <5>1, <5>2
        <5> QED
          BY <4>4, <5>3, CharsAre
      <4>7. SubSeq(t, d + 1, Len(t)) = rest
        <5> DEFINE x == SubSeq(t, d + 1, d + r)
        <5>1. d \in Nat /\ r \in Nat /\ d + r <= Len(t)
          <6>1. d \in Nat /\ r \in Nat /\ d + r \in Int
            BY <1>7
          <6> QED
            BY <4>4, <6>1
        <5>2. x \in Seq(Text) /\ Len(x) = r /\ \A i \in 1..r : x[i] = t[d + i]
          <6> HIDE DEF d, r
          <6> QED
            BY <1>5, <5>1, Stretch
        <5> HIDE DEF x
        <5>3. \A i \in 1..Len(x) : x[i] = rest[i]
          BY <4>5, <5>2, Zenon
        <5>4. x = rest
          BY <1>6, <5>2, <5>3, SeqEqual
        <5> QED
          BY <4>4, <5>4, Zenon DEF x
      <4>8. /\ IsLine(Cut(SubSeq(t, d + 1, Len(t))), t, l + 1)
            /\ l + 1 <= Len(t) /\ LineEnds(t)[l + 1] = Len(t) + 1
        BY <1>5, <1>9, <2>1, <4>4, <4>6, HandedLast, Zenon
      <4>9. /\ l \in Nat /\ all \in Seq(Seq(Chars)) /\ n = l + 1 /\ all[l + 1] = Cut(rest)
            /\ \A k \in 1..l : all[k] = lines[k]
        <5>1. Cut(rest) \in Seq(Chars)
          BY CutIs
        <5> QED
          BY <2>1, <4>1, <5>1, AppendProperties
      <4>10. \A k \in 1..l + 1 : IsLine(all[k], t, k)
        <5>1. \A k \in 1..l + 1 : k \in 1..l \/ k = l + 1
          BY <4>9
        <5> HIDE DEF l, d, all
        <5>2. IsLine(all[l + 1], t, l + 1)
          BY <4>7, <4>8, <4>9
        <5> QED
          BY <4>3, <4>9, <5>1, <5>2, Zenon
      <4>11. Len(t) \in Nat
        BY <1>5
      <4> QED
        BY <4>8, <4>9, <4>10, <4>11
    <3> QED
      BY <3>1, <3>2
  <2> HIDE DEF all
  <2>5. /\ n \in Nat /\ n <= Len(commands) /\ Len(commands) \in Nat
        /\ \A k \in 1..n : commands[k] = all[k]
        /\ \A k \in n + 1..Len(commands) : k > 1 /\ commands[k] = commands[k - 1] /\ ~setup.server
    <3>1. n \in Nat /\ Len(commands) \in Nat
      BY <1>3, <2>4
    <3> HIDE DEF n
    <3>2. /\ n <= Len(commands) /\ \A k \in 1..n : commands[k] = all[k]
          /\ \A k \in n + 1..Len(commands) : k > 1 /\ commands[k] = commands[k - 1]
          /\ setup.server => Len(commands) = n
      BY <2>1, Zenon DEF AndAgain, n, all
    <3>3. \A k \in n + 1..Len(commands) : Len(commands) # n
      BY <3>1
    <3> QED
      BY <3>1, <3>2, <3>3
  <2>6. ASSUME NEW k \in 1..Len(commands)
        PROVE  IsLine(commands[k], t, k) \/ (eof /\ ~setup.server /\ IsAgain(k))
    <3>1. CASE k \in 1..n
      BY <2>4, <2>5, <3>1, Zenon
    <3>2. CASE k \notin 1..n
      <4>1. k \in n + 1..Len(commands) /\ k \in Nat /\ k > n
        BY <2>5, <3>2
      <4>2. ~HasLine(t, k)
        BY <1>5, <2>4, <2>5, <4>1, NoMoreLines
      <4>3. IsAgain(k) /\ ~setup.server
        BY <2>5, <4>1, <4>2, Zenon DEF IsAgain, t
      <4> QED
        BY <1>11, <4>3, Zenon DEF Ended
    <3> QED
      BY <3>1, <3>2
  <2>7. DOMAIN commands = 1..Len(commands)
    BY <1>3
  <2> QED
    BY <1>1, <2>6, <2>7, Zenon DEF Faithful, t
<1> QED
  BY <1>2, <1>10, <1>11, Zenon DEF Read

(* ... which holds when the program starts.                                *)
LEMMA ConsoleInit == Init => ConsoleInv
<1> SUFFICES ASSUME Init PROVE ConsoleInv
  OBVIOUS
<1>1. /\ setup \in Setups /\ tty = <<>> /\ stream = <<>> /\ eof = FALSE
      /\ pc \in {"select", "prompt"} /\ buffer = <<>> /\ line = <<>> /\ ready = FALSE /\ waiting = FALSE
      /\ n_typed = 0 /\ n_keys = 0 /\ typed = <<>> /\ commands = <<>>
  <2>1. Start \in {"select", "prompt"}
    BY DEF Start
  <2> QED
    BY <2>1 DEF Init
<1>2. Streams
  BY <1>1, EmptySeq DEF Streams
<1>3. Lines
  <2> DEFINE L == Seq(Chars)
  <2>1. Len(<<>>) < BufferLen
    BY BoundsAssumption
  <2>2. <<>> \in L /\ <<>> \in Seq(AllText)
    BY EmptySeq
  <2> HIDE DEF L
  <2>3. <<>> \in Seq(L)
    BY EmptySeq
  <2> QED
    BY <1>1, <2>1, <2>2, <2>3, Zenon DEF Lines, L
<1>4. Counts
  BY <1>1, BoundsAssumption DEF Counts
<1>5. Control
  BY <1>1 DEF Control
<1>6. Flags
  BY <1>1 DEF Flags
<1>7. Read(<<>>, <<>>)
  <2>1. <<>> \in Seq(AllText)
    BY EmptySeq
  <2>2. (<<>> \o <<>>) \o Unread = <<>>
    <3>1. Unread = <<>> \o <<>>
      BY <1>1, FlattenOfNone, Zenon DEF Unread
    <3> QED
      BY <2>1, <3>1, ConcatRules, Zenon
  <2>3. Complete(<<>>, <<>>)
    <3>1. pc # "fgets" /\ pc # "skip" /\ pc # "newline"
      BY <1>1
    <3> QED
      BY <1>1, <3>1, HandedNone, Zenon DEF Complete
  <2> QED
    BY <1>1, <2>2, <2>3 DEF Read
<1>8. <<>> \in Seq(Text) /\ <<>> \in Seq(Chars)
  BY EmptySeq
<1>9. Left
  <2>1. setup.server => pc = "select"
    BY DEF Init, Start
  <2> QED
    BY <1>1, <2>1 DEF Left
<1> QED
  BY <1>2, <1>3, <1>4, <1>5, <1>6, <1>7, <1>8, <1>9, Zenon DEF ConsoleInv

(* What is read of the operator's text counts as it did when neither the   *)
(* line nor the commands change.                                           *)
LEMMA StillHanded ==
  ASSUME NEW done, NEW rest, Complete(done, rest) \/ Ended(done, rest),
         UNCHANGED <<eof, pc, buffer, commands, setup>>
  PROVE  Complete(done, rest)' \/ Ended(done, rest)'
<1>1. eof' = eof /\ pc' = pc /\ buffer' = buffer /\ commands' = commands /\ setup' = setup
  OBVIOUS
<1>2. CASE Complete(done, rest)
  BY <1>1, <1>2, Zenon DEF Complete
<1>3. CASE Ended(done, rest)
  <2>1. PICK lines \in Seq(Seq(Chars)) : Handed(done, lines) /\ AndAgain(All(lines, rest))
    BY <1>3, Zenon DEF Ended
  <2>2. eof /\ pc \notin {"skip", "newline"} /\ (pc = "fgets" => buffer = <<>>)
    BY <1>3, Zenon DEF Ended
  <2>3. AndAgain(All(lines, rest))'
    BY <1>1, <2>1, Zenon DEF AndAgain
  <2>4. eof' /\ pc' \notin {"skip", "newline"} /\ (pc' = "fgets" => buffer' = <<>>)
    BY <1>1, <2>2
  <2> QED
    BY <2>1, <2>2, <2>3, <2>4, Zenon DEF Ended
<1> QED
  BY <1>2, <1>3

(* Which program it is decides what can be typed, and stays.               *)
LEMMA PiecesStay == setup' = setup => Pieces' = Pieces
  BY DEF Pieces

(* So it does when nothing is read or typed.                               *)
LEMMA StillRead ==
  ASSUME NEW done, NEW rest, Read(done, rest), UNCHANGED <<tty, stream, eof, typed>>,
         Complete(done, rest)' \/ Ended(done, rest)'
  PROVE  Read(done, rest)'
<1>1. Unread' = Unread
  BY DEF Unread
<1> QED
  BY <1>1, Zenon DEF Read

(* So does what the call before has left, or it is taken away.             *)
LEMMA LeftStays ==
  ASSUME Left, UNCHANGED <<commands, setup>>, line' \in {line, <<>>},
         setup.server => /\ pc' \notin {"prompt", "getchar"}
                         /\ pc' = "fgets" => pc = "fgets" \/ line' = <<>>
  PROVE  Left'
  BY DEF Left

(* ... until the next line is handed out.                                  *)
LEMMA LeftNew ==
  ASSUME commands \in Seq(Seq(Chars)), line' \in Seq(Chars), commands' = Append(commands, line'),
         setup' = setup, pc' = After
  PROVE  Left'
<1> DEFINE L == Seq(Chars)
<1>1. commands \in Seq(L) /\ line' \in L
  OBVIOUS
<1> HIDE DEF L
<1>2. Len(commands') = Len(commands) + 1 /\ commands'[Len(commands) + 1] = line' /\ Len(commands) \in Nat
  BY <1>1, AppendProperties
<1>3. Len(commands') > 0 /\ line' = commands'[Len(commands')]
  BY <1>2
<1>4. setup'.server => pc' = "clients"
  BY DEF After
<1> QED
  BY <1>3, <1>4 DEF Left

(* What is typed is added to what is unread.                               *)
LEMMA StepType ==
  ASSUME ConsoleInv, NEW piece \in Pieces, Type(piece)
  PROVE  ConsoleInv'
<1>1. Streams /\ Lines /\ Counts /\ Control /\ Flags /\ Left
  BY DEF ConsoleInv
<1>2. PICK done \in Seq(Text), rest \in Seq(Chars) : Read(done, rest)
  BY DEF ConsoleInv
<1>3. /\ n_typed < MaxTyped /\ n_typed' = n_typed + 1 /\ tty' = Append(tty, piece) /\ typed' = typed \o piece
      /\ stream' = stream /\ eof' = eof /\ buffer' = buffer /\ line' = line /\ commands' = commands /\ pc' = pc
      /\ setup' = setup /\ ready' = ready /\ waiting' = waiting /\ n_keys' = n_keys
  BY DEF Type, caller, loop
<1>4. piece \in Seq(AllText)
  BY PiecesAre
<1>5. Streams'
  <2>1. tty' \in Seq(Pieces)
    <3> DEFINE P == Pieces
    <3>1. piece \in P /\ tty \in Seq(P)
      BY <1>1 DEF Streams
    <3> HIDE DEF P
    <3>2. Append(tty, piece) \in Seq(P)
      BY <3>1, AppendProperties
    <3> QED
      BY <1>3, <3>2, Zenon DEF P
  <2>2. eof' => stream' = <<>>
    BY <1>1, <1>3 DEF Streams
  <2> QED
    BY <1>1, <1>3, <2>1, <2>2, PiecesStay, Zenon DEF Streams
<1>6. Lines'
  <2>1. typed \o piece \in Seq(AllText)
    BY <1>1, <1>4, ConcatRules, Zenon DEF Lines
  <2> QED
    BY <1>1, <1>3, <2>1, Zenon DEF Lines
<1>7. Counts'
  BY <1>1, <1>3, BoundsAssumption DEF Counts
<1>8. Control'
  BY <1>1, <1>3, Zenon DEF Control
<1>9. Flags'
  BY <1>1, <1>3, Zenon DEF Flags
<1>10. Read(done, rest)'
  <2> DEFINE f == FlattenSeq(tty)
             p == done \o rest
             z == IF eof THEN <<END>> ELSE stream
  <2>1. f \in Seq(AllText) /\ z \in Seq(AllText) /\ p \in Seq(AllText)
    <3>1. <<END>> \in Seq(AllText)
      BY ConcatRules DEF AllText
    <3> QED
      BY <1>1, <3>1, UnreadIs, Zenon
  <2>2. Unread = z \o f
    BY DEF Unread
  <2>3. FlattenSeq(tty') = f \o piece
    <3>1. tty \in Seq(Seq(AllText))
      BY <1>1, TtyIs DEF Streams
    <3>2. FlattenSeq(Append(tty, piece)) = FlattenSeq(tty) \o piece
      BY <1>4, <3>1, FlattenAppend, Zenon
    <3> QED
      BY <1>3, <3>2, Zenon
  <2>4. Unread' = z \o FlattenSeq(tty')
    BY <1>3, Zenon DEF Unread
  <2>5. typed = p \o Unread
    BY <1>2, Zenon DEF Read
  <2> HIDE DEF f, z
  <2>6. Unread' = Unread \o piece
    <3>1. Associates(z, f, piece)
      BY <1>4, <2>1, ConcatRules, Zenon
    <3> QED
      BY <2>2, <2>3, <2>4, <3>1, Zenon DEF Associates
  <2>7. typed' = p \o Unread'
    <3>1. Unread \in Seq(AllText)
      BY <2>1, <2>2, ConcatRules, Zenon
    <3>2. Associates(p, Unread, piece)
      BY <1>4, <2>1, <3>1, ConcatRules, Zenon
    <3> HIDE DEF p
    <3> QED
      BY <1>3, <2>5, <2>6, <3>2, Zenon DEF Associates
  <2>8. Complete(done, rest)' \/ Ended(done, rest)'
    <3>1. Complete(done, rest) \/ Ended(done, rest)
      BY <1>2, Zenon DEF Read
    <3> QED
      BY <1>3, <3>1, StillHanded
  <2> QED
    BY <2>7, <2>8, Zenon DEF Read
<1>11. Left'
  BY <1>1, <1>3, Zenon DEF Left
<1> QED
  BY <1>5, <1>6, <1>7, <1>8, <1>9, <1>10, <1>11, Zenon DEF ConsoleInv

(* No line is being read: the next one may be begun.                       *)
LEMMA NextBegins ==
  ASSUME NEW done, NEW rest, Complete(done, rest) \/ Ended(done, rest),
         UNCHANGED <<eof, commands, setup>>,
         pc \notin {"fgets", "skip", "newline"}, pc' \notin {"skip", "newline"},
         pc' = "fgets" => buffer' = <<>>
  PROVE  Complete(done, rest)' \/ Ended(done, rest)'
<1>1. eof' = eof /\ commands' = commands /\ setup' = setup /\ pc' # "skip" /\ pc' # "newline"
  OBVIOUS
<1>2. CASE Complete(done, rest)
  <2>1. Handed(done, commands')
    BY <1>1, <1>2, Zenon DEF Complete
  <2>2. rest = <<>> /\ Len(rest) < BufferLen - 1
    <3>1. rest = <<>>
      BY <1>2, Zenon DEF Complete
    <3>2. Len(<<>>) = 0 /\ BufferLen - 1 > 0
      BY BoundsAssumption
    <3> QED
      BY <3>1, <3>2
  <2> QED
    BY <1>1, <2>1, <2>2, Zenon DEF Complete
<1>3. CASE Ended(done, rest)
  <2>1. PICK lines \in Seq(Seq(Chars)) : Handed(done, lines) /\ AndAgain(All(lines, rest))
    BY <1>3, Zenon DEF Ended
  <2>2. eof
    BY <1>3, Zenon DEF Ended
  <2>3. AndAgain(All(lines, rest))'
    BY <1>1, <2>1, Zenon DEF AndAgain
  <2>4. eof'
    BY <1>1, <2>2
  <2> QED
    BY <1>1, <2>1, <2>2, <2>3, <2>4, Zenon DEF Ended
<1> QED
  BY <1>2, <1>3

(* The steps that neither read nor are typed.                              *)
LEMMA StepQuiet ==
  ASSUME ConsoleInv, Ask \/ Select \/ Clients \/ AskLine \/ AskKey \/ UNCHANGED vars
  PROVE  ConsoleInv'
<1>1. Streams /\ Lines /\ Counts /\ Control /\ Flags /\ Left
  BY DEF ConsoleInv
<1>2. PICK done \in Seq(Text), rest \in Seq(Chars) : Read(done, rest)
  BY DEF ConsoleInv
<1>3. /\ n_typed' = n_typed /\ tty' = tty /\ typed' = typed /\ setup' = setup
      /\ stream' = stream /\ eof' = eof /\ commands' = commands
  BY DEF Ask, Select, Clients, AskLine, AskKey, vars, operator, stdin, caller, loop
<1>4. n_keys' = n_keys \/ (n_keys < MaxKeys /\ n_keys' = n_keys + 1)
  BY DEF Ask, Select, Clients, AskLine, AskKey, vars
<1>5. \/ pc' = pc /\ buffer' = buffer
      \/ /\ pc \in {"select", "clients", "prompt"} /\ pc' \in {"select", "clients", "getchar", "fgets"}
         /\ buffer' \in {buffer, <<>>} /\ (pc' = "fgets" => buffer' = <<>>)
  BY DEF Ask, Select, Clients, AskLine, AskKey, vars, caller
<1>6. Streams'
  <2>1. eof' => stream' = <<>>
    BY <1>1, <1>3 DEF Streams
  <2>2. pc' = "newline" => pc = "newline"
    BY <1>5
  <2> QED
    BY <1>1, <1>3, <2>1, <2>2, PiecesStay, Zenon DEF Streams
<1>12. line' = line \/ line' = <<>>
  BY DEF Ask, Select, Clients, AskLine, AskKey, vars, caller
<1>7. Lines'
  <2>1. <<>> \in Seq(Chars) /\ Len(<<>>) < BufferLen
    BY BoundsAssumption
  <2>2. buffer' = buffer \/ buffer' = <<>>
    BY <1>5
  <2> QED
    BY <1>1, <1>3, <1>12, <2>1, <2>2, Zenon DEF Lines
<1>8. Counts'
  BY <1>1, <1>3, <1>4, BoundsAssumption DEF Counts
<1>9. Control'
  BY <1>1, <1>3, <1>5 DEF Control
<1>10. Flags'
  <2>1. CASE Ask
    BY <1>1, <1>3, <2>1, Zenon DEF Ask, Flags
  <2>2. CASE Select
    BY <1>1, <1>3, <2>2, Zenon DEF Select, Flags
  <2>3. CASE Clients
    BY <1>1, <1>3, <2>3 DEF Clients, Flags
  <2>4. CASE AskLine \/ AskKey \/ UNCHANGED vars
    <3>1. ready' = ready /\ waiting' = waiting
      BY <2>4 DEF AskLine, AskKey, vars, loop
    <3> QED
      BY <1>1, <1>3, <3>1, Zenon DEF Flags
  <2> QED
    BY <2>1, <2>2, <2>3, <2>4
<1>11. Read(done, rest)'
  <2>1. Complete(done, rest) \/ Ended(done, rest)
    BY <1>2, Zenon DEF Read
  <2>2. Complete(done, rest)' \/ Ended(done, rest)'
    <3>1. CASE pc' = pc /\ buffer' = buffer
      BY <1>3, <2>1, <3>1, StillHanded
    <3>2. CASE ~(pc' = pc /\ buffer' = buffer)
      <4>1. /\ pc \notin {"fgets", "skip", "newline"} /\ pc' \notin {"skip", "newline"}
            /\ pc' = "fgets" => buffer' = <<>>
        BY <1>5, <3>2
      <4> QED
        BY <1>3, <2>1, <4>1, NextBegins
    <3> QED
      BY <3>1, <3>2
  <2> QED
    BY <1>2, <1>3, <2>2, StillRead
<1>13. Left'
  <2>1. CASE Select
    <3>1. pc' \in {"fgets", "clients"} /\ line' = <<>>
      BY <2>1 DEF Select
    <3> QED
      BY <1>1, <1>3, <3>1, LeftStays
  <2>2. CASE AskLine \/ AskKey
    <3>1. pc = "prompt" /\ ~setup.server
      BY <1>1, <2>2 DEF AskLine, AskKey, Left
    <3> QED
      BY <1>1, <1>3, <1>12, <3>1, LeftStays
  <2>3. CASE Clients
    <3>1. pc' = "select"
      BY <2>3 DEF Clients
    <3> QED
      BY <1>1, <1>3, <1>12, <3>1, LeftStays
  <2>4. CASE Ask \/ UNCHANGED vars
    <3>1. pc' = pc /\ line' = line
      BY <2>4 DEF Ask, vars, caller
    <3> QED
      BY <1>1, <1>3, <3>1, Zenon DEF Left
  <2> QED
    BY <2>1, <2>2, <2>3, <2>4
<1> QED
  BY <1>6, <1>7, <1>8, <1>9, <1>10, <1>11, <1>13, Zenon DEF ConsoleInv

(* What no read of the stream changes.                                     *)
LEMMA StepRest ==
  ASSUME ConsoleInv, UNCHANGED <<n_typed, n_keys, setup, ready, waiting>>, eof' \in BOOLEAN,
         pc' \in {"clients", "prompt", "getchar", "fgets", "skip", "newline"}
  PROVE  Counts' /\ Control' /\ Flags'
<1>1. Counts /\ Control /\ Flags
  BY DEF ConsoleInv
<1>2. /\ n_typed' = n_typed /\ n_keys' = n_keys /\ setup' = setup
      /\ ready' = ready /\ waiting' = waiting
  OBVIOUS
<1>3. Counts'
  BY <1>1, <1>2, Zenon DEF Counts
<1>4. Control'
  BY <1>1, <1>2 DEF Control
<1>5. Flags'
  BY <1>1, <1>2, Zenon DEF Flags
<1> QED
  BY <1>3, <1>4, <1>5

(* What the stream still holds comes before any end of file.               *)
LEMMA FromStream ==
  ASSUME Streams, stream # <<>>, NEW done, NEW rest, Read(done, rest)
  PROVE  /\ ~eof /\ Complete(done, rest)
         /\ typed = (done \o rest) \o (stream \o FlattenSeq(tty))
<1>1. ~eof
  BY DEF Streams
<1>2. Complete(done, rest)
  BY <1>1 DEF Read, Ended
<1>3. Unread = stream \o FlattenSeq(tty)
  BY <1>1, Zenon DEF Unread
<1> QED
  BY <1>1, <1>2, <1>3, Zenon DEF Read

(* ... and what is read of it stays before one.                            *)
LEMMA StillStream ==
  ASSUME ~eof', NEW done, NEW rest, Complete(done, rest)',
         typed' = (done \o rest) \o (stream' \o FlattenSeq(tty'))
  PROVE  Read(done, rest)'
<1>1. Unread' = stream' \o FlattenSeq(tty')
  BY Zenon DEF Unread
<1> QED
  BY <1>1, Zenon DEF Read

(* The line that is being read is handed out, but for what is cut.         *)
LEMMA Returned ==
  ASSUME NEW done \in Seq(Text), NEW rest \in Seq(Chars), Handed(done, commands),
         commands \in Seq(Seq(Chars)), ~eof, Return(Cut(rest))
  PROVE  /\ Complete((done \o rest) \o <<NL>>, <<>>)'
         /\ commands' \in Seq(Seq(Chars)) /\ (done \o rest) \o <<NL>> \in Seq(Text)
         /\ pc' \in {"clients", "prompt"}
         /\ line' \in Seq(Chars) /\ Len(line') < BufferLen /\ Left'
         /\ UNCHANGED <<buffer, typed, n_typed, n_keys, setup, ready, waiting>>
<1>1. commands' = Append(commands, Cut(rest))
  BY DEF Return
<1>2. pc' \in {"clients", "prompt"}
  BY DEF Return, After
<1>3. Handed((done \o rest) \o <<NL>>, commands')
  BY <1>1, HandedNext, Zenon
<1>4. commands' \in Seq(Seq(Chars))
  <2> DEFINE L == Seq(Chars)
  <2>1. Cut(rest) \in L /\ commands \in Seq(L)
    BY CutIs
  <2> HIDE DEF L
  <2>2. Append(commands, Cut(rest)) \in Seq(L)
    BY <2>1, AppendProperties
  <2> QED
    BY <1>1, <2>2 DEF L
<1>5. (done \o rest) \o <<NL>> \in Seq(Text)
  <2>1. IsNext((done \o rest) \o <<NL>>, done, rest)
    BY NextLine
  <2> QED
    BY <2>1, Zenon DEF IsNext
<1>6. Complete((done \o rest) \o <<NL>>, <<>>)'
  <2>1. pc' # "fgets" /\ pc' # "skip" /\ pc' # "newline"
    BY <1>2
  <2> QED
    BY <1>3, <2>1, Zenon DEF Complete
<1>7. line' \in Seq(Chars) /\ Len(line') < BufferLen
  <2>1. line' = Cut(rest)
    BY DEF Return
  <2>2. Len(Cut(rest)) < BufferLen
    <3>1. Len(rest) \in Nat /\ BufferLen \in Nat
      BY BoundsAssumption
    <3>2. /\ Len(rest) <= BufferLen - 1 => Cut(rest) = rest
          /\ Len(rest) >= BufferLen - 1 => Len(Cut(rest)) = BufferLen - 1
      BY CutIs
    <3> QED
      BY <3>1, <3>2
  <2> QED
    BY <2>1, <2>2, CutIs
<1>8. Left'
  <2>1. commands' = Append(commands, line') /\ setup' = setup /\ pc' = After
    BY <1>1 DEF Return, loop
  <2> QED
    BY <1>7, <2>1, LeftNew
<1> QED
  BY <1>2, <1>4, <1>5, <1>6, <1>7, <1>8 DEF Return, operator, loop

(* getchar takes the first character that is unread, between two lines.    *)
LEMMA StepGetChar == ConsoleInv /\ GetChar => ConsoleInv'
<1> SUFFICES ASSUME ConsoleInv, GetChar PROVE ConsoleInv'
  OBVIOUS
<1>1. Streams /\ Lines /\ Flags /\ Left
  BY DEF ConsoleInv
<1>2. PICK done \in Seq(Text), rest \in Seq(Chars) : Read(done, rest)
  BY DEF ConsoleInv
<1> DEFINE f == FlattenSeq(tty)
           p == done \o rest
<1>3. /\ pc = "getchar" /\ pc' = "prompt" /\ stream # <<>> /\ stream' = Tail(stream)
      /\ typed' = RemoveAt(typed, Len(typed) - (Len(stream) + Len(f)) + 1)
      /\ tty' = tty /\ eof' = eof /\ buffer' = buffer /\ line' = line /\ commands' = commands
      /\ setup' = setup /\ ready' = ready /\ waiting' = waiting /\ n_typed' = n_typed /\ n_keys' = n_keys
  BY DEF GetChar, caller, loop
<1>4. ~eof /\ Complete(done, rest) /\ typed = p \o (stream \o f)
  BY <1>1, <1>2, <1>3, FromStream
<1>5. p \in Seq(AllText) /\ stream \in Seq(AllText) /\ f \in Seq(AllText)
  BY <1>1, UnreadIs, Zenon
<1>6. typed' = p \o (Tail(stream) \o f)
  <2> HIDE DEF p, f
  <2>1. LosesFirst(p, stream, f)
    BY <1>3, <1>5, RemoveBetween, Zenon
  <2> QED
    BY <1>3, <1>4, <2>1, Zenon DEF LosesFirst
<1>7. Tail(stream) \in Seq(Text) /\ Tail(stream) \in Seq(AllText)
  BY <1>1, <1>3, <1>5, HeadAndTail, Zenon DEF Streams
<1>8. Counts' /\ Control' /\ Flags'
  <2>1. eof' \in BOOLEAN
    BY <1>1, <1>3, Zenon DEF Flags
  <2> QED
    BY <1>3, <2>1, StepRest
<1>9. Streams'
  <2>1. ~eof' /\ pc' # "newline"
    BY <1>3, <1>4
  <2> QED
    BY <1>1, <1>3, <1>7, <2>1, PiecesStay, Zenon DEF Streams
<1>10. Lines'
  <2>1. typed' \in Seq(AllText)
    BY <1>5, <1>6, <1>7, ConcatRules, Zenon
  <2> QED
    BY <1>1, <1>3, <2>1, Zenon DEF Lines
<1>11. Read(done, rest)'
  <2>1. ~eof' /\ pc \notin {"fgets", "skip", "newline"} /\ pc' # "fgets" /\ pc' \notin {"skip", "newline"}
    BY <1>3, <1>4
  <2>2. Complete(done, rest)' \/ Ended(done, rest)'
    BY <1>3, <1>4, <2>1, NextBegins
  <2>3. Complete(done, rest)'
    BY <2>1, <2>2 DEF Ended
  <2>4. typed' = (done \o rest) \o (stream' \o FlattenSeq(tty'))
    BY <1>3, <1>6, Zenon
  <2> QED
    BY <2>1, <2>3, <2>4, StillStream
<1>12. Left'
  <2>1. ~setup.server
    BY <1>1, <1>3 DEF Left
  <2> QED
    BY <1>1, <1>3, <2>1, LeftStays
<1> QED
  BY <1>8, <1>9, <1>10, <1>11, <1>12, Zenon DEF ConsoleInv

(* A character is added to a line that is full: it is cut off again.       *)
LEMMA StepSkip == ConsoleInv /\ Skip => ConsoleInv'
<1> SUFFICES ASSUME ConsoleInv, Skip PROVE ConsoleInv'
  OBVIOUS
<1>1. Streams /\ Lines /\ Flags /\ Left
  BY DEF ConsoleInv
<1>2. PICK done \in Seq(Text), rest \in Seq(Chars) : Read(done, rest)
  BY DEF ConsoleInv
<1> DEFINE f == FlattenSeq(tty)
           p == done \o rest
           c == Head(stream)
           t == Tail(stream)
<1>3. /\ pc = "skip" /\ stream # <<>>
      /\ c = NL => stream' = stream /\ pc' = "newline"
      /\ c # NL => stream' = t /\ pc' = "skip"
      /\ tty' = tty /\ eof' = eof /\ buffer' = buffer /\ line' = line /\ commands' = commands /\ typed' = typed
      /\ setup' = setup /\ ready' = ready /\ waiting' = waiting /\ n_typed' = n_typed /\ n_keys' = n_keys
  BY DEF Skip, caller, loop, operator
<1>4. ~eof /\ Complete(done, rest) /\ typed = p \o (stream \o f)
  BY <1>1, <1>2, <1>3, FromStream
<1>5. /\ p \in Seq(AllText) /\ stream \in Seq(AllText) /\ f \in Seq(AllText)
      /\ done \in Seq(AllText) /\ rest \in Seq(AllText)
  BY <1>1, UnreadIs, Zenon
<1>6. /\ c \in Text /\ t \in Seq(Text) /\ c \in AllText /\ t \in Seq(AllText) /\ stream = <<c>> \o t
  BY <1>1, <1>3, <1>5, HeadAndTail, Zenon DEF Streams
<1>7. Handed(done, commands) /\ buffer = Cut(rest) /\ Len(rest) >= BufferLen - 1
  BY <1>3, <1>4 DEF Complete
<1>8. Counts' /\ Control' /\ Flags'
  <2>1. eof' \in BOOLEAN
    BY <1>1, <1>3, Zenon DEF Flags
  <2> QED
    BY <1>3, <2>1, StepRest
<1>9. Lines'
  BY <1>1, <1>3, Zenon DEF Lines
<1>10. ~eof'
  BY <1>3, <1>4
<1>13. Left'
  <2>1. pc' \in {"skip", "newline"}
    BY <1>3
  <2> QED
    BY <1>1, <1>3, <2>1, LeftStays
<1> HIDE DEF c, t
<1>11. CASE c = NL
  <2>1. stream' = stream /\ pc' = "newline" /\ Head(stream) = NL
    BY <1>3, <1>11 DEF c
  <2>2. Streams'
    BY <1>1, <1>3, <1>10, <2>1, PiecesStay, Zenon DEF Streams
  <2>3. Complete(done, rest)'
    BY <1>3, <1>7, <2>1 DEF Complete
  <2>4. Read(done, rest)'
    BY <1>3, <1>4, <1>10, <2>1, <2>3, StillStream
  <2> QED
    BY <1>8, <1>9, <1>13, <2>2, <2>4, Zenon DEF ConsoleInv
<1>12. CASE c # NL
  <2> DEFINE k == <<c>>
  <2>1. k \in Seq(Chars) /\ k \in Seq(AllText)
    <3>1. c \in Chars
      BY <1>6, <1>12 DEF Text
    <3> QED
      BY <1>6, <3>1, ConcatRules, Zenon
  <2>2. stream' = t /\ pc' = "skip" /\ pc' # "newline" /\ pc' # "fgets" /\ stream = k \o t
    BY <1>3, <1>6, <1>12
  <2> HIDE DEF k, p, f
  <2>3. PICK r \in Seq(Chars) : r = rest \o k
    BY <2>1, ConcatRules, Zenon
  <2>4. Streams'
    BY <1>1, <1>3, <1>6, <1>10, <2>2, PiecesStay, Zenon DEF Streams
  <2>5. buffer' = Cut(r) /\ Len(r) >= BufferLen - 1
    <3>1. Cut(rest \o k) = Cut(rest) /\ Len(rest \o k) >= BufferLen - 1
      BY <1>7, <2>1, CutStays
    <3> QED
      BY <1>3, <1>7, <2>3, <3>1, Zenon
  <2>6. typed' = (done \o r) \o (stream' \o FlattenSeq(tty'))
    <3>1. MovedOver(done, rest, k, t, f)
      BY <1>5, <1>6, <2>1, Regroup, Zenon
    <3>2. typed = (done \o rest) \o ((k \o t) \o f)
      BY <1>4, <2>2, Zenon DEF p
    <3>3. f = FlattenSeq(tty')
      BY <1>3 DEF f
    <3> QED
      BY <1>3, <2>2, <2>3, <3>1, <3>2, <3>3, Zenon DEF MovedOver
  <2>7. Complete(done, r)'
    <3>1. Handed(done, commands')
      BY <1>3, <1>7, Zenon
    <3> QED
      BY <2>2, <2>5, <3>1, Zenon DEF Complete
  <2>8. Read(done, r)'
    BY <1>10, <2>6, <2>7, StillStream
  <2> QED
    BY <1>8, <1>9, <1>13, <2>4, <2>8, Zenon DEF ConsoleInv
<1> QED
  BY <1>11, <1>12

(* A line up to its newline is read from the stream, and handed out.       *)
LEMMA ReadLine ==
  ASSUME ConsoleInv, NEW done \in Seq(Text), NEW rest \in Seq(Chars), Read(done, rest),
         NEW c \in Seq(Chars), NEW s \in Seq(Text), stream # <<>>,
         stream = (c \o <<NL>>) \o s, stream' = s, Return(Cut(rest \o c)), UNCHANGED <<tty, eof>>
  PROVE  ConsoleInv'
<1>1. Streams /\ Lines /\ Flags
  BY DEF ConsoleInv
<1> DEFINE f == FlattenSeq(tty)
<1>2. ~eof /\ Complete(done, rest) /\ typed = (done \o rest) \o (stream \o f)
  BY <1>1, FromStream
<1>3. tty' = tty /\ eof' = eof /\ stream' = s
  OBVIOUS
<1>4. Handed(done, commands) /\ commands \in Seq(Seq(Chars))
  BY <1>1, <1>2, Zenon DEF Complete, Lines
<1>5. rest \o c \in Seq(Chars)
  BY ConcatRules, Zenon
<1>6. PICK t \in Seq(Text) : t = (done \o (rest \o c)) \o <<NL>>
  <2>1. IsNext((done \o (rest \o c)) \o <<NL>>, done, rest \o c)
    BY <1>5, NextLine
  <2> QED
    BY <2>1, Zenon DEF IsNext
<1>7. /\ Complete(t, <<>>)' /\ commands' \in Seq(Seq(Chars))
      /\ pc' \in {"clients", "prompt"}
      /\ line' \in Seq(Chars) /\ Len(line') < BufferLen /\ Left'
      /\ UNCHANGED <<buffer, typed, n_typed, n_keys, setup, ready, waiting>>
  BY <1>2, <1>4, <1>5, <1>6, Returned
<1>8. /\ buffer' = buffer /\ typed' = typed /\ n_typed' = n_typed /\ n_keys' = n_keys
      /\ setup' = setup /\ ready' = ready /\ waiting' = waiting
  BY <1>7
<1>9. Counts' /\ Control' /\ Flags'
  <2>1. eof' \in BOOLEAN
    BY <1>1, <1>3, Zenon DEF Flags
  <2> QED
    BY <1>7, <1>8, <2>1, StepRest
<1>10. ~eof' /\ pc' # "newline"
  BY <1>2, <1>3, <1>7
<1>11. Streams'
  BY <1>1, <1>3, <1>8, <1>10, PiecesStay, Zenon DEF Streams
<1>12. Lines'
  BY <1>1, <1>7, <1>8, Zenon DEF Lines
<1>13. typed' = (t \o <<>>) \o (stream' \o FlattenSeq(tty'))
  <2>1. done \in Seq(AllText) /\ rest \in Seq(AllText) /\ f \in Seq(AllText)
    BY <1>1, UnreadIs, Zenon
  <2>2. c \in Seq(AllText) /\ s \in Seq(AllText) /\ NL \in AllText
    <3>1. Chars \subseteq AllText /\ Text \subseteq AllText
      BY DEF AllText, Text
    <3>2. NL \in AllText
      BY DEF AllText, Text
    <3> QED
      BY <3>1, <3>2, SeqMonotonic
  <2> HIDE DEF f
  <2>3. LineMovedOver(done, rest, c, NL, s, f)
    BY <2>1, <2>2, RegroupLine, Zenon
  <2>4. f = FlattenSeq(tty')
    BY <1>3 DEF f
  <2> QED
    BY <1>2, <1>3, <1>6, <1>8, <2>3, <2>4, Zenon DEF LineMovedOver
<1>14. Read(t, <<>>)'
  BY <1>7, <1>10, <1>13, StillStream
<1>15. <<>> \in Seq(Chars)
  BY EmptySeq
<1> QED
  BY <1>7, <1>9, <1>11, <1>12, <1>14, <1>15, Zenon DEF ConsoleInv

(* The newline of a line that was too long ends it.                        *)
LEMMA StepSkipNewline == ConsoleInv /\ SkipNewline => ConsoleInv'
<1> SUFFICES ASSUME ConsoleInv, SkipNewline PROVE ConsoleInv'
  OBVIOUS
<1>1. Streams
  BY DEF ConsoleInv
<1>2. PICK done \in Seq(Text), rest \in Seq(Chars) : Read(done, rest)
  BY DEF ConsoleInv
<1>3. pc = "newline" /\ stream # <<>> /\ stream' = Tail(stream) /\ Return(buffer) /\ UNCHANGED <<tty, eof>>
  BY DEF SkipNewline
<1>4. Complete(done, rest)
  BY <1>1, <1>2, <1>3, FromStream
<1>5. Head(stream) = NL /\ stream \in Seq(Text)
  BY <1>1, <1>3 DEF Streams
<1>6. stream = (<<>> \o <<NL>>) \o Tail(stream) /\ Tail(stream) \in Seq(Text)
  BY <1>3, <1>5, HeadAndTail, Zenon
<1>7. buffer = Cut(rest)
  BY <1>3, <1>4 DEF Complete
<1>8. rest \o <<>> = rest /\ <<>> \in Seq(Chars)
  BY ConcatRules, EmptySeq, Zenon
<1>9. Return(Cut(rest \o <<>>))
  BY <1>3, <1>7, <1>8, Zenon
<1> QED
  BY <1>2, <1>3, <1>6, <1>8, <1>9, ReadLine

(* What a stretch of the stream without a newline is.                      *)
LEMMA NoNewline ==
  ASSUME NEW s \in Seq(Text), NEW m \in 0..Len(s), \A j \in 1..m : s[j] # NL
  PROVE  /\ SubSeq(s, 1, m) \in Seq(Chars) /\ Len(SubSeq(s, 1, m)) = m
         /\ SubSeq(s, m + 1, Len(s)) \in Seq(Text)
         /\ s = SubSeq(s, 1, m) \o SubSeq(s, m + 1, Len(s))
<1> DEFINE c == SubSeq(s, 1, m)
<1>1. /\ c \in Seq(Text) /\ Len(c) = m /\ (\A j \in 1..m : c[j] = s[j])
      /\ SubSeq(s, m + 1, Len(s)) \in Seq(Text)
      /\ s = c \o SubSeq(s, m + 1, Len(s))
  BY CutAt
<1>2. \A j \in 1..m : j \in 1..Len(s)
  OBVIOUS
<1>3. \A j \in 1..m : c[j] \in Chars
  <2> SUFFICES ASSUME NEW j \in 1..m PROVE c[j] \in Chars
    OBVIOUS
  <2>1. s[j] \in Text
    BY <1>2, ElementOfSeq
  <2> QED
    BY <1>1, <2>1 DEF Text
<1> HIDE DEF c
<1>4. c \in Seq(Chars)
  <2>1. c = [j \in 1..m |-> c[j]] /\ m \in Nat
    BY <1>1
  <2> QED
    BY <1>3, <2>1, IsASeq
<1> QED
  BY <1>1, <1>4 DEF c

(* fgets finds a newline, and the line ends ...                            *)
LEMMA FgetsLine ==
  ASSUME ConsoleInv, Fgets,
         NEW nl, nl = SelectInSeq(stream, LAMBDA c : c = NL), nl \in 1..BufferLen - 1 - Len(buffer)
  PROVE  ConsoleInv'
<1>1. Streams /\ Lines
  BY DEF ConsoleInv
<1>2. PICK done \in Seq(Text), rest \in Seq(Chars) : Read(done, rest)
  BY DEF ConsoleInv
<1> DEFINE c == SubSeq(stream, 1, nl - 1)
           s == SubSeq(stream, nl + 1, Len(stream))
<1>3. /\ pc = "fgets" /\ stream # <<>> /\ UNCHANGED <<tty, eof>>
      /\ stream' = s /\ Return(buffer \o c)
  BY DEF Fgets
<1>4. Complete(done, rest)
  BY <1>1, <1>2, <1>3, FromStream
<1>5. buffer = rest
  BY <1>3, <1>4 DEF Complete
<1>6. stream \in Seq(Text) /\ Len(rest) \in Nat /\ BufferLen \in Nat
  BY <1>1, BoundsAssumption DEF Streams
<1>7. IsFirst(nl, stream, NL)
  BY <1>6, FindEntry, ZenonT(60) DEF SelectInSeq
<1>8. nl \in 1..Len(stream) /\ stream[nl] = NL /\ \A j \in 1..nl - 1 : stream[j] # NL
  <2>1. nl # 0
    OBVIOUS
  <2> QED
    BY <1>7, <2>1, Zenon DEF IsFirst
<1> DEFINE k == nl - 1
<1>9. k \in 0..Len(stream) /\ nl \in Nat /\ k + 1 = nl /\ Len(rest) + k <= BufferLen - 1
  BY <1>5, <1>6, <1>8
<1>10. c \in Seq(Chars) /\ Len(c) = k
  <2>1. \A j \in 1..k : stream[j] # NL
    BY <1>8
  <2> HIDE DEF k
  <2>2. SubSeq(stream, 1, k) \in Seq(Chars) /\ Len(SubSeq(stream, 1, k)) = k
    BY <1>6, <1>9, <2>1, NoNewline
  <2>3. c = SubSeq(stream, 1, k)
    BY DEF k
  <2> QED
    BY <2>2, <2>3
<1>11. stream = (c \o <<NL>>) \o s
  BY <1>6, <1>8, CutAround
<1>12. s \in Seq(Text)
  <2>1. \A i \in 0..Len(stream) : SubSeq(stream, i + 1, Len(stream)) \in Seq(Text)
    BY <1>6, CutAt, Zenon
  <2>2. nl \in 0..Len(stream)
    BY <1>8
  <2> QED
    BY <2>1, <2>2, Zenon
<1> HIDE DEF k, c, s
<1>13. Cut(rest \o c) = rest \o c
  <2>1. rest \o c \in Seq(Chars) /\ IsConcat(rest \o c, rest, c)
    BY <1>10, ConcatRules, Zenon
  <2>2. Len(rest \o c) <= BufferLen - 1
    BY <1>9, <1>10, <2>1 DEF IsConcat
  <2> QED
    BY <2>1, <2>2, CutIs
<1>14. Return(Cut(rest \o c))
  BY <1>3, <1>5, <1>13, Zenon
<1>15. PICK c0 \in Seq(Chars), s0 \in Seq(Text) : c0 = c /\ s0 = s
  BY <1>10, <1>12
<1>16. stream = (c0 \o <<NL>>) \o s0 /\ stream' = s0 /\ Return(Cut(rest \o c0))
  BY <1>3, <1>11, <1>14, <1>15, Zenon
<1> QED
  BY <1>2, <1>3, <1>16, ReadLine

(* ... or it does not: the line grows, up to the size of the buffer.       *)
LEMMA FgetsPart ==
  ASSUME ConsoleInv, Fgets,
         NEW nl, nl = SelectInSeq(stream, LAMBDA c : c = NL), nl \notin 1..BufferLen - 1 - Len(buffer)
  PROVE  ConsoleInv'
<1>1. Streams /\ Lines /\ Flags /\ Left
  BY DEF ConsoleInv
<1>2. PICK done \in Seq(Text), rest \in Seq(Chars) : Read(done, rest)
  BY DEF ConsoleInv
<1> DEFINE f == FlattenSeq(tty)
           n == Len(stream)
           room == BufferLen - 1 - Len(buffer)
<1>3. /\ pc = "fgets" /\ stream # <<>> /\ tty' = tty /\ eof' = eof
      /\ buffer' = buffer \o SubSeq(stream, 1, Min({room, n}))
      /\ stream' = SubSeq(stream, room + 1, n)
      /\ pc' = IF Len(buffer') < BufferLen - 1 THEN "fgets" ELSE "skip"
      /\ UNCHANGED <<line, commands, operator, loop, n_keys>>
  BY DEF Fgets
<1>4. /\ commands' = commands /\ line' = line /\ typed' = typed /\ n_typed' = n_typed /\ n_keys' = n_keys
      /\ setup' = setup /\ ready' = ready /\ waiting' = waiting
  BY <1>3 DEF operator, loop
<1>5. ~eof /\ Complete(done, rest) /\ typed = (done \o rest) \o (stream \o f)
  BY <1>1, <1>2, <1>3, FromStream
<1>6. buffer = rest /\ Len(rest) < BufferLen - 1 /\ Handed(done, commands)
  BY <1>3, <1>5 DEF Complete
<1>7. stream \in Seq(Text) /\ Len(rest) \in Nat /\ BufferLen \in Nat /\ n \in Nat
  BY <1>1, BoundsAssumption DEF Streams
<1>8. IsFirst(nl, stream, NL)
  BY <1>7, FindEntry, ZenonT(60) DEF SelectInSeq
<1>9. n > 0
  BY <1>3, <1>7, EmptySeq
<1> HIDE DEF n, room
<1>10. room \in Nat /\ room > 0 /\ room = BufferLen - 1 - Len(rest)
  BY <1>6, <1>7 DEF room
<1>11. PICK m \in {room, n} : m = Min({room, n}) /\ m <= room /\ m <= n
  <2> DEFINE M == {room, n}
  <2>1. M \in SUBSET Nat /\ M # {} /\ room \in M /\ n \in M
    BY <1>7, <1>10
  <2> HIDE DEF M
  <2>2. Min(M) \in M /\ \A j \in M : Min(M) <= j
    BY <2>1, MinIsLeast
  <2> QED
    BY <2>1, <2>2 DEF M
<1>12. m \in 0..n /\ m \in Nat
  BY <1>7, <1>10, <1>11
<1>13. \A j \in 1..m : stream[j] # NL
  <2>1. nl \notin 1..room
    BY DEF room
  <2>2. CASE nl = 0
    <3>1. \A j \in 1..n : stream[j] # NL
      BY <1>8, <2>2 DEF IsFirst, n
    <3> QED
      BY <1>7, <1>12, <3>1
  <2>3. CASE nl # 0
    <3>1. nl \in 1..n /\ \A j \in 1..nl - 1 : stream[j] # NL
      BY <1>8, <2>3 DEF IsFirst, n
    <3>2. \A j \in 1..m : j \in 1..nl - 1
      BY <1>7, <1>10, <1>11, <1>12, <2>1, <3>1
    <3> QED
      BY <3>1, <3>2
  <2> QED
    BY <2>2, <2>3
<1>14. /\ SubSeq(stream, 1, m) \in Seq(Chars) /\ Len(SubSeq(stream, 1, m)) = m
       /\ SubSeq(stream, m + 1, n) \in Seq(Text)
       /\ stream = SubSeq(stream, 1, m) \o SubSeq(stream, m + 1, n)
  BY <1>7, <1>12, <1>13, NoNewline DEF n
<1>15. PICK c \in Seq(Chars), s \in Seq(Text) :
         c = SubSeq(stream, 1, m) /\ s = SubSeq(stream, m + 1, n)
  BY <1>14, Zenon
<1>16. Len(c) = m /\ stream = c \o s /\ buffer' = rest \o c
  BY <1>3, <1>6, <1>11, <1>14, <1>15, Zenon
<1>17. stream' = s
  <2>1. CASE m = room
    BY <1>3, <1>15, <2>1, Zenon
  <2>2. CASE m # room
    <3>1. m = n /\ n < room
      BY <1>7, <1>10, <1>11, <2>2
    <3>2. SubSeq(stream, room + 1, n) = <<>> /\ SubSeq(stream, n + 1, n) = <<>>
      <4>1. ASSUME NEW i \in Nat, n < i PROVE SubSeq(stream, i, n) = <<>>
        <5>1. i \in Int /\ n \in Int /\ ~(i <= n) /\ \A j \in i..n : stream[j] \in Text
          BY <1>7, <4>1
        <5>2. SubSeq(stream, i, n) \in Seq(Text) /\ Len(SubSeq(stream, i, n)) = 0
          BY <5>1, SubSeqProperties
        <5> QED
          BY <5>2, EmptySeq
      <4>2. n < room + 1 /\ n < n + 1 /\ room + 1 \in Nat /\ n + 1 \in Nat
        BY <1>7, <1>10, <3>1
      <4> QED
        BY <4>1, <4>2
    <3> QED
      BY <1>3, <1>15, <3>1, <3>2, Zenon
  <2> QED
    BY <2>1, <2>2
<1>18. PICK r \in Seq(Chars) : r = rest \o c
  BY ConcatRules, Zenon
<1>19. Len(r) = Len(rest) + m
  <2>1. IsConcat(r, rest, c)
    BY <1>18, ConcatRules, Zenon
  <2> QED
    BY <1>16, <2>1 DEF IsConcat
<1>20. Len(r) <= BufferLen - 1 /\ buffer' = r /\ Cut(r) = r
  <2>1. Len(r) <= BufferLen - 1
    BY <1>7, <1>10, <1>11, <1>12, <1>19
  <2> QED
    BY <1>16, <1>18, <2>1, CutIs
<1>21. pc' \in {"fgets", "skip"} /\ ~eof' /\ pc' # "newline"
  BY <1>3, <1>5
<1>22. Counts' /\ Control' /\ Flags'
  <2>1. eof' \in BOOLEAN
    BY <1>1, <1>3, Zenon DEF Flags
  <2>2. pc' \in {"clients", "prompt", "getchar", "fgets", "skip", "newline"}
    BY <1>21
  <2> QED
    BY <1>4, <2>1, <2>2, StepRest
<1>23. Streams'
  BY <1>1, <1>3, <1>4, <1>17, <1>21, PiecesStay, Zenon DEF Streams
<1>24. Lines'
  <2>1. Len(buffer') < BufferLen
    <3>1. Len(r) \in Nat
      OBVIOUS
    <3> QED
      BY <1>7, <1>20, <3>1
  <2> QED
    BY <1>1, <1>4, <1>20, <2>1, Zenon DEF Lines
<1>25. Complete(done, r)'
  <2>1. Handed(done, commands')
    BY <1>4, <1>6, Zenon
  <2>2. pc' = "fgets" => Len(r) < BufferLen - 1
    BY <1>3, <1>20
  <2>3. pc' = "skip" => Len(r) >= BufferLen - 1
    <3>1. pc' = "skip" => ~(Len(r) < BufferLen - 1)
      BY <1>3, <1>20
    <3>2. Len(r) \in Nat
      OBVIOUS
    <3> QED
      BY <1>7, <3>1, <3>2
  <2>4. pc' = "fgets" \/ pc' = "skip"
    BY <1>21
  <2>5. pc' \notin {"fgets", "skip", "newline"} => FALSE
    BY <2>4
  <2> QED
    BY <1>20, <1>21, <2>1, <2>2, <2>3, <2>5, Zenon DEF Complete
<1>26. typed' = (done \o r) \o (stream' \o FlattenSeq(tty'))
  <2>1. done \in Seq(AllText) /\ rest \in Seq(AllText) /\ f \in Seq(AllText)
    BY <1>1, UnreadIs, Zenon
  <2>2. c \in Seq(AllText) /\ s \in Seq(AllText)
    <3>1. Chars \subseteq AllText /\ Text \subseteq AllText
      BY DEF AllText, Text
    <3> QED
      BY <3>1, SeqMonotonic
  <2> HIDE DEF f
  <2>3. MovedOver(done, rest, c, s, f)
    BY <2>1, <2>2, Regroup, Zenon
  <2>4. f = FlattenSeq(tty')
    BY <1>3 DEF f
  <2> QED
    BY <1>4, <1>5, <1>16, <1>17, <1>18, <2>3, <2>4, Zenon DEF MovedOver
<1>27. Read(done, r)'
  BY <1>21, <1>25, <1>26, StillStream
<1>28. Left'
  <2>1. pc' \notin {"prompt", "getchar"}
    BY <1>21
  <2> QED
    BY <1>1, <1>3, <1>4, <2>1, LeftStays
<1> QED
  BY <1>22, <1>23, <1>24, <1>27, <1>28, Zenon DEF ConsoleInv

(* fgets, with and without a newline in what it copies.                    *)
LEMMA StepFgets == ConsoleInv /\ Fgets => ConsoleInv'
  BY FgetsLine, FgetsPart

(* After an end of file the line is what the buffer has, if anything ...   *)
LEMMA EndLine ==
  ASSUME NEW done \in Seq(Text), NEW rest \in Seq(Chars), Complete(done, rest),
         eof', UNCHANGED setup, pc' \in {"clients", "prompt"}, commands \in Seq(Seq(Chars)),
         pc \in {"fgets", "skip"}, buffer # <<>>, commands' = Append(commands, buffer)
  PROVE  Ended(done, rest)' /\ commands' \in Seq(Seq(Chars))
<1>1. buffer = Cut(rest)
  <2>1. CASE pc = "fgets"
    <3>1. buffer = rest /\ Len(rest) < BufferLen - 1
      BY <2>1 DEF Complete
    <3>2. Len(rest) <= BufferLen - 1
      BY <3>1, BoundsAssumption
    <3>3. Cut(rest) = rest
      BY <3>2, CutIs
    <3> QED
      BY <3>1, <3>3
  <2>2. CASE pc = "skip"
    BY <2>2 DEF Complete
  <2> QED
    BY <2>1, <2>2
<1>2. rest # <<>>
  <2> SUFFICES ASSUME rest = <<>> PROVE FALSE
    OBVIOUS
  <2>1. Len(<<>>) = 0 /\ 0 <= BufferLen - 1
    BY BoundsAssumption
  <2>2. Cut(rest) = rest
    BY <2>1, CutIs
  <2> QED
    BY <1>1, <2>2
<1> DEFINE L == Seq(Chars)
<1>3. commands \in Seq(L) /\ Cut(rest) \in L
  BY CutIs
<1>9. PICK lines \in Seq(Seq(Chars)) : lines = commands
  OBVIOUS
<1>4. commands' = All(lines, rest)
  BY <1>1, <1>2, <1>9 DEF All
<1> HIDE DEF L
<1>5. commands' \in Seq(L) /\ Len(commands') \in Nat
  BY <1>1, <1>3, AppendProperties
<1>6. AndAgain(All(lines, rest))'
  <2> DEFINE all == All(lines, rest)
  <2>1. \A k \in Len(commands') + 1..Len(commands') : FALSE
    BY <1>5
  <2>2. all' = commands'
    BY <1>4 DEF All, Cut
  <2> HIDE DEF all
  <2>3. AndAgain(all)'
    BY <1>5, <2>1, <2>2 DEF AndAgain
  <2> QED
    BY <2>3 DEF all
<1>7. Handed(done, lines)
  BY <1>9 DEF Complete
<1>8. pc' # "fgets" /\ pc' # "skip" /\ pc' # "newline"
  OBVIOUS
<1> QED
  BY <1>5, <1>6, <1>7, <1>8, Zenon DEF Ended, L

(* ... or else what the call before has left, if that was asked for again. *)
LEMMA EndAgain ==
  ASSUME NEW done \in Seq(Text), NEW rest \in Seq(Chars),
         (Complete(done, rest) /\ rest = <<>>) \/ Ended(done, rest),
         eof', UNCHANGED setup, pc' \in {"clients", "prompt"}, commands \in Seq(Seq(Chars)),
         Left, line \in Seq(Chars), ~setup.server, line # <<>>, commands' = Append(commands, line)
  PROVE  Ended(done, rest)' /\ commands' \in Seq(Seq(Chars))
<1>1. PICK lines \in Seq(Seq(Chars)) : Handed(done, lines) /\ AndAgain(All(lines, rest))
  <2>1. CASE Complete(done, rest) /\ rest = <<>>
    <3>1. Handed(done, commands) /\ All(commands, rest) = commands
      BY <2>1 DEF Complete, All
    <3>2. Len(commands) \in Nat /\ \A k \in Len(commands) + 1..Len(commands) : FALSE
      OBVIOUS
    <3>3. AndAgain(All(commands, rest))
      BY <3>1, <3>2 DEF AndAgain
    <3> QED
      BY <3>1, <3>3
  <2>2. CASE Ended(done, rest)
    BY <2>2, Zenon DEF Ended
  <2> QED
    BY <2>1, <2>2
<1> DEFINE L == Seq(Chars)
           n == Len(commands)
           all == All(lines, rest)
<1>2. commands \in Seq(L) /\ line \in L
  OBVIOUS
<1>3. n \in Nat /\ n > 0 /\ line = commands[n]
  BY DEF Left
<1>4. all \in Seq(L) /\ Len(all) \in Nat
  <2>1. Cut(rest) \in L /\ lines \in Seq(L)
    BY CutIs
  <2> HIDE DEF L
  <2>2. Append(lines, Cut(rest)) \in Seq(L)
    BY <2>1, AppendProperties
  <2>3. all \in Seq(L)
    BY <2>1, <2>2 DEF All
  <2> QED
    BY <2>3
<1> HIDE DEF L
<1>5. /\ commands' \in Seq(L) /\ Len(commands') = n + 1 /\ commands'[n + 1] = line
      /\ \A k \in 1..n : commands'[k] = commands[k]
  BY <1>2, AppendProperties
<1> DEFINE a == Len(all)
<1>6. /\ a <= n /\ \A k \in 1..a : commands[k] = all[k]
      /\ \A k \in a + 1..n : k > 1 /\ commands[k] = commands[k - 1]
  BY <1>1, Zenon DEF AndAgain
<1>7. a \in Nat
  BY <1>4
<1> HIDE DEF n, a, all
<1>8. \A k \in 1..a : commands'[k] = all[k]
  BY <1>3, <1>5, <1>6, <1>7
<1>9. ASSUME NEW k \in a + 1..n + 1 PROVE k > 1 /\ commands'[k] = commands'[k - 1]
  <2>1. CASE k = n + 1
    <3>1. k > 1 /\ k - 1 = n /\ n \in 1..n
      BY <1>3, <2>1
    <3>2. commands'[k - 1] = commands[n] /\ commands'[k] = line
      BY <1>5, <2>1, <3>1
    <3> QED
      BY <1>3, <3>1, <3>2
  <2>2. CASE k # n + 1
    <3>1. k \in a + 1..n
      BY <1>3, <1>7, <2>2
    <3>2. k > 1 /\ commands[k] = commands[k - 1]
      BY <1>6, <3>1
    <3>3. k \in 1..n /\ k - 1 \in 1..n
      BY <1>3, <1>7, <3>1, <3>2
    <3> QED
      BY <1>5, <3>2, <3>3
  <2> QED
    BY <2>1, <2>2
<1>10. AndAgain(all)'
  <2>1. a <= n + 1
    BY <1>3, <1>6, <1>7
  <2>2. all' = all /\ Len(all') = a
    BY DEF all, a, All, Cut
  <2>3. ~setup'.server
    OBVIOUS
  <2>4. Len(commands') = n + 1
    BY <1>5
  <2>5. \A k \in a + 1..n + 1 : k > 1 /\ commands'[k] = commands'[k - 1]
    BY <1>9
  <2> QED
    BY <1>8, <2>1, <2>2, <2>3, <2>4, <2>5, Zenon DEF AndAgain
<1>11. pc' # "fgets" /\ pc' # "skip" /\ pc' # "newline"
  OBVIOUS
<1>12. Ended(done, rest)'
  BY <1>1, <1>10, <1>11, Zenon DEF Ended, all
<1> QED
  BY <1>5, <1>12 DEF L

(* Both are an end of file to the caller.                                  *)
LEMMA StepAtEnd == ConsoleInv /\ AtEnd => ConsoleInv'
<1> SUFFICES ASSUME ConsoleInv, AtEnd PROVE ConsoleInv'
  OBVIOUS
<1>1. Streams /\ Lines /\ Flags /\ Left
  BY DEF ConsoleInv
<1>2. PICK done \in Seq(Text), rest \in Seq(Chars) : Read(done, rest)
  BY DEF ConsoleInv
<1>3. /\ pc \in {"fgets", "skip", "newline", "getchar"} /\ stream = <<>> /\ eof
      /\ tty' = tty /\ stream' = stream /\ eof' = eof
      /\ pc' \in {"clients", "prompt"} /\ buffer' = buffer /\ typed' = typed
      /\ setup' = setup /\ ready' = ready /\ waiting' = waiting /\ n_typed' = n_typed /\ n_keys' = n_keys
  BY DEF AtEnd, Reading, Return, After, stdin, caller, loop, operator
<1>4. pc # "newline"
  BY <1>1, <1>3 DEF Streams
<1> DEFINE result == IF buffer = <<>> THEN line ELSE buffer
<1>5. \/ pc = "getchar" /\ pc' = "prompt" /\ line' = line /\ commands' = commands
      \/ /\ pc \in {"fgets", "skip"} /\ pc' = After /\ line' = result
         /\ commands' = IF result = <<>> THEN commands ELSE Append(commands, result)
  <2>1. CASE pc = "getchar"
    BY <2>1 DEF AtEnd, caller
  <2>2. CASE pc # "getchar"
    <3>1. Return(result)
      BY <2>2 DEF AtEnd
    <3>2. pc \in {"fgets", "skip"}
      BY <1>3, <1>4, <2>2
    <3> HIDE DEF result
    <3> QED
      BY <1>3, <3>1, <3>2 DEF Return
  <2> QED
    BY <2>1, <2>2
<1>6. commands \in Seq(Seq(Chars)) /\ line \in Seq(Chars) /\ buffer \in Seq(Chars)
      /\ Len(line) < BufferLen /\ Len(buffer) < BufferLen /\ typed \in Seq(AllText)
  BY <1>1 DEF Lines
<1>7. /\ commands' \in Seq(Seq(Chars)) /\ Left'
      /\ Complete(done, rest)' \/ Ended(done, rest)'
  <2>1. pc' # "fgets" /\ pc' # "skip" /\ pc' # "newline" /\ eof'
    BY <1>3
  <2>2. Complete(done, rest) \/ Ended(done, rest)
    BY <1>2, Zenon DEF Read
  <2>3. ASSUME commands' = commands, Complete(done, rest) => rest = <<>>
        PROVE  Complete(done, rest)' \/ Ended(done, rest)'
    <3>1. CASE Complete(done, rest)
      <4>1. Handed(done, commands') /\ rest = <<>>
        BY <2>3, <3>1, Zenon DEF Complete
      <4> QED
        BY <2>1, <4>1, Zenon DEF Complete
    <3>2. CASE Ended(done, rest)
      <4>1. PICK lines \in Seq(Seq(Chars)) : Handed(done, lines) /\ AndAgain(All(lines, rest))
        BY <3>2, Zenon DEF Ended
      <4>2. AndAgain(All(lines, rest))'
        BY <1>3, <2>3, <4>1, Zenon DEF AndAgain
      <4> QED
        BY <2>1, <4>1, <4>2, Zenon DEF Ended
    <3> QED
      BY <2>2, <3>1, <3>2
  <2>4. CASE pc = "getchar"
    <3>1. commands' = commands /\ line' = line /\ ~setup.server
      BY <1>1, <1>5, <2>4 DEF Left
    <3>2. Complete(done, rest) => rest = <<>>
      <4>1. pc \notin {"fgets", "skip", "newline"}
        BY <2>4
      <4> QED
        BY <4>1, Zenon DEF Complete
    <3>3. Left'
      BY <1>1, <1>3, <3>1, LeftStays
    <3> QED
      BY <1>6, <2>3, <3>1, <3>2, <3>3, Zenon
  <2>5. CASE pc # "getchar" /\ buffer # <<>>
    <3>1. /\ pc \in {"fgets", "skip"} /\ pc' = After /\ line' = buffer
          /\ commands' = Append(commands, buffer)
      BY <1>5, <2>5
    <3>2. Complete(done, rest)
      BY <2>2, <2>5, <3>1 DEF Ended
    <3>3. Ended(done, rest)' /\ commands' \in Seq(Seq(Chars))
      BY <1>3, <1>6, <2>5, <3>1, <3>2, EndLine
    <3>4. Left'
      BY <1>3, <1>6, <3>1, LeftNew
    <3> QED
      BY <3>3, <3>4
  <2>6. CASE pc # "getchar" /\ buffer = <<>>
    <3>1. /\ pc \in {"fgets", "skip"} /\ pc' = After /\ line' = line
          /\ commands' = IF line = <<>> THEN commands ELSE Append(commands, line)
      BY <1>5, <2>6
    <3>2. Complete(done, rest) => rest = <<>> /\ pc = "fgets"
      <4> SUFFICES ASSUME Complete(done, rest) PROVE rest = <<>> /\ pc = "fgets"
        OBVIOUS
      <4>1. pc = "fgets" => buffer = rest
        BY DEF Complete
      <4>2. pc = "skip" => buffer = Cut(rest) /\ Len(rest) >= BufferLen - 1
        BY DEF Complete
      <4>3. pc # "skip"
        <5> SUFFICES ASSUME pc = "skip" PROVE FALSE
          OBVIOUS
        <5>1. Cut(rest) = <<>> /\ Len(rest) >= BufferLen - 1
          BY <2>6, <4>2
        <5>2. Len(<<>>) = BufferLen - 1
          BY <5>1, CutIs
        <5> QED
          BY <5>2, BoundsAssumption
      <4> QED
        BY <2>6, <3>1, <4>1, <4>3
    <3>3. pc = "fgets"
      BY <2>2, <3>1, <3>2 DEF Ended
    <3>4. CASE line = <<>>
      <4>1. commands' = commands /\ line' = <<>>
        BY <3>1, <3>4
      <4>2. Left'
        <5>1. setup.server => pc' = "clients"
          BY <3>1 DEF After
        <5> QED
          BY <1>3, <4>1, <5>1 DEF Left
      <4> QED
        BY <1>6, <2>3, <3>2, <4>1, <4>2, Zenon
    <3>5. CASE line # <<>>
      <4>1. commands' = Append(commands, line) /\ ~setup.server
        BY <1>1, <3>1, <3>3, <3>5 DEF Left
      <4>2. (Complete(done, rest) /\ rest = <<>>) \/ Ended(done, rest)
        BY <2>2, <3>2
      <4>3. Ended(done, rest)' /\ commands' \in Seq(Seq(Chars))
        BY <1>1, <1>3, <1>6, <3>5, <4>1, <4>2, EndAgain
      <4>4. Left'
        BY <1>3, <1>6, <3>1, <4>1, LeftNew
      <4> QED
        BY <4>3, <4>4
    <3> QED
      BY <3>4, <3>5
  <2> QED
    BY <2>4, <2>5, <2>6
<1>8. Counts' /\ Control' /\ Flags'
  <2>1. eof' \in BOOLEAN
    BY <1>1, <1>3, Zenon DEF Flags
  <2>2. pc' \in {"clients", "prompt", "getchar", "fgets", "skip", "newline"}
    BY <1>3
  <2> QED
    BY <1>3, <2>1, <2>2, StepRest
<1>9. Streams'
  <2>1. pc' # "newline"
    BY <1>3
  <2> QED
    BY <1>1, <1>3, <2>1, PiecesStay, Zenon DEF Streams
<1>10. Lines'
  <2>1. line' \in Seq(Chars) /\ Len(line') < BufferLen
    BY <1>5, <1>6, Zenon
  <2> QED
    BY <1>3, <1>6, <1>7, <2>1, Zenon DEF Lines
<1>11. Read(done, rest)'
  BY <1>2, <1>3, <1>7, StillRead
<1> QED
  BY <1>7, <1>8, <1>9, <1>10, <1>11, Zenon DEF ConsoleInv

(* What one read brings: an end of file, or pieces before it.              *)
LEMMA ReadSplits ==
  ASSUME NEW s \in Seq(Seq(AllText)), NEW k \in 1..Len(s)
  PROVE  /\ FlattenSeq(s) = FlattenSeq(SubSeq(s, 1, k)) \o FlattenSeq(SubSeq(s, k + 1, Len(s)))
         /\ (\A j \in 1..k : s[j] \in Seq(Text)) => FlattenSeq(SubSeq(s, 1, k)) \in Seq(Text)
         /\ k = 1 => FlattenSeq(SubSeq(s, 1, k)) = s[1]
<1> DEFINE A == Seq(AllText)
           T == Seq(Text)
           x == SubSeq(s, 1, k)
<1>1. k \in 0..Len(s) /\ k \in Nat /\ Len(s) \in Nat
  OBVIOUS
<1>2. FlattenSeq(s) = FlattenSeq(SubSeq(s, 1, k)) \o FlattenSeq(SubSeq(s, k + 1, Len(s)))
  BY <1>1, FlattenSplit, Zenon
<1>3. ASSUME \A j \in 1..k : s[j] \in T PROVE FlattenSeq(x) \in Seq(Text)
  <2> HIDE DEF T
  <2>1. 1 \in Int /\ k \in Int
    BY <1>1
  <2>2. x \in Seq(T)
    BY <1>3, <2>1, SubSeqProperties
  <2> QED
    BY <2>2, FlattenIsSeq DEF T
<1>4. ASSUME k = 1 PROVE FlattenSeq(x) = s[1]
  <2> HIDE DEF A
  <2>1. s \in Seq(A) /\ 1 \in 1..Len(s)
    BY <1>4 DEF A
  <2>2. s[1] \in A
    BY <2>1, ElementOfSeq
  <2>3. SubSeq(s, 1, 1) \in Seq(A) /\ Len(SubSeq(s, 1, 1)) = 1 /\ SubSeq(s, 1, 1)[1] = s[1]
    <3>1. 0 \in Nat /\ 1 \in Nat /\ 0 + 1 <= Len(s)
      BY <2>1
    <3>2. /\ SubSeq(s, 0 + 1, 0 + 1) \in Seq(A) /\ Len(SubSeq(s, 0 + 1, 0 + 1)) = 1
          /\ \A i \in 1..1 : SubSeq(s, 0 + 1, 0 + 1)[i] = s[0 + i]
      BY <2>1, <3>1, Stretch
    <3> QED
      BY <3>2
  <2>4. SubSeq(s, 1, 1) = <<s[1]>>
    <3> DEFINE y == SubSeq(s, 1, 1)
               z == <<s[1]>>
    <3>1. z \in Seq(A) /\ Len(z) = 1 /\ z[1] = s[1]
      BY <2>2
    <3> HIDE DEF z
    <3>2. \A i \in 1..Len(y) : y[i] = z[i]
      BY <2>3, <3>1
    <3> HIDE DEF y
    <3>3. y \in Seq(A) /\ Len(y) = Len(z)
      BY <2>3, <3>1 DEF y
    <3>4. y = z
      BY <3>1, <3>2, <3>3, SeqEqual
    <3> QED
      BY <3>4 DEF y, z
  <2>5. FlattenSeq(<<s[1]>>) = s[1]
    BY <2>2, FlattenOne DEF A
  <2> QED
    BY <1>4, <2>4, <2>5
<1> QED
  BY <1>2, <1>3, <1>4

(* A read moves pieces from the kernel to the stream, up to an end of file. *)
LEMMA StepFill == ConsoleInv /\ Fill => ConsoleInv'
<1> SUFFICES ASSUME ConsoleInv, Fill PROVE ConsoleInv'
  OBVIOUS
<1>1. Streams /\ Lines /\ Flags /\ Left
  BY DEF ConsoleInv
<1>2. PICK done \in Seq(Text), rest \in Seq(Chars) : Read(done, rest)
  BY DEF ConsoleInv
<1> DEFINE e == <<END>>
           y == Append(tty, e)
           n == Len(tty)
<1>3. PICK end : end = SelectInSeq(y, LAMBDA piece : piece = e)
  OBVIOUS
<1>4. PICK read : read = IF setup.terminal \/ end = 1 THEN 1 ELSE end - 1
  OBVIOUS
<1>5. /\ pc \in {"fgets", "skip", "newline", "getchar"} /\ stream = <<>> /\ ~eof /\ tty # <<>>
      /\ stream' = IF end = 1 THEN <<>> ELSE FlattenSeq(SubSeq(tty, 1, read))
      /\ tty' = SubSeq(tty, read + 1, n)
      /\ eof' = (end = 1)
      /\ UNCHANGED <<operator, caller, loop, pc, n_keys>>
  BY <1>3, <1>4 DEF Fill, Reading
<1>6. /\ commands' = commands /\ typed' = typed /\ n_typed' = n_typed /\ n_keys' = n_keys /\ pc' = pc
      /\ buffer' = buffer /\ line' = line /\ setup' = setup /\ ready' = ready /\ waiting' = waiting
  BY <1>5 DEF operator, caller, loop
<1>7. Complete(done, rest)
  BY <1>2, <1>5 DEF Read, Ended
<1>8. pc # "newline" /\ pc' # "newline"
  BY <1>1, <1>5, <1>6 DEF Streams
<1>9. tty \in Seq(Pieces) /\ tty \in Seq(Seq(AllText)) /\ e \in Seq(AllText)
  <2>1. e \in Seq(AllText)
    BY ConcatRules, Zenon DEF AllText
  <2> QED
    BY <1>1, <2>1, TtyIs, Zenon DEF Streams
<1>10. n \in Nat /\ n > 0
  BY <1>5, <1>9, EmptySeq
<1> DEFINE A == Seq(AllText)
<1> HIDE DEF A
<1>11. y \in Seq(A) /\ Len(y) = n + 1 /\ y[n + 1] = e /\ \A j \in 1..n : y[j] = tty[j]
  <2>1. tty \in Seq(A) /\ e \in A
    BY <1>9 DEF A
  <2> HIDE DEF e
  <2> QED
    BY <2>1, AppendProperties
<1> HIDE DEF y, e, n
<1>12. IsFirst(end, y, e)
  BY <1>3, <1>11, FindEntry, ZenonT(60) DEF SelectInSeq
<1>13. end \in 1..n + 1 /\ y[end] = e /\ \A j \in 1..end - 1 : y[j] # e
  <2>1. n + 1 \in 1..Len(y)
    BY <1>10, <1>11
  <2> QED
    BY <1>11, <1>12, <2>1, Zenon DEF IsFirst
<1>14. read \in 1..n /\ (end = 1 => read = 1) /\ (end # 1 => read <= end - 1)
  BY <1>4, <1>10, <1>13
<1> DEFINE a == FlattenSeq(SubSeq(tty, 1, read))
           b == FlattenSeq(SubSeq(tty, read + 1, n))
<1>15. /\ FlattenSeq(tty) = a \o b
       /\ (\A j \in 1..read : tty[j] \in Seq(Text)) => a \in Seq(Text)
       /\ read = 1 => a = tty[1]
  <2>1. read \in 1..Len(tty)
    BY <1>14 DEF n
  <2> QED
    BY <1>9, <2>1, ReadSplits DEF n
<1> HIDE DEF a, b
<1>16. b = FlattenSeq(tty')
  BY <1>5, Zenon DEF b
<1>17. tty' \in Seq(Pieces)'
  <2> DEFINE P == Pieces
  <2>1. tty \in Seq(P) /\ read \in 0..Len(tty)
    BY <1>9, <1>10, <1>14 DEF n
  <2> HIDE DEF P
  <2>2. SubSeq(tty, read + 1, Len(tty)) \in Seq(P)
    BY <2>1, CutAt, Zenon
  <2>3. tty' \in Seq(P)
    BY <1>5, <2>2, Zenon DEF n
  <2> QED
    BY <1>6, <2>3, PiecesStay, Zenon DEF P
<1>18. Counts' /\ Control' /\ Flags'
  <2>1. eof' \in BOOLEAN
    BY <1>5, Zenon
  <2>2. pc' \in {"clients", "prompt", "getchar", "fgets", "skip", "newline"}
    BY <1>5, <1>6
  <2> QED
    BY <1>6, <2>1, <2>2, StepRest
<1>19. Lines'
  BY <1>1, <1>6, Zenon DEF Lines
<1>24. Left'
  BY <1>1, <1>6, Zenon DEF Left
<1>20. Complete(done, rest)'
  BY <1>6, <1>7, Zenon DEF Complete
<1>21. typed = (done \o rest) \o (a \o b)
  <2>1. Unread = <<>> \o FlattenSeq(tty)
    BY <1>5 DEF Unread
  <2>2. FlattenSeq(tty) \in Seq(AllText)
    BY <1>1, <1>2, UnreadIs, Zenon
  <2>3. Unread = FlattenSeq(tty)
    BY <2>1, <2>2, ConcatRules, Zenon
  <2> QED
    BY <1>2, <1>15, <2>3, Zenon DEF Read
<1>22. CASE end = 1
  <2>1. 1 \in 1..n
    BY <1>10
  <2>2. a = e
    BY <1>11, <1>13, <1>14, <1>15, <1>22, <2>1
  <2>3. stream' = <<>> /\ eof'
    BY <1>5, <1>22
  <2>4. Streams'
    <3>1. <<>> \in Seq(Text)
      BY EmptySeq
    <3> QED
      BY <1>8, <1>17, <2>3, <3>1, Zenon DEF Streams
  <2>5. Unread' = a \o b
    <3>1. Unread' = <<END>> \o FlattenSeq(tty')
      BY <2>3, Zenon DEF Unread
    <3> QED
      BY <1>16, <2>2, <3>1, Zenon DEF e
  <2>6. Read(done, rest)'
    BY <1>6, <1>20, <1>21, <2>5, Zenon DEF Read
  <2> QED
    BY <1>18, <1>19, <1>24, <2>4, <2>6, Zenon DEF ConsoleInv
<1>23. CASE end # 1
  <2>1. stream' = a /\ ~eof'
    BY <1>5, <1>23, Zenon DEF a
  <2>2. \A j \in 1..read : tty[j] \in Seq(Text)
    <3> SUFFICES ASSUME NEW j \in 1..read PROVE tty[j] \in Seq(Text)
      OBVIOUS
    <3>1. j \in 1..n /\ j \in 1..end - 1
      BY <1>10, <1>13, <1>14, <1>23
    <3>2. tty[j] # e
      BY <1>11, <1>13, <3>1
    <3>3. tty[j] \in Pieces
      <4> DEFINE P == Pieces
      <4>1. tty \in Seq(P) /\ j \in 1..Len(tty)
        BY <1>9, <3>1 DEF n
      <4> HIDE DEF P
      <4>2. tty[j] \in P
        BY <4>1, ElementOfSeq
      <4> QED
        BY <4>2 DEF P
    <3> QED
      BY <3>2, <3>3, PiecesAre, Zenon DEF e
  <2>3. a \in Seq(Text)
    BY <1>15, <2>2
  <2>4. Streams'
    BY <1>8, <1>17, <2>1, <2>3, Zenon DEF Streams
  <2>5. typed' = (done \o rest) \o (stream' \o FlattenSeq(tty'))
    BY <1>6, <1>16, <1>21, <2>1, Zenon
  <2>6. Read(done, rest)'
    BY <1>20, <2>1, <2>5, StillStream
  <2> QED
    BY <1>18, <1>19, <1>24, <2>4, <2>6, Zenon DEF ConsoleInv
<1> QED
  BY <1>22, <1>23

(* Every step keeps the invariant.                                         *)
LEMMA ConsoleStep == ConsoleInv /\ [Next]_vars => ConsoleInv'
<1> SUFFICES ASSUME ConsoleInv, [Next]_vars PROVE ConsoleInv'
  OBVIOUS
<1>1. ASSUME NEW piece \in Pieces, Type(piece) PROVE ConsoleInv'
  BY <1>1, StepType
<1>2. CASE Ask \/ Select \/ Clients \/ AskLine \/ AskKey \/ UNCHANGED vars
  BY <1>2, StepQuiet
<1>3. CASE GetChar
  BY <1>3, StepGetChar
<1>4. CASE Fill
  BY <1>4, StepFill
<1>5. CASE Fgets
  BY <1>5, StepFgets
<1>6. CASE Skip
  BY <1>6, StepSkip
<1>7. CASE SkipNewline
  BY <1>7, StepSkipNewline
<1>8. CASE AtEnd
  BY <1>8, StepAtEnd
<1> QED
  BY <1>1, <1>2, <1>3, <1>4, <1>5, <1>6, <1>7, <1>8 DEF Next, Program

(* What was typed is read, line by line, in its order: always.             *)
THEOREM ConsoleHolds == Spec => []ConsoleInv
  BY ConsoleInit, ConsoleStep, PTL DEF Spec

(* The lines handed out are the lines typed, in their order, each cut to   *)
(* the buffer (get_input_line, utility.c), for every text, every size of   *)
(* the buffer and however the kernel hands the characters over; at the end *)
(* of the file a client's retry loop (login_page.c) may hand out the last  *)
(* of them again, and nothing else.                                        *)
THEOREM LinesAreFaithful == Spec => []Faithful
  BY ConsoleHolds, InvFaithful, PTL

-----------------------------------------------------------------------------
(* Seconds: conversions. *)

(* Remainders, where the divisor is not far away.                          *)
LEMMA Remainders ==
  ASSUME NEW b \in Nat \ {0}
  PROVE  /\ \A n \in Int : n % b \in 0..b - 1
         /\ \A n \in 0..b - 1 : n % b = n /\ (n + b) % b = n
         /\ \A n \in -b..-1 : n % b = n + b
  OBVIOUS

(* What remains in two's complement is in its range, and is the number if  *)
(* that is.                                                                *)
LEMMA WrappedIs ==
  ASSUME NEW max \in Nat, NEW n \in Int
  PROVE  /\ Wrapped(n, max) \in -max - 1..max
         /\ n \in -max - 1..max => Wrapped(n, max) = n
<1> DEFINE b == 2 * (max + 1)
           r == (n + max + 1) % b
<1>1. b \in Nat \ {0} /\ n + max + 1 \in Int /\ max + 1 \in Int /\ b = 2 * max + 2
  OBVIOUS
<1>2. Wrapped(n, max) = r - (max + 1)
  BY DEF Wrapped
<1>3. r \in 0..b - 1 /\ (n + max + 1 \in 0..b - 1 => r = n + max + 1)
  <2> HIDE DEF b
  <2> QED
    BY <1>1, Remainders
<1> HIDE DEF r, b
<1> QED
  BY <1>1, <1>2, <1>3

(* Printed and scanned as an unsigned number, a long is what it was.       *)
LEMMA ThroughUnsigned ==
  ASSUME NEW n \in -LongMax - 1..LongMax
  PROVE  ScanUnsigned(PrintUnsigned(n)) = n
<1> DEFINE b == 2 * (LongMax + 1)
<1>0. LongMax \in Nat
  BY WidthsAssumption DEF WidthsAssumption
<1>1. b \in Nat \ {0} /\ b = 2 * LongMax + 2 /\ n \in Int
  BY <1>0
<1>2. n % b = IF n >= 0 THEN n ELSE n + b
  <2> HIDE DEF b
  <2>1. CASE n >= 0
    <3>1. n \in 0..b - 1
      BY <1>0, <1>1, <2>1
    <3>2. \A m \in 0..b - 1 : m % b = m
      BY <1>1, Remainders
    <3> QED
      BY <2>1, <3>1, <3>2
  <2>2. CASE n < 0
    <3>1. n \in -b..-1
      BY <1>0, <1>1, <2>2
    <3>2. \A m \in -b..-1 : m % b = m + b
      BY <1>1, Remainders
    <3>3. ~(n >= 0)
      BY <1>1, <2>2
    <3> QED
      BY <3>1, <3>2, <3>3
  <2> QED
    BY <1>1, <2>1, <2>2
<1>3. ScanUnsigned(PrintUnsigned(n)) = (((n % b) + LongMax + 1) % b) - (LongMax + 1)
  BY DEF ScanUnsigned, PrintUnsigned, Wrapped
<1>4. CASE n >= 0
  <2>1. (n % b) + LongMax + 1 = n + LongMax + 1 /\ n + LongMax + 1 \in 0..b - 1
    BY <1>0, <1>1, <1>2, <1>4
  <2>2. (n + LongMax + 1) % b = n + LongMax + 1
    <3> HIDE DEF b
    <3> QED
      BY <1>1, <2>1, Remainders
  <2> HIDE DEF b
  <2> QED
    BY <1>0, <1>1, <1>3, <2>1, <2>2
<1>5. CASE n < 0
  <2>1. (n % b) + LongMax + 1 = (n + LongMax + 1) + b /\ n + LongMax + 1 \in 0..b - 1
    BY <1>0, <1>1, <1>2, <1>5
  <2>2. ((n + LongMax + 1) + b) % b = n + LongMax + 1
    <3> HIDE DEF b
    <3> QED
      BY <1>1, <2>1, Remainders
  <2> HIDE DEF b
  <2> QED
    BY <1>0, <1>1, <1>3, <2>1, <2>2
<1> QED
  BY <1>1, <1>4, <1>5

(* A scanned number is an int, and the number typed if that is one.        *)
LEMMA ScanIntIs ==
  ASSUME NEW n \in Int, IntMax <= LongMax
  PROVE  /\ ScanInt(n) \in -IntMax - 1..IntMax
         /\ n \in -IntMax - 1..IntMax => ScanInt(n) = n
<1>1. IntMax \in Nat /\ LongMax \in Nat
  BY WidthsAssumption DEF WidthsAssumption
<1>2. Clamped(n, LongMax) \in Int /\ (n \in -IntMax - 1..IntMax => Clamped(n, LongMax) = n)
  BY <1>1 DEF Clamped
<1> QED
  BY <1>1, <1>2, WrappedIs DEF ScanInt

(* So is its negation, but for the least int.                              *)
LEMMA NegatedIs ==
  ASSUME NEW n \in -IntMax - 1..IntMax
  PROVE  Negated(n) \in -IntMax - 1..IntMax /\ (n # -IntMax - 1 => Negated(n) = -n)
<1>1. IntMax \in Nat
  BY WidthsAssumption DEF WidthsAssumption
<1>2. -n \in Int /\ (n # -IntMax - 1 => -n \in -IntMax - 1..IntMax)
  BY <1>1
<1> QED
  BY <1>1, <1>2, WrappedIs DEF Negated

(* The value of an update: an int, never above 0 for subtime; of a number  *)
(* that an int and its negation hold, that many seconds as named.          *)
LEMMA ValueIs ==
  ASSUME NEW direction \in Directions, NEW n \in Int, IntMax <= LongMax
  PROVE  /\ Value(direction, n) \in -IntMax - 1..IntMax
         /\ direction = "subtime" => Value(direction, n) <= 0
         /\ n \in -IntMax..IntMax =>
              /\ Value(direction, n) \in {n, -n}
              /\ IF direction = "addtime" THEN Value(direction, n) >= 0 ELSE Value(direction, n) <= 0
<1>1. IntMax \in Nat
  BY WidthsAssumption DEF WidthsAssumption
<1> DEFINE v == ScanInt(n)
<1>2. v \in -IntMax - 1..IntMax /\ (n \in -IntMax..IntMax => v = n)
  BY <1>1, ScanIntIs
<1>3. Value(direction, n) = IF direction = "addtime" <=> v > 0 THEN v ELSE Negated(v)
  BY DEF Value
<1>4. Negated(v) \in -IntMax - 1..IntMax /\ (v # -IntMax - 1 => Negated(v) = -v)
  BY <1>2, NegatedIs
<1> HIDE DEF v
<1> QED
  BY <1>1, <1>2, <1>3, <1>4 DEF Directions

-----------------------------------------------------------------------------
(* Seconds: the invariant. *)

Counted == now \in 0..MaxNow /\ end_time \in Int /\ n_updates \in 0..MaxUpdates
Flagged == is_playing \in BOOLEAN /\ in_game \in BOOLEAN /\ stale \in BOOLEAN

(* An update under way has the value that was typed, and is counted.       *)
Updating ==
  asked # NoUpdate =>
    /\ asked.direction \in Directions /\ asked.typed \in Int
    /\ asked.value = Value(asked.direction, asked.typed)
    /\ n_updates >= 1

(* A deadline is no further from those of new games than the updates that  *)
(* were served may have moved it.                                          *)
Applied  == IF asked = NoUpdate THEN n_updates ELSE n_updates - 1
Reach(k) == k * (IntMax + 1)
Reached  == -Reach(Applied) <= end_time /\ end_time <= GAME_TIME + MaxNow + Reach(Applied)

(* A status reply has the deadline, unless that has moved; after a timeout *)
(* it has not, as who plays no more is not updated.                        *)
Replying ==
  /\ in_game /\ reply = NoReply => is_playing
  /\ reply # NoReply =>
       /\ in_game
       /\ ~stale => reply.end_time = PrintUnsigned(end_time)
       /\ IF reply.status = "TIMEOUT" THEN ~is_playing /\ ~stale /\ end_time <= now ELSE is_playing

DeadlineInv == Counted /\ Flagged /\ Updating /\ Reached /\ Replying

(* One update more, by one more int.                                       *)
LEMMA Reaches ==
  /\ IntMax \in Nat /\ Reach(0) = 0
  /\ \A k \in Nat : Reach(k) \in Nat /\ Reach(k + 1) = Reach(k) + IntMax + 1
  /\ \A k \in 0..MaxUpdates : GAME_TIME + MaxNow + Reach(k) <= LongMax
  /\ MaxUpdates >= 1 => IntMax <= LongMax
<1> DEFINE w == IntMax + 1
<1>1. /\ IntMax \in Nat /\ w \in Nat /\ w = IntMax + 1
      /\ MaxUpdates \in Nat /\ GAME_TIME \in Nat /\ MaxNow \in Nat /\ LongMax \in Nat
  BY WidthsAssumption DEF WidthsAssumption
<1>2. GAME_TIME + MaxNow + Reach(MaxUpdates) <= LongMax
  BY WidthsAssumption DEF WidthsAssumption, Reach
<1>3. ASSUME NEW u \in Nat
      PROVE  /\ 0 * u = 0
             /\ \A k \in Nat : k * u \in Nat /\ (k + 1) * u = k * u + u
             /\ \A k, m \in Nat : k <= m => k * u <= m * u
             /\ 1 * u = u
  OBVIOUS
<1>4. \A k : Reach(k) = k * w
  BY DEF Reach
<1> HIDE DEF Reach, w
<1>5. /\ Reach(0) = 0 /\ Reach(1) = w
      /\ \A k \in Nat : Reach(k) \in Nat /\ Reach(k + 1) = Reach(k) + w
      /\ \A k, m \in Nat : k <= m => Reach(k) <= Reach(m)
  BY <1>1, <1>3, <1>4
<1>6. \A k \in 0..MaxUpdates : Reach(k) \in Nat /\ Reach(k) <= Reach(MaxUpdates)
  <2> SUFFICES ASSUME NEW k \in 0..MaxUpdates
               PROVE  Reach(k) \in Nat /\ Reach(k) <= Reach(MaxUpdates)
    OBVIOUS
  <2>1. k \in Nat /\ k <= MaxUpdates
    BY <1>1
  <2> QED
    BY <1>1, <1>5, <2>1
<1>7. MaxUpdates >= 1 => w <= Reach(MaxUpdates)
  BY <1>1, <1>5
<1>8. Reach(MaxUpdates) \in Nat /\ \A k \in Nat : Reach(k + 1) = Reach(k) + IntMax + 1
  <2>1. Reach(MaxUpdates) \in Nat
    BY <1>1, <1>5
  <2>2. ASSUME NEW k \in Nat PROVE Reach(k + 1) = Reach(k) + IntMax + 1
    <3>1. Reach(k) \in Nat /\ Reach(k + 1) = Reach(k) + w
      BY <1>5
    <3> QED
      BY <1>1, <3>1
  <2> QED
    BY <2>1, <2>2
<1>9. \A k \in 0..MaxUpdates : GAME_TIME + MaxNow + Reach(k) <= LongMax
  BY <1>1, <1>2, <1>6, <1>8
<1>10. MaxUpdates >= 1 => IntMax <= LongMax
  BY <1>1, <1>2, <1>7, <1>8
<1> QED
  BY <1>1, <1>5, <1>8, <1>9, <1>10

(* ... holds when the server and the player start,                         *)
LEMMA DeadlineInit == DInit => DeadlineInv
<1> SUFFICES ASSUME DInit PROVE DeadlineInv
  OBVIOUS
<1>1. MaxNow \in Nat /\ MaxUpdates \in Nat /\ GAME_TIME \in Nat
  BY WidthsAssumption DEF WidthsAssumption
<1>2. Counted /\ Flagged
  <2>1. Counted
    BY <1>1 DEF DInit, Counted
  <2>2. Flagged
    BY Zenon DEF DInit, Flagged
  <2> QED
    BY <2>1, <2>2
<1>3. Updating /\ Replying
  BY DEF DInit, Updating, Replying
<1>4. Reached
  <2>1. Applied = 0 /\ Reach(0) = 0 /\ end_time = 0
    BY Reaches DEF DInit, Applied
  <2> HIDE DEF Reach
  <2> QED
    BY <1>1, <2>1 DEF Reached
<1> QED
  BY <1>2, <1>3, <1>4 DEF DeadlineInv

(* ... and every step keeps it.                                            *)
LEMMA DeadlineStep == DeadlineInv /\ [DNext]_dvars => DeadlineInv'
<1> SUFFICES ASSUME DeadlineInv, [DNext]_dvars PROVE DeadlineInv'
  OBVIOUS
<1>w. GAME_TIME \in Nat /\ MaxNow \in Nat /\ MaxUpdates \in Nat /\ Typed \subseteq Int
  BY WidthsAssumption DEF WidthsAssumption
<1> USE DEF DeadlineInv
<1>1. CASE Tick
  <2>1. Counted' /\ Updating' /\ Reached'
    BY <1>1, <1>w DEF Tick, server, admin, player, Counted, Updating, Reached, Applied
  <2>2. Replying'
    BY <1>1, <1>w DEF Tick, server, admin, player, Counted, Replying
  <2>3. Flagged'
    BY <1>1, Zenon DEF Tick, server, player, Flagged
  <2> QED
    BY <2>1, <2>2, <2>3
<1>2. CASE InitGame
  <2>1. Counted' /\ Flagged' /\ Updating'
    <3>1. Counted'
      BY <1>2, <1>w DEF InitGame, admin, Counted
    <3>2. Updating'
      BY <1>2 DEF InitGame, admin, Updating
    <3>3. Flagged'
      BY <1>2, Zenon DEF InitGame, Flagged
    <3> QED
      BY <3>1, <3>2, <3>3
  <2>2. Reached'
    <3>1. Applied' = Applied /\ Applied \in Nat
      BY <1>2 DEF InitGame, admin, Applied, Counted, Updating
    <3>2. Reach(Applied) \in Nat
      BY <3>1, Reaches
    <3>3. end_time' = now + GAME_TIME /\ now \in 0..MaxNow
      BY <1>2 DEF InitGame, Counted
    <3> QED
      BY <3>1, <3>2, <3>3, <1>w DEF Reached
  <2>3. Replying'
    BY <1>2 DEF InitGame, Replying, NoReply
  <2> QED
    BY <2>1, <2>2, <2>3
<1>3. ASSUME NEW direction \in Directions, NEW n \in Typed, DoUpdate(direction, n) PROVE DeadlineInv'
  <2>1. Counted'
    BY <1>3, <1>w DEF DoUpdate, server, player, Counted
  <2>7. Flagged'
    BY <1>3, Zenon DEF DoUpdate, server, player, Flagged
  <2>2. asked' # NoUpdate
    BY <1>3 DEF DoUpdate, NoUpdate, Directions
  <2>3. Updating'
    BY <1>3, <1>w, <2>2 DEF DoUpdate, Counted, Updating
  <2>4. Applied' = Applied
    BY <1>3, <2>2 DEF DoUpdate, Applied, Counted
  <2>5. Reached'
    BY <1>3, <2>4 DEF DoUpdate, server, Reached
  <2>6. Replying'
    BY <1>3 DEF DoUpdate, server, player, Replying
  <2> QED
    BY <2>1, <2>3, <2>5, <2>6, <2>7
<1>4. CASE AdminUpdate
  <2>1. asked.value \in -IntMax - 1..IntMax
    BY <1>4, <1>w, Reaches, ValueIs DEF AdminUpdate, Updating, Counted
  <2>2. Counted' /\ Flagged' /\ Updating'
    <3>1. asked.value \in Int
      BY <2>1, Reaches
    <3>2. Counted'
      BY <1>4, <3>1 DEF AdminUpdate, player, Counted
    <3>3. Updating'
      BY <1>4 DEF AdminUpdate, Updating
    <3>4. Flagged'
      BY <1>4, Zenon DEF AdminUpdate, player, Flagged
    <3> QED
      BY <3>2, <3>3, <3>4
  <2>3. Applied \in Nat /\ Applied' = Applied + 1
    BY <1>4 DEF AdminUpdate, Applied, Updating, Counted
  <2>4. end_time' = end_time + asked.value \/ end_time' = end_time
    BY <1>4 DEF AdminUpdate
  <2>5. Reached'
    <3>1. /\ Reach(Applied) \in Nat /\ Reach(Applied + 1) = Reach(Applied) + IntMax + 1
          /\ IntMax \in Nat /\ end_time \in Int
      BY <2>3, Reaches DEF Counted
    <3> HIDE DEF Reach
    <3>2. Reach(Applied)' = Reach(Applied + 1)
      BY <2>3 DEF Reach
    <3> QED
      BY <1>w, <2>1, <2>3, <2>4, <3>1, <3>2 DEF Reached
  <2>6. Replying'
    BY <1>4 DEF AdminUpdate, player, Replying
  <2> QED
    BY <2>2, <2>5, <2>6
<1>5. CASE Status
  <2>1. Counted'
    BY <1>5 DEF Status, admin, Counted
  <2>4. Flagged'
    BY <1>5, Zenon DEF Status, Flagged
  <2>3. Updating' /\ Reached'
    BY <1>5 DEF Status, admin, Updating, Reached, Applied
  <2>2. Replying'
    <3>1. /\ in_game' = in_game /\ in_game /\ end_time' = end_time /\ now' = now
          /\ stale' = FALSE /\ end_time \in Int /\ now \in Int
      BY <1>5 DEF Status, Counted
    <3>2. CASE is_playing /\ end_time > now
      <4>1. is_playing' /\ reply' = [status |-> "PLAYING", end_time |-> PrintUnsigned(end_time)]
        BY <1>5, <3>2 DEF Status
      <4> QED
        BY <3>1, <4>1 DEF Replying, NoReply
    <3>3. CASE ~(is_playing /\ end_time > now)
      <4>1. ~is_playing' /\ reply' = [status |-> "TIMEOUT", end_time |-> PrintUnsigned(end_time)]
        BY <1>5, <3>3 DEF Status
      <4>2. is_playing
        BY <1>5 DEF Status, Replying
      <4>3. end_time <= now
        BY <3>1, <3>3, <4>2
      <4> QED
        BY <3>1, <4>1, <4>3 DEF Replying, NoReply
    <3> QED
      BY <3>2, <3>3
  <2> QED
    BY <2>1, <2>2, <2>3, <2>4
<1>6. CASE ShowStatus
  <2>1. Counted'
    BY <1>6 DEF ShowStatus, server, admin, Counted
  <2>4. Flagged'
    <3>1. in_game' \in BOOLEAN
      BY <1>6, Zenon DEF ShowStatus
    <3> QED
      BY <1>6, <3>1, Zenon DEF ShowStatus, server, Flagged
  <2>3. Updating' /\ Reached'
    BY <1>6 DEF ShowStatus, server, admin, Updating, Reached, Applied
  <2>2. Replying'
    BY <1>6 DEF ShowStatus, server, Replying
  <2> QED
    BY <2>1, <2>2, <2>3, <2>4
<1>7. CASE UNCHANGED dvars
  BY <1>7 DEF dvars, server, admin, player, Counted, Flagged, Updating, Reached, Applied, Replying
<1> QED
  BY <1>1, <1>2, <1>3, <1>4, <1>5, <1>6, <1>7 DEF DNext

(* The server's deadline is the sum of what was typed, and what is on its  *)
(* way to the player, or shown, is a deadline there was: always.           *)
THEOREM DeadlineHolds == DSpec => []DeadlineInv
<1>1. DInit => DeadlineInv
  BY DeadlineInit
<1>2. DeadlineInv /\ [DNext]_dvars => DeadlineInv'
  BY DeadlineStep
<1> QED
  BY <1>1, <1>2, PTL DEF DSpec

(* Whichever sign is typed, the deadline moves as named.                   *)
THEOREM UpdatesMoveAsTyped == DSpec => MovedAsTyped
<1> DEFINE A == asked # NoUpdate /\ asked' = NoUpdate =>
       LET moved == end_time' - end_time
       IN  /\ is_playing /\ asked.typed \in -IntMax..IntMax =>
                moved \in {asked.typed, -asked.typed}
                  /\ (IF asked.direction = "addtime" THEN moved >= 0 ELSE moved <= 0)
           /\ asked.direction = "subtime" => moved <= 0
<1>1. DeadlineInv /\ [DNext]_dvars => [A]_dvars
  <2> SUFFICES ASSUME DeadlineInv, DNext, asked # NoUpdate, asked' = NoUpdate PROVE A
    OBVIOUS
  <2>1. AdminUpdate
    BY DEF DNext, Tick, InitGame, DoUpdate, Status, ShowStatus, admin
  <2>2. /\ asked.direction \in Directions /\ asked.typed \in Int
        /\ asked.value = Value(asked.direction, asked.typed)
        /\ IntMax \in Nat /\ IntMax <= LongMax
    BY WidthsAssumption, Reaches DEF DeadlineInv, Counted, Updating, WidthsAssumption
  <2>3. /\ asked.value \in -IntMax - 1..IntMax
        /\ asked.direction = "subtime" => asked.value <= 0
        /\ asked.typed \in -IntMax..IntMax =>
             /\ asked.value \in {asked.typed, -asked.typed}
             /\ IF asked.direction = "addtime" THEN asked.value >= 0 ELSE asked.value <= 0
    BY <2>2, ValueIs
  <2>4. end_time \in Int /\ asked.value \in Int
    BY <2>2, <2>3 DEF DeadlineInv, Counted
  <2>5. end_time' - end_time = IF is_playing THEN asked.value ELSE 0
    BY <2>1, <2>4 DEF AdminUpdate
  <2> QED
    BY <2>3, <2>5
<1> QED
  BY <1>1, DeadlineHolds, PTL DEF DSpec, MovedAsTyped

(* The player is shown what is left, and nothing after the time is over.   *)
THEOREM ShownIsWhatIsLeft == DSpec => ShownIsLeft
<1> DEFINE A == reply # NoReply /\ reply' = NoReply =>
       /\ ~stale => session_end' = end_time
       /\ ~stale /\ end_time - now < Day =>
            shown' = IF end_time > now THEN end_time - now ELSE 0
       /\ reply.status = "TIMEOUT" => shown' = 0
<1>1. DeadlineInv /\ [DNext]_dvars => [A]_dvars
  <2> SUFFICES ASSUME DeadlineInv, DNext, reply # NoReply, reply' = NoReply PROVE A
    OBVIOUS
  <2>1. /\ session_end' = ScanUnsigned(reply.end_time)
        /\ shown' = TimeLeft(session_end')
    BY DEF DNext, Tick, InitGame, DoUpdate, AdminUpdate, Status, ShowStatus, player
  <2>2. end_time \in Int /\ now \in Nat /\ Day \in Nat \ {0} /\ end_time - now \in Int
    BY WidthsAssumption DEF DeadlineInv, Counted, WidthsAssumption
  <2>3. end_time \in -LongMax - 1..LongMax
    <3>1. /\ -Reach(Applied) <= end_time
          /\ end_time <= GAME_TIME + MaxNow + Reach(Applied)
          /\ Applied \in 0..MaxUpdates
      BY WidthsAssumption DEF DeadlineInv, Counted, Updating, Reached, Applied, WidthsAssumption
    <3>2. Reach(Applied) \in Nat /\ GAME_TIME + MaxNow + Reach(Applied) <= LongMax
      BY <3>1, Reaches
    <3>3. GAME_TIME \in Nat /\ MaxNow \in Nat /\ LongMax \in Nat
      BY WidthsAssumption DEF WidthsAssumption
    <3> HIDE DEF Reach, Applied
    <3> QED
      BY <2>2, <3>1, <3>2, <3>3
  <2>4. ~stale => session_end' = end_time
    BY <2>1, <2>3, ThroughUnsigned DEF DeadlineInv, Replying
  <2>5. \A m \in 0..Day - 1 : m % Day = m
    BY <2>2, Remainders
  <2>6. session_end' = end_time /\ end_time - now < Day =>
          shown' = IF end_time > now THEN end_time - now ELSE 0
    <3> SUFFICES ASSUME session_end' = end_time, end_time - now < Day
                 PROVE  shown' = IF end_time > now THEN end_time - now ELSE 0
      OBVIOUS
    <3> DEFINE left == IF end_time - now < 0 THEN 0 ELSE end_time - now
    <3>1. left \in 0..Day - 1 /\ left = IF end_time > now THEN end_time - now ELSE 0
      BY <2>2
    <3>2. shown' = left % Day
      BY <2>1 DEF TimeLeft
    <3> HIDE DEF left
    <3> QED
      BY <2>5, <3>1, <3>2
  <2>7. reply.status = "TIMEOUT" => ~stale /\ end_time <= now
    BY DEF DeadlineInv, Replying
  <2> QED
    BY <2>2, <2>4, <2>6, <2>7
<1> QED
  BY <1>1, DeadlineHolds, PTL DEF DSpec, ShownIsLeft

=============================================================================
