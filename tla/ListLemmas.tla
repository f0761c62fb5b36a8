----------------------------- MODULE ListLemmas -----------------------------
(***************************************************************************)
(* What the models take for granted of the operators they are built from:  *)
(* the first element of a list with a given descriptor, a list without one *)
(* of its elements, the lowest of a set of numbers, the sums that run      *)
(* along a list; and of lists of characters, how they are put together and *)
(* taken apart: where one is cut, what FlattenSeq makes of many, and what  *)
(* SelectInSeq finds.                                                      *)
(***************************************************************************)
EXTENDS Integers, Sequences, SequencesExt, FiniteSetsExt, SequenceTheorems,
        WellFoundedInduction, TLAPS

(* A set of natural numbers that has a member has a least one.             *)
LEMMA LeastNat ==
  ASSUME NEW S \in SUBSET Nat, S # {}
  PROVE  \E x \in S : \A y \in S : x <= y
<1> DEFINE R == OpToRel(<, Nat)
<1>1. IsWellFoundedOn(R, Nat)
  BY NatLessThanWellFounded
<1>2. PICK x \in S : \A y \in S : <<y, x>> \notin R
  <2> HIDE DEF R
  <2> QED
    BY <1>1, WFMin, Zenon
<1>3. \A y \in S : ~(y < x)
  BY <1>2 DEF OpToRel
<1> HIDE DEF R
<1> QED
  BY <1>2, <1>3

(* Min returns it.                                                         *)
LEMMA MinIsLeast ==
  ASSUME NEW S \in SUBSET Nat, S # {}
  PROVE  Min(S) \in S /\ \A y \in S : Min(S) <= y
  BY LeastNat DEF Min

(* The first entry with a descriptor is at the index that is found, or     *)
(* there is none and 0 is.                                                 *)
LEMMA FindByFd ==
  ASSUME NEW E, NEW l \in Seq(E), NEW fd, NEW i, i = SelectInSeq(l, LAMBDA e : e.fd = fd)
  PROVE  \/ i \in 1..Len(l) /\ l[i].fd = fd
         \/ i = 0 /\ \A j \in 1..Len(l) : l[j].fd # fd
<1> DEFINE I == {j \in 1..Len(l) : l[j].fd = fd}
<1>1. i = IF I # {} THEN Min(I) ELSE 0
  BY DEF SelectInSeq
<1>2. I \in SUBSET Nat /\ I \subseteq 1..Len(l)
  OBVIOUS
<1>3. I # {} => Min(I) \in I
  BY <1>2, MinIsLeast
<1> QED
  BY <1>1, <1>3

(* A list without its i-th element: those before it stay, those after it   *)
(* move up by one.                                                         *)
LEMMA RemoveAtProperties ==
  ASSUME NEW E, NEW l \in Seq(E), NEW i \in 1..Len(l)
  PROVE  /\ RemoveAt(l, i) \in Seq(E)
         /\ Len(RemoveAt(l, i)) = Len(l) - 1
         /\ \A j \in 1..Len(l) - 1 : RemoveAt(l, i)[j] = l[IF j < i THEN j ELSE j + 1]
<1> DEFINE a == SubSeq(l, 1, i - 1)
           b == SubSeq(l, i + 1, Len(l))
<1>1. Len(l) \in Nat /\ \A j \in 1..Len(l) : l[j] \in E
  OBVIOUS
<1>2. a \in Seq(E) /\ Len(a) = i - 1 /\ \A j \in 1..i - 1 : a[j] = l[j]
  BY <1>1, SubSeqProperties
<1>3. b \in Seq(E) /\ Len(b) = Len(l) - i /\ \A j \in 1..Len(l) - i : b[j] = l[i + j]
  <2>1. i + 1 \in Int /\ Len(l) \in Int /\ \A j \in i + 1..Len(l) : l[j] \in E
    BY <1>1
  <2>2. /\ b \in Seq(E)
        /\ Len(b) = IF i + 1 <= Len(l) THEN Len(l) - (i + 1) + 1 ELSE 0
        /\ \A j \in 1..Len(l) - (i + 1) + 1 : b[j] = l[i + 1 + j - 1]
    BY <2>1, SubSeqProperties
  <2> QED
    BY <1>1, <2>2
<1>4. RemoveAt(l, i) = a \o b
  BY DEF RemoveAt
<1> HIDE DEF a, b
<1>5. /\ a \o b \in Seq(E)
      /\ Len(a \o b) = Len(a) + Len(b)
      /\ \A j \in 1..Len(a) + Len(b) : (a \o b)[j] = IF j <= Len(a) THEN a[j] ELSE b[j - Len(a)]
  BY <1>2, <1>3, ConcatProperties
<1>6. ASSUME NEW j \in 1..Len(l) - 1 PROVE (a \o b)[j] = l[IF j < i THEN j ELSE j + 1]
  <2>1. CASE j < i
    <3>1. (a \o b)[j] = l[j]
      BY <1>1, <1>2, <1>3, <1>5, <2>1
    <3> QED
      BY <2>1, <3>1
  <2>2. CASE j >= i
    <3>1. j - (i - 1) \in 1..Len(l) - i /\ i + (j - (i - 1)) = j + 1
      BY <1>1, <2>2
    <3>2. (a \o b)[j] = b[j - (i - 1)]
      BY <1>1, <1>2, <1>3, <1>5, <2>2
    <3> QED
      <4>1. ~(j < i)
        BY <1>1, <2>2
      <4> QED
        BY <1>3, <3>1, <3>2, <4>1
  <2>3. j < i \/ j >= i
    BY <1>1
  <2> QED
    BY <2>1, <2>2, <2>3
<1> QED
  BY <1>1, <1>2, <1>3, <1>4, <1>5, <1>6

(* A list with a new head.                                                 *)
LEMMA ConsProperties ==
  ASSUME NEW E, NEW l \in Seq(E), NEW e \in E
  PROVE  /\ <<e>> \o l \in Seq(E)
         /\ Len(<<e>> \o l) = Len(l) + 1
         /\ (<<e>> \o l)[1] = e
         /\ \A j \in 1..Len(l) : (<<e>> \o l)[j + 1] = l[j]
<1>1. <<e>> \in Seq(E) /\ Len(<<e>>) = 1 /\ <<e>>[1] = e /\ Len(l) \in Nat
  OBVIOUS
<1>2. /\ <<e>> \o l \in Seq(E)
      /\ Len(<<e>> \o l) = 1 + Len(l)
      /\ \A j \in 1..1 + Len(l) : (<<e>> \o l)[j] = IF j <= 1 THEN <<e>>[j] ELSE l[j - 1]
  BY <1>1, ConcatProperties
<1> QED
  BY <1>1, <1>2

(* What is defined along a list as the sum of its first elements: a        *)
(* natural number at each place, that never falls.                         *)
LEMMA SumsRise ==
  ASSUME NEW n \in Nat, NEW a \in [1..n -> Nat], NEW f,
         f = [i \in 0..n |-> IF i = 0 THEN 0 ELSE f[i - 1] + a[i]]
  PROVE  /\ f \in [0..n -> Nat]
         /\ \A i \in 0..n : f[i] <= f[n]
<1>1. DOMAIN f = 0..n /\ f[0] = 0 /\ \A i \in 1..n : f[i] = f[i - 1] + a[i]
  OBVIOUS
<1> DEFINE Bad == {m \in 0..n : f[m] \notin Nat}
<1>2. \A m \in 0..n : f[m] \in Nat
  <2> SUFFICES ASSUME Bad # {} PROVE FALSE
    OBVIOUS
  <2>1. PICK m \in Bad : \A k \in Bad : m <= k
    <3>1. Bad \in SUBSET Nat
      OBVIOUS
    <3> HIDE DEF Bad
    <3> QED
      BY <3>1, LeastNat
  <2>2. m \in 1..n /\ m - 1 \notin Bad /\ m - 1 \in 0..n
    BY <1>1, <2>1
  <2> QED
    BY <1>1, <2>1, <2>2, SMTT(30)
<1> DEFINE Low == {m \in 0..n : ~(f[n - m] <= f[n])}
<1>3. \A m \in 0..n : f[n - m] <= f[n]
  <2> SUFFICES ASSUME Low # {} PROVE FALSE
    OBVIOUS
  <2>1. PICK m \in Low : \A k \in Low : m <= k
    <3>1. Low \in SUBSET Nat
      OBVIOUS
    <3> HIDE DEF Low
    <3> QED
      BY <3>1, LeastNat
  <2>2. m # 0
    BY <1>2, <2>1
  <2>3. m - 1 \in 0..n /\ m - 1 \notin Low /\ n - m + 1 \in 1..n /\ n - (m - 1) = n - m + 1
    <3>1. m \in 1..n
      BY <2>1, <2>2
    <3>2. m - 1 \in 0..n /\ n - m + 1 \in 1..n /\ n - (m - 1) = n - m + 1 /\ ~(m <= m - 1)
      BY <3>1
    <3> HIDE DEF Low
    <3> QED
      BY <2>1, <3>2
  <2>4. f[n - m + 1] = f[n - m] + a[n - m + 1] /\ n - m \in 0..n
    <3>1. f[n - m + 1] = f[n - m + 1 - 1] + a[n - m + 1]
      BY <1>1, <2>3
    <3> QED
      BY <2>1, <2>3, <3>1
  <2>5. f[n - m] <= f[n - m + 1]
    BY <1>2, <2>3, <2>4, SMTT(30)
  <2> QED
    BY <1>2, <2>1, <2>3, <2>4, <2>5, SMTT(30)
<1>4. ASSUME NEW i \in 0..n PROVE f[i] <= f[n]
  <2>1. n - i \in 0..n /\ n - (n - i) = i
    OBVIOUS
  <2> QED
    BY <1>3, <2>1
<1> QED
  BY <1>1, <1>2, <1>4

(* ... and there is one: the recursion that defines it has a solution.     *)
LEMMA SumsExist ==
  ASSUME NEW n \in Nat, NEW a \in [1..n -> Nat]
  PROVE  \E f : f = [i \in 0..n |-> IF i = 0 THEN 0 ELSE f[i - 1] + a[i]]
<1> DEFINE Sums(m, f) == /\ f \in [0..m -> Nat]
                         /\ f[0] = 0
                         /\ \A i \in 1..m : f[i] = f[i - 1] + a[i]
           Good(m) == \E f : Sums(m, f)
           Bad == {m \in 0..n : ~Good(m)}
<1>1. Good(0)
  <2>1. Sums(0, [i \in 0..0 |-> 0])
    OBVIOUS
  <2> QED
    BY <2>1
<1>2. ASSUME NEW m \in 1..n, Good(m - 1) PROVE Good(m)
  <2>1. PICK f : Sums(m - 1, f)
    BY <1>2
  <2> DEFINE g == [i \in 0..m |-> IF i = m THEN f[m - 1] + a[m] ELSE f[i]]
  <2>2. f[m - 1] + a[m] \in Nat
    BY <2>1
  <2>3. g \in [0..m -> Nat] /\ g[0] = 0
    BY <2>1, <2>2
  <2>4. ASSUME NEW i \in 1..m PROVE g[i] = g[i - 1] + a[i]
    BY <2>1
  <2>5. Sums(m, g)
    BY <2>3, <2>4
  <2> QED
    BY <2>5
<1> HIDE DEF Good
<1>3. Bad = {}
  <2> SUFFICES ASSUME Bad # {} PROVE FALSE
    OBVIOUS
  <2>1. PICK m \in Bad : \A k \in Bad : m <= k
    <3>1. Bad \in SUBSET Nat
      OBVIOUS
    <3> HIDE DEF Bad
    <3> QED
      BY <3>1, LeastNat
  <2>2. m \in 1..n /\ m - 1 \in 0..n /\ m - 1 \notin Bad
    BY <1>1, <2>1
  <2> QED
    BY <1>2, <2>1, <2>2
<1>4. Good(n)
  BY <1>3
<1>5. PICK f : Sums(n, f)
  BY <1>4 DEF Good
<1>6. \A i \in 0..n : f[i] = IF i = 0 THEN 0 ELSE f[i - 1] + a[i]
  BY <1>5
<1> QED
  BY <1>5, <1>6, ZenonT(60)

-----------------------------------------------------------------------------
(* Lists that are put together, and taken apart. *)

(* What is defined step by step, each time from the value before ...       *)
Iterates(f, n, x, step) == f[0] = x /\ \A i \in 1..n : f[i] = step[i][f[i - 1]]

(* ... exists.                                                             *)
LEMMA IterationExists ==
  ASSUME NEW n \in Nat, NEW S, NEW x \in S, NEW step \in [1..n -> [S -> S]]
  PROVE  \E f \in [0..n -> S] : Iterates(f, n, x, step)
<1> DEFINE Steps(m, f) == /\ f \in [0..m -> S]
                          /\ f[0] = x
                          /\ \A i \in 1..m : f[i] = step[i][f[i - 1]]
           Good(m) == \E f : Steps(m, f)
           Bad == {m \in 0..n : ~Good(m)}
<1>1. Good(0)
  <2>1. Steps(0, [i \in 0..0 |-> x])
    OBVIOUS
  <2> QED
    BY <2>1
<1>2. ASSUME NEW m \in 1..n, Good(m - 1) PROVE Good(m)
  <2>1. PICK f : Steps(m - 1, f)
    BY <1>2
  <2> DEFINE y == step[m][f[m - 1]]
             g == [i \in 0..m |-> IF i = m THEN y ELSE f[i]]
  <2>2. y \in S
    BY <2>1
  <2>3. \A i \in 0..m - 1 : g[i] = f[i]
    OBVIOUS
  <2>4. g[m] = y
    OBVIOUS
  <2>5. g \in [0..m -> S]
    BY <2>1, <2>2
  <2>6. \A i \in 1..m : i - 1 \in 0..m - 1 /\ (i # m => i \in 1..m - 1 /\ i \in 0..m - 1)
    OBVIOUS
  <2> HIDE DEF g
  <2>7. g[0] = x
    BY <2>1, <2>3
  <2>8. ASSUME NEW i \in 1..m PROVE g[i] = step[i][g[i - 1]]
    <3>1. g[i - 1] = f[i - 1]
      BY <2>3, <2>6
    <3>2. CASE i = m
      BY <2>4, <3>1, <3>2
    <3>3. CASE i # m
      BY <2>1, <2>3, <2>6, <3>1, <3>3
    <3> QED
      BY <3>2, <3>3
  <2>9. Steps(m, g)
    BY <2>5, <2>7, <2>8
  <2> QED
    BY <2>9
<1> HIDE DEF Good
<1>3. Bad = {}
  <2> SUFFICES ASSUME Bad # {} PROVE FALSE
    OBVIOUS
  <2>1. PICK m \in Bad : \A k \in Bad : m <= k
    <3>1. Bad \in SUBSET Nat
      OBVIOUS
    <3> HIDE DEF Bad
    <3> QED
      BY <3>1, LeastNat
  <2>2. m \in 1..n /\ m - 1 \in 0..n /\ m - 1 \notin Bad
    BY <1>1, <2>1
  <2> QED
    BY <1>2, <2>1, <2>2
<1>4. Good(n)
  BY <1>3
<1> QED
  BY <1>4 DEF Good, Iterates

(* A property of 0 that each number passes on to the next holds of all.    *)
LEMMA UpTo ==
  ASSUME NEW n \in Nat, NEW P, 0 \in P, \A i \in 1..n : i - 1 \in P => i \in P
  PROVE  \A i \in 0..n : i \in P
<1> DEFINE Bad == {m \in 0..n : m \notin P}
<1> SUFFICES ASSUME Bad # {} PROVE FALSE
  OBVIOUS
<1>1. PICK m \in Bad : \A k \in Bad : m <= k
  <2>1. Bad \in SUBSET Nat
    OBVIOUS
  <2> HIDE DEF Bad
  <2> QED
    BY <2>1, LeastNat
<1>2. m \in 1..n /\ m - 1 \in 0..n /\ m - 1 \notin Bad
  BY <1>1
<1> QED
  BY <1>1, <1>2

(* A list flattened is what is got by adding its lists one after another.  *)
LEMMA FlattenSteps ==
  ASSUME NEW E, NEW s \in Seq(Seq(E))
  PROVE  \E f \in [0..Len(s) -> Seq(E)] :
           /\ f[0] = <<>>
           /\ \A i \in 1..Len(s) : f[i] = f[i - 1] \o s[i]
           /\ FlattenSeq(s) = f[Len(s)]
<1> DEFINE n == Len(s)
<1>1. n \in Nat /\ \A i \in 1..n : s[i] \in Seq(E)
  OBVIOUS
<1>2. ASSUME NEW i \in 1..n PROVE [t \in Seq(E) |-> t \o s[i]] \in [Seq(E) -> Seq(E)]
  <2>1. \A t \in Seq(E) : t \o s[i] \in Seq(E)
    BY <1>1, ConcatProperties
  <2> QED
    BY <2>1
<1> DEFINE step == [i \in 1..n |-> [t \in Seq(E) |-> t \o s[i]]]
<1>3. step \in [1..n -> [Seq(E) -> Seq(E)]]
  BY <1>2
<1>4. \A i \in 1..n, t \in Seq(E) : step[i][t] = t \o s[i]
  OBVIOUS
<1>5. <<>> \in Seq(E)
  BY EmptySeq
<1> HIDE DEF step
<1>6. PICK f \in [0..n -> Seq(E)] : Iterates(f, n, <<>>, step)
  <2>1. n \in Nat
    BY <1>1
  <2> HIDE DEF n
  <2> QED
    BY <2>1, <1>3, <1>5, IterationExists, Zenon
<1>11. f[0] = <<>> /\ \A i \in 1..n : f[i] = step[i][f[i - 1]]
  BY <1>6, Zenon DEF Iterates
<1>7. \A i \in 1..n : i - 1 \in 0..n /\ f[i - 1] \in Seq(E)
  <2>1. \A i \in 1..n : i - 1 \in 0..n
    <3> HIDE DEF n
    <3> QED
      BY <1>1
  <2>2. \A i \in 0..n : f[i] \in Seq(E)
    BY Zenon
  <2> QED
    BY <2>1, <2>2, Zenon
<1>8. \A i \in 1..n : f[i] = f[i - 1] \o s[i]
  BY <1>4, <1>7, <1>11, Zenon
<1>9. CASE n = 0
  <2>1. s = <<>> /\ FlattenSeq(s) = s
    BY <1>9 DEF FlattenSeq
  <2> QED
    BY <1>11, <1>8, <1>9, <2>1
<1>10. CASE n # 0
  <2> DEFINE Rec(g) == g = [i \in 1..n |-> IF i = 1 THEN s[i] ELSE g[i - 1] \o s[i]]
             h == [i \in 1..n |-> f[i]]
             fl == CHOOSE g : Rec(g)
  <2>1. FlattenSeq(s) = fl[n]
    BY <1>10 DEF FlattenSeq
  <2>2. f[1] = s[1] /\ 1 \in 1..n
    <3>1. 1 \in 1..n /\ 1 - 1 = 0
      BY <1>1, <1>10
    <3>2. <<>> \o s[1] = s[1]
      BY <1>1, <3>1, ConcatEmptySeq
    <3> QED
      BY <1>11, <1>8, <3>1, <3>2
  <2>3. ASSUME NEW i \in 1..n PROVE h[i] = IF i = 1 THEN s[i] ELSE h[i - 1] \o s[i]
    <3>1. CASE i = 1
      BY <2>2, <3>1
    <3>2. CASE i # 1
      <4>1. i - 1 \in 1..n
        BY <1>1, <3>2
      <4>2. h[i] = f[i] /\ h[i - 1] = f[i - 1]
        BY <4>1
      <4> QED
        BY <1>8, <3>2, <4>2
    <3> QED
      BY <3>1, <3>2
  <2>4. Rec(h)
    <3>1. DOMAIN h = 1..n /\ h = [i \in 1..n |-> h[i]]
      OBVIOUS
    <3> HIDE DEF h
    <3> QED
      BY <2>3, <3>1, Zenon
  <2>5. Rec(fl)
    <3> HIDE DEF Rec, h
    <3> QED
      BY <2>4, Zenon
  <2>6. \A i \in 1..n : fl[i] = IF i = 1 THEN s[i] ELSE fl[i - 1] \o s[i]
    <3> HIDE DEF fl
    <3> QED
      BY <2>5, Zenon
  <2> DEFINE P == {m \in 0..n : m # 0 => fl[m] = f[m]}
  <2>7. \A m \in 0..n : m \in P
    <3>1. 0 \in P
      BY <1>1
    <3>2. ASSUME NEW i \in 1..n, i - 1 \in P PROVE i \in P
      <4>1. CASE i = 1
        <5>1. fl[i] = s[i]
          BY <2>6, <4>1, Zenon
        <5>2. f[i] = s[i] /\ i \in 0..n
          BY <2>2, <4>1
        <5> QED
          BY <5>1, <5>2, Zenon
      <4>2. CASE i # 1
        <5>1. fl[i - 1] = f[i - 1] /\ i - 1 \in 1..n
          BY <3>2, <4>2
        <5>2. fl[i] = fl[i - 1] \o s[i]
          BY <2>6, <4>2, Zenon
        <5>3. fl[i] = f[i]
          BY <1>8, <5>1, <5>2
        <5> QED
          BY <5>3
      <4> QED
        BY <4>1, <4>2
    <3> HIDE DEF P, n
    <3> QED
      BY <1>1, <3>1, <3>2, UpTo
  <2>8. fl[n] = f[n]
    <3>1. n \in P
      <4>1. n \in 0..n
        BY <1>1
      <4> QED
        BY <2>7, <4>1, Zenon
    <3> QED
      BY <1>10, <3>1
  <2> QED
    BY <1>11, <1>8, <2>1, <2>8
<1> QED
  BY <1>9, <1>10

(* ... so the lists in a list make a list.                                 *)
LEMMA FlattenIsSeq ==
  ASSUME NEW E, NEW s \in Seq(Seq(E))
  PROVE  FlattenSeq(s) \in Seq(E)
<1>1. PICK f \in [0..Len(s) -> Seq(E)] : FlattenSeq(s) = f[Len(s)]
  BY FlattenSteps, Zenon
<1>2. Len(s) \in 0..Len(s)
  OBVIOUS
<1> QED
  BY <1>1, <1>2, Zenon

(* No list makes the empty one.                                            *)
LEMMA FlattenOfNone == FlattenSeq(<<>>) = <<>>
  BY DEF FlattenSeq

(* One list more at the end.                                               *)
LEMMA FlattenAppend ==
  ASSUME NEW E, NEW s \in Seq(Seq(E)), NEW p \in Seq(E)
  PROVE  FlattenSeq(Append(s, p)) = FlattenSeq(s) \o p
<1> DEFINE n == Len(s)
           t == Append(s, p)
<1>1. n \in Nat /\ t \in Seq(Seq(E)) /\ Len(t) = n + 1 /\ t[n + 1] = p /\ \A i \in 1..n : t[i] = s[i]
  BY AppendProperties
<1>2. PICK f \in [0..n -> Seq(E)] :
        f[0] = <<>> /\ (\A i \in 1..n : f[i] = f[i - 1] \o s[i]) /\ FlattenSeq(s) = f[n]
  BY FlattenSteps, Zenon
<1>3. PICK g \in [0..Len(t) -> Seq(E)] :
        g[0] = <<>> /\ (\A i \in 1..Len(t) : g[i] = g[i - 1] \o t[i]) /\ FlattenSeq(t) = g[Len(t)]
  BY <1>1, FlattenSteps, Zenon
<1> HIDE DEF n, t
<1>10. n \in Nat /\ Len(t) = n + 1
  BY <1>1
<1>11. n \in 0..n /\ n + 1 \in 1..Len(t) /\ (n + 1) - 1 = n /\ \A i \in 1..n : i \in 1..Len(t) /\ i \in 0..n
  BY <1>10
<1> DEFINE P == {m \in 0..n : g[m] = f[m]}
<1>4. 0 \in P
  BY <1>1, <1>2, <1>3
<1>5. ASSUME NEW i \in 1..n, i - 1 \in P PROVE i \in P
  <2>1. g[i - 1] = f[i - 1] /\ i \in 1..Len(t) /\ i \in 0..n
    BY <1>5, <1>11, Zenon
  <2>2. g[i] = g[i - 1] \o t[i] /\ t[i] = s[i] /\ f[i] = f[i - 1] \o s[i]
    BY <1>1, <1>2, <1>3, <2>1, Zenon
  <2> QED
    BY <2>1, <2>2, Zenon
<1>6. n \in P
  <2>1. n \in 0..n
    BY <1>1
  <2> HIDE DEF P
  <2>2. \A m \in 0..n : m \in P
    BY <1>1, <1>4, <1>5, UpTo
  <2> QED
    BY <2>1, <2>2
<1>8. g[n + 1] = g[n] \o t[n + 1]
  BY <1>3, <1>11, Zenon
<1>9. FlattenSeq(t) = g[n] \o p /\ g[n] = FlattenSeq(s)
  BY <1>1, <1>2, <1>3, <1>6, <1>8, Zenon
<1> QED
  BY <1>9 DEF t

(* A part of a list that is one entry longer.                              *)
LEMMA SubSeqGrows ==
  ASSUME NEW E, NEW s \in Seq(E), NEW m \in 1..Len(s), NEW n \in m - 1..Len(s) - 1
  PROVE  SubSeq(s, m, n + 1) = Append(SubSeq(s, m, n), s[n + 1])
<1>1. Len(s) \in Nat /\ m \in Int /\ n \in Int /\ n + 1 \in m..Len(s) /\ (n + 1) - 1 = n
  OBVIOUS
<1>2. \A i \in m..n : s[i] \in E
  OBVIOUS
<1>3. SubSeq(s, m, n) \in Seq(E) /\ s[n + 1] \in E
  BY <1>1, <1>2, SubSeqProperties
<1>4. SubSeq(s, m, n + 1) = SubSeq(s, m, n) \o <<s[n + 1]>>
  BY <1>1, SubSeqRecursiveSecond
<1> QED
  BY <1>3, <1>4, AppendIsConcat

(* A stretch of a list.                                                    *)
LEMMA Stretch ==
  ASSUME NEW E, NEW s \in Seq(E), NEW k \in Nat, NEW n \in Nat, k + n <= Len(s)
  PROVE  /\ SubSeq(s, k + 1, k + n) \in Seq(E)
         /\ Len(SubSeq(s, k + 1, k + n)) = n
         /\ \A i \in 1..n : SubSeq(s, k + 1, k + n)[i] = s[k + i]
<1>1. k + 1 \in Int /\ k + n \in Int /\ \A i \in k + 1..k + n : s[i] \in E
  OBVIOUS
<1>2. /\ SubSeq(s, k + 1, k + n) \in Seq(E)
      /\ Len(SubSeq(s, k + 1, k + n)) = IF k + 1 <= k + n THEN (k + n) - (k + 1) + 1 ELSE 0
      /\ \A i \in 1..(k + n) - (k + 1) + 1 : SubSeq(s, k + 1, k + n)[i] = s[(k + 1) + i - 1]
  BY <1>1, SubSeqProperties
<1>3. /\ (IF k + 1 <= k + n THEN (k + n) - (k + 1) + 1 ELSE 0) = n /\ (k + n) - (k + 1) + 1 = n
      /\ \A i \in 1..n : (k + 1) + i - 1 = k + i
  OBVIOUS
<1> QED
  BY <1>2, <1>3

(* The lists before any place, and those after it.                         *)
LEMMA FlattenSplit ==
  ASSUME NEW E, NEW s \in Seq(Seq(E)), NEW k \in 0..Len(s)
  PROVE  /\ SubSeq(s, 1, k) \in Seq(Seq(E)) /\ SubSeq(s, k + 1, Len(s)) \in Seq(Seq(E))
         /\ FlattenSeq(s) = FlattenSeq(SubSeq(s, 1, k)) \o FlattenSeq(SubSeq(s, k + 1, Len(s)))
<1> DEFINE n == Len(s)
           A(m) == SubSeq(s, 1, m)
           B(m) == SubSeq(s, k + 1, m)
<1>1. n \in Nat /\ \A i \in 1..n : s[i] \in Seq(E)
  OBVIOUS
<1>2. \A m \in 0..n : A(m) \in Seq(Seq(E))
  BY <1>1, SubSeqProperties
<1>3. \A m \in 0..n : B(m) \in Seq(Seq(E))
  BY <1>1, SubSeqProperties
<1>4. A(n) = s
  BY SubSeqFull
<1>5. B(k) = <<>>
  BY SubSeqEmpty
<1>6. ASSUME NEW m \in k..n - 1
      PROVE  A(m + 1) = Append(A(m), s[m + 1]) /\ B(m + 1) = Append(B(m), s[m + 1])
  <2>1. 1 \in 1..Len(s) /\ m \in 1 - 1..Len(s) - 1 /\ k + 1 \in 1..Len(s) /\ m \in (k + 1) - 1..Len(s) - 1
    BY <1>1
  <2> QED
    BY <2>1, SubSeqGrows
<1> HIDE DEF A, B
<1> DEFINE P == {m \in 0..n - k : FlattenSeq(A(k + m)) = FlattenSeq(A(k)) \o FlattenSeq(B(k + m))}
<1>7. 0 \in P
  <2>1. FlattenSeq(A(k)) \in Seq(E)
    BY <1>2, FlattenIsSeq
  <2>2. FlattenSeq(A(k)) = FlattenSeq(A(k)) \o FlattenSeq(B(k))
    BY <1>5, <2>1, FlattenOfNone, ConcatEmptySeq
  <2>3. k + 0 = k /\ 0 \in 0..n - k
    BY <1>1
  <2> QED
    BY <2>2, <2>3
<1>8. ASSUME NEW i \in 1..n - k, i - 1 \in P PROVE i \in P
  <2> DEFINE m == k + (i - 1)
  <2>1. m \in k..n - 1 /\ m \in 0..n /\ m + 1 = k + i /\ m + 1 \in 1..n /\ k \in 0..n /\ i \in 0..n - k
    BY <1>1
  <2>2. FlattenSeq(A(m)) = FlattenSeq(A(k)) \o FlattenSeq(B(m))
    BY <1>8
  <2> HIDE DEF m, P
  <2>3. /\ A(m) \in Seq(Seq(E)) /\ B(m) \in Seq(Seq(E)) /\ A(k) \in Seq(Seq(E)) /\ s[m + 1] \in Seq(E)
    BY <1>1, <1>2, <1>3, <2>1, Zenon
  <2>4. /\ FlattenSeq(A(m + 1)) = FlattenSeq(A(m)) \o s[m + 1]
        /\ FlattenSeq(B(m + 1)) = FlattenSeq(B(m)) \o s[m + 1]
    BY <1>6, <2>1, <2>3, FlattenAppend
  <2>5. FlattenSeq(A(k)) \in Seq(E) /\ FlattenSeq(B(m)) \in Seq(E)
    BY <2>3, FlattenIsSeq
  <2>6. (FlattenSeq(A(k)) \o FlattenSeq(B(m))) \o s[m + 1] = FlattenSeq(A(k)) \o (FlattenSeq(B(m)) \o s[m + 1])
    <3> DEFINE a == FlattenSeq(A(k))
               b == FlattenSeq(B(m))
               c == s[m + 1]
    <3>1. a \in Seq(E) /\ b \in Seq(E) /\ c \in Seq(E)
      BY <2>3, <2>5
    <3> HIDE DEF a, b, c
    <3>2. (a \o b) \o c = a \o (b \o c)
      BY <3>1, ConcatAssociative, SMTT(30)
    <3> QED
      BY <3>2 DEF a, b, c
  <2>7. FlattenSeq(A(k + i)) = FlattenSeq(A(k)) \o FlattenSeq(B(k + i))
    BY <2>1, <2>2, <2>4, <2>6, Zenon
  <2> QED
    BY <2>1, <2>7, Zenon DEF P
<1>9. n - k \in P
  <2>1. n - k \in Nat /\ n - k \in 0..n - k
    BY <1>1
  <2> HIDE DEF P
  <2>2. \A m \in 0..n - k : m \in P
    <3> DEFINE d == n - k
    <3>1. d \in Nat /\ 0 \in P /\ \A i \in 1..d : i - 1 \in P => i \in P
      BY <1>7, <1>8, <2>1
    <3> HIDE DEF d
    <3>2. \A m \in 0..d : m \in P
      BY <3>1, UpTo
    <3> QED
      BY <3>2 DEF d
  <2> QED
    BY <2>1, <2>2
<1>10. FlattenSeq(A(n)) = FlattenSeq(A(k)) \o FlattenSeq(B(n))
  <2>1. k + (n - k) = n
    BY <1>1
  <2> QED
    BY <1>9, <2>1
<1>11. k \in 0..n /\ n \in 0..n
  BY <1>1
<1>12. A(k) \in Seq(Seq(E)) /\ B(n) \in Seq(Seq(E))
  BY <1>2, <1>3, <1>11, Zenon
<1>13. FlattenSeq(s) = FlattenSeq(A(k)) \o FlattenSeq(B(n))
  BY <1>4, <1>10
<1> QED
  BY <1>12, <1>13 DEF A, B

(* The place of the first entry that is a given one, or 0.                 *)
IsFirst(i, l, x) ==
  \/ i \in 1..Len(l) /\ l[i] = x /\ \A j \in 1..i - 1 : l[j] # x
  \/ i = 0 /\ \A j \in 1..Len(l) : l[j] # x

(* SelectInSeq finds it.                                                   *)
LEMMA FindEntry ==
  ASSUME NEW E, NEW l \in Seq(E), NEW x
  PROVE  IsFirst(SelectInSeq(l, LAMBDA e : e = x), l, x)
<1> DEFINE i == SelectInSeq(l, LAMBDA e : e = x)
           I == {j \in 1..Len(l) : l[j] = x}
<1>1. i = IF I # {} THEN Min(I) ELSE 0
  BY DEF SelectInSeq
<1>2. I \in SUBSET Nat /\ I \subseteq 1..Len(l) /\ Len(l) \in Nat
  OBVIOUS
<1> HIDE DEF i
<1>3. ASSUME I # {} PROVE IsFirst(i, l, x)
  <2>1. i \in I /\ \A j \in I : i <= j
    BY <1>1, <1>2, <1>3, MinIsLeast
  <2>2. ASSUME NEW j \in 1..i - 1 PROVE l[j] # x
    <3>1. j \in 1..Len(l) /\ ~(i <= j)
      BY <1>2, <2>1
    <3> QED
      BY <2>1, <3>1
  <2> QED
    BY <2>1, <2>2 DEF IsFirst
<1>4. ASSUME I = {} PROVE IsFirst(i, l, x)
  BY <1>1, <1>4 DEF IsFirst
<1>5. IsFirst(i, l, x)
  BY <1>3, <1>4
<1> QED
  BY <1>5 DEF i

(* One list makes itself.                                                  *)
LEMMA FlattenOne ==
  ASSUME NEW E, NEW p \in Seq(E)
  PROVE  FlattenSeq(<<p>>) = p
<1> DEFINE none == <<>>
<1>1. none \in Seq(Seq(E)) /\ Append(none, p) = <<p>>
  OBVIOUS
<1>2. FlattenSeq(none) = <<>>
  BY FlattenOfNone
<1>3. <<>> \o p = p
  BY ConcatEmptySeq
<1> HIDE DEF none
<1>4. FlattenSeq(Append(none, p)) = FlattenSeq(none) \o p
  BY <1>1, FlattenAppend
<1> QED
  BY <1>1, <1>2, <1>3, <1>4

(* One list behind another.                                                *)
IsConcat(x, u, v) ==
  /\ Len(x) = Len(u) + Len(v)
  /\ \A i \in 1..Len(u) + Len(v) : x[i] = IF i <= Len(u) THEN u[i] ELSE v[i - Len(u)]

Associates(u, v, w) == (u \o v) \o w = u \o (v \o w)

(* How lists are put together.                                             *)
LEMMA ConcatRules ==
  ASSUME NEW E
  PROVE  /\ \A u, v \in Seq(E) : u \o v \in Seq(E) /\ IsConcat(u \o v, u, v)
         /\ \A u, v, w \in Seq(E) : Associates(u, v, w)
         /\ \A u \in Seq(E) : u \o <<>> = u /\ <<>> \o u = u
         /\ \A x \in E : <<x>> \in Seq(E)
<1>1. ASSUME NEW u \in Seq(E), NEW v \in Seq(E) PROVE u \o v \in Seq(E) /\ IsConcat(u \o v, u, v)
  BY ConcatProperties DEF IsConcat
<1>2. ASSUME NEW u \in Seq(E), NEW v \in Seq(E), NEW w \in Seq(E) PROVE Associates(u, v, w)
  BY ConcatAssociative, SMTT(30) DEF Associates
<1>3. ASSUME NEW u \in Seq(E) PROVE u \o <<>> = u /\ <<>> \o u = u
  BY ConcatEmptySeq
<1>4. \A x \in E : <<x>> \in Seq(E)
  OBVIOUS
<1> QED
  BY <1>1, <1>2, <1>3, <1>4, Zenon

(* What a list begins with goes over to the list before it ...             *)
MovedOver(d, r, c, s, f) == (d \o r) \o ((c \o s) \o f) = (d \o (r \o c)) \o (s \o f)

(* It does.                                                                *)
LEMMA Regroup ==
  ASSUME NEW E, NEW d \in Seq(E), NEW r \in Seq(E), NEW c \in Seq(E), NEW s \in Seq(E), NEW f \in Seq(E)
  PROVE  MovedOver(d, r, c, s, f)
<1>1. s \o f \in Seq(E) /\ d \o r \in Seq(E)
  BY ConcatRules, Zenon
<1>2. Associates(c, s, f) /\ Associates(d, r, c) /\ Associates(d \o r, c, s \o f)
  BY <1>1, ConcatRules, Zenon
<1> QED
  BY <1>2, Zenon DEF Associates, MovedOver

(* ... and with it what ends a line.                                       *)
LineMovedOver(d, r, c, x, s, f) ==
  (d \o r) \o (((c \o <<x>>) \o s) \o f) = (((d \o (r \o c)) \o <<x>>) \o <<>>) \o (s \o f)

(* It does.                                                                *)
LEMMA RegroupLine ==
  ASSUME NEW E, NEW d \in Seq(E), NEW r \in Seq(E), NEW c \in Seq(E), NEW s \in Seq(E), NEW f \in Seq(E),
         NEW x \in E
  PROVE  LineMovedOver(d, r, c, x, s, f)
<1> DEFINE z == <<x>>
<1>1. z \in Seq(E)
  BY ConcatRules, Zenon
<1> HIDE DEF z
<1>2. c \o z \in Seq(E) /\ r \o c \in Seq(E)
  BY <1>1, ConcatRules, Zenon
<1>3. Associates(r, c, z) /\ Associates(d, r \o c, z) /\ d \o (r \o c) \in Seq(E)
  BY <1>1, <1>2, ConcatRules, Zenon
<1>4. Associates(d, r, c \o z) /\ Associates(c \o z, s, f)
  BY <1>2, ConcatRules, Zenon
<1>5. (d \o (r \o c)) \o z \in Seq(E) /\ s \o f \in Seq(E) /\ d \o r \in Seq(E)
  BY <1>1, <1>3, ConcatRules, Zenon
<1>6. Associates(d \o r, c \o z, s \o f)
  BY <1>2, <1>5, ConcatRules, Zenon
<1>7. ((d \o (r \o c)) \o z) \o <<>> = (d \o (r \o c)) \o z
  BY <1>5, ConcatRules, Zenon
<1>8. (d \o r) \o (((c \o z) \o s) \o f) = (((d \o (r \o c)) \o z) \o <<>>) \o (s \o f)
  BY <1>3, <1>4, <1>6, <1>7, Zenon DEF Associates
<1> QED
  BY <1>8, Zenon DEF z, LineMovedOver

(* A list is what comes before a place, and what comes after it.           *)
LEMMA CutAt ==
  ASSUME NEW E, NEW s \in Seq(E), NEW k \in 0..Len(s)
  PROVE  /\ SubSeq(s, 1, k) \in Seq(E) /\ Len(SubSeq(s, 1, k)) = k
         /\ \A j \in 1..k : SubSeq(s, 1, k)[j] = s[j]
         /\ SubSeq(s, k + 1, Len(s)) \in Seq(E) /\ Len(SubSeq(s, k + 1, Len(s))) = Len(s) - k
         /\ s = SubSeq(s, 1, k) \o SubSeq(s, k + 1, Len(s))
<1> DEFINE n == Len(s)
<1>1. n \in Nat /\ 0 \in Nat /\ k \in Nat /\ n - k \in Nat /\ 0 + k <= n /\ k + (n - k) <= n
  OBVIOUS
<1>2. /\ 0 + 1 = 1 /\ 0 + k = k /\ k + (n - k) = n /\ \A j \in 1..k : 0 + j = j
      /\ 1 \in 1..n + 1 /\ k \in 1 - 1..n /\ n \in k..n
  OBVIOUS
<1>3. /\ SubSeq(s, 0 + 1, 0 + k) \in Seq(E) /\ Len(SubSeq(s, 0 + 1, 0 + k)) = k
      /\ \A j \in 1..k : SubSeq(s, 0 + 1, 0 + k)[j] = s[0 + j]
  BY <1>1, Stretch
<1>4. /\ SubSeq(s, k + 1, k + (n - k)) \in Seq(E) /\ Len(SubSeq(s, k + 1, k + (n - k))) = n - k
  <2> DEFINE r == n - k
  <2>1. r \in Nat /\ k + r <= Len(s)
    BY <1>1
  <2> HIDE DEF r
  <2>2. SubSeq(s, k + 1, k + r) \in Seq(E) /\ Len(SubSeq(s, k + 1, k + r)) = r
    BY <1>1, <2>1, Stretch
  <2> QED
    BY <2>2 DEF r
<1>5. SubSeq(s, 1, k) \o SubSeq(s, k + 1, n) = SubSeq(s, 1, n)
  BY <1>2, ConcatAdjacentSubSeq
<1>6. SubSeq(s, 1, n) = s
  BY SubSeqFull
<1> HIDE DEF n
<1>7. /\ SubSeq(s, 1, k) \in Seq(E) /\ Len(SubSeq(s, 1, k)) = k
      /\ \A j \in 1..k : SubSeq(s, 1, k)[j] = s[j]
  BY <1>2, <1>3, Zenon
<1>8. SubSeq(s, k + 1, n) \in Seq(E) /\ Len(SubSeq(s, k + 1, n)) = n - k
  BY <1>2, <1>4, Zenon
<1>9. s = SubSeq(s, 1, k) \o SubSeq(s, k + 1, n)
  BY <1>5, <1>6, Zenon
<1> QED
  BY <1>7, <1>8, <1>9, Zenon DEF n

(* ... with the entry of the place itself.                                 *)
LEMMA CutAround ==
  ASSUME NEW E, NEW s \in Seq(E), NEW k \in 1..Len(s)
  PROVE  s = (SubSeq(s, 1, k - 1) \o <<s[k]>>) \o SubSeq(s, k + 1, Len(s))
<1>1. k \in 0..Len(s) /\ 1 \in 1..Len(s) /\ k \in 1..Len(s)
  OBVIOUS
<1>2. s = SubSeq(s, 1, k) \o SubSeq(s, k + 1, Len(s))
  BY <1>1, CutAt
<1>3. SubSeq(s, 1, k) = SubSeq(s, 1, k - 1) \o <<s[k]>>
  BY <1>1, SubSeqRecursiveSecond
<1> QED
  BY <1>2, <1>3, Zenon

(* A list is its first entry, and the rest.                                *)
LEMMA HeadAndTail ==
  ASSUME NEW E, NEW s \in Seq(E), s # <<>>
  PROVE  /\ Head(s) \in E /\ Tail(s) \in Seq(E)
         /\ s = <<Head(s)>> \o Tail(s)
         /\ s = (<<>> \o <<Head(s)>>) \o Tail(s)
<1>1. Len(s) \in Nat \ {0}
  BY EmptySeq
<1>2. Head(s) \in E /\ Tail(s) \in Seq(E) /\ Tail(s) = SubSeq(s, 2, Len(s))
  BY HeadTailProperties, TailIsSubSeq
<1>3. 1 \in 1..Len(s) /\ Len(s) \in 1..Len(s) /\ 1 + 1 = 2
  BY <1>1
<1>4. SubSeq(s, 1, Len(s)) = <<s[1]>> \o SubSeq(s, 1 + 1, Len(s)) /\ SubSeq(s, 1, Len(s)) = s
  BY <1>3, SubSeqRecursiveFirst, SubSeqFull
<1>5. s[1] = Head(s)
  BY <1>1
<1>6. <<Head(s)>> \in Seq(E)
  BY <1>2
<1>7. <<>> \o <<Head(s)>> = <<Head(s)>>
  BY <1>6, ConcatEmptySeq, Zenon
<1>8. s = <<Head(s)>> \o Tail(s)
  BY <1>2, <1>3, <1>4, <1>5, Zenon
<1> QED
  BY <1>2, <1>7, <1>8, Zenon

(* A list that loses the first entry of its second part.                   *)
LosesFirst(p, s, f) ==
  /\ Len(p \o (s \o f)) - (Len(s) + Len(f)) + 1 = Len(p) + 1
  /\ RemoveAt(p \o (s \o f), Len(p) + 1) = p \o (Tail(s) \o f)

(* It does.                                                                *)
LEMMA RemoveBetween ==
  ASSUME NEW E, NEW p \in Seq(E), NEW s \in Seq(E), NEW f \in Seq(E), s # <<>>
  PROVE  LosesFirst(p, s, f)
<1> DEFINE a == Len(p)
           b == Len(s)
           c == Len(f)
           z == s \o f
           x == p \o z
           v == Tail(s)
           w == v \o f
           y == p \o w
           u == RemoveAt(x, a + 1)
<1>1. a \in Nat /\ b \in Nat \ {0} /\ c \in Nat
  BY EmptySeq
<1>2. v \in Seq(E) /\ Len(v) = b - 1 /\ \A i \in 1..b - 1 : v[i] = s[i + 1]
  BY HeadTailProperties
<1>3. z \in Seq(E) /\ IsConcat(z, s, f)
  BY ConcatRules, Zenon
<1>13. Len(z) = b + c /\ \A i \in 1..b + c : z[i] = IF i <= b THEN s[i] ELSE f[i - b]
  BY <1>3 DEF IsConcat
<1> HIDE DEF v, z
<1>4. w \in Seq(E) /\ IsConcat(w, v, f)
  BY <1>2, ConcatRules, Zenon
<1>5. x \in Seq(E) /\ IsConcat(x, p, z)
  BY <1>3, ConcatRules, Zenon
<1> HIDE DEF w, x
<1>14. Len(w) = Len(v) + c /\ \A i \in 1..Len(v) + c : w[i] = IF i <= Len(v) THEN v[i] ELSE f[i - Len(v)]
  BY <1>4 DEF IsConcat
<1>15. Len(x) = a + Len(z) /\ \A i \in 1..a + Len(z) : x[i] = IF i <= a THEN p[i] ELSE z[i - a]
  BY <1>5 DEF IsConcat
<1>6. y \in Seq(E) /\ IsConcat(y, p, w)
  BY <1>4, ConcatRules, Zenon
<1> HIDE DEF y
<1>16. Len(y) = a + Len(w) /\ \A i \in 1..a + Len(w) : y[i] = IF i <= a THEN p[i] ELSE w[i - a]
  BY <1>6 DEF IsConcat
<1> HIDE DEF a, b, c
<1>7. Len(x) = a + (b + c) /\ Len(y) = a + ((b - 1) + c)
  BY <1>2, <1>13, <1>14, <1>15, <1>16, Zenon
<1>8. a + 1 \in 1..Len(x) /\ Len(x) - 1 = a + ((b - 1) + c) /\ Len(x) - (b + c) + 1 = a + 1
  BY <1>1, <1>7
<1>9. u \in Seq(E) /\ Len(u) = Len(x) - 1 /\ \A j \in 1..Len(x) - 1 : u[j] = x[IF j < a + 1 THEN j ELSE j + 1]
  <2> DEFINE k == a + 1
  <2>1. k \in 1..Len(x)
    BY <1>8
  <2> HIDE DEF k
  <2>2. /\ RemoveAt(x, k) \in Seq(E) /\ Len(RemoveAt(x, k)) = Len(x) - 1
        /\ \A j \in 1..Len(x) - 1 : RemoveAt(x, k)[j] = x[IF j < k THEN j ELSE j + 1]
    BY <1>5, <2>1, RemoveAtProperties
  <2> QED
    BY <2>2 DEF k
<1> HIDE DEF u
<1> DEFINE m == a + ((b - 1) + c)
<1>10. ASSUME NEW j \in 1..m PROVE u[j] = y[j]
  <2>1. u[j] = x[IF j < a + 1 THEN j ELSE j + 1] /\ y[j] = IF j <= a THEN p[j] ELSE w[j - a]
    <3>1. j \in 1..Len(x) - 1 /\ j \in 1..a + Len(w)
      BY <1>7, <1>8, <1>16
    <3> QED
      BY <1>9, <1>16, <3>1, Zenon
  <2>2. CASE j <= a
    <3>1. j < a + 1 /\ j \in 1..a + Len(z)
      BY <1>1, <1>7, <1>15, <2>2
    <3>2. u[j] = x[j] /\ x[j] = p[j] /\ y[j] = p[j]
      BY <1>15, <2>1, <2>2, <3>1, Zenon
    <3> QED
      BY <3>2
  <2>3. CASE ~(j <= a)
    <3> DEFINE i == j - a
    <3>1. /\ i \in 1..(b - 1) + c /\ (j + 1) - a = i + 1 /\ i + 1 \in 1..b + c
          /\ ~(j < a + 1) /\ j + 1 \in 1..a + (b + c) /\ ~(j + 1 <= a)
      BY <1>1, <2>3
    <3>2. u[j] = z[i + 1] /\ y[j] = w[i]
      <4>1. j + 1 \in 1..a + Len(z)
        BY <1>13, <3>1
      <4>2. u[j] = x[j + 1] /\ x[j + 1] = z[(j + 1) - a]
        BY <1>15, <2>1, <3>1, <4>1, Zenon
      <4> QED
        BY <2>1, <2>3, <3>1, <4>2, Zenon
    <3> HIDE DEF i
    <3>3. i \in Int
      BY <3>1
    <3>4. CASE i <= b - 1
      <4>1. i \in 1..b - 1 /\ i + 1 <= b
        BY <1>1, <3>1, <3>4
      <4>2. z[i + 1] = s[i + 1] /\ w[i] = v[i] /\ v[i] = s[i + 1]
        BY <1>2, <1>13, <1>14, <3>1, <3>4, <4>1, Zenon
      <4> QED
        BY <3>2, <4>2
    <3>5. CASE ~(i <= b - 1)
      <4>1. ~(i + 1 <= b) /\ (i + 1) - b = i - (b - 1)
        BY <1>1, <3>3, <3>5
      <4>2. z[i + 1] = f[(i + 1) - b] /\ w[i] = f[i - (b - 1)]
        BY <1>2, <1>13, <1>14, <3>1, <3>5, <4>1, Zenon
      <4> QED
        BY <3>2, <4>1, <4>2
    <3> QED
      BY <3>4, <3>5
  <2> QED
    BY <2>2, <2>3
<1>11. u = y
  <2>1. Len(u) = m /\ Len(y) = m
    BY <1>7, <1>8, <1>9
  <2> HIDE DEF m
  <2> QED
    BY <1>6, <1>9, <1>10, <2>1, SeqEqual
<1>12. Len(x) - (b + c) + 1 = a + 1 /\ u = y
  BY <1>8, <1>11
<1> QED
  BY <1>12, Zenon DEF LosesFirst, u, y, w, v, x, z, a, b, c

=============================================================================
