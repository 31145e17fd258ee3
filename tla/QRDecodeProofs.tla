--------------------------- MODULE QRDecodeProofs ---------------------------
(***************************************************************************)
(* The QR decoder, for every version and level, and its parser for texts   *)
(* of any number of segments of any length.                                *)
(***************************************************************************)
EXTENDS QRDecode, WellFoundedInduction, SequenceTheorems, FiniteSetTheorems, TLAPS

-----------------------------------------------------------------------------
(* Recursive functions satisfy their equations.                            *)

(* Induction over the numbers, for a set of them. *)
LEMMA UpFromZero ==
  ASSUME NEW S, 0 \in S, \A n \in Nat : n \in S => n + 1 \in S
  PROVE  \A n \in Nat : n \in S
<1> DEFINE T == Nat \ S
<1>1. SUFFICES ASSUME T # {} PROVE FALSE
  OBVIOUS
<1>2. PICK x \in T : \A y \in T : ~ (<<y, x>> \in OpToRel(<, Nat))
  BY <1>1, NatLessThanWellFounded, WFMin
<1>3. \A y \in T : ~ (y < x)
  BY <1>2 DEF OpToRel
<1>4. x # 0 /\ x - 1 \in Nat /\ x - 1 \notin T
  BY <1>3
<1> QED BY <1>4

(* A sequence in three parts.                                              *)
LEMMA InParts ==
  \A S : \A x, y, z \in Seq(S) :
    (x \o y) \o z = x \o (y \o z) /\ (x \o y) \o z \in Seq(S)
<1>1. ASSUME NEW S, NEW x \in Seq(S), NEW y \in Seq(S), NEW z \in Seq(S)
      PROVE  (x \o y) \o z = x \o (y \o z) /\ (x \o y) \o z \in Seq(S)
  BY ConcatAssociative, ConcatProperties
<1> QED BY <1>1

(* Horner's scheme, digit by digit. *)
HornerOf(base, d, f, m) ==
  f = [n \in 0..m |-> IF n = 0 THEN 0 ELSE base * f[n - 1] + d[n]]

(* There is a function that satisfies the equation. *)
LEMMA HornerExists ==
  ASSUME NEW base, NEW d, NEW m \in Nat
  PROVE  \E f : HornerOf(base, d, f, m)
<1> DEFINE S == {n \in Nat : \E f : HornerOf(base, d, f, n)}
<1>1. 0 \in S
  <2>1. HornerOf(base, d, [n \in 0..0 |-> 0], 0)
    BY DEF HornerOf
  <2> QED BY <2>1
<1>2. ASSUME NEW n \in Nat, n \in S PROVE n + 1 \in S
  <2>1. PICK f : HornerOf(base, d, f, n)
    BY <1>2
  <2> DEFINE g == [i \in 0..(n + 1) |-> IF i <= n THEN f[i] ELSE base * f[n] + d[n + 1]]
  <2>2. HornerOf(base, d, g, n + 1)
    <3>1. \A i \in 0..(n + 1) : g[i] = IF i = 0 THEN 0 ELSE base * g[i - 1] + d[i]
      BY <2>1 DEF HornerOf
    <3> QED BY <3>1 DEF HornerOf
  <2> QED BY <2>2
<1>3. m \in S
  <2> HIDE DEF S
  <2> QED BY <1>1, <1>2, UpFromZero
<1> QED BY <1>3

(* So Horner is the last value of a function that does. *)
LEMMA HornerSteps ==
  ASSUME NEW base \in Nat, NEW d \in Seq(Nat)
  PROVE  \E f \in [0..Len(d) -> Nat] :
           /\ f[0] = 0
           /\ \A n \in 1..Len(d) : f[n] = base * f[n - 1] + d[n]
           /\ f[Len(d)] = Horner(base, d)
<1> DEFINE f == CHOOSE f : HornerOf(base, d, f, Len(d))
<1>1. Horner(base, d) = f[Len(d)]
  BY DEF Horner, HornerOf
<1>2. HornerOf(base, d, f, Len(d))
  <2>1. Len(d) \in Nat
    OBVIOUS
  <2>2. \E g : HornerOf(base, d, g, Len(d))
    BY <2>1, HornerExists
  <2> QED BY <2>2
<1> HIDE DEF f
<1>3. /\ f[0] = 0 /\ DOMAIN f = 0..Len(d)
      /\ \A n \in 1..Len(d) : f[n] = base * f[n - 1] + d[n]
  <2>1. /\ f = [n \in 0..Len(d) |-> IF n = 0 THEN 0 ELSE base * f[n - 1] + d[n]]
        /\ Len(d) \in Nat
    BY <1>2, SMTT(30) DEF HornerOf
  <2>2. \A n \in 0..Len(d) : f[n] = IF n = 0 THEN 0 ELSE base * f[n - 1] + d[n]
    BY <2>1
  <2> QED BY <2>1, <2>2, SMTT(30)
<1> DEFINE S == {n \in Nat : n <= Len(d) => f[n] \in Nat}
<1>4. 0 \in S
  BY <1>3
<1>5. ASSUME NEW n \in Nat, n \in S PROVE n + 1 \in S
  <2> SUFFICES ASSUME n + 1 <= Len(d) PROVE f[n + 1] \in Nat
    OBVIOUS
  <2>1. f[n + 1] = base * f[n] + d[n + 1] /\ f[n] \in Nat /\ d[n + 1] \in Nat
    BY <1>3, <1>5
  <2>2. base * f[n] \in Nat
    BY <2>1
  <2> QED BY <2>1, <2>2
<1>6. \A n \in Nat : n \in S
  <2> HIDE DEF S
  <2> QED BY <1>4, <1>5, UpFromZero
<1>7. f \in [0..Len(d) -> Nat]
  <2>1. \A n \in 0..Len(d) : f[n] \in Nat
    BY <1>6
  <2>2. f = [n \in 0..Len(d) |-> f[n]]
    BY <1>2 DEF HornerOf
  <2> QED BY <2>1, <2>2
<1> QED BY <1>1, <1>3, <1>7

-----------------------------------------------------------------------------
(* Sequences put one behind the other.                                     *)

(* What is in front of the element behind the first k ones. *)
Joined(ss, k) == FlattenSeq(SubSeq(ss, 1, k))

FlattenOf(ss, f, m) ==
  f = [n \in 1..m |-> IF n = 1 THEN ss[n] ELSE f[n - 1] \o ss[n]]

(* There is a function that satisfies the equation of FlattenSeq.         *)
LEMMA FlattenExists ==
  ASSUME NEW ss, NEW m \in Nat
  PROVE  \E f : FlattenOf(ss, f, m)
<1> DEFINE S == {n \in Nat : \E f : FlattenOf(ss, f, n)}
<1>1. 0 \in S
  <2>1. FlattenOf(ss, [n \in 1..0 |-> 0], 0)
    BY DEF FlattenOf
  <2> QED BY <2>1
<1>2. ASSUME NEW n \in Nat, n \in S PROVE n + 1 \in S
  <2>1. PICK f : FlattenOf(ss, f, n)
    BY <1>2
  <2> DEFINE g == [i \in 1..(n + 1) |-> IF i <= n THEN f[i]
                                        ELSE IF i = 1 THEN ss[i] ELSE f[n] \o ss[n + 1]]
  <2>2. FlattenOf(ss, g, n + 1)
    <3>1. \A i \in 1..(n + 1) : g[i] = IF i = 1 THEN ss[i] ELSE g[i - 1] \o ss[i]
      <4>1. /\ f = [i \in 1..n |-> IF i = 1 THEN ss[i] ELSE f[i - 1] \o ss[i]]
            /\ \A i \in 1..n : f[i] = IF i = 1 THEN ss[i] ELSE f[i - 1] \o ss[i]
        BY <2>1 DEF FlattenOf
      <4>2. ASSUME NEW i \in 1..n PROVE g[i] = IF i = 1 THEN ss[i] ELSE g[i - 1] \o ss[i]
        <5>1. g[i] = f[i] /\ (i # 1 => g[i - 1] = f[i - 1])
          OBVIOUS
        <5> QED BY <4>1, <5>1
      <4>3. g[n + 1] = IF n + 1 = 1 THEN ss[n + 1] ELSE g[n] \o ss[n + 1]
        <5>1. n # 0 => g[n] = f[n]
          OBVIOUS
        <5>2. g[n + 1] = IF n + 1 = 1 THEN ss[n + 1] ELSE f[n] \o ss[n + 1]
          OBVIOUS
        <5> QED BY <5>1, <5>2
      <4> HIDE DEF g
      <4>4. \A i \in 1..(n + 1) : i \in 1..n \/ (i = n + 1 /\ i - 1 = n)
        OBVIOUS
      <4> QED BY <4>2, <4>3, <4>4
    <3> QED BY <3>1 DEF FlattenOf
  <2> QED BY <2>2
<1>3. m \in S
  <2> HIDE DEF S
  <2> QED BY <1>1, <1>2, UpFromZero
<1> QED BY <1>3

(* Every function that satisfies the equation agrees with FlattenSeq.      *)
LEMMA FlattenIs ==
  ASSUME NEW ss, NEW T, ss \in Seq(T), ss # <<>>
  PROVE  \E f : FlattenOf(ss, f, Len(ss)) /\ FlattenSeq(ss) = f[Len(ss)]
<1> DEFINE f == CHOOSE f : FlattenOf(ss, f, Len(ss))
<1>1. Len(ss) \in Nat /\ Len(ss) # 0
  OBVIOUS
<1>2. FlattenSeq(ss) = f[Len(ss)]
  BY <1>1 DEF FlattenSeq, FlattenOf
<1>3. \E g : FlattenOf(ss, g, Len(ss))
  BY <1>1, FlattenExists
<1>4. FlattenOf(ss, f, Len(ss))
  BY <1>3
<1> QED BY <1>2, <1>4

(* The first k elements of a sequence.                                     *)
LEMMA FirstOnes ==
  ASSUME NEW T, NEW q \in Seq(T), NEW k \in 1..Len(q)
  PROVE  /\ SubSeq(q, 1, k) \in Seq(T) /\ Len(SubSeq(q, 1, k)) = k /\ SubSeq(q, 1, k) # <<>>
         /\ \A i \in 1..k : SubSeq(q, 1, k)[i] = q[i]
<1>1. k \in Nat \ {0} /\ Len(q) \in Nat
  OBVIOUS
<1>2. SubSeq(q, 1, k) \in Seq(T) /\ Len(SubSeq(q, 1, k)) = k /\ \A i \in 1..k : SubSeq(q, 1, k)[i] = q[i]
  BY <1>1
<1>3. SubSeq(q, 1, k) # <<>>
  BY <1>1, <1>2
<1> QED BY <1>2, <1>3

(* The first k sequences and the next one make the first k + 1.            *)
LEMMA Joins ==
  ASSUME NEW S, NEW ss \in Seq(Seq(S))
  PROVE  /\ Joined(ss, 0) = <<>> /\ Joined(ss, Len(ss)) = FlattenSeq(ss)
         /\ \A k \in 0..Len(ss) : Joined(ss, k) \in Seq(S)
         /\ \A k \in 0..Len(ss) : k # Len(ss) => Joined(ss, k + 1) = Joined(ss, k) \o ss[k + 1]
<1>1. Joined(ss, 0) = <<>> /\ Joined(ss, Len(ss)) = FlattenSeq(ss)
  <2>1. SubSeq(ss, 1, 0) = <<>> /\ SubSeq(ss, 1, Len(ss)) = ss
    OBVIOUS
  <2>2. FlattenSeq(<<>>) = <<>>
    BY DEF FlattenSeq
  <2> QED BY <2>1, <2>2 DEF Joined
<1>2. \A k \in 1..Len(ss) : \E f : FlattenOf(ss, f, k) /\ Joined(ss, k) = f[k]
  <2> TAKE k \in 1..Len(ss)
  <2> DEFINE p == SubSeq(ss, 1, k)
  <2>1. p \in Seq(Seq(S)) /\ Len(p) = k /\ p # <<>> /\ \A i \in 1..k : p[i] = ss[i]
    BY FirstOnes
  <2> HIDE DEF p
  <2>2. PICK f : FlattenOf(p, f, k) /\ FlattenSeq(p) = f[k]
    BY <2>1, FlattenIs
  <2>3. FlattenOf(ss, f, k)
    BY <2>1, <2>2 DEF FlattenOf
  <2> QED BY <2>2, <2>3 DEF Joined, p
<1>3. ASSUME NEW k \in 1..Len(ss), NEW j \in 1..k, NEW f, NEW g, FlattenOf(ss, f, j), FlattenOf(ss, g, k)
      PROVE  f[j] = g[j]
  <2>1. \A n \in 1..j : f[n] = IF n = 1 THEN ss[n] ELSE f[n - 1] \o ss[n]
    BY <1>3 DEF FlattenOf
  <2>2. \A n \in 1..k : g[n] = IF n = 1 THEN ss[n] ELSE g[n - 1] \o ss[n]
    BY <1>3 DEF FlattenOf
  <2> DEFINE A == {n \in Nat : n + 1 <= j => f[n + 1] = g[n + 1]}
  <2>3. 0 \in A
    BY <2>1, <2>2
  <2>4. ASSUME NEW n \in Nat, n \in A PROVE n + 1 \in A
    <3> SUFFICES ASSUME n + 2 <= j PROVE f[n + 2] = g[n + 2]
      BY DEF A
    <3>1. n + 2 \in 1..j /\ n + 2 \in 1..k /\ n + 2 # 1 /\ (n + 2) - 1 = n + 1 /\ n + 1 <= j
      OBVIOUS
    <3>2. f[n + 2] = f[n + 1] \o ss[n + 2] /\ g[n + 2] = g[n + 1] \o ss[n + 2]
      BY <2>1, <2>2, <3>1
    <3>3. f[n + 1] = g[n + 1]
      BY <2>4, <3>1
    <3> QED BY <3>2, <3>3
  <2>5. j - 1 \in A
    <3>1. j - 1 \in Nat
      OBVIOUS
    <3> HIDE DEF A
    <3> QED BY <2>3, <2>4, <3>1, UpFromZero
  <2> QED BY <2>5
<1>4. ASSUME NEW k \in 1..Len(ss), k # Len(ss) PROVE Joined(ss, k + 1) = Joined(ss, k) \o ss[k + 1]
  <2>1. k + 1 \in 1..Len(ss) /\ k \in 1..(k + 1)
    BY <1>4
  <2>2. PICK f : FlattenOf(ss, f, k) /\ Joined(ss, k) = f[k]
    BY <1>2
  <2>3. PICK g : FlattenOf(ss, g, k + 1) /\ Joined(ss, k + 1) = g[k + 1]
    BY <1>2, <2>1
  <2>4. f[k] = g[k]
    BY <1>3, <2>1, <2>2, <2>3
  <2>5. g[k + 1] = g[k] \o ss[k + 1]
    <3>1. \A n \in 1..(k + 1) : g[n] = IF n = 1 THEN ss[n] ELSE g[n - 1] \o ss[n]
      BY <2>3 DEF FlattenOf
    <3>2. k + 1 \in 1..(k + 1) /\ k + 1 # 1 /\ (k + 1) - 1 = k
      OBVIOUS
    <3>3. g[k + 1] = g[(k + 1) - 1] \o ss[k + 1]
      BY <3>1, <3>2, Zenon
    <3> QED BY <3>2, <3>3
  <2> QED BY <2>2, <2>3, <2>4, <2>5
<1>5. Len(ss) # 0 => Joined(ss, 1) = ss[1]
  <2> SUFFICES ASSUME Len(ss) # 0 PROVE Joined(ss, 1) = ss[1]
    OBVIOUS
  <2>1. PICK f : FlattenOf(ss, f, 1) /\ Joined(ss, 1) = f[1]
    BY <1>2
  <2> QED BY <2>1 DEF FlattenOf
<1> DEFINE B == {n \in Nat : n <= Len(ss) => Joined(ss, n) \in Seq(S)}
<1>6. 0 \in B
  <2>1. <<>> \in Seq(S)
    OBVIOUS
  <2> QED BY <1>1, <2>1
<1>7. ASSUME NEW n \in Nat, n \in B PROVE n + 1 \in B
  <2> SUFFICES ASSUME n + 1 <= Len(ss) PROVE Joined(ss, n + 1) \in Seq(S)
    OBVIOUS
  <2>1. ss[n + 1] \in Seq(S)
    OBVIOUS
  <2>2. CASE n = 0
    BY <1>5, <2>1, <2>2
  <2>3. CASE n # 0
    <3>1. Joined(ss, n + 1) = Joined(ss, n) \o ss[n + 1] /\ Joined(ss, n) \in Seq(S)
      BY <1>4, <1>7, <2>3
    <3>2. \A a, b \in Seq(S) : a \o b \in Seq(S)
      OBVIOUS
    <3> QED BY <2>1, <3>1, <3>2
  <2> QED BY <2>2, <2>3
<1>8. \A n \in Nat : n \in B
  <2> HIDE DEF B
  <2> QED BY <1>6, <1>7, UpFromZero
<1>9. ASSUME NEW k \in 0..Len(ss), k # Len(ss) PROVE Joined(ss, k + 1) = Joined(ss, k) \o ss[k + 1]
  <2>1. CASE k = 0
    <3>1. ss[1] \in Seq(S) /\ <<>> \o ss[1] = ss[1]
      BY <1>9, <2>1
    <3> QED BY <1>1, <1>5, <1>9, <2>1, <3>1
  <2>2. CASE k # 0
    BY <1>4, <1>9, <2>2
  <2> QED BY <2>1, <2>2
<1> QED BY <1>1, <1>8, <1>9

(* One sequence is the beginning of another. *)
Begins(a, b) == Len(a) <= Len(b) /\ \A i \in 1..Len(a) : b[i] = a[i]

(* The first k sequences begin what all of them make. *)
LEMMA JoinedBegins ==
  ASSUME NEW S, NEW ss \in Seq(Seq(S)), NEW k \in 0..Len(ss)
  PROVE  Begins(Joined(ss, k), FlattenSeq(ss))
<1> DEFINE A == {n \in Nat : k + n <= Len(ss) => Begins(Joined(ss, k), Joined(ss, k + n))}
<1>1. \A n \in 0..Len(ss) : Joined(ss, n) \in Seq(S)
  BY Joins
<1>2. 0 \in A
  BY <1>1 DEF Begins
<1>3. ASSUME NEW n \in Nat, n \in A PROVE n + 1 \in A
  <2> SUFFICES ASSUME k + (n + 1) <= Len(ss) PROVE Begins(Joined(ss, k), Joined(ss, k + (n + 1)))
    BY DEF A
  <2>1. k + n \in 0..Len(ss) /\ k + n # Len(ss) /\ (k + n) + 1 = k + (n + 1) /\ k + n <= Len(ss)
    OBVIOUS
  <2>2. Begins(Joined(ss, k), Joined(ss, k + n))
    BY <1>3, <2>1
  <2>3. Joined(ss, k + (n + 1)) = Joined(ss, k + n) \o ss[(k + n) + 1]
    BY <2>1, Joins
  <2>4. ss[(k + n) + 1] \in Seq(S)
    BY <2>1
  <2>5. Joined(ss, k) \in Seq(S) /\ Joined(ss, k + n) \in Seq(S)
    BY <1>1, <2>1
  <2>6. ASSUME NEW a \in Seq(S), NEW b \in Seq(S), NEW c \in Seq(S), Begins(a, b)
        PROVE  Begins(a, b \o c)
    BY <2>6 DEF Begins
  <2> QED BY <2>2, <2>3, <2>4, <2>5, <2>6
<1>4. Len(ss) - k \in A
  <2>1. Len(ss) - k \in Nat
    OBVIOUS
  <2> HIDE DEF A
  <2> QED BY <1>2, <1>3, <2>1, UpFromZero
<1>5. k + (Len(ss) - k) = Len(ss)
  OBVIOUS
<1> QED BY <1>4, <1>5, Joins

(* Where the k-th of the sequences stands. *)
LEMMA JoinedAt ==
  ASSUME NEW S, NEW ss \in Seq(Seq(S)), NEW k \in 1..Len(ss)
  PROVE  /\ Joined(ss, k - 1) \in Seq(S) /\ ss[k] \in Seq(S) /\ FlattenSeq(ss) \in Seq(S)
         /\ Len(Joined(ss, k)) = Len(Joined(ss, k - 1)) + Len(ss[k])
         /\ Len(Joined(ss, k)) <= Len(FlattenSeq(ss))
         /\ \A i \in 1..Len(ss[k]) : FlattenSeq(ss)[Len(Joined(ss, k - 1)) + i] = ss[k][i]
<1> DEFINE a == Joined(ss, k - 1)
           b == Joined(ss, k)
           c == ss[k]
           f == FlattenSeq(ss)
<1>1. a \in Seq(S) /\ b \in Seq(S) /\ c \in Seq(S) /\ f \in Seq(S)
  BY Joins
<1>2. b = a \o c
  <2>1. k - 1 \in 0..Len(ss) /\ k - 1 # Len(ss) /\ (k - 1) + 1 = k
    OBVIOUS
  <2> QED BY <2>1, Joins
<1>3. Begins(b, f)
  BY JoinedBegins
<1> HIDE DEF a, b, c, f
<1>4. Len(b) = Len(a) + Len(c) /\ Len(b) <= Len(f) /\ \A i \in 1..Len(c) : b[Len(a) + i] = c[i]
  BY <1>1, <1>2, <1>3 DEF Begins
<1>5. \A i \in 1..Len(c) : f[Len(a) + i] = c[i]
  <2> TAKE i \in 1..Len(c)
  <2>1. Len(a) + i \in 1..Len(b)
    BY <1>1, <1>4
  <2> QED BY <1>3, <1>4, <2>1 DEF Begins
<1> QED BY <1>1, <1>4, <1>5 DEF a, b, c, f

-----------------------------------------------------------------------------
(* A number and its bits.                                                  *)

Bit == {0, 1}

RightOf(v, f, m) == f = [k \in 0..m |-> IF k = 0 THEN v ELSE f[k - 1] \div 2]

(* There is a function of the numbers shifted right. *)
LEMMA RightExists ==
  ASSUME NEW v, NEW m \in Nat
  PROVE  \E f : RightOf(v, f, m)
<1> DEFINE S == {n \in Nat : \E f : RightOf(v, f, n)}
<1>1. 0 \in S
  <2>1. RightOf(v, [n \in 0..0 |-> v], 0)
    BY DEF RightOf
  <2> QED BY <2>1
<1>2. ASSUME NEW n \in Nat, n \in S PROVE n + 1 \in S
  <2>1. PICK f : RightOf(v, f, n)
    BY <1>2
  <2> DEFINE g == [i \in 0..(n + 1) |-> IF i <= n THEN f[i] ELSE f[n] \div 2]
  <2>2. RightOf(v, g, n + 1)
    <3>1. \A i \in 0..(n + 1) : g[i] = IF i = 0 THEN v ELSE g[i - 1] \div 2
      BY <2>1 DEF RightOf
    <3> QED BY <3>1 DEF RightOf
  <2> QED BY <2>2
<1>3. m \in S
  <2> HIDE DEF S
  <2> QED BY <1>1, <1>2, UpFromZero
<1> QED BY <1>3

(* The bits are the parities of the number shifted right. *)
LEMMA BitsSteps ==
  ASSUME NEW v \in Nat, NEW w \in Nat
  PROVE  \E f \in [0..w -> Nat] :
           /\ f[0] = v /\ \A k \in 1..w : f[k] = f[k - 1] \div 2
           /\ Bits(v, w) = [i \in 1..w |-> f[w - i] % 2]
<1> DEFINE f == CHOOSE f : RightOf(v, f, w)
<1>1. Bits(v, w) = [i \in 1..w |-> f[w - i] % 2]
  BY DEF Bits, RightOf
<1>2. \E g : RightOf(v, g, w)
  BY RightExists
<1>3. RightOf(v, f, w)
  BY <1>2
<1> HIDE DEF f
<1>4. /\ f = [k \in 0..w |-> IF k = 0 THEN v ELSE f[k - 1] \div 2]
      /\ \A k \in 0..w : f[k] = IF k = 0 THEN v ELSE f[k - 1] \div 2
  BY <1>3 DEF RightOf
<1>5. f[0] = v /\ \A k \in 1..w : f[k] = f[k - 1] \div 2
  BY <1>4
<1> DEFINE S == {n \in Nat : n <= w => f[n] \in Nat}
<1>6. 0 \in S
  BY <1>5
<1>7. ASSUME NEW n \in Nat, n \in S PROVE n + 1 \in S
  BY <1>5, <1>7
<1>8. \A n \in Nat : n \in S
  <2> HIDE DEF S
  <2> QED BY <1>6, <1>7, UpFromZero
<1>9. \A n \in 0..w : f[n] \in Nat
  BY <1>8
<1>10. f \in [0..w -> Nat]
  BY <1>4, <1>9
<1> QED BY <1>1, <1>5, <1>10

TwoTo == <<2, 4, 8, 16, 32, 64, 128, 256, 512, 1024, 2048, 4096, 8192, 16384, 32768, 65536>>

(* The powers of two double. *)
LEMMA TwoToSteps == \A j \in 2..16 : TwoTo[j] = 2 * TwoTo[j - 1] /\ TwoTo[j - 1] \in Nat
<1>1. /\ TwoTo[1] = 2 /\ TwoTo[2] = 4 /\ TwoTo[3] = 8 /\ TwoTo[4] = 16
      /\ TwoTo[5] = 32 /\ TwoTo[6] = 64 /\ TwoTo[7] = 128 /\ TwoTo[8] = 256
      /\ TwoTo[9] = 512 /\ TwoTo[10] = 1024 /\ TwoTo[11] = 2048 /\ TwoTo[12] = 4096
      /\ TwoTo[13] = 8192 /\ TwoTo[14] = 16384 /\ TwoTo[15] = 32768 /\ TwoTo[16] = 65536
  BY DEF TwoTo
<1> QED BY <1>1

(* A number that fits is read back from its bits. *)
LEMMA BitsValue ==
  ASSUME NEW v \in Nat, NEW w \in 1..16
  PROVE  /\ Bits(v, w) \in Seq(Bit) /\ Len(Bits(v, w)) = w
         /\ v < TwoTo[w] => Value(Bits(v, w)) = v
<1>0. w \in Nat
  OBVIOUS
<1>1. PICK f \in [0..w -> Nat] :
        /\ f[0] = v /\ \A k \in 1..w : f[k] = f[k - 1] \div 2
        /\ Bits(v, w) = [i \in 1..w |-> f[w - i] % 2]
  BY <1>0, BitsSteps
<1> DEFINE b == Bits(v, w)
<1>2. b \in Seq({0, 1}) /\ Len(b) = w /\ \A i \in 1..w : b[i] = f[w - i] % 2
  <2>1. \A i \in 1..w : f[w - i] % 2 \in {0, 1}
    <3>1. \A i \in 1..w : w - i \in 0..w
      OBVIOUS
    <3> QED BY <3>1
  <2> QED BY <1>1, <2>1
<1> HIDE DEF b
<1>3. ASSUME v < TwoTo[w] PROVE f[w] = 0
  <2> DEFINE A == {n \in Nat : n < w => f[n] < TwoTo[w - n]}
  <2>1. 0 \in A
    BY <1>1, <1>3
  <2>2. ASSUME NEW n \in Nat, n \in A PROVE n + 1 \in A
    <3> SUFFICES ASSUME n + 1 < w PROVE f[n + 1] < TwoTo[w - (n + 1)]
      BY DEF A
    <3>1. f[n] < TwoTo[w - n] /\ f[n] \in Nat /\ f[n + 1] = f[n] \div 2
      BY <1>1, <2>2
    <3>2. w - n \in 2..16 /\ w - (n + 1) = (w - n) - 1
      OBVIOUS
    <3>4. TwoTo[w - n] = 2 * TwoTo[w - (n + 1)] /\ TwoTo[w - (n + 1)] \in Nat
      BY <3>2, TwoToSteps
    <3>5. \A x, y \in Nat : x < 2 * y => x \div 2 < y
      OBVIOUS
    <3> QED BY <3>1, <3>4, <3>5
  <2>3. w - 1 \in A
    <3>1. w - 1 \in Nat
      OBVIOUS
    <3> HIDE DEF A
    <3> QED BY <2>1, <2>2, <3>1, UpFromZero
  <2>4. f[w - 1] < TwoTo[1] /\ f[w - 1] \in Nat /\ f[w] = f[w - 1] \div 2
    <3>1. w - (w - 1) = 1
      OBVIOUS
    <3> QED BY <1>1, <2>3, <3>1
  <2> QED BY <2>4 DEF TwoTo
<1>4. ASSUME f[w] = 0 PROVE Value(b) = v
  <2>0. b \in Seq(Nat)
    BY <1>2
  <2>1. PICK h \in [0..Len(b) -> Nat] :
          h[0] = 0 /\ (\A n \in 1..Len(b) : h[n] = 2 * h[n - 1] + b[n]) /\ h[Len(b)] = Horner(2, b)
    BY <2>0, HornerSteps
  <2> DEFINE A == {n \in Nat : n <= w => h[n] = f[w - n]}
  <2>2. 0 \in A
    BY <1>4, <2>1
  <2>3. ASSUME NEW n \in Nat, n \in A PROVE n + 1 \in A
    <3> SUFFICES ASSUME n + 1 <= w PROVE h[n + 1] = f[w - (n + 1)]
      BY DEF A
    <3>1. h[n] = f[w - n]
      BY <2>3
    <3>2. h[n + 1] = 2 * h[n] + b[n + 1]
      <4>1. n + 1 \in 1..Len(b) /\ (n + 1) - 1 = n
        BY <1>2
      <4> QED BY <2>1, <4>1
    <3>3. b[n + 1] = f[w - (n + 1)] % 2
      BY <1>2
    <3>4. f[w - n] = f[w - (n + 1)] \div 2 /\ f[w - (n + 1)] \in Nat
      <4>1. w - n \in 1..w /\ (w - n) - 1 = w - (n + 1) /\ w - (n + 1) \in 0..w
        OBVIOUS
      <4> QED BY <1>1, <4>1
    <3> QED BY <3>1, <3>2, <3>3, <3>4, SMTT(30)
  <2>4. w \in A
    <3> HIDE DEF A
    <3> QED BY <1>0, <2>2, <2>3, UpFromZero
  <2> QED BY <1>1, <1>2, <2>1, <2>4 DEF Value
<1> QED BY <1>2, <1>3, <1>4 DEF b, Bit

-----------------------------------------------------------------------------
(* The groups of a segment.                                                *)

LEMMA MinOfTwo ==
  ASSUME NEW a \in Int, NEW b \in Int
  PROVE  Min({a, b}) = IF a <= b THEN a ELSE b
<1> DEFINE m == IF a <= b THEN a ELSE b
<1>1. m \in {a, b} /\ \A y \in {a, b} : m <= y
  OBVIOUS
<1>2. \A x \in {a, b} : (\A y \in {a, b} : x <= y) => x = m
  OBVIOUS
<1> HIDE DEF m
<1>3. Min({a, b}) = m
  BY <1>1, <1>2 DEF Min
<1> QED BY <1>3 DEF m

(* The numbers of groups of one, two and three digits. *)
LEMMA HornerOfFew ==
  ASSUME NEW base \in Nat, NEW d \in Seq(Nat)
  PROVE  /\ Len(d) = 1 => Horner(base, d) = d[1]
         /\ Len(d) = 2 => Horner(base, d) = base * d[1] + d[2]
         /\ Len(d) = 3 => Horner(base, d) = base * (base * d[1] + d[2]) + d[3]
<1>1. PICK f \in [0..Len(d) -> Nat] :
        f[0] = 0 /\ (\A n \in 1..Len(d) : f[n] = base * f[n - 1] + d[n]) /\ f[Len(d)] = Horner(base, d)
  BY HornerSteps
<1>2. ASSUME Len(d) >= 1 PROVE f[1] = d[1]
  <2>1. f[1] = base * 0 + d[1] /\ d[1] \in Nat
    BY <1>1, <1>2
  <2>2. base * 0 = 0
    OBVIOUS
  <2> QED BY <2>1, <2>2
<1>3. ASSUME Len(d) >= 2 PROVE f[2] = base * d[1] + d[2]
  <2>1. 2 \in 1..Len(d) /\ 2 - 1 = 1
    BY <1>3
  <2>2. f[2] = base * f[2 - 1] + d[2]
    BY <1>1, <2>1
  <2> QED BY <1>2, <1>3, <2>1, <2>2
<1>4. ASSUME Len(d) >= 3 PROVE f[3] = base * (base * d[1] + d[2]) + d[3]
  <2>1. 3 \in 1..Len(d) /\ 3 - 1 = 2
    BY <1>4
  <2>2. f[3] = base * f[3 - 1] + d[3]
    BY <1>1, <2>1
  <2> QED BY <1>3, <1>4, <2>1, <2>2
<1>5. Len(d) = 1 => Horner(base, d) = d[1]
  BY <1>1, <1>2
<1>6. Len(d) = 2 => Horner(base, d) = base * d[1] + d[2]
  BY <1>1, <1>3
<1>7. Len(d) = 3 => Horner(base, d) = base * (base * d[1] + d[2]) + d[3]
  BY <1>1, <1>4
<1> QED BY <1>5, <1>6, <1>7

(* The number u a group g of m characters is written as, and read from. *)
IsNumberOf(mode, g, m, u) ==
  LET width == ChunkBits(mode, m) IN
  /\ width \in 1..16 /\ u \in Nat /\ u < TwoTo[width]
  /\ EncodeGroup(mode, g) = Bits(u, width)
  /\ mode = 2 => u < <<45, 2025>>[m]
  /\ Chars(mode, m, u) = g

(* A group of digits is the number it spells, leading zeros included.     *)
LEMMA DigitGroup ==
  ASSUME NEW g, NEW m \in 1..3
  PROVE  g \in Seq(Characters(1)) /\ Len(g) = m => \E u : IsNumberOf(1, g, m, u)
<1>0. SUFFICES ASSUME g \in Seq(Characters(1)), Len(g) = m PROVE \E u : IsNumberOf(1, g, m, u)
  OBVIOUS
<1> DEFINE d == [i \in DOMAIN g |-> g[i] - 48]
           u == Horner(10, d)
<1>1. \A i \in 1..m : d[i] \in Nat /\ d[i] \in 0..9 /\ g[i] = 48 + d[i]
  <2>1. \A i \in DOMAIN g : g[i] \in 48..57
    BY <1>0 DEF Characters
  <2>2. DOMAIN g = 1..m
    BY <1>0
  <2> QED BY <2>1, <2>2
<1>2. g = [i \in 1..m |-> g[i]]
  BY <1>0
<1>3. d \in Seq(Nat) /\ Len(d) = m
  <2>1. DOMAIN g = 1..m
    BY <1>0
  <2> QED BY <1>1, <2>1
<1>4. EncodeGroup(1, g) = Bits(u, <<4, 7, 10>>[m])
  <2>1. EncodeGroup(1, g) = Bits(u, <<4, 7, 10>>[Len(g)])
    BY DEF EncodeGroup
  <2> QED BY <1>0, <2>1, Zenon
<1> HIDE DEF d
<1>5. u < <<10, 100, 1000>>[m] =>
        Chars(1, m, u) = [i \in 1..m |-> 48 + ((u \div <<1, 10, 100, 1000>>[m - i + 1]) % 10)]
  BY DEF Chars
<1>6. /\ m = 1 => u = d[1]
      /\ m = 2 => u = 10 * d[1] + d[2]
      /\ m = 3 => u = 10 * (10 * d[1] + d[2]) + d[3]
  BY <1>3, HornerOfFew
<1> HIDE DEF u
<1>7. CASE m = 1
  <2>1. PICK a \in 0..9 : u = a /\ g[1] = 48 + a
    BY <1>1, <1>6, <1>7
  <2>2. ChunkBits(1, 1) = 4 /\ u < 16 /\ u < 10 /\ u \in Nat /\ 48 + ((u \div 1) % 10) = g[1]
    BY <2>1 DEF ChunkBits
  <2>3. Chars(1, m, u) = g
    BY <1>2, <1>5, <1>7, <2>2
  <2> QED BY <1>4, <1>7, <2>2, <2>3 DEF IsNumberOf, TwoTo
<1>8. CASE m = 2
  <2>1. PICK a \in 0..9, b \in 0..9 : u = 10 * a + b /\ g[1] = 48 + a /\ g[2] = 48 + b
    <3>1. d[1] \in 0..9 /\ g[1] = 48 + d[1] /\ d[2] \in 0..9 /\ g[2] = 48 + d[2]
      BY <1>1, <1>8
    <3> QED BY <1>6, <1>8, <3>1
  <2>2. u \in Nat /\ u < 128 /\ u < 100 /\ (u \div 10) % 10 = a /\ (u \div 1) % 10 = b
    BY <2>1
  <2>3. ChunkBits(1, 2) = 7
    BY DEF ChunkBits
  <2>4. Chars(1, m, u) = g
    <3>1. \A i \in 1..2 : 48 + ((u \div <<1, 10, 100, 1000>>[2 - i + 1]) % 10) = g[i]
      BY <2>1, <2>2
    <3>2. u < <<10, 100, 1000>>[m]
      BY <1>8, <2>2
    <3> QED BY <1>2, <1>5, <1>8, <3>1, <3>2
  <2> QED BY <1>4, <1>8, <2>2, <2>3, <2>4 DEF IsNumberOf, TwoTo
<1>9. CASE m = 3
  <2>1. PICK a \in 0..9, b \in 0..9, c \in 0..9 :
          u = 10 * (10 * a + b) + c /\ g[1] = 48 + a /\ g[2] = 48 + b /\ g[3] = 48 + c
    <3>1. /\ d[1] \in 0..9 /\ g[1] = 48 + d[1] /\ d[2] \in 0..9 /\ g[2] = 48 + d[2]
          /\ d[3] \in 0..9 /\ g[3] = 48 + d[3]
      BY <1>1, <1>9
    <3> QED BY <1>6, <1>9, <3>1
  <2>2. /\ u \in Nat /\ u < 1024 /\ u < 1000
        /\ (u \div 100) % 10 = a /\ (u \div 10) % 10 = b /\ (u \div 1) % 10 = c
    BY <2>1
  <2>3. ChunkBits(1, 3) = 10
    BY DEF ChunkBits
  <2>4. Chars(1, m, u) = g
    <3>1. \A i \in 1..3 : 48 + ((u \div <<1, 10, 100, 1000>>[3 - i + 1]) % 10) = g[i]
      BY <2>1, <2>2
    <3>2. u < <<10, 100, 1000>>[m]
      BY <1>9, <2>2
    <3> QED BY <1>2, <1>5, <1>9, <3>1, <3>2
  <2> QED BY <1>4, <1>9, <2>2, <2>3, <2>4 DEF IsNumberOf, TwoTo
<1> QED BY <1>7, <1>8, <1>9

(* A pair of the alphabet, or a single character, is its number in base   *)
(* 45.                                                                    *)
LEMMA PairGroup ==
  ASSUME NEW g, NEW m \in 1..2
  PROVE  g \in Seq(Characters(2)) /\ Len(g) = m => \E u : IsNumberOf(2, g, m, u)
<1>0. SUFFICES ASSUME g \in Seq(Characters(2)), Len(g) = m PROVE \E u : IsNumberOf(2, g, m, u)
  OBVIOUS
<1> DEFINE d == [i \in DOMAIN g |-> Code(g[i])]
           u == Horner(45, d)
<1>1. ASSUME NEW i \in 1..m PROVE d[i] \in 0..44 /\ g[i] = Alphabet[d[i] + 1]
  <2>1. DOMAIN g = 1..m /\ g[i] \in Characters(2)
    BY <1>0
  <2>2. PICK j \in 1..45 : g[i] = Alphabet[j]
    BY <2>1 DEF Characters
  <2>3. j - 1 \in 0..44 /\ Alphabet[(j - 1) + 1] = g[i]
    BY <2>2
  <2>4. Code(g[i]) \in 0..44 /\ Alphabet[Code(g[i]) + 1] = g[i]
    BY <2>3 DEF Code
  <2>5. d[i] = Code(g[i])
    BY <2>1
  <2> HIDE DEF d
  <2> QED BY <2>4, <2>5
<1>2. g = [i \in 1..m |-> g[i]]
  BY <1>0
<1>3. d \in Seq(Nat) /\ Len(d) = m
  <2>1. DOMAIN g = 1..m
    BY <1>0
  <2>2. d = [i \in 1..m |-> d[i]]
    BY <2>1
  <2> HIDE DEF d
  <2>3. \A i \in 1..m : d[i] \in Nat
    BY <1>1
  <2> QED BY <2>2, <2>3
<1>4. EncodeGroup(2, g) = Bits(u, <<6, 11>>[m])
  <2>1. EncodeGroup(2, g) = Bits(u, <<6, 11>>[Len(g)])
    BY DEF EncodeGroup
  <2> QED BY <1>0, <2>1, Zenon
<1> HIDE DEF d
<1>5. Chars(2, m, u) = [i \in 1..m |-> Alphabet[((u \div <<1, 45>>[m - i + 1]) % 45) + 1]]
  BY DEF Chars
<1>6. /\ m = 1 => u = d[1]
      /\ m = 2 => u = 45 * d[1] + d[2]
  BY <1>3, HornerOfFew
<1> HIDE DEF u
<1>7. CASE m = 1
  <2>1. PICK a \in 0..44 : u = a /\ g[1] = Alphabet[a + 1]
    BY <1>1, <1>6, <1>7
  <2>2. ChunkBits(2, 1) = 6 /\ u < 45 /\ u < 64 /\ u \in Nat /\ (u \div 1) % 45 = a
    BY <2>1 DEF ChunkBits
  <2>3. Chars(2, m, u) = g
    BY <1>2, <1>5, <1>7, <2>1, <2>2
  <2> QED BY <1>4, <1>7, <2>2, <2>3 DEF IsNumberOf, TwoTo
<1>8. CASE m = 2
  <2>1. PICK a \in 0..44, b \in 0..44 : u = 45 * a + b /\ g[1] = Alphabet[a + 1] /\ g[2] = Alphabet[b + 1]
    <3>1. PICK a \in 0..44 : d[1] = a /\ g[1] = Alphabet[a + 1]
      BY <1>1, <1>8
    <3>2. PICK b \in 0..44 : d[2] = b /\ g[2] = Alphabet[b + 1]
      BY <1>1, <1>8
    <3>3. u = 45 * d[1] + d[2]
      BY <1>6, <1>8
    <3> QED BY <3>1, <3>2, <3>3
  <2>2. u \in Nat /\ u < 2025 /\ (u \div 45) % 45 = a /\ (u \div 1) % 45 = b
    BY <2>1
  <2>3. ChunkBits(2, 2) = 11 /\ u < 2048
    BY <2>2 DEF ChunkBits
  <2>4. Chars(2, m, u) = g
    <3>1. \A i \in 1..2 : Alphabet[((u \div <<1, 45>>[2 - i + 1]) % 45) + 1] = g[i]
      <4>1. <<1, 45>>[2 - 1 + 1] = 45 /\ <<1, 45>>[2 - 2 + 1] = 1
        OBVIOUS
      <4> QED BY <2>1, <2>2, <4>1
    <3> QED BY <1>2, <1>5, <1>8, <3>1
  <2> QED BY <1>4, <1>8, <2>2, <2>3, <2>4 DEF IsNumberOf, TwoTo
<1> QED BY <1>7, <1>8

(* Every group is read back from its bits. *)
LEMMA GroupNumber ==
  ASSUME NEW mode \in {1, 2, 4}, NEW g, NEW m \in 1..GroupSize(mode)
  PROVE  g \in Seq(Characters(mode)) /\ Len(g) = m => \E u : IsNumberOf(mode, g, m, u)
<1>0. GroupSize(1) = 3 /\ GroupSize(2) = 2 /\ GroupSize(4) = 1 /\ Characters(4) = 0..255
  BY DEF GroupSize, Characters
<1>1. CASE mode = 1
  BY <1>0, <1>1, DigitGroup, Zenon
<1>2. CASE mode = 2
  BY <1>0, <1>2, PairGroup, Zenon
<1>3. CASE mode = 4
  <2>0. SUFFICES ASSUME g \in Seq(Characters(4)), Len(g) = 1 PROVE IsNumberOf(4, g, 1, g[1])
    BY <1>0, <1>3
  <2>1. g \in Seq(0..255)
    BY <1>0, <2>0, Zenon
  <2>2. g[1] \in 0..255
    <3>1. 1 \in 1..Len(g)
      BY <2>0
    <3> QED BY <2>1, <3>1, ElementOfSeq, ZenonT(40)
  <2>3. g = <<g[1]>>
    BY <2>0, <2>1
  <2>4. ChunkBits(4, 1) = 8 /\ EncodeGroup(4, g) = Bits(g[1], 8) /\ Chars(4, 1, g[1]) = <<g[1]>>
    BY DEF ChunkBits, EncodeGroup, Chars
  <2>5. 8 \in 1..16 /\ g[1] \in Nat /\ g[1] < TwoTo[8]
    BY <2>2 DEF TwoTo
  <2> QED BY <2>3, <2>4, <2>5 DEF IsNumberOf
<1> QED BY <1>1, <1>2, <1>3

Rounds(s) == (Len(s.chars) + GroupSize(s.mode) - 1) \div GroupSize(s.mode)

(* Steps of z up to len take len / z rounds, rounded up. *)
LEMMA MarkArithmetic ==
  ASSUME NEW g \in {1, 2, 3}, NEW len \in Nat, NEW r, r = (len + g - 1) \div g
  PROVE  /\ r \in Nat /\ r * g >= len
         /\ \A k \in Nat : /\ k * g \in Nat /\ (k + 1) * g = k * g + g
                           /\ k < r => k * g < len
                           /\ k <= r /\ k * g >= len => k = r
<1>1. CASE g = 1
  BY <1>1
<1>2. CASE g = 2
  BY <1>2
<1>3. CASE g = 3
  BY <1>3
<1> QED BY <1>1, <1>2, <1>3

(* The marks go up by what the parser takes at a time.                     *)
LEMMA Marks ==
  ASSUME NEW s
  PROVE  s.mode \in {1, 2, 4} /\ Len(s.chars) \in Nat =>
           /\ Rounds(s) \in Nat /\ Mark(s, 0) = 0 /\ Mark(s, Rounds(s)) = Len(s.chars)
           /\ \A k \in 0..Rounds(s) : /\ Mark(s, k) \in 0..Len(s.chars)
                                      /\ Mark(s, k) = Len(s.chars) => k = Rounds(s)
           /\ \A k \in 0..(Rounds(s) - 1) :
                /\ Mark(s, k) < Len(s.chars)
                /\ ChunkSize(s.mode, Len(s.chars) - Mark(s, k)) \in 1..GroupSize(s.mode)
                /\ Mark(s, k + 1) = Mark(s, k) + ChunkSize(s.mode, Len(s.chars) - Mark(s, k))
<1>0. SUFFICES ASSUME s.mode \in {1, 2, 4}, Len(s.chars) \in Nat
               PROVE  /\ Rounds(s) \in Nat /\ Mark(s, 0) = 0 /\ Mark(s, Rounds(s)) = Len(s.chars)
                      /\ \A k \in 0..Rounds(s) : /\ Mark(s, k) \in 0..Len(s.chars)
                                                 /\ Mark(s, k) = Len(s.chars) => k = Rounds(s)
                      /\ \A k \in 0..(Rounds(s) - 1) :
                           /\ Mark(s, k) < Len(s.chars)
                           /\ ChunkSize(s.mode, Len(s.chars) - Mark(s, k)) \in 1..GroupSize(s.mode)
                           /\ Mark(s, k + 1) = Mark(s, k) + ChunkSize(s.mode, Len(s.chars) - Mark(s, k))
  BY Zenon
<1> DEFINE len == Len(s.chars)
           g == GroupSize(s.mode)
           r == Rounds(s)
           M(k) == Mark(s, k)
           mode == s.mode
<1>1. len \in Nat /\ mode \in {1, 2, 4}
  BY <1>0
<1>2. g \in {1, 2, 3}
  BY <1>0 DEF GroupSize
<1>3. \A n \in Nat : ChunkSize(mode, n) = Min({n, g})
  BY <1>0 DEF ChunkSize, GroupSize
<1>4. r = (len + g - 1) \div g /\ \A k \in Nat : M(k) = Min({k * g, len})
  BY DEF Rounds, Mark
<1> HIDE DEF len, g, r, M, mode
<1>5. /\ r \in Nat /\ r * g >= len
      /\ \A k \in Nat : /\ k * g \in Nat /\ (k + 1) * g = k * g + g
                        /\ k < r => k * g < len
                        /\ k <= r /\ k * g >= len => k = r
  BY <1>1, <1>2, <1>4, MarkArithmetic
<1>6. ASSUME NEW k \in Nat PROVE M(k) = IF k * g <= len THEN k * g ELSE len
  <2>1. M(k) = Min({k * g, len}) /\ k * g \in Int /\ len \in Int
    BY <1>1, <1>4, <1>5
  <2>2. Min({k * g, len}) = IF k * g <= len THEN k * g ELSE len
    BY <2>1, MinOfTwo, Zenon
  <2> QED BY <2>1, <2>2
<1>7. M(0) = 0
  BY <1>1, <1>2, <1>6
<1>8. M(r) = len
  BY <1>1, <1>5, <1>6
<1>9. ASSUME NEW k \in 0..r PROVE M(k) \in 0..len /\ (M(k) = len => k = r)
  BY <1>1, <1>5, <1>6
<1>10. ASSUME NEW k \in 0..(r - 1)
       PROVE  /\ M(k) < len
              /\ ChunkSize(mode, len - M(k)) \in 1..g
              /\ M(k + 1) = M(k) + ChunkSize(mode, len - M(k))
  <2>1. k \in Nat /\ k < r /\ k + 1 \in Nat
    BY <1>5
  <2>2. k * g < len /\ k * g \in Nat /\ (k + 1) * g = k * g + g
    BY <1>5, <2>1
  <2>3. M(k) = k * g
    BY <1>1, <1>6, <2>1, <2>2
  <2>4. len - M(k) \in Nat /\ len - M(k) >= 1
    BY <1>1, <2>2, <2>3
  <2>5. ChunkSize(mode, len - M(k)) = IF len - M(k) <= g THEN len - M(k) ELSE g
    <3>1. ChunkSize(mode, len - M(k)) = Min({len - M(k), g})
      BY <1>3, <2>4
    <3>2. len - M(k) \in Int /\ g \in Int
      BY <1>2, <2>4
    <3>3. Min({len - M(k), g}) = IF len - M(k) <= g THEN len - M(k) ELSE g
      BY <3>2, MinOfTwo, Zenon
    <3> QED BY <3>1, <3>3
  <2>6. M(k + 1) = IF k * g + g <= len THEN k * g + g ELSE len
    BY <1>6, <2>1, <2>2
  <2>7. M(k) < len /\ ChunkSize(mode, len - M(k)) \in 1..g
    BY <1>1, <1>2, <2>2, <2>3, <2>4, <2>5
  <2>8. M(k + 1) = M(k) + ChunkSize(mode, len - M(k))
    BY <1>1, <1>2, <2>2, <2>3, <2>5, <2>6
  <2> QED BY <2>7, <2>8
<1> QED BY <1>5, <1>7, <1>8, <1>9, <1>10, Zenon DEF len, g, r, M, mode

(* A segment has characters, and its count fits the field of the version. *)
LEMMA Segment ==
  ASSUME NEW v \in ParsedVersion, NEW s \in SegmentTexts
  PROVE  /\ s.mode \in {1, 2, 4} /\ s.chars \in Seq(Characters(s.mode)) /\ Len(s.chars) \in Nat \ {0}
         /\ StandardCountBits(v, s.mode) \in 1..16
         /\ Len(s.chars) < TwoTo[StandardCountBits(v, s.mode)]
<1>1. /\ s.mode \in {1, 2, 4} /\ s.chars \in Seq(Characters(s.mode))
      /\ Len(s.chars) \in 1..MostCharacters(v, s.mode)
  BY SegmentAssumption
<1> DEFINE w == StandardCountBits(v, s.mode)
           n == MostCharacters(v, s.mode)
<1>2. w \in 1..16 /\ n \in Nat /\ n < TwoTo[w]
  <2>1. /\ TwoTo[8] = 256 /\ TwoTo[9] = 512 /\ TwoTo[10] = 1024
        /\ TwoTo[11] = 2048 /\ TwoTo[12] = 4096 /\ TwoTo[16] = 65536
    BY DEF TwoTo
  <2>2. CASE s.mode = 1
    BY <2>1, <2>2 DEF StandardCountBits, MostCharacters
  <2>3. CASE s.mode = 2
    BY <2>1, <2>3 DEF StandardCountBits, MostCharacters
  <2>4. CASE s.mode = 4
    BY <2>1, <2>4 DEF StandardCountBits, MostCharacters
  <2> QED BY <1>1, <2>2, <2>3, <2>4
<1> DEFINE len == Len(s.chars)
<1>3. len \in 1..n
  BY <1>1
<1> HIDE DEF w, n, len
<1>4. TwoTo[w] \in Nat
  BY <1>2 DEF TwoTo
<1>5. len \in Nat \ {0} /\ len < TwoTo[w]
  BY <1>2, <1>3, <1>4
<1> QED BY <1>1, <1>2, <1>5 DEF w, len

(* What the parser takes for the k-th group. *)
Chunk(s, k) == ChunkSize(s.mode, Len(s.chars) - Mark(s, k - 1))
Width(s, k) == ChunkBits(s.mode, Chunk(s, k))

(* The groups are the slices between the marks.                            *)
LEMMA GroupsBetweenMarks ==
  ASSUME NEW v \in ParsedVersion, NEW s \in SegmentTexts, NEW k \in 1..Rounds(s)
  PROVE  /\ Len(Groups(s)) = Rounds(s) /\ DOMAIN Groups(s) = 1..Rounds(s)
         /\ Groups(s)[k] \in Seq(Characters(s.mode))
         /\ Len(Groups(s)[k]) = Chunk(s, k)
         /\ SubSeq(s.chars, 1, Mark(s, k)) = SubSeq(s.chars, 1, Mark(s, k - 1)) \o Groups(s)[k]
<1>1. s.mode \in {1, 2, 4} /\ s.chars \in Seq(Characters(s.mode)) /\ Len(s.chars) \in Nat
  BY Segment
<1>2. /\ Rounds(s) \in Nat
      /\ k - 1 \in 0..(Rounds(s) - 1) /\ k \in 0..Rounds(s) /\ (k - 1) + 1 = k
  BY <1>1, Marks
<1>3. /\ Mark(s, k) \in 0..Len(s.chars) /\ Mark(s, k - 1) \in 0..Len(s.chars)
      /\ ChunkSize(s.mode, Len(s.chars) - Mark(s, k - 1)) \in 1..GroupSize(s.mode)
      /\ Mark(s, k) = Mark(s, k - 1) + ChunkSize(s.mode, Len(s.chars) - Mark(s, k - 1))
  <2>1. k - 1 \in 0..Rounds(s)
    BY <1>2
  <2> QED BY <1>1, <1>2, <2>1, Marks
<1>4. Groups(s) = [j \in 1..Rounds(s) |-> SubSeq(s.chars, Mark(s, j - 1) + 1, Mark(s, j))]
  BY DEF Groups, Rounds
<1>5. Groups(s)[k] = SubSeq(s.chars, Mark(s, k - 1) + 1, Mark(s, k))
  BY <1>4
<1>6. Len(Groups(s)) = Rounds(s) /\ DOMAIN Groups(s) = 1..Rounds(s)
  BY <1>2, <1>4
<1>7. GroupSize(s.mode) \in {1, 2, 3}
  BY <1>1 DEF GroupSize
<1> DEFINE a == Mark(s, k - 1)
           b == Mark(s, k)
           c == ChunkSize(s.mode, Len(s.chars) - Mark(s, k - 1))
<1>8. a \in 0..Len(s.chars) /\ b \in 0..Len(s.chars) /\ c \in Nat /\ b = a + c
  BY <1>3, <1>7
<1> HIDE DEF a, b, c
<1>9. ASSUME NEW S, NEW t \in Seq(S), a \in 0..Len(t), b \in 0..Len(t)
      PROVE  /\ SubSeq(t, a + 1, b) \in Seq(S) /\ Len(SubSeq(t, a + 1, b)) = c
             /\ SubSeq(t, 1, b) = SubSeq(t, 1, a) \o SubSeq(t, a + 1, b)
  BY <1>8, <1>9
<1>10. /\ SubSeq(s.chars, a + 1, b) \in Seq(Characters(s.mode)) /\ Len(SubSeq(s.chars, a + 1, b)) = c
       /\ SubSeq(s.chars, 1, b) = SubSeq(s.chars, 1, a) \o SubSeq(s.chars, a + 1, b)
  BY <1>1, <1>8, <1>9
<1> QED BY <1>5, <1>6, <1>10, Zenon DEF a, b, c, Chunk

Coded(s) == [k \in DOMAIN Groups(s) |-> EncodeGroup(s.mode, Groups(s)[k])]

(* Each group is the bits of a number, and the parser knows how many.      *)
LEMMA CodedGroup ==
  ASSUME NEW v \in ParsedVersion, NEW s \in SegmentTexts, NEW k \in 1..Rounds(s)
  PROVE  /\ Chunk(s, k) \in 1..GroupSize(s.mode) /\ Width(s, k) \in 1..16
         /\ Coded(s)[k] \in Seq(Bit) /\ Len(Coded(s)[k]) = Width(s, k)
         /\ \E u \in Nat : /\ u < TwoTo[Width(s, k)]
                           /\ Coded(s)[k] = Bits(u, Width(s, k))
                           /\ s.mode = 2 => u < <<45, 2025>>[Chunk(s, k)]
                           /\ Chars(s.mode, Chunk(s, k), u) = Groups(s)[k]
<1> DEFINE c == Chunk(s, k)
           w == Width(s, k)
           g == Groups(s)[k]
<1>1. s.mode \in {1, 2, 4} /\ Len(s.chars) \in Nat
  BY Segment
<1>2. c \in 1..GroupSize(s.mode)
  <2>1. Rounds(s) \in Nat
    BY <1>1, Marks
  <2>2. k - 1 \in 0..(Rounds(s) - 1)
    BY <2>1
  <2> QED BY <1>1, <2>2, Marks DEF Chunk
<1>3. g \in Seq(Characters(s.mode)) /\ Len(g) = c /\ DOMAIN Groups(s) = 1..Rounds(s)
  BY GroupsBetweenMarks
<1>4. Coded(s)[k] = EncodeGroup(s.mode, g)
  BY <1>3 DEF Coded
<1>5. w = ChunkBits(s.mode, c)
  BY DEF Width
<1> HIDE DEF c, g, w
<1>6. PICK u : IsNumberOf(s.mode, g, c, u)
  BY <1>1, <1>2, <1>3, GroupNumber
<1>7. /\ w \in 1..16 /\ u \in Nat /\ u < TwoTo[w]
      /\ EncodeGroup(s.mode, g) = Bits(u, w)
      /\ s.mode = 2 => u < <<45, 2025>>[c]
      /\ Chars(s.mode, c, u) = g
  BY <1>5, <1>6 DEF IsNumberOf
<1>8. Bits(u, w) \in Seq(Bit) /\ Len(Bits(u, w)) = w
  <2>1. w \in 1..16 /\ u \in Nat
    BY <1>7
  <2> QED BY <2>1, BitsValue, Zenon
<1>9. \E n \in Nat : /\ n < TwoTo[w]
                     /\ Coded(s)[k] = Bits(n, w)
                     /\ s.mode = 2 => n < <<45, 2025>>[c]
                     /\ Chars(s.mode, c, n) = g
  BY <1>4, <1>7
<1>10. Coded(s)[k] \in Seq(Bit) /\ Len(Coded(s)[k]) = w
  BY <1>4, <1>7, <1>8
<1> QED BY <1>2, <1>7, <1>9, <1>10 DEF c, g, w

(* The encoded groups are a sequence of bits for each group. *)
LEMMA CodedSeq ==
  ASSUME NEW v \in ParsedVersion, NEW s \in SegmentTexts
  PROVE  Rounds(s) \in Nat /\ Coded(s) \in Seq(Seq(Bit)) /\ Len(Coded(s)) = Rounds(s)
<1>1. Rounds(s) \in Nat
  BY Segment, Marks
<1>2. DOMAIN Groups(s) = 1..Rounds(s)
  BY <1>1 DEF Groups, Rounds
<1>3. \A k \in 1..Rounds(s) : Coded(s)[k] \in Seq(Bit)
  <2> TAKE k \in 1..Rounds(s)
  <2> QED BY CodedGroup
<1>4. DOMAIN Coded(s) = 1..Rounds(s) /\ Coded(s) = [k \in 1..Rounds(s) |-> Coded(s)[k]]
  BY <1>2 DEF Coded
<1> QED BY <1>1, <1>3, <1>4

(* The groups take a bit or more for every character, and bytes take       *)
(* eight.                                                                  *)
LEMMA CodedLength ==
  ASSUME NEW v \in ParsedVersion, NEW s \in SegmentTexts, NEW k \in 0..Rounds(s)
  PROVE  /\ Len(Joined(Coded(s), k)) >= Mark(s, k)
         /\ s.mode = 4 => Len(Joined(Coded(s), k)) = 8 * Mark(s, k)
<1> DEFINE L(j) == Len(Joined(Coded(s), j))
           r == Rounds(s)
           mode == s.mode
           G == GroupSize(mode)
<1>1. r \in Nat /\ mode \in {1, 2, 4}
  BY CodedSeq, Segment
<1>2. L(0) = 0 /\ Mark(s, 0) = 0
  <2>1. Joined(Coded(s), 0) = <<>>
    BY CodedSeq, Joins
  <2>2. Mark(s, 0) = 0
    BY Segment, Marks
  <2> QED BY <2>1, <2>2
<1>3. \A j \in 0..r : Mark(s, j) \in Nat
  <2> TAKE j \in 0..r
  <2>1. Mark(s, j) \in 0..Len(s.chars) /\ Len(s.chars) \in Nat
    BY Segment, Marks
  <2> QED BY <2>1
<1>4. \A j \in 0..r : L(j) \in Nat
  <2> TAKE j \in 0..r
  <2>1. Joined(Coded(s), j) \in Seq(Bit)
    BY CodedSeq, Joins
  <2> QED BY <2>1
<1>5. ASSUME NEW j \in 1..r
      PROVE  /\ L(j) = L(j - 1) + Width(s, j) /\ Width(s, j) \in Nat
             /\ Mark(s, j) = Mark(s, j - 1) + Chunk(s, j)
             /\ Chunk(s, j) \in 1..G
             /\ Width(s, j) >= Chunk(s, j) /\ (mode = 4 => Width(s, j) = 8 * Chunk(s, j))
  <2>1. L(j) = L(j - 1) + Len(Coded(s)[j])
    BY CodedSeq, JoinedAt, ZenonT(40)
  <2>2. Len(Coded(s)[j]) = Width(s, j) /\ Width(s, j) \in Nat /\ Chunk(s, j) \in 1..G
    BY CodedGroup
  <2>3. Mark(s, j) = Mark(s, j - 1) + Chunk(s, j)
    <3>1. j - 1 \in 0..(r - 1) /\ (j - 1) + 1 = j
      BY <1>1
    <3> QED BY <3>1, Segment, Marks DEF Chunk
  <2>4. Width(s, j) >= Chunk(s, j) /\ (mode = 4 => Width(s, j) = 8 * Chunk(s, j))
    BY <1>1, <2>2 DEF Width, ChunkBits, GroupSize
  <2> QED BY <2>1, <2>2, <2>3, <2>4
<1> HIDE DEF L, r, mode, G
<1> DEFINE A == {n \in Nat : n <= r => L(n) >= Mark(s, n) /\ (mode = 4 => L(n) = 8 * Mark(s, n))}
<1>6. 0 \in A
  BY <1>2
<1>7. ASSUME NEW n \in Nat, n \in A PROVE n + 1 \in A
  <2> SUFFICES ASSUME n + 1 <= r
               PROVE  L(n + 1) >= Mark(s, n + 1) /\ (mode = 4 => L(n + 1) = 8 * Mark(s, n + 1))
    BY DEF A
  <2>1. n + 1 \in 1..r /\ (n + 1) - 1 = n /\ n \in 0..r
    BY <1>1
  <2>2. /\ L(n + 1) = L(n) + Width(s, n + 1) /\ Mark(s, n + 1) = Mark(s, n) + Chunk(s, n + 1)
        /\ Width(s, n + 1) >= Chunk(s, n + 1) /\ (mode = 4 => Width(s, n + 1) = 8 * Chunk(s, n + 1))
        /\ Width(s, n + 1) \in Nat
    BY <1>5, <2>1
  <2>3. Chunk(s, n + 1) \in Nat
    <3>1. Chunk(s, n + 1) \in 1..G /\ G \in Nat
      <4>1. G \in {1, 2, 3}
        BY <1>1 DEF G, GroupSize
      <4> QED BY <1>5, <2>1, <4>1
    <3> QED BY <3>1
  <2>4. L(n) >= Mark(s, n) /\ (mode = 4 => L(n) = 8 * Mark(s, n)) /\ L(n) \in Nat /\ Mark(s, n) \in Nat
    BY <1>3, <1>4, <1>7, <2>1
  <2> QED BY <2>2, <2>3, <2>4
<1>8. \A n \in Nat : n \in A
  <2> HIDE DEF A
  <2> QED BY <1>6, <1>7, UpFromZero
<1>9. k \in Nat /\ k <= r
  BY <1>1 DEF r
<1> QED BY <1>8, <1>9 DEF L, mode

-----------------------------------------------------------------------------
(* The fields of a segment and where they stand in the payload.            *)

(* The w elements of d behind pos. *)
IsSlice(t, d, pos, w) == Len(t) = w /\ \A j \in 1..w : t[j] = d[pos + j]

(* SubSeq takes that slice. *)
LEMMA SliceAt ==
  ASSUME NEW S, NEW d \in Seq(S), NEW pos \in Nat, NEW w \in Nat, pos + w <= Len(d)
  PROVE  SubSeq(d, pos + 1, pos + w) \in Seq(S) /\ IsSlice(SubSeq(d, pos + 1, pos + w), d, pos, w)
BY DEF IsSlice

(* A field of w bits at pos is the number that was written there.          *)
LEMMA FieldRead ==
  ASSUME NEW d \in Seq(Bit), NEW pos \in Nat, NEW w \in 1..16, NEW u \in Nat, u < TwoTo[w],
         pos + w <= Len(d), \A j \in 1..w : d[pos + j] = Bits(u, w)[j]
  PROVE  Value(SubSeq(d, pos + 1, pos + w)) = u
<1>1. Bits(u, w) \in Seq(Bit) /\ Len(Bits(u, w)) = w /\ Value(Bits(u, w)) = u
  BY BitsValue
<1> DEFINE b == Bits(u, w)
           t == SubSeq(d, pos + 1, pos + w)
<1>2. t \in Seq(Bit) /\ Len(t) = w /\ \A j \in 1..w : t[j] = d[pos + j]
  <2>1. w \in Nat
    OBVIOUS
  <2>2. t \in Seq(Bit) /\ IsSlice(t, d, pos, w)
    BY <2>1, SliceAt, Zenon
  <2> QED BY <2>2, Zenon DEF IsSlice
<1>3. \A j \in 1..w : t[j] = b[j]
  BY <1>2
<1>4. b \in Seq(Bit) /\ Len(b) = w /\ Value(b) = u
  BY <1>1
<1> HIDE DEF b, t
<1>5. t = b
  BY <1>2, <1>3, <1>4
<1> QED BY <1>4, <1>5 DEF t

IsRow(t, a, b, c) ==
  /\ Len(t) = Len(a) + Len(b) + Len(c)
  /\ \A j \in 1..Len(a) : t[j] = a[j]
  /\ \A j \in 1..Len(b) : t[Len(a) + j] = b[j]
  /\ \A j \in 1..Len(c) : t[Len(a) + Len(b) + j] = c[j]

(* Three sequences put together are in a row. *)
LEMMA ThreeInARow ==
  ASSUME NEW S, NEW a \in Seq(S), NEW b \in Seq(S), NEW c \in Seq(S)
  PROVE  a \o b \o c \in Seq(S) /\ IsRow(a \o b \o c, a, b, c)
BY DEF IsRow

(* The mode, the count and the groups, one after the other.                *)
LEMMA SegmentLayout ==
  ASSUME NEW v \in ParsedVersion, NEW s \in SegmentTexts
  PROVE  LET e == EncodeSegment(v, s)
             w == StandardCountBits(v, s.mode)
             c == FlattenSeq(Coded(s))
         IN  /\ e \in Seq(Bit) /\ c \in Seq(Bit) /\ w \in 1..16 /\ Len(e) = 4 + w + Len(c)
             /\ \A j \in 1..4 : e[j] = Bits(s.mode, 4)[j]
             /\ \A j \in 1..w : e[4 + j] = Bits(Len(s.chars), w)[j]
             /\ \A j \in 1..Len(c) : e[4 + w + j] = c[j]
<1> DEFINE w == StandardCountBits(v, s.mode)
           c == FlattenSeq(Coded(s))
           a == Bits(s.mode, 4)
           b == Bits(Len(s.chars), w)
<1>1. s.mode \in Nat /\ Len(s.chars) \in Nat /\ w \in 1..16 /\ 4 \in 1..16
  BY Segment
<1>2. EncodeSegment(v, s) = a \o b \o c
  BY DEF EncodeSegment, Coded
<1>3. c \in Seq(Bit)
  <2>1. Joined(Coded(s), Len(Coded(s))) = c /\ Joined(Coded(s), Len(Coded(s))) \in Seq(Bit)
    BY CodedSeq, Joins
  <2> QED BY <2>1
<1>4. a \in Seq(Bit) /\ Len(a) = 4
  BY <1>1, BitsValue
<1>5. b \in Seq(Bit) /\ Len(b) = w
  BY <1>1, BitsValue
<1> HIDE DEF a, b, c, w
<1>6. a \o b \o c \in Seq(Bit) /\ IsRow(a \o b \o c, a, b, c)
  BY <1>3, <1>4, <1>5, ThreeInARow
<1> QED BY <1>1, <1>2, <1>3, <1>4, <1>5, <1>6 DEF a, b, c, w, IsRow

-----------------------------------------------------------------------------
(* What the payload holds.                                                 *)

SegmentBits(v, segs) == [i \in DOMAIN segs |-> EncodeSegment(v, segs[i])]

(* d begins with the text t and its terminator, as far as it goes.         *)
Carries(d, t, slack) ==
  /\ \A p \in 1..Len(t) : p <= Len(d) => d[p] = t[p]
  /\ \A p \in (Len(t) + 1)..(Len(t) + 4) : p <= Len(d) => d[p] = 0
  /\ slack >= 0 => Len(d) >= Len(t)
  /\ slack < 0 => Len(d) < Len(t)

(* A text with a terminator and padding, cut to a length, still carries   *)
(* it.                                                                    *)
LEMMA Cut ==
  ASSUME NEW t \in Seq(Bit), NEW z \in Seq(Bit), NEW p \in Seq(Bit), NEW n \in Int, NEW slack \in Int,
         t # <<>>, n <= Len(t) + 4 + Len(z) + Len(p),
         slack >= 0 => n >= Len(t), slack < 0 => n < Len(t)
  PROVE  LET d == SubSeq((t \o <<0, 0, 0, 0>>) \o z \o p, 1, n)
         IN  d \in Seq(Bit) /\ Carries(d, t, slack)
<1> DEFINE all == (t \o <<0, 0, 0, 0>>) \o z \o p
           d == SubSeq(all, 1, n)
<1>1. <<0, 0, 0, 0>> \in Seq(Bit) /\ Len(<<0, 0, 0, 0>>) = 4
  BY DEF Bit
<1>2. /\ all \in Seq(Bit) /\ Len(all) = Len(t) + 4 + Len(z) + Len(p)
      /\ \A i \in 1..Len(t) : all[i] = t[i]
      /\ \A i \in 1..4 : all[Len(t) + i] = 0
  <2> DEFINE c == t \o <<0, 0, 0, 0>>
  <2>1. /\ c \in Seq(Bit) /\ Len(c) = Len(t) + 4
        /\ \A i \in 1..Len(t) : c[i] = t[i]
        /\ \A i \in 1..4 : c[Len(t) + i] = <<0, 0, 0, 0>>[i]
    BY <1>1
  <2>2. \A i \in 1..4 : <<0, 0, 0, 0>>[i] = 0
    OBVIOUS
  <2> HIDE DEF c
  <2>3. c \o z \o p \in Seq(Bit) /\ IsRow(c \o z \o p, c, z, p)
    BY <2>1, ThreeInARow
  <2>4. all = c \o z \o p
    BY DEF c
  <2> HIDE DEF all
  <2>5. all \in Seq(Bit) /\ Len(all) = Len(t) + 4 + Len(z) + Len(p)
    BY <2>1, <2>3, <2>4 DEF IsRow
  <2>6. \A i \in 1..Len(c) : all[i] = c[i]
    BY <2>3, <2>4 DEF IsRow
  <2>7. \A i \in 1..Len(t) : all[i] = t[i]
    BY <2>1, <2>6
  <2>8. \A i \in 1..4 : all[Len(t) + i] = 0
    BY <2>1, <2>2, <2>6
  <2> QED BY <2>5, <2>7, <2>8
<1> HIDE DEF all
<1>3. d \in Seq(Bit) /\ Len(d) = (IF n >= 0 THEN n ELSE 0) /\ \A i \in 1..Len(d) : d[i] = all[i]
  <2>1. CASE n >= 1
    BY <1>2, <2>1
  <2>2. CASE n < 1
    <3>1. d = <<>>
      BY <1>2, <2>2
    <3> QED BY <2>2, <3>1
  <2> QED BY <2>1, <2>2
<1>4. Len(t) \in Nat \ {0} /\ Len(d) \in Nat
  BY <1>3
<1> HIDE DEF d
<1>5. \A i \in 1..Len(t) : i <= Len(d) => d[i] = t[i]
  BY <1>2, <1>3, <1>4
<1>6. \A i \in (Len(t) + 1)..(Len(t) + 4) : i <= Len(d) => d[i] = 0
  <2> TAKE i \in (Len(t) + 1)..(Len(t) + 4)
  <2> HAVE i <= Len(d)
  <2>1. i - Len(t) \in 1..4 /\ Len(t) + (i - Len(t)) = i /\ i \in 1..Len(d)
    BY <1>4, SMTT(30)
  <2> QED BY <1>2, <1>3, <2>1
<1>7. (slack >= 0 => Len(d) >= Len(t)) /\ (slack < 0 => Len(d) < Len(t))
  BY <1>3, <1>4
<1> QED BY <1>3, <1>5, <1>6, <1>7 DEF Carries, d, all

(* The encoded segments are sequences of bits, one for each segment.      *)
LEMMA SegmentBitsSeq ==
  ASSUME NEW v \in ParsedVersion, NEW segs \in Seq(SegmentTexts)
  PROVE  /\ SegmentBits(v, segs) \in Seq(Seq(Bit)) /\ Len(SegmentBits(v, segs)) = Len(segs)
         /\ \A i \in 1..Len(segs) : SegmentBits(v, segs)[i] = EncodeSegment(v, segs[i])
<1>1. \A i \in 1..Len(segs) : EncodeSegment(v, segs[i]) \in Seq(Bit)
  BY SegmentLayout
<1> QED BY <1>1 DEF SegmentBits

(* What the encoder wrote carries the bits of its segments. *)
LEMMA Payload ==
  ASSUME NEW v \in ParsedVersion, NEW segs \in Seq(SegmentTexts), segs # <<>>, NEW slack \in Int
  PROVE  /\ FlattenSeq(SegmentBits(v, segs)) \in Seq(Bit)
         /\ Encoded(v, segs, slack) \in Seq(Bit)
         /\ Carries(Encoded(v, segs, slack), FlattenSeq(SegmentBits(v, segs)), slack)
<1> DEFINE t == FlattenSeq(SegmentBits(v, segs))
           z == [i \in 1..((-Len(t \o <<0, 0, 0, 0>>)) % 8) |-> 0]
           m == Max({slack, 1})
           p == [i \in 1..(8 * m) |-> PadCodewords[((i - 1) % 16) + 1]]
           n == 8 * ((Len(t) + 7) \div 8 + slack)
<1>1. Encoded(v, segs, slack) = SubSeq((t \o <<0, 0, 0, 0>>) \o z \o p, 1, n)
  BY DEF Encoded, SegmentBits
<1>2. t \in Seq(Bit) /\ Len(t) \in Nat \ {0} /\ t # <<>>
  <2>1. 1 \in 1..Len(SegmentBits(v, segs)) /\ SegmentBits(v, segs) \in Seq(Seq(Bit))
    BY SegmentBitsSeq
  <2>2. /\ Joined(SegmentBits(v, segs), 1 - 1) \in Seq(Bit) /\ t \in Seq(Bit)
        /\ Len(Joined(SegmentBits(v, segs), 1)) = Len(Joined(SegmentBits(v, segs), 1 - 1)) + Len(SegmentBits(v, segs)[1])
        /\ Len(Joined(SegmentBits(v, segs), 1)) <= Len(t)
    BY <2>1, JoinedAt
  <2>3. SegmentBits(v, segs)[1] = EncodeSegment(v, segs[1]) /\ segs[1] \in SegmentTexts
    BY <2>1, SegmentBitsSeq
  <2>4. Len(EncodeSegment(v, segs[1])) > 0 /\ Len(EncodeSegment(v, segs[1])) \in Nat
    <3>1. /\ Len(EncodeSegment(v, segs[1])) = 4 + StandardCountBits(v, segs[1].mode) + Len(FlattenSeq(Coded(segs[1])))
          /\ FlattenSeq(Coded(segs[1])) \in Seq(Bit) /\ StandardCountBits(v, segs[1].mode) \in 1..16
      BY <2>3, SegmentLayout
    <3>2. Len(FlattenSeq(Coded(segs[1]))) \in Nat
      BY <3>1
    <3>3. \A a \in 1..16, c \in Nat : 4 + a + c \in Nat /\ 4 + a + c > 0
      OBVIOUS
    <3> QED BY <3>1, <3>2, <3>3
  <2>5. Len(Joined(SegmentBits(v, segs), 1 - 1)) \in Nat /\ Len(t) \in Nat
    BY <2>2
  <2>6. Len(t) > 0
    <3> HIDE DEF t
    <3> QED BY <2>2, <2>3, <2>4, <2>5
  <2> QED BY <2>2, <2>5, <2>6
<1> HIDE DEF t
<1>3. m \in Nat \ {0} /\ m = IF slack >= 1 THEN slack ELSE 1
  <2> DEFINE q == IF slack >= 1 THEN slack ELSE 1
  <2>1. q \in {slack, 1} /\ \A y \in {slack, 1} : y <= q
    OBVIOUS
  <2>2. \A x \in {slack, 1} : (\A y \in {slack, 1} : y <= x) => x = q
    OBVIOUS
  <2> HIDE DEF q
  <2>3. m = q
    BY <2>1, <2>2 DEF Max
  <2> QED BY <2>3 DEF q
<1> HIDE DEF m
<1>4. z \in Seq(Bit) /\ Len(z) = (-(Len(t) + 4)) % 8
  <2>1. Len(t \o <<0, 0, 0, 0>>) = Len(t) + 4
    BY <1>2
  <2>2. (-(Len(t) + 4)) % 8 \in Nat
    BY <1>2
  <2> QED BY <2>1, <2>2 DEF Bit
<1>5. p \in Seq(Bit) /\ Len(p) = 8 * m
  <2>1. \A i \in 1..(8 * m) : PadCodewords[((i - 1) % 16) + 1] \in Bit
    <3>1. \A j \in 1..16 : PadCodewords[j] \in Bit
      BY DEF PadCodewords, Bit
    <3>2. \A i \in 1..(8 * m) : ((i - 1) % 16) + 1 \in 1..16
      BY <1>3
    <3> QED BY <3>1, <3>2
  <2>2. 8 * m \in Nat
    BY <1>3
  <2> QED BY <2>1, <2>2
<1>6. /\ n \in Int /\ n <= Len(t) + 4 + Len(z) + Len(p)
      /\ (slack >= 0 => n >= Len(t)) /\ (slack < 0 => n < Len(t))
  <2> DEFINE len == Len(t)
             lz == Len(z)
             lp == Len(p)
  <2>1. len \in Nat \ {0} /\ lz = (-(len + 4)) % 8 /\ lp = 8 * (IF slack >= 1 THEN slack ELSE 1)
    BY <1>2, <1>3, <1>4, <1>5
  <2>2. n = 8 * ((len + 7) \div 8 + slack)
    OBVIOUS
  <2> HIDE DEF len, lz, lp, n
  <2>3. /\ n \in Int /\ n <= len + 4 + lz + lp
        /\ (slack >= 0 => n >= len) /\ (slack < 0 => n < len)
    BY <2>1, <2>2
  <2> QED BY <2>3 DEF len, lz, lp
<1> HIDE DEF z, p, n
<1>7. LET d == SubSeq((t \o <<0, 0, 0, 0>>) \o z \o p, 1, n) IN d \in Seq(Bit) /\ Carries(d, t, slack)
  BY <1>2, <1>4, <1>5, <1>6, Cut
<1> QED BY <1>1, <1>2, <1>7 DEF t

-----------------------------------------------------------------------------
(* What the parser reads where a field begins.                             *)

(* The bits in front of segment i + 1. *)
Start(v, segs, i) == Len(Joined(SegmentBits(v, segs), i))
(* The bits of a segment in front of its groups, and of its group k + 1.   *)
GroupStart(v, s, k) == 4 + StandardCountBits(v, s.mode) + Len(Joined(Coded(s), k))

(* The number the parser reads in the next w bits. *)
Read(d, pos, w) == Value(SubSeq(d, pos + 1, pos + w))

(* A segment stands where the ones before it end. *)
LEMMA StartSteps ==
  ASSUME NEW v \in ParsedVersion, NEW segs \in Seq(SegmentTexts), NEW i \in 1..Len(segs)
  PROVE  LET s == segs[i]
             t == FlattenSeq(SegmentBits(v, segs))
             b == Start(v, segs, i - 1)
             e == EncodeSegment(v, s)
         IN  /\ b \in Nat /\ Start(v, segs, i) = b + Len(e) /\ Len(e) \in Nat
             /\ Start(v, segs, i) <= Len(t) /\ Len(t) \in Nat
             /\ \A j \in 1..Len(e) : t[b + j] = e[j]
<1> DEFINE ss == SegmentBits(v, segs)
           t == FlattenSeq(ss)
<1>1. ss \in Seq(Seq(Bit)) /\ i \in 1..Len(ss) /\ ss[i] = EncodeSegment(v, segs[i])
  BY SegmentBitsSeq
<1> HIDE DEF ss
<1>2. /\ Joined(ss, i - 1) \in Seq(Bit) /\ ss[i] \in Seq(Bit) /\ FlattenSeq(ss) \in Seq(Bit)
      /\ Len(Joined(ss, i)) = Len(Joined(ss, i - 1)) + Len(ss[i])
      /\ Len(Joined(ss, i)) <= Len(FlattenSeq(ss))
      /\ \A j \in 1..Len(ss[i]) : FlattenSeq(ss)[Len(Joined(ss, i - 1)) + j] = ss[i][j]
  BY <1>1, JoinedAt
<1> QED BY <1>1, <1>2 DEF Start, ss

(* The bits of e behind q are those of the number u. *)
Holds(e, q, w, u) ==
  /\ q \in Nat /\ w \in 1..16 /\ u \in Nat
  /\ u < TwoTo[w] /\ q + w <= Len(e)
  /\ \A j \in 1..w : e[q + j] = Bits(u, w)[j]

(* A number that stands in a segment is what the parser reads there.      *)
LEMMA FieldOfSegment ==
  ASSUME NEW v \in ParsedVersion, NEW segs \in Seq(SegmentTexts), NEW i \in 1..Len(segs),
         NEW slack \in Int, NEW d \in Seq(Bit), NEW q, NEW w, NEW u,
         Carries(d, FlattenSeq(SegmentBits(v, segs)), slack),
         Holds(EncodeSegment(v, segs[i]), q, w, u),
         Start(v, segs, i - 1) + q + w <= Len(d)
  PROVE  Read(d, Start(v, segs, i - 1) + q, w) = u
<1> DEFINE b == Start(v, segs, i - 1)
           t == FlattenSeq(SegmentBits(v, segs))
           e == EncodeSegment(v, segs[i])
<1>1. /\ b \in Nat /\ Start(v, segs, i) = b + Len(e) /\ Len(e) \in Nat
      /\ Start(v, segs, i) <= Len(t) /\ Len(t) \in Nat
      /\ \A j \in 1..Len(e) : t[b + j] = e[j]
  BY StartSteps
<1>2. /\ q \in Nat /\ w \in 1..16 /\ u \in Nat /\ u < TwoTo[w]
      /\ q + w <= Len(e) /\ \A j \in 1..w : e[q + j] = Bits(u, w)[j]
  BY DEF Holds
<1>3. Carries(d, t, slack) /\ b + q + w <= Len(d)
  OBVIOUS
<1> HIDE DEF b, t, e
<1>4. ASSUME NEW j \in 1..w PROVE d[(b + q) + j] = Bits(u, w)[j]
  <2>1. q + j \in 1..Len(e) /\ b + (q + j) = (b + q) + j /\ (b + q) + j \in 1..Len(t) /\ (b + q) + j <= Len(d)
    BY <1>1, <1>2, <1>3
  <2>2. d[(b + q) + j] = t[(b + q) + j]
    BY <1>3, <2>1 DEF Carries
  <2>3. t[(b + q) + j] = e[q + j]
    BY <1>1, <2>1
  <2> QED BY <1>2, <2>2, <2>3
<1>5. b + q \in Nat /\ (b + q) + w <= Len(d)
  BY <1>1, <1>2, <1>3
<1>6. Value(SubSeq(d, (b + q) + 1, (b + q) + w)) = u
  BY <1>2, <1>4, <1>5, FieldRead
<1> QED BY <1>6 DEF Read, b

(* The groups stand one behind the other, and the last ends the segment.  *)
LEMMA GroupStarts ==
  ASSUME NEW v \in ParsedVersion, NEW s \in SegmentTexts
  PROVE  /\ Rounds(s) \in Nat
         /\ GroupStart(v, s, 0) = 4 + StandardCountBits(v, s.mode)
         /\ GroupStart(v, s, Rounds(s)) = Len(EncodeSegment(v, s))
         /\ \A k \in 0..Rounds(s) : /\ GroupStart(v, s, k) \in Nat
                                    /\ GroupStart(v, s, k) <= GroupStart(v, s, Rounds(s))
         /\ \A k \in 1..Rounds(s) : GroupStart(v, s, k) = GroupStart(v, s, k - 1) + Width(s, k)
         /\ GroupStart(v, s, Rounds(s)) >= 4 + StandardCountBits(v, s.mode) + Len(s.chars)
         /\ s.mode = 4 => GroupStart(v, s, Rounds(s)) = 4 + StandardCountBits(v, s.mode) + 8 * Len(s.chars)
<1> DEFINE w == StandardCountBits(v, s.mode)
           r == Rounds(s)
           L(k) == Len(Joined(Coded(s), k))
           f == FlattenSeq(Coded(s))
           len == Len(s.chars)
<1>1. r \in Nat /\ Coded(s) \in Seq(Seq(Bit)) /\ Len(Coded(s)) = r
  BY CodedSeq
<1>2. w \in 1..16 /\ f \in Seq(Bit) /\ Len(EncodeSegment(v, s)) = 4 + w + Len(f)
  BY SegmentLayout
<1>3. L(0) = 0 /\ L(r) = Len(f)
  <2>1. Joined(Coded(s), 0) = <<>> /\ Joined(Coded(s), r) = f
    BY <1>1, Joins
  <2> QED BY <2>1
<1>4. ASSUME NEW k \in 0..r PROVE L(k) \in Nat /\ L(k) <= L(r)
  <2>1. Joined(Coded(s), k) \in Seq(Bit)
    BY <1>1, Joins
  <2>2. Begins(Joined(Coded(s), k), f)
    BY <1>1, JoinedBegins
  <2> QED BY <1>3, <2>1, <2>2 DEF Begins
<1>5. ASSUME NEW k \in 1..r PROVE L(k) = L(k - 1) + Width(s, k) /\ Width(s, k) \in Nat
  <2>1. L(k) = L(k - 1) + Len(Coded(s)[k])
    BY <1>1, JoinedAt
  <2>2. Len(Coded(s)[k]) = Width(s, k) /\ Width(s, k) \in 1..16
    BY CodedGroup
  <2> QED BY <2>1, <2>2
<1>6. L(r) >= len /\ (s.mode = 4 => L(r) = 8 * len)
  <2>1. r \in 0..r
    BY <1>1
  <2>2. L(r) >= Mark(s, r) /\ (s.mode = 4 => L(r) = 8 * Mark(s, r))
    BY <2>1, CodedLength
  <2>3. Mark(s, r) = len
    BY Segment, Marks
  <2> QED BY <2>2, <2>3
<1>7. \A k : GroupStart(v, s, k) = 4 + w + L(k)
  BY DEF GroupStart
<1>8. len \in Nat
  BY Segment
<1>9. \A k \in 1..r : k \in 0..r /\ k - 1 \in 0..r
  BY <1>1
<1> HIDE DEF w, r, L, f, len
<1>10. L(r) \in Nat /\ L(0) \in Nat
  BY <1>1, <1>4
<1>11. \A k \in 0..r : 4 + w + L(k) \in Nat /\ 4 + w + L(k) <= 4 + w + L(r)
  BY <1>2, <1>4, <1>10
<1>12. \A k \in 1..r : 4 + w + L(k) = (4 + w + L(k - 1)) + Width(s, k)
  BY <1>2, <1>4, <1>5, <1>9
<1>13. 4 + w + L(0) = 4 + w /\ 4 + w + L(r) >= 4 + w + len /\ (s.mode = 4 => 4 + w + L(r) = 4 + w + 8 * len)
  BY <1>2, <1>3, <1>6, <1>8, <1>10
<1>14. 4 + w + L(r) = Len(EncodeSegment(v, s))
  BY <1>2, <1>3
<1> QED BY <1>1, <1>7, <1>11, <1>12, <1>13, <1>14, Zenon DEF w, r, len

(* A segment begins with its mode. *)
LEMMA ModeHolds ==
  ASSUME NEW v \in ParsedVersion, NEW s \in SegmentTexts
  PROVE  Holds(EncodeSegment(v, s), 0, 4, s.mode)
<1> DEFINE e == EncodeSegment(v, s)
<1>1. s.mode \in {1, 2, 4}
  BY Segment
<1>2. s.mode \in Nat /\ s.mode < TwoTo[4]
  BY <1>1 DEF TwoTo
<1>3. \A j \in 1..4 : e[j] = Bits(s.mode, 4)[j]
  BY SegmentLayout
<1>4. Len(e) \in Nat /\ Len(e) >= 4
  <2>1. /\ StandardCountBits(v, s.mode) \in 1..16 /\ FlattenSeq(Coded(s)) \in Seq(Bit)
        /\ Len(e) = 4 + StandardCountBits(v, s.mode) + Len(FlattenSeq(Coded(s)))
    BY SegmentLayout
  <2> QED BY <2>1, SMTT(30)
<1> HIDE DEF e
<1>5. \A j \in 1..4 : e[0 + j] = Bits(s.mode, 4)[j]
  BY <1>3
<1> QED BY <1>2, <1>4, <1>5 DEF Holds, e

(* Behind the mode is the number of characters. *)
LEMMA CountHolds ==
  ASSUME NEW v \in ParsedVersion, NEW s \in SegmentTexts
  PROVE  Holds(EncodeSegment(v, s), 4, StandardCountBits(v, s.mode), Len(s.chars))
<1> DEFINE e == EncodeSegment(v, s)
           w == StandardCountBits(v, s.mode)
<1>1. Len(s.chars) \in Nat /\ w \in 1..16 /\ Len(s.chars) < TwoTo[w]
  BY Segment
<1>2. \A j \in 1..w : e[4 + j] = Bits(Len(s.chars), w)[j]
  BY SegmentLayout
<1>3. 4 + w <= Len(e)
  <2>1. /\ w \in 1..16 /\ FlattenSeq(Coded(s)) \in Seq(Bit)
        /\ Len(e) = 4 + w + Len(FlattenSeq(Coded(s)))
    BY SegmentLayout
  <2> QED BY <2>1, SMTT(30)
<1> HIDE DEF e, w
<1> QED BY <1>1, <1>2, <1>3 DEF Holds, e, w

(* Where a group begins there is the number it is written as. *)
LEMMA GroupHolds ==
  ASSUME NEW v \in ParsedVersion, NEW s \in SegmentTexts, NEW k \in 1..Rounds(s)
  PROVE  \E u \in Nat : /\ Holds(EncodeSegment(v, s), GroupStart(v, s, k - 1), Width(s, k), u)
                        /\ s.mode = 2 => u < <<45, 2025>>[Chunk(s, k)]
                        /\ Chars(s.mode, Chunk(s, k), u) = Groups(s)[k]
<1> DEFINE e == EncodeSegment(v, s)
           q == GroupStart(v, s, k - 1)
           h == 4 + StandardCountBits(v, s.mode)
           w == Width(s, k)
           g == Coded(s)[k]
           f == FlattenSeq(Coded(s))
           L == Len(Joined(Coded(s), k - 1))
           M == Len(Joined(Coded(s), k))
<1>1. PICK u \in Nat : /\ u < TwoTo[w] /\ g = Bits(u, w)
                       /\ s.mode = 2 => u < <<45, 2025>>[Chunk(s, k)]
                       /\ Chars(s.mode, Chunk(s, k), u) = Groups(s)[k]
  BY CodedGroup
<1>2. w \in 1..16 /\ Len(g) = w
  BY CodedGroup
<1>3. k \in 1..Len(Coded(s)) /\ Coded(s) \in Seq(Seq(Bit))
  BY CodedSeq
<1>4. /\ Joined(Coded(s), k - 1) \in Seq(Bit) /\ f \in Seq(Bit)
      /\ M = L + Len(g) /\ M <= Len(f)
      /\ \A n \in 1..Len(g) : f[L + n] = g[n]
  BY <1>3, JoinedAt
<1>5. L \in Nat /\ Len(f) \in Nat
  BY <1>4
<1>6. h \in Nat /\ q = h + L /\ Len(e) = h + Len(f) /\ \A n \in 1..Len(f) : e[h + n] = f[n]
  <2>1. /\ StandardCountBits(v, s.mode) \in 1..16
        /\ Len(e) = 4 + StandardCountBits(v, s.mode) + Len(f)
        /\ \A n \in 1..Len(f) : e[4 + StandardCountBits(v, s.mode) + n] = f[n]
    BY SegmentLayout
  <2> QED BY <2>1, SMTT(30) DEF GroupStart
<1>7. M = L + w /\ \A n \in 1..w : f[L + n] = g[n]
  BY <1>2, <1>4
<1>8. M <= Len(f)
  BY <1>4
<1> HIDE DEF e, q, h, w, g, f, L, M
<1>9. q \in Nat /\ q + w <= Len(e)
  BY <1>2, <1>5, <1>6, <1>7, <1>8
<1>10. ASSUME NEW j \in 1..w PROVE e[q + j] = Bits(u, w)[j]
  <2>1. L + j \in 1..Len(f) /\ h + (L + j) = q + j
    BY <1>2, <1>5, <1>6, <1>7, <1>8
  <2>2. e[q + j] = f[L + j]
    BY <1>6, <2>1
  <2>3. f[L + j] = g[j]
    BY <1>7
  <2> QED BY <1>1, <2>2, <2>3
<1>11. Holds(e, q, w, u)
  BY <1>1, <1>2, <1>9, <1>10 DEF Holds
<1> QED BY <1>1, <1>11 DEF e, q, w

-----------------------------------------------------------------------------
(* The text of the first segments.                                         *)

Character == UNION {Characters(mode) : mode \in {1, 2, 4}}
CharsOf(segs) == [i \in DOMAIN segs |-> segs[i].chars]
TextTo(segs, i) == Joined(CharsOf(segs), i)

(* The texts of the segments, none of which is empty. *)
LEMMA CharsOfSeq ==
  ASSUME NEW v \in ParsedVersion, NEW segs \in Seq(SegmentTexts)
  PROVE  /\ CharsOf(segs) \in Seq(Seq(Character)) /\ Len(CharsOf(segs)) = Len(segs)
         /\ \A i \in 1..Len(segs) : /\ CharsOf(segs)[i] = segs[i].chars
                                    /\ segs[i].chars \in Seq(Character) /\ Len(segs[i].chars) \in Nat \ {0}
<1>1. ASSUME NEW s \in SegmentTexts PROVE s.chars \in Seq(Character) /\ Len(s.chars) \in Nat \ {0}
  <2>1. s.mode \in {1, 2, 4} /\ s.chars \in Seq(Characters(s.mode)) /\ Len(s.chars) \in Nat \ {0}
    BY Segment
  <2>2. Characters(s.mode) \subseteq Character
    BY <2>1 DEF Character
  <2>3. ASSUME NEW A, NEW B, A \subseteq B, NEW c \in Seq(A) PROVE c \in Seq(B)
    BY <2>3
  <2> QED BY <2>1, <2>2, <2>3
<1>2. \A i \in 1..Len(segs) : segs[i] \in SegmentTexts
  OBVIOUS
<1> QED BY <1>1, <1>2 DEF CharsOf

(* A segment adds its characters to the text in front of it. *)
LEMMA TextSteps ==
  ASSUME NEW v \in ParsedVersion, NEW segs \in Seq(SegmentTexts)
  PROVE  /\ TextTo(segs, 0) = <<>> /\ TextTo(segs, Len(segs)) = Text(segs)
         /\ \A i \in 1..Len(segs) : /\ TextTo(segs, i) = TextTo(segs, i - 1) \o segs[i].chars
                                    /\ TextTo(segs, i) # <<>>
         /\ \A i \in 0..Len(segs) : TextTo(segs, i) \in Seq(Character)
<1> DEFINE c == CharsOf(segs)
<1>1. /\ c \in Seq(Seq(Character)) /\ Len(c) = Len(segs)
      /\ \A i \in 1..Len(segs) : c[i] = segs[i].chars /\ c[i] \in Seq(Character) /\ Len(c[i]) \in Nat \ {0}
  BY CharsOfSeq
<1>2. Text(segs) = FlattenSeq(c)
  BY DEF Text, CharsOf
<1> HIDE DEF c
<1>3. /\ Joined(c, 0) = <<>> /\ Joined(c, Len(c)) = FlattenSeq(c)
      /\ \A k \in 0..Len(c) : Joined(c, k) \in Seq(Character)
      /\ \A k \in 0..Len(c) : k # Len(c) => Joined(c, k + 1) = Joined(c, k) \o c[k + 1]
  BY <1>1, Joins
<1>4. ASSUME NEW i \in 1..Len(c) PROVE Joined(c, i) = Joined(c, i - 1) \o c[i] /\ Joined(c, i) # <<>>
  <2>1. i - 1 \in 0..Len(c) /\ i - 1 # Len(c) /\ (i - 1) + 1 = i
    OBVIOUS
  <2>2. Joined(c, i) = Joined(c, i - 1) \o c[i]
    BY <1>3, <2>1
  <2>3. c[i] \in Seq(Character) /\ Len(c[i]) # 0 /\ Joined(c, i - 1) \in Seq(Character)
    BY <1>1, <1>3, <2>1
  <2>4. \A a, b \in Seq(Character) : Len(b) # 0 => a \o b # <<>>
    OBVIOUS
  <2> QED BY <2>2, <2>3, <2>4
<1> QED BY <1>1, <1>2, <1>3, <1>4 DEF TextTo, c

(* The text of the first i segments is that of a payload of only those.   *)
LEMMA TextOfFirst ==
  ASSUME NEW v \in ParsedVersion, NEW segs \in Seq(SegmentTexts), NEW i \in 1..Len(segs)
  PROVE  Text(SubSeq(segs, 1, i)) = TextTo(segs, i)
<1>1. CharsOf(SubSeq(segs, 1, i)) = SubSeq(CharsOf(segs), 1, i)
  <2>1. /\ SubSeq(segs, 1, i) \in Seq(SegmentTexts) /\ Len(SubSeq(segs, 1, i)) = i
        /\ \A j \in 1..i : SubSeq(segs, 1, i)[j] = segs[j]
    OBVIOUS
  <2>2. /\ Len(CharsOf(SubSeq(segs, 1, i))) = i /\ CharsOf(SubSeq(segs, 1, i)) \in Seq(Seq(Character))
        /\ \A j \in 1..i : CharsOf(SubSeq(segs, 1, i))[j] = segs[j].chars
    <3> DEFINE p == SubSeq(segs, 1, i)
    <3>1. p \in Seq(SegmentTexts) /\ Len(p) = i /\ \A j \in 1..i : p[j] = segs[j]
      BY <2>1
    <3> HIDE DEF p
    <3>2. /\ CharsOf(p) \in Seq(Seq(Character)) /\ Len(CharsOf(p)) = Len(p)
          /\ \A j \in 1..Len(p) : CharsOf(p)[j] = p[j].chars
      BY <3>1, CharsOfSeq
    <3> QED BY <3>1, <3>2 DEF p
  <2>3. /\ CharsOf(segs) \in Seq(Seq(Character)) /\ Len(CharsOf(segs)) = Len(segs)
        /\ \A j \in 1..i : CharsOf(segs)[j] = segs[j].chars
    BY CharsOfSeq
  <2> DEFINE a == CharsOf(SubSeq(segs, 1, i))
             c == CharsOf(segs)
             m == Len(segs)
  <2>4. i \in 1..m /\ m \in Nat
    OBVIOUS
  <2>5. /\ a \in Seq(Seq(Character)) /\ Len(a) = i /\ c \in Seq(Seq(Character)) /\ Len(c) = m
        /\ \A j \in 1..i : a[j] = c[j]
    BY <2>2, <2>3
  <2> HIDE DEF a, c, m
  <2>6. a = SubSeq(c, 1, i)
    <3>1. SubSeq(c, 1, i) \in Seq(Seq(Character)) /\ Len(SubSeq(c, 1, i)) = i /\ \A j \in 1..i : SubSeq(c, 1, i)[j] = c[j]
      BY <2>4, <2>5
    <3> QED BY <2>5, <3>1
  <2> QED BY <2>6 DEF a, c
<1>2. Text(SubSeq(segs, 1, i)) = FlattenSeq(CharsOf(SubSeq(segs, 1, i)))
  BY DEF Text, CharsOf
<1> QED BY <1>1, <1>2 DEF TextTo, Joined

(* It is a prefix of the whole text. *)
LEMMA PrefixOfText ==
  ASSUME NEW v \in ParsedVersion, NEW segs \in Seq(SegmentTexts), NEW i \in 0..Len(segs)
  PROVE  IsPrefix(TextTo(segs, i), Text(segs))
<1> DEFINE a == TextTo(segs, i)
           b == Text(segs)
<1>1. a \in Seq(Character) /\ b \in Seq(Character)
  <2>1. Len(segs) \in 0..Len(segs)
    OBVIOUS
  <2> QED BY <2>1, TextSteps
<1>2. Begins(a, b)
  <2>1. CharsOf(segs) \in Seq(Seq(Character)) /\ i \in 0..Len(CharsOf(segs))
    BY CharsOfSeq
  <2>2. b = FlattenSeq(CharsOf(segs))
    BY DEF Text, CharsOf
  <2> QED BY <2>1, <2>2, JoinedBegins DEF TextTo
<1> HIDE DEF a, b
<1>3. Len(a) <= Len(b) /\ SubSeq(a, 1, Len(a)) = SubSeq(b, 1, Len(a))
  <2>1. /\ Len(SubSeq(a, 1, Len(a))) = Len(a) /\ Len(SubSeq(b, 1, Len(a))) = Len(a)
        /\ SubSeq(a, 1, Len(a)) \in Seq(Character) /\ SubSeq(b, 1, Len(a)) \in Seq(Character)
    BY <1>1, <1>2 DEF Begins
  <2>2. \A j \in 1..Len(a) : SubSeq(a, 1, Len(a))[j] = a[j] /\ SubSeq(b, 1, Len(a))[j] = b[j]
    BY <1>1, <1>2 DEF Begins
  <2> QED BY <1>2, <2>1, <2>2 DEF Begins
<1> QED BY <1>3 DEF IsPrefix, a, b

-----------------------------------------------------------------------------
(* The parser between two fields.                                          *)

ParserState ==
  [pos : Nat, mode : {0, 1, 2, 4}, n : Nat, out : Seq(Character), best : Seq(Character)]

(* The offer kept after i segments. *)
BestTo(segs, i, best) ==
  /\ best = NoText \/ \E j \in 1..i : best = TextTo(segs, j)
  /\ i = Len(segs) => best = TextTo(segs, i)

AtMode(v, segs, p, i) ==
  /\ i \in 0..Len(segs)
  /\ p.pos = Start(v, segs, i) /\ p.out = TextTo(segs, i) /\ BestTo(segs, i, p.best)

AtCount(v, segs, p, i) ==
  /\ i \in 1..Len(segs)
  /\ p.pos = Start(v, segs, i - 1) + 4 /\ p.mode = segs[i].mode
  /\ p.out = TextTo(segs, i - 1) /\ BestTo(segs, i - 1, p.best)

AtGroup(v, segs, p, i, k) ==
  /\ i \in 1..Len(segs) /\ k \in 0..Rounds(segs[i])
  /\ p.pos = Start(v, segs, i - 1) + GroupStart(v, segs[i], k) /\ p.mode = segs[i].mode
  /\ p.n = Len(segs[i].chars) - Mark(segs[i], k)
  /\ p.out = TextTo(segs, i - 1) \o SubSeq(segs[i].chars, 1, Mark(segs[i], k))
  /\ BestTo(segs, i - 1, p.best)

(* What the encoder was given and what it wrote. *)
Opened(v, segs, slack, d) ==
  /\ v \in ParsedVersion /\ segs \in Seq(SegmentTexts) /\ segs # <<>> /\ slack \in Int
  /\ d = Encoded(v, segs, slack)

Chosen ==
  /\ Opened(ver, payload.segs, payload.slack, data)
  /\ payload.parses \subseteq 1..Len(payload.segs) /\ Len(payload.segs) \in payload.parses

Parsing == stage \in {"mode", "count", "data", "done"}

(* A payload was chosen, and the parser stands in front of one of its      *)
(* fields, with what it has read.                                          *)
ParserInv ==
  /\ ~ Parsing => parser = [pos |-> 0, mode |-> 0, n |-> 0, out |-> NoText, best |-> NoText]
  /\ Parsing => Chosen /\ parser \in ParserState /\ parser.pos <= Len(data)
  /\ stage = "mode" => \E i \in 0..Len(payload.segs) : AtMode(ver, payload.segs, parser, i)
  /\ stage = "count" => \E i \in 1..Len(payload.segs) : AtCount(ver, payload.segs, parser, i)
  /\ stage = "data" => \E i \in 1..Len(payload.segs) :
                         \E k \in 0..Rounds(payload.segs[i]) : AtGroup(ver, payload.segs, parser, i, k)
  /\ OfferComesBack

-----------------------------------------------------------------------------
(* What a read gives in each place, whatever the state of the rest.        *)

LEMMA Room ==
  ASSUME NEW v, NEW segs, NEW slack, NEW d, Opened(v, segs, slack, d)
  PROVE  /\ d \in Seq(Bit) /\ Len(d) \in Nat /\ Len(segs) \in Nat \ {0}
         /\ Carries(d, FlattenSeq(SegmentBits(v, segs)), slack)
         /\ Start(v, segs, 0) = 0
         /\ \A i \in 0..Len(segs) : Start(v, segs, i) \in Nat /\ (slack >= 0 => Start(v, segs, i) <= Len(d))
         /\ Start(v, segs, Len(segs)) = Len(FlattenSeq(SegmentBits(v, segs)))
         /\ \A i \in 1..Len(segs) : /\ segs[i] \in SegmentTexts
                                    /\ Start(v, segs, i) = Start(v, segs, i - 1) + GroupStart(v, segs[i], Rounds(segs[i]))
<1> DEFINE ss == SegmentBits(v, segs)
           t == FlattenSeq(ss)
           m == Len(segs)
<1>1. /\ v \in ParsedVersion /\ segs \in Seq(SegmentTexts) /\ segs # <<>> /\ slack \in Int
      /\ d = Encoded(v, segs, slack)
  BY DEF Opened
<1>2. m \in Nat \ {0} /\ \A i \in 1..m : segs[i] \in SegmentTexts
  BY <1>1
<1>3. d \in Seq(Bit) /\ t \in Seq(Bit) /\ Carries(d, t, slack)
  BY <1>1, Payload
<1>4. ss \in Seq(Seq(Bit)) /\ Len(ss) = m
  BY <1>1, SegmentBitsSeq
<1>5. Start(v, segs, 0) = 0 /\ Start(v, segs, m) = Len(t)
  <2>1. Joined(ss, 0) = <<>> /\ Joined(ss, m) = t
    BY <1>4, Joins
  <2> QED BY <2>1 DEF Start
<1>6. ASSUME NEW i \in 0..m PROVE Start(v, segs, i) \in Nat /\ (slack >= 0 => Start(v, segs, i) <= Len(d))
  <2>1. Joined(ss, i) \in Seq(Bit)
    BY <1>4, Joins
  <2>2. Begins(Joined(ss, i), t)
    BY <1>4, JoinedBegins
  <2>3. Start(v, segs, i) \in Nat /\ Start(v, segs, i) <= Len(t)
    BY <2>1, <2>2 DEF Start, Begins
  <2>4. Len(t) \in Nat /\ Len(d) \in Nat /\ (slack >= 0 => Len(d) >= Len(t))
    BY <1>3 DEF Carries
  <2> QED BY <2>3, <2>4
<1>7. ASSUME NEW i \in 1..m
      PROVE  Start(v, segs, i) = Start(v, segs, i - 1) + GroupStart(v, segs[i], Rounds(segs[i]))
  <2>1. Start(v, segs, i) = Start(v, segs, i - 1) + Len(EncodeSegment(v, segs[i]))
    BY <1>1, StartSteps
  <2>2. GroupStart(v, segs[i], Rounds(segs[i])) = Len(EncodeSegment(v, segs[i]))
    BY <1>1, <1>2, GroupStarts
  <2> QED BY <2>1, <2>2
<1>8. Len(d) \in Nat
  BY <1>3
<1> QED BY <1>2, <1>3, <1>5, <1>6, <1>7, <1>8

(* The bits of zero. *)
LEMMA ZeroBits ==
  ASSUME NEW z \in {0}, NEW w \in {4}
  PROVE  \A j \in 1..4 : Bits(z, w)[j] = 0
<1>1. z \in Nat /\ w \in Nat
  OBVIOUS
<1>2. PICK f \in [0..w -> Nat] :
        /\ f[0] = z /\ \A k \in 1..w : f[k] = f[k - 1] \div 2
        /\ Bits(z, w) = [i \in 1..w |-> f[w - i] % 2]
  BY <1>1, BitsSteps
<1>3. f[0] = 0 /\ f[1] = 0 /\ f[2] = 0 /\ f[3] = 0
  <2>1. f[1] = f[0] \div 2 /\ f[2] = f[1] \div 2 /\ f[3] = f[2] \div 2
    BY <1>2
  <2> QED BY <1>2, <2>1
<1> QED BY <1>2, <1>3

(* Behind the text a mode is read as zero. *)
LEMMA TerminatorRead ==
  ASSUME NEW t \in Seq(Bit), NEW d \in Seq(Bit), NEW slack, Carries(d, t, slack), Len(t) + 4 <= Len(d)
  PROVE  Read(d, Len(t), 4) = 0
<1>1. Len(t) \in Nat /\ 4 \in 1..16 /\ 0 \in Nat /\ 0 < TwoTo[4]
  BY DEF TwoTo
<1>2. \A j \in 1..4 : d[Len(t) + j] = 0
  BY <1>1 DEF Carries
<1>3. \A j \in 1..4 : d[Len(t) + j] = Bits(0, 4)[j]
  BY <1>2, ZeroBits
<1> QED BY <1>1, <1>3, FieldRead DEF Read

(* In front of a segment: its mode, or nothing more after the last.        *)
LEMMA AtModeReads ==
  ASSUME NEW v, NEW segs, NEW slack, NEW d, Opened(v, segs, slack, d),
         NEW p \in ParserState, NEW i, AtMode(v, segs, p, i)
  PROVE  /\ i = Len(segs) => /\ p.best = Text(segs) /\ p.best # NoText
                             /\ p.pos + 4 <= Len(d) => Read(d, p.pos, 4) = 0
         /\ i # Len(segs) => /\ i + 1 \in 1..Len(segs) /\ segs[i + 1].mode \in {1, 2, 4}
                             /\ slack >= 0 => p.pos + 4 <= Len(d)
                             /\ p.pos + 4 <= Len(d) => Read(d, p.pos, 4) = segs[i + 1].mode
         /\ BestOf(p) = Error \/ IsPrefix(BestOf(p), Text(segs))
<1>1. /\ d \in Seq(Bit) /\ Len(d) \in Nat /\ Len(segs) \in Nat \ {0}
      /\ Carries(d, FlattenSeq(SegmentBits(v, segs)), slack)
      /\ v \in ParsedVersion /\ segs \in Seq(SegmentTexts) /\ segs # <<>> /\ slack \in Int
  BY Room DEF Opened
<1>2. i \in 0..Len(segs) /\ p.pos = Start(v, segs, i) /\ p.out = TextTo(segs, i)
  BY DEF AtMode
<1>3. /\ p.best = NoText \/ \E j \in 1..i : p.best = TextTo(segs, j)
      /\ i = Len(segs) => p.best = TextTo(segs, i)
  BY DEF AtMode, BestTo
<1>4. ASSUME i = Len(segs)
      PROVE  /\ p.best = Text(segs) /\ p.best # NoText
             /\ p.pos + 4 <= Len(d) => Read(d, p.pos, 4) = 0
  <2>1. p.best = Text(segs) /\ p.best # NoText
    <3>1. Len(segs) \in 1..Len(segs)
      BY <1>1
    <3>2. TextTo(segs, Len(segs)) = Text(segs) /\ TextTo(segs, Len(segs)) # <<>>
      BY <1>1, <3>1, TextSteps
    <3> QED BY <1>3, <1>4, <3>2 DEF NoText
  <2>2. p.pos = Len(FlattenSeq(SegmentBits(v, segs)))
    BY <1>2, <1>4, Room
  <2>3. FlattenSeq(SegmentBits(v, segs)) \in Seq(Bit)
    BY <1>1, Payload
  <2> QED BY <1>1, <2>1, <2>2, <2>3, TerminatorRead
<1>5. ASSUME i # Len(segs)
      PROVE  /\ i + 1 \in 1..Len(segs) /\ segs[i + 1].mode \in {1, 2, 4}
             /\ slack >= 0 => p.pos + 4 <= Len(d)
             /\ p.pos + 4 <= Len(d) => Read(d, p.pos, 4) = segs[i + 1].mode
  <2> DEFINE s == segs[i + 1]
             b == Start(v, segs, i)
  <2>1. i + 1 \in 1..Len(segs) /\ (i + 1) - 1 = i /\ i + 1 \in 0..Len(segs)
    BY <1>1, <1>2, <1>5
  <2>2. s \in SegmentTexts
    BY <2>1, Room
  <2>3. s.mode \in {1, 2, 4}
    BY <1>1, <2>2, Segment
  <2>4. /\ b \in Nat /\ (slack >= 0 => Start(v, segs, i + 1) <= Len(d))
        /\ Start(v, segs, i + 1) = b + GroupStart(v, s, Rounds(s))
    BY <1>2, <2>1, Room
  <2>5. GroupStart(v, s, Rounds(s)) >= 4 + StandardCountBits(v, s.mode) + Len(s.chars)
    BY <1>1, <2>2, GroupStarts
  <2>6. StandardCountBits(v, s.mode) \in Nat /\ Len(s.chars) \in Nat /\ GroupStart(v, s, Rounds(s)) \in Nat
    <3>1. StandardCountBits(v, s.mode) \in 1..16 /\ Len(s.chars) \in Nat \ {0}
      BY <1>1, <2>2, Segment
    <3>2. Rounds(s) \in 0..Rounds(s)
      BY <1>1, <2>2, GroupStarts
    <3>3. GroupStart(v, s, Rounds(s)) \in Nat
      BY <1>1, <2>2, <3>2, GroupStarts
    <3>4. StandardCountBits(v, s.mode) \in Nat
      BY <3>1
    <3> QED BY <3>1, <3>3, <3>4
  <2>7. slack >= 0 => b + 4 <= Len(d)
    <3>1. Start(v, segs, i + 1) >= b + 4 /\ Start(v, segs, i + 1) \in Nat
      <4>1. \A x, y, z, g \in Nat : g >= 4 + y + z => x + g >= x + 4 /\ x + g \in Nat
        OBVIOUS
      <4> HIDE DEF b, s
      <4> QED BY <2>4, <2>5, <2>6, <4>1
    <3>2. Len(d) \in Nat
      BY <1>1
    <3> HIDE DEF b, s
    <3> QED BY <2>4, <3>1, <3>2
  <2>8. ASSUME b + 4 <= Len(d) PROVE Read(d, b, 4) = s.mode
    <3>1. Holds(EncodeSegment(v, s), 0, 4, s.mode)
      BY <1>1, <2>2, ModeHolds
    <3>2. Start(v, segs, (i + 1) - 1) = b /\ b + 0 = b
      BY <2>1, <2>4
    <3>3. Start(v, segs, (i + 1) - 1) + 0 + 4 <= Len(d)
      BY <2>8, <3>2
    <3>4. Read(d, Start(v, segs, (i + 1) - 1) + 0, 4) = s.mode
      BY <1>1, <2>1, <3>1, <3>3, FieldOfSegment
    <3> QED BY <3>2, <3>4
  <2> QED BY <1>2, <2>1, <2>3, <2>7, <2>8
<1>6. BestOf(p) = Error \/ IsPrefix(BestOf(p), Text(segs))
  <2>1. \A j \in 0..Len(segs) : IsPrefix(TextTo(segs, j), Text(segs))
    BY <1>1, PrefixOfText
  <2>2. \A j \in 1..i : j \in 0..Len(segs)
    BY <1>1, <1>2
  <2> QED BY <1>2, <1>3, <2>1, <2>2 DEF BestOf
<1> QED BY <1>4, <1>5, <1>6

(* At the count: the characters of the segment, and room for them.         *)
LEMMA AtCountReads ==
  ASSUME NEW v, NEW segs, NEW slack, NEW d, Opened(v, segs, slack, d),
         NEW p \in ParserState, NEW i, AtCount(v, segs, p, i), NEW w, w = StandardCountBits(v, p.mode)
  PROVE  /\ w \in Nat
         /\ p.pos + w <= Len(d) => Read(d, p.pos, w) = Len(segs[i].chars)
         /\ slack >= 0 => /\ p.pos + w <= Len(d) /\ Len(segs[i].chars) <= Len(d)
                          /\ p.mode = 4 => Len(d) - p.pos - w >= 8 * Len(segs[i].chars)
<1> DEFINE s == segs[i]
           b == Start(v, segs, i - 1)
           g == GroupStart(v, s, Rounds(s))
           len == Len(s.chars)
<1>1. /\ d \in Seq(Bit) /\ Len(d) \in Nat /\ Len(segs) \in Nat \ {0}
      /\ Carries(d, FlattenSeq(SegmentBits(v, segs)), slack)
      /\ v \in ParsedVersion /\ segs \in Seq(SegmentTexts) /\ segs # <<>> /\ slack \in Int
  BY Room DEF Opened
<1>2. i \in 1..Len(segs) /\ p.pos = b + 4 /\ p.mode = s.mode
  BY DEF AtCount
<1>3. i - 1 \in 0..Len(segs) /\ i \in 0..Len(segs)
  BY <1>1, <1>2
<1>4. s \in SegmentTexts /\ b \in Nat /\ (slack >= 0 => b + g <= Len(d))
  BY <1>2, <1>3, Room
<1>5. w \in 1..16 /\ len \in Nat /\ w = StandardCountBits(v, s.mode)
  BY <1>1, <1>2, <1>4, Segment
<1>6. g \in Nat /\ g >= 4 + w + len /\ (s.mode = 4 => g = 4 + w + 8 * len)
  <2>1. Rounds(s) \in 0..Rounds(s)
    BY <1>1, <1>4, GroupStarts, SMTT(30)
  <2>2. g \in Nat
    BY <1>1, <1>4, <2>1, GroupStarts
  <2>3. /\ g >= 4 + StandardCountBits(v, s.mode) + Len(s.chars)
        /\ s.mode = 4 => g = 4 + StandardCountBits(v, s.mode) + 8 * Len(s.chars)
    BY <1>1, <1>4, GroupStarts
  <2> QED BY <1>5, <2>2, <2>3
<1>7. ASSUME b + 4 + w <= Len(d) PROVE Read(d, b + 4, w) = len
  <2>1. Holds(EncodeSegment(v, s), 4, w, len)
    BY <1>1, <1>4, <1>5, CountHolds
  <2> QED BY <1>1, <1>2, <1>7, <2>1, FieldOfSegment
<1>8. w \in Nat
  BY <1>5
<1> DEFINE room == Len(d)
           pos == p.pos
<1>9. room \in Nat /\ pos = b + 4
  BY <1>1, <1>2
<1>10. (pos + w <= room => Read(d, pos, w) = len)
  BY <1>7, <1>9
<1>11. slack >= 0 => b + g <= room
  BY <1>4
<1>12. p.mode = s.mode
  BY <1>2
<1>13. b \in Nat
  BY <1>4
<1> HIDE DEF s, b, g, len, room, pos
<1>14. slack >= 0 => /\ pos + w <= room /\ len <= room
                     /\ p.mode = 4 => room - pos - w >= 8 * len
  BY <1>5, <1>6, <1>9, <1>11, <1>12, <1>13
<1> QED BY <1>8, <1>10, <1>14 DEF len, room, pos, s

(* At a group: the group, and room for it; behind the last one, the end of *)
(* the segment.                                                            *)
LEMMA AtGroupReads ==
  ASSUME NEW v, NEW segs, NEW slack, NEW d, Opened(v, segs, slack, d),
         NEW p \in ParserState, NEW i, NEW k, AtGroup(v, segs, p, i, k), NEW s, s = segs[i],
         k # Rounds(s)
  PROVE  LET c == ChunkSize(p.mode, p.n)
             w == ChunkBits(p.mode, c)
         IN  /\ p.n > 0 /\ k + 1 \in 1..Rounds(s) /\ c = Chunk(s, k + 1) /\ w = Width(s, k + 1)
             /\ c \in Nat /\ w \in Nat
             /\ slack >= 0 => p.pos + w <= Len(d)
             /\ p.pos + w <= Len(d) =>
                  /\ ~ (p.mode = 2 /\ Read(d, p.pos, w) >= <<45, 2025>>[c])
                  /\ Chars(p.mode, c, Read(d, p.pos, w)) = Groups(s)[k + 1]
<1> DEFINE b == Start(v, segs, i - 1)
           c == Chunk(s, k + 1)
           w == Width(s, k + 1)
           g == GroupStart(v, s, k)
           h == GroupStart(v, s, k + 1)
           r == GroupStart(v, s, Rounds(s))
<1>1. /\ d \in Seq(Bit) /\ Len(d) \in Nat /\ Len(segs) \in Nat \ {0}
      /\ Carries(d, FlattenSeq(SegmentBits(v, segs)), slack)
      /\ v \in ParsedVersion /\ segs \in Seq(SegmentTexts) /\ segs # <<>> /\ slack \in Int
  BY Room DEF Opened
<1>2. /\ i \in 1..Len(segs) /\ k \in 0..Rounds(s) /\ p.pos = b + g /\ p.mode = s.mode
      /\ p.n = Len(s.chars) - Mark(s, k)
  BY DEF AtGroup
<1>3. i - 1 \in 0..Len(segs) /\ i \in 0..Len(segs)
  BY <1>1, <1>2
<1>4. s \in SegmentTexts /\ b \in Nat /\ (slack >= 0 => b + r <= Len(d))
  BY <1>2, <1>3, Room
<1>5. Rounds(s) \in Nat /\ s.mode \in {1, 2, 4} /\ Len(s.chars) \in Nat
  BY <1>1, <1>4, CodedSeq, Segment
<1>6. /\ k \in 0..(Rounds(s) - 1) /\ k + 1 \in 1..Rounds(s) /\ (k + 1) - 1 = k
      /\ k + 1 \in 0..Rounds(s)
  BY <1>2, <1>5
<1>7. ChunkSize(p.mode, p.n) = c /\ ChunkBits(p.mode, c) = w
  BY <1>2, <1>6 DEF Chunk, Width
<1>8. p.n > 0
  <2>1. Mark(s, k) < Len(s.chars) /\ Mark(s, k) \in 0..Len(s.chars)
    BY <1>2, <1>5, <1>6, Marks
  <2> QED BY <1>2, <1>5, <2>1
<1>9. c \in 1..GroupSize(s.mode) /\ w \in 1..16
  BY <1>1, <1>4, <1>6, CodedGroup
<1>10. c \in {1, 2, 3}
  <2>1. GroupSize(s.mode) \in {1, 2, 3}
    BY <1>5 DEF GroupSize
  <2> QED BY <1>9, <2>1
<1>11. g \in Nat /\ h = g + w /\ h <= r /\ r \in Nat
  <2>1. Rounds(s) \in 0..Rounds(s)
    BY <1>5
  <2> QED BY <1>1, <1>2, <1>4, <1>6, <2>1, GroupStarts
<1>12. slack >= 0 => p.pos + w <= Len(d)
  <2> DEFINE room == Len(d)
             pos == p.pos
  <2>1. room \in Nat
    BY <1>1
  <2>2. pos = b + g
    BY <1>2
  <2>3. b \in Nat /\ (slack >= 0 => b + r <= room)
    BY <1>4
  <2> HIDE DEF room, pos, b, w, g, h, r
  <2>4. w \in Nat
    BY <1>9
  <2>5. slack >= 0 => pos + w <= room
    BY <1>11, <2>1, <2>2, <2>3, <2>4
  <2> QED BY <2>5 DEF room, pos
<1>13. PICK u \in Nat : /\ Holds(EncodeSegment(v, s), g, w, u)
                        /\ s.mode = 2 => u < <<45, 2025>>[c]
                        /\ Chars(s.mode, c, u) = Groups(s)[k + 1]
  <2> DEFINE n == k + 1
  <2>1. n \in 1..Rounds(s)
    BY <1>6
  <2>2. \E u \in Nat : /\ Holds(EncodeSegment(v, s), GroupStart(v, s, n - 1), Width(s, n), u)
                       /\ s.mode = 2 => u < <<45, 2025>>[Chunk(s, n)]
                       /\ Chars(s.mode, Chunk(s, n), u) = Groups(s)[n]
    <3> HIDE DEF n
    <3> QED BY <1>1, <1>4, <2>1, GroupHolds
  <2>3. n - 1 = k
    BY <1>6
  <2> HIDE DEF n
  <2>4. \E u \in Nat : /\ Holds(EncodeSegment(v, s), GroupStart(v, s, k), Width(s, n), u)
                       /\ s.mode = 2 => u < <<45, 2025>>[Chunk(s, n)]
                       /\ Chars(s.mode, Chunk(s, n), u) = Groups(s)[n]
    BY <2>2, <2>3
  <2> QED BY <2>4 DEF n
<1>14. ASSUME p.pos + w <= Len(d) PROVE Read(d, p.pos, w) = u
  <2>1. b + g + w <= Len(d)
    BY <1>2, <1>14
  <2>2. Read(d, b + g, w) = u
    <3>1. Holds(EncodeSegment(v, segs[i]), g, w, u)
      BY <1>13
    <3>2. Start(v, segs, i - 1) + g + w <= Len(d)
      BY <2>1
    <3> HIDE DEF g, w
    <3>3. Read(d, Start(v, segs, i - 1) + g, w) = u
      BY <1>1, <1>2, <3>1, <3>2, FieldOfSegment
    <3> QED BY <3>3
  <2> QED BY <1>2, <2>2
<1>15. s.mode = 2 => ~ (u >= <<45, 2025>>[c])
  <2> SUFFICES ASSUME s.mode = 2 PROVE ~ (u >= <<45, 2025>>[c])
    OBVIOUS
  <2>1. c \in 1..2
    BY <1>9 DEF GroupSize
  <2>2. <<45, 2025>>[c] \in Nat
    BY <2>1
  <2> QED BY <1>13, <2>2
<1>16. w \in Nat /\ c \in Nat
  BY <1>9, <1>10
<1> HIDE DEF c, w
<1> QED BY <1>2, <1>6, <1>7, <1>8, <1>12, <1>13, <1>14, <1>15, <1>16 DEF c, w

(* No characters are left exactly behind the last group. *)
LEMMA AtGroupEnds ==
  ASSUME NEW v, NEW segs, NEW slack, NEW d, Opened(v, segs, slack, d),
         NEW p \in ParserState, NEW i, NEW k, AtGroup(v, segs, p, i, k)
  PROVE  /\ p.n = 0 => k = Rounds(segs[i])
         /\ k = Rounds(segs[i]) => p.n = 0 /\ p.pos = Start(v, segs, i) /\ p.out = TextTo(segs, i)
<1> DEFINE s == segs[i]
<1>1. v \in ParsedVersion /\ segs \in Seq(SegmentTexts) /\ Len(segs) \in Nat \ {0}
  BY Room DEF Opened
<1>2. /\ i \in 1..Len(segs) /\ k \in 0..Rounds(s) /\ p.pos = Start(v, segs, i - 1) + GroupStart(v, s, k)
      /\ p.n = Len(s.chars) - Mark(s, k)
      /\ p.out = TextTo(segs, i - 1) \o SubSeq(s.chars, 1, Mark(s, k))
  BY DEF AtGroup
<1>3. /\ s \in SegmentTexts
      /\ Start(v, segs, i) = Start(v, segs, i - 1) + GroupStart(v, s, Rounds(s))
  BY <1>2, Room
<1>4. /\ s.mode \in {1, 2, 4} /\ Len(s.chars) \in Nat /\ s.chars \in Seq(Characters(s.mode))
  BY <1>1, <1>3, Segment
<1>5. /\ Mark(s, Rounds(s)) = Len(s.chars) /\ Mark(s, k) \in 0..Len(s.chars)
      /\ Mark(s, k) = Len(s.chars) => k = Rounds(s)
  BY <1>2, <1>4, Marks
<1>6. p.n = 0 => k = Rounds(s)
  <2> DEFINE len == Len(s.chars)
             m == Mark(s, k)
  <2>1. len \in Nat /\ m \in 0..len /\ p.n = len - m /\ (m = len => k = Rounds(s))
    BY <1>2, <1>4, <1>5
  <2> HIDE DEF len, m
  <2>2. m \in Int /\ len \in Int
    BY <2>1
  <2>3. p.n = 0 => m = len
    BY <2>1, <2>2
  <2> QED BY <2>1, <2>3
<1>7. SubSeq(s.chars, 1, Len(s.chars)) = s.chars
  BY <1>4
<1>8. TextTo(segs, i) = TextTo(segs, i - 1) \o s.chars
  BY <1>1, <1>2, TextSteps
<1>9. k = Rounds(s) => p.n = 0 /\ p.pos = Start(v, segs, i) /\ p.out = TextTo(segs, i)
  <2> SUFFICES ASSUME k = Rounds(s) PROVE p.n = 0 /\ p.pos = Start(v, segs, i) /\ p.out = TextTo(segs, i)
    OBVIOUS
  <2>1. Mark(s, k) = Len(s.chars)
    BY <1>5
  <2>2. p.n = Len(s.chars) - Len(s.chars) /\ p.out = TextTo(segs, i - 1) \o SubSeq(s.chars, 1, Len(s.chars))
    BY <1>2, <2>1
  <2>3. p.n = 0
    BY <1>4, <2>2
  <2>4. p.out = TextTo(segs, i)
    BY <1>7, <1>8, <2>2
  <2>5. p.pos = Start(v, segs, i)
    BY <1>2, <1>3
  <2> QED BY <2>3, <2>4, <2>5
<1> QED BY <1>6, <1>9

-----------------------------------------------------------------------------
(* Every step keeps the parser's place.                                    *)

(* Between fields the invariant says what a read and the text depend on. *)
LEMMA Standing ==
  ASSUME ParserInv, Parsing
  PROVE  /\ Chosen /\ Opened(ver, payload.segs, payload.slack, data)
         /\ ver \in ParsedVersion /\ payload.segs \in Seq(SegmentTexts) /\ payload.slack \in Int
         /\ Len(payload.segs) \in Nat \ {0} /\ Len(data) \in Nat
         /\ parser \in ParserState /\ parser.pos \in Nat /\ parser.n \in Nat /\ parser.pos <= Len(data)
         /\ parser.out \in Seq(Character)
<1>1. Chosen /\ parser \in ParserState /\ parser.pos <= Len(data)
  BY DEF ParserInv
<1>2. Opened(ver, payload.segs, payload.slack, data)
  BY <1>1 DEF Chosen
<1>3. Len(payload.segs) \in Nat \ {0} /\ Len(data) \in Nat
  BY <1>2, Room
<1>4. parser.pos \in Nat /\ parser.n \in Nat /\ parser.out \in Seq(Character)
  BY <1>1 DEF ParserState
<1> QED BY <1>1, <1>2, <1>3, <1>4 DEF Opened

(* A parser that has moved is one still. *)
Moved(p, q, x, m, n, t) ==
  /\ q \in ParserState
  /\ q.pos = x /\ q.mode = m /\ q.n = n /\ q.out = t /\ q.best = p.best

(* The parser stays one when a field is read. *)
LEMMA Moves ==
  ASSUME NEW p \in ParserState, NEW x \in Nat
  PROVE  /\ \A m \in {1, 2, 4} : Moved(p, [p EXCEPT !.pos = x, !.mode = m], x, m, p.n, p.out)
         /\ \A n \in Nat : Moved(p, [p EXCEPT !.pos = x, !.n = n], x, p.mode, n, p.out)
         /\ \A n \in Nat, t \in Seq(Character) :
              Moved(p, [p EXCEPT !.pos = x, !.n = n, !.out = t], x, p.mode, n, t)
<1> DEFINE T == Seq(Character)
<1>1. p \in [pos : Nat, mode : {0, 1, 2, 4}, n : Nat, out : T, best : T]
  BY DEF ParserState
<1>2. ParserState = [pos : Nat, mode : {0, 1, 2, 4}, n : Nat, out : T, best : T]
  BY DEF ParserState
<1> HIDE DEF T
<1>3. ASSUME NEW m \in {1, 2, 4} PROVE Moved(p, [p EXCEPT !.pos = x, !.mode = m], x, m, p.n, p.out)
  BY <1>1, <1>2 DEF Moved
<1>4. ASSUME NEW n \in Nat PROVE Moved(p, [p EXCEPT !.pos = x, !.n = n], x, p.mode, n, p.out)
  BY <1>1, <1>2 DEF Moved
<1>5. ASSUME NEW n \in Nat, NEW t \in T
      PROVE  Moved(p, [p EXCEPT !.pos = x, !.n = n, !.out = t], x, p.mode, n, t)
  BY <1>1, <1>2 DEF Moved
<1> QED BY <1>3, <1>4, <1>5 DEF T

(* What the parser needs to stand in its next place. *)
LEMMA Stands ==
  ASSUME Chosen, UNCHANGED <<ver, data, payload>>,
         parser' \in ParserState, parser'.pos <= Len(data),
         \/ /\ stage' = "mode" /\ \E i \in 0..Len(payload.segs) : AtMode(ver, payload.segs, parser', i)
         \/ /\ stage' = "count" /\ \E i \in 1..Len(payload.segs) : AtCount(ver, payload.segs, parser', i)
         \/ /\ stage' = "data"
            /\ \E i \in 1..Len(payload.segs) :
                 \E k \in 0..Rounds(payload.segs[i]) : AtGroup(ver, payload.segs, parser', i, k)
         \/ stage' = "done" /\ OfferComesBack'
  PROVE  ParserInv'
<1>1. Parsing' /\ Chosen'
  BY DEF Parsing, Chosen
<1>2. parser'.pos <= Len(data')
  OBVIOUS
<1>3. stage' # "done" => OfferComesBack'
  BY DEF OfferComesBack
<1>4. OfferComesBack'
  BY <1>3
<1>5. stage' = "mode" => \E i \in 0..Len(payload'.segs) : AtMode(ver', payload'.segs, parser', i)
  BY DEF AtMode
<1>6. stage' = "count" => \E i \in 1..Len(payload'.segs) : AtCount(ver', payload'.segs, parser', i)
  BY DEF AtCount
<1>7. stage' = "data" => \E i \in 1..Len(payload'.segs) :
                           \E k \in 0..Rounds(payload'.segs[i]) : AtGroup(ver', payload'.segs, parser', i, k)
  BY DEF AtGroup
<1> QED BY <1>1, <1>2, <1>4, <1>5, <1>6, <1>7 DEF ParserInv

(* The mode of the next segment, or the end of the text (decode.go's      *)
(* loop).                                                                 *)
LEMMA ReadModeKeeps ==
  ASSUME ParserInv, ReadMode
  PROVE  ParserInv'
<1> DEFINE segs == payload.segs
           m == Read(data, parser.pos, 4)
<1>1. stage = "mode" /\ Parsing /\ UNCHANGED <<ver, data, payload>>
  BY DEF ReadMode, Parsing
<1>2. /\ Chosen /\ Opened(ver, segs, payload.slack, data)
      /\ ver \in ParsedVersion /\ segs \in Seq(SegmentTexts) /\ payload.slack \in Int
      /\ Len(segs) \in Nat \ {0} /\ Len(data) \in Nat
      /\ parser \in ParserState /\ parser.pos \in Nat /\ parser.pos <= Len(data)
  BY <1>1, Standing
<1>3. PICK i \in 0..Len(segs) : AtMode(ver, segs, parser, i)
  BY <1>1 DEF ParserInv
<1>4. Take(4) = m
  BY DEF Take, Read
<1>5. Left < 4 \/ m \notin {1, 2, 4} \/ (Left >= 4 /\ m \in {1, 2, 4})
  BY <1>2 DEF Left
<1>6. /\ i = Len(segs) => /\ parser.best = Text(segs) /\ parser.best # NoText
                          /\ parser.pos + 4 <= Len(data) => m = 0
      /\ i # Len(segs) => /\ i + 1 \in 1..Len(segs) /\ segs[i + 1].mode \in {1, 2, 4}
                          /\ payload.slack >= 0 => parser.pos + 4 <= Len(data)
                          /\ parser.pos + 4 <= Len(data) => m = segs[i + 1].mode
      /\ BestOf(parser) = Error \/ IsPrefix(BestOf(parser), Text(segs))
  <2> HIDE DEF segs
  <2> QED BY <1>2, <1>3, AtModeReads
<1>7. Left < 4 <=> ~ (parser.pos + 4 <= Len(data))
  BY <1>2 DEF Left
<1>8. CASE Left < 4 \/ m \notin {1, 2, 4}
  <2>1. stage' = "done" /\ result' = BestOf(parser) /\ parser' = parser
    BY <1>4, <1>8 DEF ReadMode, Stop
  <2>2. payload.slack >= 0 => BestOf(parser) = Text(segs)
    <3>1. payload.slack >= 0 => i = Len(segs)
      BY <1>6, <1>7, <1>8
    <3> QED BY <1>6, <3>1 DEF BestOf
  <2>3. OfferComesBack'
    BY <1>1, <1>6, <2>1, <2>2 DEF OfferComesBack
  <2> QED BY <1>1, <1>2, <2>1, <2>3, Stands
<1>9. CASE Left >= 4 /\ m \in {1, 2, 4}
  <2>1. stage' = "count" /\ parser' = [parser EXCEPT !.pos = @ + 4, !.mode = m]
    <3>1. ~ (Left < 4 \/ m \notin {1, 2, 4})
      BY <1>2, <1>9 DEF Left
    <3> QED BY <1>4, <3>1 DEF ReadMode
  <2>2. parser.pos + 4 <= Len(data)
    BY <1>2, <1>9 DEF Left
  <2>3. i # Len(segs) /\ i + 1 \in 1..Len(segs) /\ m = segs[i + 1].mode
    BY <1>6, <1>9, <2>2
  <2>4. /\ parser' \in ParserState /\ parser'.pos = parser.pos + 4 /\ parser'.mode = m
        /\ parser'.out = parser.out /\ parser'.best = parser.best
    <3> DEFINE x == parser.pos + 4
    <3>1. x \in Nat
      BY <1>2
    <3>2. parser' = [parser EXCEPT !.pos = x, !.mode = m]
      BY <2>1
    <3>3. m \in {1, 2, 4}
      BY <1>9
    <3> HIDE DEF x, m
    <3>4. Moved(parser, [parser EXCEPT !.pos = x, !.mode = m], x, m, parser.n, parser.out)
      BY <1>2, <3>1, <3>3, Moves
    <3>5. Moved(parser, parser', x, m, parser.n, parser.out)
      BY <3>2, <3>4
    <3> QED BY <3>5 DEF Moved, x
  <2>5. AtCount(ver, segs, parser', i + 1)
    <3>1. (i + 1) - 1 = i
      BY <2>3
    <3>2. parser.pos = Start(ver, segs, i) /\ parser.out = TextTo(segs, i) /\ BestTo(segs, i, parser.best)
      BY <1>3 DEF AtMode
    <3> QED BY <2>3, <2>4, <3>1, <3>2 DEF AtCount
  <2>6. parser'.pos <= Len(data)
    BY <2>2, <2>4
  <2> QED BY <1>1, <1>2, <2>1, <2>3, <2>4, <2>5, <2>6, Stands
<1> QED BY <1>5, <1>8, <1>9

(* The count field, whose width the version gives. *)
LEMMA ReadCountKeeps ==
  ASSUME ParserInv, ReadCount
  PROVE  ParserInv'
<1> DEFINE segs == payload.segs
           w == StandardCountBits(ver, parser.mode)
           n == Read(data, parser.pos, w)
           room == Len(data)
<1>1. stage = "count" /\ Parsing /\ UNCHANGED <<ver, data, payload>>
  BY DEF ReadCount, Parsing
<1>2. /\ Chosen /\ Opened(ver, segs, payload.slack, data)
      /\ ver \in ParsedVersion /\ segs \in Seq(SegmentTexts) /\ payload.slack \in Int
      /\ Len(segs) \in Nat \ {0} /\ room \in Nat
      /\ parser \in ParserState /\ parser.pos \in Nat /\ parser.pos <= room
  BY <1>1, Standing
<1>3. PICK i \in 1..Len(segs) : AtCount(ver, segs, parser, i)
  BY <1>1 DEF ParserInv
<1> DEFINE s == segs[i]
           len == Len(s.chars)
<1>4. s \in SegmentTexts /\ s.mode \in {1, 2, 4} /\ len \in Nat /\ parser.mode = s.mode
  <2>1. s \in SegmentTexts
    BY <1>2
  <2> QED BY <1>2, <1>3, <2>1, Segment DEF AtCount
<1>5. CountBits(parser.mode) = w
  <2>1. ver \in Nat
    BY <1>2, SegmentAssumption DEF Version
  <2> QED BY <1>4, <2>1 DEF CountBits, StandardCountBits
<1>6. /\ w \in Nat
      /\ parser.pos + w <= room => n = len
      /\ payload.slack >= 0 => /\ parser.pos + w <= room /\ len <= room
                               /\ parser.mode = 4 => room - parser.pos - w >= 8 * len
  <2> HIDE DEF segs, w
  <2>1. w = StandardCountBits(ver, parser.mode)
    BY DEF w
  <2> QED BY <1>2, <1>3, <2>1, AtCountReads
<1>7. Take(w) = n /\ Left = room - parser.pos
  BY DEF Take, Read, Left
<1>8. CASE room - parser.pos < w \/ n > room \/ (parser.mode = 4 /\ room - parser.pos - w < 8 * n)
  <2>1. stage' = "done" /\ result' = Error /\ parser' = parser
    BY <1>5, <1>7, <1>8 DEF ReadCount, Stop
  <2>2. ~ (payload.slack >= 0)
    <3> DEFINE pos == parser.pos
    <3>1. pos \in Nat /\ room \in Nat /\ w \in Nat /\ len \in Nat
      BY <1>2, <1>4, <1>6
    <3>2. /\ pos + w <= room => n = len
          /\ payload.slack >= 0 => /\ pos + w <= room /\ len <= room
                                   /\ parser.mode = 4 => room - pos - w >= 8 * len
          /\ room - pos < w \/ n > room \/ (parser.mode = 4 /\ room - pos - w < 8 * n)
      BY <1>6, <1>8
    <3> HIDE DEF pos, room, w, len, n
    <3> QED BY <3>1, <3>2
  <2>3. OfferComesBack'
    BY <1>1, <2>1, <2>2 DEF OfferComesBack
  <2> QED BY <1>1, <1>2, <2>1, <2>3, Stands
<1>9. CASE ~ (room - parser.pos < w \/ n > room \/ (parser.mode = 4 /\ room - parser.pos - w < 8 * n))
  <2>1. stage' = "data" /\ parser' = [parser EXCEPT !.pos = @ + w, !.n = n]
    BY <1>5, <1>7, <1>9 DEF ReadCount
  <2>2. parser.pos + w <= room /\ n = len
    <3> DEFINE pos == parser.pos
    <3>1. pos \in Nat /\ room \in Nat /\ w \in Nat /\ ~ (room - pos < w) /\ (pos + w <= room => n = len)
      BY <1>2, <1>6, <1>9
    <3> HIDE DEF pos, room, w, len, n
    <3>2. pos + w <= room /\ n = len
      BY <3>1
    <3> QED BY <3>2 DEF pos
  <2>3. /\ parser' \in ParserState /\ parser'.pos = parser.pos + w /\ parser'.n = len
        /\ parser'.mode = parser.mode /\ parser'.out = parser.out /\ parser'.best = parser.best
    <3> DEFINE x == parser.pos + w
    <3>1. x \in Nat
      BY <1>2, <1>6
    <3>2. parser' = [parser EXCEPT !.pos = x, !.n = len]
      BY <2>1, <2>2
    <3> HIDE DEF x, w, n, len
    <3>3. Moved(parser, [parser EXCEPT !.pos = x, !.n = len], x, parser.mode, len, parser.out)
      BY <1>2, <1>4, <3>1, Moves
    <3>4. Moved(parser, parser', x, parser.mode, len, parser.out)
      BY <3>2, <3>3
    <3> QED BY <3>4 DEF Moved, x
  <2>4. Rounds(s) \in Nat /\ Mark(s, 0) = 0 /\ GroupStart(ver, s, 0) = 4 + w
    BY <1>2, <1>4, Marks, GroupStarts
  <2>5. AtGroup(ver, segs, parser', i, 0)
    <3>1. /\ parser.pos = Start(ver, segs, i - 1) + 4 /\ parser.mode = s.mode
          /\ parser.out = TextTo(segs, i - 1) /\ BestTo(segs, i - 1, parser.best)
      BY <1>3 DEF AtCount
    <3>2. i - 1 \in 0..Len(segs)
      BY <1>2
    <3>3. Start(ver, segs, i - 1) \in Nat
      BY <1>2, <3>2, Room
    <3>4. parser'.pos = Start(ver, segs, i - 1) + GroupStart(ver, s, 0)
      <4> DEFINE b == Start(ver, segs, i - 1)
      <4>1. b \in Nat /\ parser'.pos = (b + 4) + w /\ GroupStart(ver, s, 0) = 4 + w
        BY <2>3, <2>4, <3>1, <3>3
      <4> HIDE DEF b, w
      <4> QED BY <1>6, <4>1 DEF b
    <3>5. parser'.n = len - Mark(s, 0)
      BY <1>4, <2>3, <2>4
    <3>6. parser'.out = TextTo(segs, i - 1) \o SubSeq(s.chars, 1, Mark(s, 0))
      <4>1. TextTo(segs, i - 1) \in Seq(Character)
        BY <1>2, <3>2, TextSteps
      <4>2. SubSeq(s.chars, 1, 0) = <<>>
        BY <1>2, <1>4, Segment
      <4> QED BY <2>3, <2>4, <3>1, <4>1, <4>2
    <3>7. 0 \in 0..Rounds(s)
      BY <2>4
    <3> QED BY <1>3, <2>3, <3>1, <3>4, <3>5, <3>6, <3>7 DEF AtGroup
  <2>6. parser'.pos <= Len(data)
    BY <2>2, <2>3
  <2>7. 0 \in 0..Rounds(s)
    BY <2>4
  <2> QED BY <1>1, <1>2, <2>1, <2>3, <2>5, <2>6, <2>7, Stands
<1> QED BY <1>8, <1>9

(* A group of characters is appended as it was written. *)
LEMMA ReadChunkKeeps ==
  ASSUME ParserInv, ReadChunk
  PROVE  ParserInv'
<1> DEFINE segs == payload.segs
           c == ChunkSize(parser.mode, parser.n)
           w == ChunkBits(parser.mode, c)
           u == Read(data, parser.pos, w)
           room == Len(data)
<1>1. stage = "data" /\ parser.n > 0 /\ Parsing /\ UNCHANGED <<ver, data, payload>>
  BY DEF ReadChunk, Parsing
<1>2. /\ Chosen /\ Opened(ver, segs, payload.slack, data)
      /\ ver \in ParsedVersion /\ segs \in Seq(SegmentTexts) /\ payload.slack \in Int
      /\ Len(segs) \in Nat \ {0} /\ room \in Nat
      /\ parser \in ParserState /\ parser.pos \in Nat /\ parser.n \in Nat /\ parser.out \in Seq(Character)
  BY <1>1, Standing
<1>0. PICK i \in 1..Len(segs) : \E k \in 0..Rounds(segs[i]) : AtGroup(ver, segs, parser, i, k)
  BY <1>1 DEF ParserInv
<1>3. PICK k \in 0..Rounds(segs[i]) : i \in 1..Len(segs) /\ AtGroup(ver, segs, parser, i, k)
  BY <1>0
<1> DEFINE s == segs[i]
<1>4. s \in SegmentTexts /\ s.mode \in {1, 2, 4} /\ Len(s.chars) \in Nat /\ s.chars \in Seq(Characters(s.mode))
  <2>1. s \in SegmentTexts
    BY <1>2
  <2> QED BY <1>2, <2>1, Segment
<1>5. k # Rounds(s)
  <2>1. k = Rounds(segs[i]) => parser.n = 0
    <3> HIDE DEF segs
    <3> QED BY <1>2, <1>3, AtGroupEnds
  <2> QED BY <1>1, <2>1
<1>6. /\ k + 1 \in 1..Rounds(s) /\ c = Chunk(s, k + 1) /\ w = Width(s, k + 1)
      /\ c \in Nat /\ w \in Nat
      /\ payload.slack >= 0 => parser.pos + w <= room
      /\ parser.pos + w <= room => /\ ~ (parser.mode = 2 /\ u >= <<45, 2025>>[c])
                                   /\ Chars(parser.mode, c, u) = Groups(s)[k + 1]
  <2> HIDE DEF segs
  <2> QED BY <1>2, <1>3, <1>5, AtGroupReads, SMTT(30)
<1>7. Take(w) = u /\ Left = room - parser.pos
  BY DEF Take, Read, Left
<1>8. CASE room - parser.pos < w \/ (parser.mode = 2 /\ u >= <<45, 2025>>[c])
  <2>1. stage' = "done" /\ result' = Error /\ parser' = parser
    BY <1>7, <1>8 DEF ReadChunk, Stop
  <2>2. ~ (payload.slack >= 0)
    <3> DEFINE pos == parser.pos
    <3>1. pos \in Nat /\ room \in Nat /\ w \in Nat
      BY <1>2, <1>6
    <3>2. /\ payload.slack >= 0 => pos + w <= room
          /\ pos + w <= room => ~ (parser.mode = 2 /\ u >= <<45, 2025>>[c])
      BY <1>6
    <3>3. room - pos < w \/ (parser.mode = 2 /\ u >= <<45, 2025>>[c])
      BY <1>8
    <3> DEFINE high == parser.mode = 2 /\ u >= <<45, 2025>>[c]
    <3> HIDE DEF pos, room, w, high
    <3>4. /\ payload.slack >= 0 => pos + w <= room
          /\ pos + w <= room => ~ high
          /\ room - pos < w \/ high
      BY <3>2, <3>3 DEF high
    <3> QED BY <3>1, <3>4
  <2>3. OfferComesBack'
    BY <1>1, <2>1, <2>2 DEF OfferComesBack
  <2>4. parser.pos <= Len(data)
    BY <1>1, Standing
  <2> QED BY <1>1, <1>2, <2>1, <2>3, <2>4, Stands
<1>9. CASE ~ (room - parser.pos < w \/ (parser.mode = 2 /\ u >= <<45, 2025>>[c]))
  <2>1. /\ stage' = "data"
        /\ parser' = [parser EXCEPT !.pos = @ + w, !.n = @ - c, !.out = @ \o Chars(parser.mode, c, u)]
    BY <1>1, <1>7, <1>9 DEF ReadChunk
  <2>2. parser.pos + w <= room
    <3> DEFINE pos == parser.pos
    <3>1. pos \in Nat /\ room \in Nat /\ w \in Nat /\ ~ (room - pos < w)
      BY <1>2, <1>6, <1>9
    <3> HIDE DEF pos, room, w
    <3>2. pos + w <= room
      BY <3>1
    <3> QED BY <3>2 DEF pos
  <2>3. Chars(parser.mode, c, u) = Groups(s)[k + 1]
    BY <1>6, <2>2
  <2>4. (k + 1) - 1 = k /\ k \in 0..(Rounds(s) - 1) /\ k + 1 \in 0..Rounds(s)
    <3>1. Rounds(s) \in Nat
      BY <1>4, Marks
    <3> QED BY <1>3, <1>5, <3>1
  <2>5. /\ parser.pos = Start(ver, segs, i - 1) + GroupStart(ver, s, k) /\ parser.mode = s.mode
        /\ parser.n = Len(s.chars) - Mark(s, k)
        /\ parser.out = TextTo(segs, i - 1) \o SubSeq(s.chars, 1, Mark(s, k))
        /\ BestTo(segs, i - 1, parser.best)
    BY <1>3 DEF AtGroup
  <2>6. parser.n - c \in Nat /\ parser.n - c = Len(s.chars) - Mark(s, k + 1)
    <3> DEFINE len == Len(s.chars)
               m == Mark(s, k)
               l == Mark(s, k + 1)
    <3>1. m \in 0..len /\ l \in 0..len /\ l = m + ChunkSize(s.mode, len - m)
      BY <1>4, <1>3, <2>4, Marks
    <3>2. c = ChunkSize(s.mode, len - m) /\ parser.n = len - m
      BY <2>5
    <3>3. len \in Nat /\ c \in Nat
      BY <1>4, <1>6
    <3> DEFINE n == parser.n
    <3>4. n = len - m /\ l = m + c
      BY <3>1, <3>2
    <3> HIDE DEF c, len, m, l, n
    <3>5. n - c \in Nat /\ n - c = len - l
      BY <3>1, <3>3, <3>4
    <3> QED BY <3>5 DEF len, l, n
  <2>7. /\ parser.out \o Groups(s)[k + 1] \in Seq(Character)
        /\ parser.out \o Groups(s)[k + 1] = TextTo(segs, i - 1) \o SubSeq(s.chars, 1, Mark(s, k + 1))
    <3> DEFINE g == Groups(s)[k + 1]
               a == SubSeq(s.chars, 1, Mark(s, k))
               t == TextTo(segs, i - 1)
    <3>1. g \in Seq(Characters(s.mode)) /\ SubSeq(s.chars, 1, Mark(s, k + 1)) = a \o g
      <4> DEFINE j == k + 1
      <4>1. j \in 1..Rounds(s) /\ j - 1 = k
        BY <1>6, <2>4
      <4> HIDE DEF j
      <4>2. /\ Groups(s)[j] \in Seq(Characters(s.mode))
            /\ SubSeq(s.chars, 1, Mark(s, j)) = SubSeq(s.chars, 1, Mark(s, j - 1)) \o Groups(s)[j]
        BY <1>2, <1>4, <4>1, GroupsBetweenMarks
      <4>3. SubSeq(s.chars, 1, Mark(s, j)) = a \o Groups(s)[j]
        BY <4>1, <4>2
      <4> QED BY <4>2, <4>3 DEF j
    <3>2. a \in Seq(Characters(s.mode))
      <4>1. Mark(s, k) \in 0..Len(s.chars)
        BY <1>3, <1>4, Marks
      <4> QED BY <1>4, <4>1
    <3>3. Characters(s.mode) \subseteq Character
      BY <1>4 DEF Character
    <3>4. ASSUME NEW A, NEW B, A \subseteq B, NEW d \in Seq(A) PROVE d \in Seq(B)
      BY <3>4
    <3>5. g \in Seq(Character) /\ a \in Seq(Character)
      BY <3>1, <3>2, <3>3, <3>4
    <3>6. t \in Seq(Character)
      <4>1. i - 1 \in 0..Len(segs)
        BY <1>2
      <4> QED BY <1>2, <4>1, TextSteps
    <3>7. parser.out = t \o a
      BY <2>5
    <3> HIDE DEF g, a, t
    <3>8. (t \o a) \o g = t \o (a \o g) /\ (t \o a) \o g \in Seq(Character)
      BY <3>5, <3>6, InParts, Zenon
    <3>9. parser.out \o g \in Seq(Character) /\ parser.out \o g = t \o (a \o g)
      BY <3>7, <3>8
    <3> QED BY <3>1, <3>9 DEF g, t
  <2>8. /\ parser' \in ParserState /\ parser'.pos = parser.pos + w /\ parser'.n = parser.n - c
        /\ parser'.mode = parser.mode /\ parser'.out = parser.out \o Groups(s)[k + 1]
        /\ parser'.best = parser.best
    <3> DEFINE x == parser.pos + w
               n == parser.n - c
               t == parser.out \o Groups(s)[k + 1]
    <3>1. x \in Nat
      <4>1. parser.pos \in Nat /\ w \in Nat
        BY <1>2, <1>6
      <4> HIDE DEF w
      <4> QED BY <4>1
    <3>2. n \in Nat
      BY <2>6
    <3>3. t \in Seq(Character)
      BY <2>7
    <3>4. parser' = [parser EXCEPT !.pos = x, !.n = n, !.out = t]
      BY <2>1, <2>3
    <3> HIDE DEF x, n, t, segs
    <3>5. Moved(parser, [parser EXCEPT !.pos = x, !.n = n, !.out = t], x, parser.mode, n, t)
      BY <1>2, <3>1, <3>2, <3>3, Moves
    <3>6. Moved(parser, parser', x, parser.mode, n, t)
      BY <3>4, <3>5
    <3> QED BY <3>6 DEF Moved, x, n, t
  <2>9. AtGroup(ver, segs, parser', i, k + 1)
    <3>1. parser'.pos = Start(ver, segs, i - 1) + GroupStart(ver, s, k + 1)
      <4> DEFINE b == Start(ver, segs, i - 1)
                 g == GroupStart(ver, s, k)
                 h == GroupStart(ver, s, k + 1)
      <4>1. b \in Nat
        <5>1. i - 1 \in 0..Len(segs)
          BY <1>2
        <5> QED BY <1>2, <5>1, Room
      <4>2. g \in Nat /\ h = g + Width(s, k + 1)
        <5> DEFINE j == k + 1
        <5>1. j \in 1..Rounds(s) /\ j - 1 = k /\ k \in 0..Rounds(s)
          BY <1>3, <1>6, <2>4
        <5> HIDE DEF j, segs, s
        <5>2. /\ GroupStart(ver, s, k) \in Nat
              /\ GroupStart(ver, s, j) = GroupStart(ver, s, j - 1) + Width(s, j)
          BY <1>2, <1>4, <5>1, GroupStarts
        <5> QED BY <5>1, <5>2 DEF j
      <4>3. h = g + w
        BY <1>6, <4>2
      <4>4. parser'.pos = (b + g) + w
        BY <2>5, <2>8
      <4>5. w \in Nat
        BY <1>6
      <4> HIDE DEF b, g, h, w
      <4>6. parser'.pos = b + h
        BY <4>1, <4>2, <4>3, <4>4, <4>5
      <4> QED BY <4>6 DEF b, h
    <3>2. parser'.n = Len(s.chars) - Mark(s, k + 1)
      BY <2>6, <2>8
    <3>3. parser'.out = TextTo(segs, i - 1) \o SubSeq(s.chars, 1, Mark(s, k + 1))
      BY <2>7, <2>8
    <3>4. parser'.mode = s.mode /\ BestTo(segs, i - 1, parser'.best)
      BY <2>5, <2>8
    <3> QED BY <1>3, <2>4, <3>1, <3>2, <3>3, <3>4 DEF AtGroup
  <2>10. parser'.pos <= Len(data)
    BY <2>2, <2>8
  <2> QED BY <1>1, <1>2, <1>3, <2>1, <2>4, <2>8, <2>9, <2>10, Stands
<1> QED BY <1>8, <1>9

(* The end of a segment: the whole offer always is one of the prefixes     *)
(* that parse, so the last segment leaves it as the best.                  *)
LEMMA EndSegmentKeeps ==
  ASSUME ParserInv, EndSegment
  PROVE  ParserInv'
<1> DEFINE segs == payload.segs
           best == IF Parses(parser.out) THEN parser.out ELSE parser.best
<1>1. stage = "data" /\ parser.n = 0 /\ Parsing /\ UNCHANGED <<ver, data, payload>>
  BY DEF EndSegment, Parsing
<1>2. /\ Chosen /\ Opened(ver, segs, payload.slack, data)
      /\ ver \in ParsedVersion /\ segs \in Seq(SegmentTexts) /\ payload.slack \in Int
      /\ Len(segs) \in Nat \ {0} /\ Len(data) \in Nat
      /\ parser \in ParserState /\ parser.pos \in Nat /\ parser.pos <= Len(data)
      /\ parser.out \in Seq(Character)
  BY <1>1, Standing
<1>0. PICK i \in 1..Len(segs) : \E k \in 0..Rounds(segs[i]) : AtGroup(ver, segs, parser, i, k)
  BY <1>1 DEF ParserInv
<1>3. PICK k \in 0..Rounds(segs[i]) : i \in 1..Len(segs) /\ AtGroup(ver, segs, parser, i, k)
  BY <1>0
<1>4. parser.pos = Start(ver, segs, i) /\ parser.out = TextTo(segs, i)
  <2> HIDE DEF segs
  <2>1. k = Rounds(segs[i])
    BY <1>1, <1>2, <1>3, AtGroupEnds
  <2> QED BY <1>2, <1>3, <2>1, AtGroupEnds
<1>5. BestTo(segs, i - 1, parser.best)
  BY <1>3 DEF AtGroup
<1>6. stage' = "mode" /\ parser' = [parser EXCEPT !.best = best]
  BY DEF EndSegment
<1>7. best \in Seq(Character)
  <2>1. parser.best \in Seq(Character)
    BY <1>2 DEF ParserState
  <2> QED BY <1>2, <2>1
<1>8. BestTo(segs, i, best)
  <2>1. i = Len(segs) => Parses(parser.out)
    <3>1. Len(segs) \in 1..Len(segs)
      BY <1>2
    <3>2. Text(SubSeq(segs, 1, Len(segs))) = TextTo(segs, Len(segs))
      <4> HIDE DEF segs
      <4> QED BY <1>2, <3>1, TextOfFirst
    <3>3. Len(segs) \in payload.parses
      BY <1>2 DEF Chosen
    <3> QED BY <1>4, <3>2, <3>3 DEF Parses
  <2>2. CASE Parses(parser.out)
    BY <1>3, <1>4, <2>2 DEF BestTo
  <2>3. CASE ~ Parses(parser.out)
    <3>1. \A j \in 1..(i - 1) : j \in 1..i
      BY <1>3
    <3> QED BY <1>5, <2>1, <2>3, <3>1 DEF BestTo
  <2> QED BY <2>2, <2>3
<1>9. /\ parser' \in ParserState /\ parser'.pos = parser.pos /\ parser'.out = parser.out
      /\ parser'.best = best
  <2> HIDE DEF best
  <2>1. ASSUME NEW T, NEW p \in [pos : Nat, mode : {0, 1, 2, 4}, n : Nat, out : T, best : T], NEW b \in T,
               NEW q, q = [p EXCEPT !.best = b]
        PROVE  /\ q \in [pos : Nat, mode : {0, 1, 2, 4}, n : Nat, out : T, best : T]
               /\ q.pos = p.pos /\ q.out = p.out /\ q.best = b
    BY <2>1
  <2> QED BY <1>2, <1>6, <1>7, <2>1 DEF ParserState
<1>10. i \in 0..Len(segs) /\ AtMode(ver, segs, parser', i)
  BY <1>2, <1>3, <1>4, <1>8, <1>9 DEF AtMode
<1> QED BY <1>1, <1>2, <1>6, <1>9, <1>10, Stands

(* The start of the parser: any segments, from which the encoder wrote.    *)
LEMMA OpenKeeps ==
  ASSUME ParserInv, Open
  PROVE  ParserInv'
<1>1. /\ ~ Parsing /\ stage' = "mode" /\ ver \in ParsedVersion
      /\ UNCHANGED <<ver, walk, parser, result>>
  BY DEF Open, Parsing
<1>2. PICK m \in 1..MaxSegments, slack \in (-MaxSlack)..MaxSlack :
        \E segs \in [1..m -> SegmentTexts], parses \in SUBSET (1..m) :
          /\ m \in parses
          /\ payload' = [segs |-> segs, slack |-> slack, parses |-> parses]
          /\ data' = Encoded(ver, segs, slack)
  BY DEF Open
<1>3. PICK segs \in [1..m -> SegmentTexts], parses \in SUBSET (1..m) :
          /\ m \in parses
          /\ payload' = [segs |-> segs, slack |-> slack, parses |-> parses]
          /\ data' = Encoded(ver, segs, slack)
  BY <1>2
<1>4. m \in Nat \ {0} /\ slack \in Int
  BY SegmentAssumption
<1>5. segs \in Seq(SegmentTexts) /\ Len(segs) = m
  BY <1>4
<1>6. payload'.segs = segs /\ payload'.slack = slack /\ payload'.parses = parses
  BY <1>3
<1>7. segs # <<>>
  BY <1>4, <1>5
<1>8. Opened(ver', payload'.segs, payload'.slack, data')
  BY <1>1, <1>3, <1>4, <1>5, <1>6, <1>7 DEF Opened
<1>9. Chosen'
  BY <1>3, <1>5, <1>6, <1>8 DEF Chosen
<1>10. parser' = [pos |-> 0, mode |-> 0, n |-> 0, out |-> NoText, best |-> NoText]
  BY <1>1 DEF ParserInv
<1>11. parser' \in ParserState
  <2>1. NoText \in Seq(Character)
    BY DEF NoText
  <2> HIDE DEF Character
  <2> QED BY <1>10, <2>1 DEF ParserState
<1>12. parser'.pos = 0 /\ parser'.out = NoText /\ parser'.best = NoText
  BY <1>10
<1>13. Len(data') \in Nat /\ Start(ver', payload'.segs, 0) = 0
  BY <1>8, Room
<1>14. TextTo(payload'.segs, 0) = NoText
  BY <1>1, <1>5, <1>6, TextSteps DEF NoText
<1>15. 0 \in 0..Len(payload'.segs) /\ 0 # Len(payload'.segs)
  BY <1>4, <1>5, <1>6
<1>16. AtMode(ver', payload'.segs, parser', 0)
  BY <1>12, <1>13, <1>14, <1>15 DEF AtMode, BestTo
<1>17. Parsing' /\ OfferComesBack' /\ parser'.pos <= Len(data')
  BY <1>1, <1>12, <1>13 DEF Parsing, OfferComesBack
<1> QED BY <1>1, <1>9, <1>11, <1>15, <1>16, <1>17 DEF ParserInv

(* At every step of parseBytePayload the position is the start of a field *)
(* that the encoder wrote, and the output is the text in front of it.     *)
THEOREM ParserStands == Spec => []ParserInv
<1>1. Init => ParserInv
  BY DEF Init, ParserInv, Parsing, OfferComesBack
<1>2. ParserInv /\ [Next]_vars => ParserInv'
  <2> SUFFICES ASSUME ParserInv, [Next]_vars PROVE ParserInv'
    OBVIOUS
  <2>1. CASE Walk
    BY <2>1 DEF Walk, ParserInv, Parsing, OfferComesBack
  <2>2. CASE \E level \in Level : PutInOrder(level)
    BY <2>2 DEF PutInOrder, ParserInv, Parsing, OfferComesBack
  <2>3. CASE Open
    BY <2>3, OpenKeeps
  <2>4. CASE ReadMode
    BY <2>4, ReadModeKeeps
  <2>5. CASE ReadCount
    BY <2>5, ReadCountKeeps
  <2>6. CASE ReadChunk
    BY <2>6, ReadChunkKeeps
  <2>7. CASE EndSegment
    BY <2>7, EndSegmentKeeps
  <2>8. CASE Done \/ UNCHANGED vars
    <3>1. UNCHANGED vars
      BY <2>8 DEF Done
    <3> QED BY <3>1 DEF vars, ParserInv, Parsing, Chosen, OfferComesBack
  <2> QED BY <2>1, <2>2, <2>3, <2>4, <2>5, <2>6, <2>7, <2>8 DEF Next
<1> QED BY <1>1, <1>2, PTL DEF Spec

(* For texts of any number of segments of any length, in every version: a *)
(* payload that was not cut gives the whole offer, and a cut one an error *)
(* or a prefix of it (parseBytePayload).                                  *)
THEOREM OffersComeBack == Spec => []OfferComesBack
<1>1. ParserInv => OfferComesBack
  BY DEF ParserInv
<1> QED BY <1>1, ParserStands, PTL

-----------------------------------------------------------------------------
(* The walk over the grid.                                                 *)

(* Column pair p of the walk and row r of it. *)
InColumn(w, n, p, r) ==
  /\ p \in Nat /\ r \in 0..(n - 1) /\ w.k = p * n + r /\ 2 * p < n - 1
  /\ w.x + 1 = (IF n - 1 - 2 * p > 6 THEN n - 1 - 2 * p ELSE n - 2 - 2 * p)
  /\ w.dirUp = (p % 2 = 0)
  /\ w.y = (IF p % 2 = 0 THEN n - 1 - r ELSE r)

(* The walk is in one of its rows, and when it is over it has read all of *)
(* them.                                                                  *)
WalkInv ==
  /\ stage \in {"walk", "blocks", "mode", "count", "data", "done"}
  /\ ver \in Version
  /\ walk \in [x : -2..(Side(ver) - 2), y : 0..(Side(ver) - 1), dirUp : BOOLEAN, k : Nat, taken : Int]
  /\ stage = "walk" => \E p, r : InColumn(walk, Side(ver), p, r)
  /\ stage # "walk" => 2 * walk.k = Side(ver) * (Side(ver) - 1)

(* Row r of column pair p is counted as p * n + r. *)
LEMMA RowOfColumn ==
  ASSUME NEW n \in Nat \ {0}, NEW p \in Nat, NEW r \in 0..(n - 1)
  PROVE  (p * n + r) \div n = p /\ (p * n + r) % n = r
<1> DEFINE q == (p * n + r) \div n
           m == (p * n + r) % n
           pn == p * n
<1>1. pn \in Nat
  OBVIOUS
<1>2. q \in Int /\ m \in 0..(n - 1) /\ pn + r = n * q + m
  <2> HIDE DEF pn
  <2>1. \A a \in Nat : a \div n \in Int /\ a % n \in 0..(n - 1) /\ a = n * (a \div n) + (a % n)
    OBVIOUS
  <2>2. pn + r \in Nat
    BY <1>1
  <2> QED BY <2>1, <2>2 DEF pn
<1>3. q = p
  <2> HIDE DEF q, m
  <2>1. n * (q - p) = r - m
    <3>1. n * (q - p) = n * q - pn
      BY <1>2
    <3> QED BY <1>1, <1>2, <3>1
  <2>2. n * (q - p) < n /\ n * (q - p) > - n
    BY <1>2, <2>1
  <2>3. \A t \in Int : n * t < n /\ n * t > -n => t = 0
    <3> SUFFICES ASSUME NEW t \in Int, n * t < n, n * t > -n PROVE t = 0
      OBVIOUS
    <3>1. t >= 1 => n * t >= n
      OBVIOUS
    <3>2. t <= -1 => n * t <= -n
      OBVIOUS
    <3> QED BY <3>1, <3>2
  <2>4. q - p \in Int
    BY <1>2
  <2> QED BY <1>2, <2>2, <2>3, <2>4
<1>4. m = r
  <2> HIDE DEF q, m, pn
  <2>1. pn + r = pn + m
    BY <1>2, <1>3 DEF pn
  <2> QED BY <1>1, <1>2, <2>1
<1> QED BY <1>3, <1>4

(* The walk is in a row again, or has read half the modules but a column. *)
Turned(w, n) ==
  /\ w \in [x : -2..(n - 2), y : 0..(n - 1), dirUp : BOOLEAN, k : Nat, taken : Int]
  /\ w.x >= 0 => \E p, r : InColumn(w, n, p, r)
  /\ ~ (w.x >= 0) => 2 * w.k = n * (n - 1)

(* The next row of the pair, or the first one of the next pair.           *)
LEMMA TurnKeeps ==
  ASSUME NEW n \in {21 + 4 * j : j \in Nat}, NEW p, NEW r,
         NEW w \in [x : -2..(n - 2), y : 0..(n - 1), dirUp : BOOLEAN, k : Nat, taken : Int],
         InColumn(w, n, p, r), NEW taken \in Int,
         NEW z, z = Turn([w EXCEPT !.k = @ + 1, !.taken = taken], n)
  PROVE  Turned(z, n)
<1> DEFINE u == Turn([w EXCEPT !.k = @ + 1, !.taken = taken], n)
           W == [x : -2..(n - 2), y : 0..(n - 1), dirUp : BOOLEAN, k : Nat, taken : Int]
<1>1. n \in Nat /\ n >= 21
  OBVIOUS
<1>2. /\ p \in Nat /\ r \in 0..(n - 1) /\ w.k = p * n + r /\ 2 * p < n - 1
      /\ w.x + 1 = (IF n - 1 - 2 * p > 6 THEN n - 1 - 2 * p ELSE n - 2 - 2 * p)
      /\ w.dirUp = (p % 2 = 0)
      /\ w.y = (IF p % 2 = 0 THEN n - 1 - r ELSE r)
  BY DEF InColumn
<1>3. w.x \in -2..(n - 2) /\ w.y \in 0..(n - 1) /\ w.dirUp \in BOOLEAN /\ w.k \in Nat
  OBVIOUS
<1>4. CASE r < n - 1
  <2>1. /\ u.x = w.x /\ u.dirUp = w.dirUp /\ u.k = w.k + 1 /\ u \in W
        /\ u.y = (IF w.dirUp THEN w.y - 1 ELSE w.y + 1)
    <3>1. w.dirUp => w.y > 0
      BY <1>1, <1>2, <1>4
    <3>2. ~ w.dirUp => w.y < n - 1
      BY <1>1, <1>2, <1>4
    <3> DEFINE y == IF w.dirUp THEN w.y - 1 ELSE w.y + 1
    <3>3. y \in 0..(n - 1) /\ w.k + 1 \in Nat
      BY <1>1, <1>3, <3>1, <3>2
    <3>4. u = [w EXCEPT !.k = @ + 1, !.taken = taken, !.y = y]
      BY <3>1, <3>2 DEF Turn
    <3> HIDE DEF y, u
    <3>5. u \in W /\ u.x = w.x /\ u.dirUp = w.dirUp /\ u.k = w.k + 1 /\ u.y = y
      BY <3>3, <3>4
    <3> QED BY <3>5 DEF y
  <2>2. r + 1 \in 0..(n - 1)
    BY <1>1, <1>2, <1>4
  <2>3. u.k = p * n + (r + 1)
    <3> DEFINE pn == p * n
    <3>1. pn \in Int
      BY <1>1, <1>2
    <3> HIDE DEF pn, u
    <3>2. w.k = pn + r /\ u.k = w.k + 1
      BY <1>2, <2>1 DEF pn
    <3>3. u.k = pn + (r + 1)
      BY <1>2, <3>1, <3>2
    <3> QED BY <3>3 DEF pn
  <2>4. u.y = (IF p % 2 = 0 THEN n - 1 - (r + 1) ELSE r + 1)
    <3> HIDE DEF u
    <3> QED BY <1>1, <1>2, <2>1
  <2>5. w.x >= 0
    <3>1. PICK j \in Nat : n = 21 + 4 * j
      OBVIOUS
    <3> DEFINE a == w.x
    <3>2. a \in Int /\ a + 1 = (IF n - 1 - 2 * p > 6 THEN n - 1 - 2 * p ELSE n - 2 - 2 * p)
      BY <1>2, <1>3
    <3> HIDE DEF a
    <3>3. a >= 0
      BY <1>2, <3>1, <3>2
    <3> QED BY <3>3 DEF a
  <2> HIDE DEF u
  <2>6. InColumn(u, n, p, r + 1)
    BY <1>2, <2>1, <2>2, <2>3, <2>4 DEF InColumn
  <2> QED BY <2>1, <2>5, <2>6 DEF u, Turned
<1>5. CASE r = n - 1
  <2>1. /\ u.x = SkipTiming(w.x - 2) /\ u.dirUp = ~ w.dirUp /\ u.k = w.k + 1 /\ u.y = w.y
        /\ u.taken = taken /\ u = [x |-> u.x, y |-> u.y, dirUp |-> u.dirUp, k |-> u.k, taken |-> u.taken]
    <3>1. w.dirUp => ~ (w.y > 0)
      BY <1>1, <1>2, <1>5
    <3>2. ~ w.dirUp => ~ (w.y < n - 1)
      BY <1>1, <1>2, <1>5
    <3> QED BY <1>1, <1>3, <3>1, <3>2 DEF Turn
  <2>2. PICK j \in Nat : n = 21 + 4 * j
    OBVIOUS
  <2> DEFINE x == u.x
  <2>3. /\ x \in -2..(n - 2)
        /\ x >= 0 => /\ 2 * (p + 1) < n - 1
                     /\ x + 1 = (IF n - 1 - 2 * (p + 1) > 6 THEN n - 1 - 2 * (p + 1) ELSE n - 2 - 2 * (p + 1))
        /\ ~ (x >= 0) => 2 * (p + 1) = n - 1
    <3> DEFINE a == w.x
    <3>1. x = SkipTiming(a - 2) /\ a \in Int
      BY <1>3, <2>1
    <3>2. a + 1 = (IF n - 1 - 2 * p > 6 THEN n - 1 - 2 * p ELSE n - 2 - 2 * p)
      BY <1>2
    <3> HIDE DEF x, a, u
    <3> QED BY <1>2, <2>2, <3>1, <3>2 DEF SkipTiming
  <2>4. u \in W
    <3>1. u.k \in Nat /\ u.y \in 0..(n - 1) /\ u.dirUp \in BOOLEAN /\ u.x \in -2..(n - 2) /\ u.taken \in Int
      <4>1. x \in -2..(n - 2)
        BY <2>3
      <4> HIDE DEF u
      <4> QED BY <1>3, <2>1, <4>1
    <3>2. u = [x |-> u.x, y |-> u.y, dirUp |-> u.dirUp, k |-> u.k, taken |-> u.taken]
      BY <2>1
    <3> DEFINE ux == u.x
               uy == u.y
               uk == u.k
               ud == u.dirUp
               ut == u.taken
    <3>3. u = [x |-> ux, y |-> uy, dirUp |-> ud, k |-> uk, taken |-> ut]
      BY <3>2
    <3>4. uk \in Nat /\ uy \in 0..(n - 1) /\ ud \in BOOLEAN /\ ux \in -2..(n - 2) /\ ut \in Int
      BY <3>1
    <3> HIDE DEF u, ux, uy, uk, ud, ut, x
    <3> QED BY <3>3, <3>4
  <2>5. u.k = (p + 1) * n + 0
    <3> DEFINE pn == p * n
    <3>1. pn \in Int /\ (p + 1) * n = pn + n
      BY <1>1, <1>2
    <3> HIDE DEF pn, u
    <3>2. w.k = pn + r /\ u.k = w.k + 1
      BY <1>2, <2>1 DEF pn
    <3> QED BY <1>1, <1>5, <3>1, <3>2
  <2>6. u.dirUp = ((p + 1) % 2 = 0)
    <3>1. (p % 2 = 0) = ~ ((p + 1) % 2 = 0)
      BY <1>2
    <3> HIDE DEF u
    <3> QED BY <1>2, <2>1, <3>1
  <2>7. u.y = (IF (p + 1) % 2 = 0 THEN n - 1 - 0 ELSE 0)
    <3>1. (p % 2 = 0) = ~ ((p + 1) % 2 = 0)
      BY <1>2
    <3> HIDE DEF u
    <3> QED BY <1>1, <1>2, <1>5, <2>1, <3>1
  <2>8. p + 1 \in Nat /\ 0 \in 0..(n - 1)
    BY <1>1, <1>2
  <2> HIDE DEF u
  <2>9. u.x >= 0 => InColumn(u, n, p + 1, 0)
    BY <2>3, <2>5, <2>6, <2>7, <2>8 DEF InColumn
  <2>10. ~ (u.x >= 0) => 2 * u.k = n * (n - 1)
    <3> SUFFICES ASSUME ~ (u.x >= 0) PROVE 2 * u.k = n * (n - 1)
      OBVIOUS
    <3> DEFINE q == p + 1
    <3>1. 2 * q = n - 1 /\ q \in Nat /\ u.k = q * n + 0
      BY <2>3, <2>5, <2>8
    <3> HIDE DEF q
    <3>2. 2 * (q * n) = n * (2 * q)
      BY <1>1, <3>1
    <3>3. q * n \in Int
      BY <1>1, <3>1
    <3> DEFINE qn == q * n
    <3> HIDE DEF qn
    <3>4. u.k = qn
      BY <3>1, <3>3 DEF qn
    <3> QED BY <3>1, <3>2, <3>4 DEF qn
  <2> QED BY <2>4, <2>9, <2>10 DEF u, Turned
<1>6. r < n - 1 \/ r = n - 1
  BY <1>1, <1>2
<1> QED BY <1>4, <1>5, <1>6

(* A step of unmaskBitsPolarity. *)
LEMMA WalkKeeps ==
  ASSUME WalkInv, Walk
  PROVE  WalkInv'
<1> DEFINE n == Side(ver)
           free == {<<walk.x + 1, walk.y>>, <<walk.x, walk.y>>} \ Reserved[ver]
           taken == walk.taken + Cardinality(free)
           W == [x : -2..(n - 2), y : 0..(n - 1), dirUp : BOOLEAN, k : Nat, taken : Int]
<1>1. stage = "walk" /\ ver \in Version /\ ver' = ver
  BY DEF Walk, WalkInv
<1>2. walk \in W /\ walk.taken \in Int
  <2>1. walk \in W
    BY DEF WalkInv
  <2> QED BY <2>1
<1>3. PICK p, r : InColumn(walk, n, p, r)
  BY <1>1 DEF WalkInv
<1>4. n \in {21 + 4 * j : j \in Nat}
  <2>1. ver - 1 \in Nat
    BY <1>1 DEF Version
  <2> QED BY <2>1 DEF Side
<1>5. taken \in Int
  <2> DEFINE a == <<walk.x + 1, walk.y>>
             b == <<walk.x, walk.y>>
  <2> HIDE DEF a, b
  <2>1. IsFiniteSet({a}) /\ IsFiniteSet({a} \cup {b})
    BY FS_Singleton, FS_AddElement
  <2>2. {a, b} = {a} \cup {b} /\ {a, b} \ Reserved[ver] \subseteq {a, b}
    OBVIOUS
  <2>3. IsFiniteSet({a, b} \ Reserved[ver])
    BY <2>1, <2>2, FS_Subset
  <2>4. Cardinality({a, b} \ Reserved[ver]) \in Nat
    BY <2>3, FS_CardinalityType
  <2> QED BY <1>2, <2>4 DEF a, b
<1>6. walk' = Turn([walk EXCEPT !.k = @ + 1, !.taken = taken], n)
  BY DEF Walk
<1>7. /\ walk' \in W /\ (walk'.x >= 0 => \E q, s : InColumn(walk', n, q, s))
      /\ ~ (walk'.x >= 0) => 2 * walk'.k = n * (n - 1)
  <2> HIDE DEF n, taken
  <2>1. Turned(walk', n)
    BY <1>2, <1>3, <1>4, <1>5, <1>6, TurnKeeps
  <2> QED BY <2>1 DEF Turned
<1>8. stage' \in {"walk", "blocks"} /\ (stage' = "walk" <=> walk'.x >= 0)
  <2>1. stage' = IF walk'.x >= 0 THEN "walk" ELSE "blocks"
    BY DEF Walk
  <2> QED BY <2>1
<1> QED BY <1>1, <1>7, <1>8 DEF WalkInv

(* The position of unmaskBitsPolarity follows from the rows it has read.  *)
THEOREM WalkStands == Spec => []WalkInv
<1>1. Init => WalkInv
  <2> SUFFICES ASSUME Init PROVE WalkInv
    OBVIOUS
  <2> DEFINE n == Side(ver)
  <2>1. ver \in Version /\ n \in Nat /\ n >= 21
    BY DEF Init, Version, Side
  <2>2. walk = [x |-> n - 2, y |-> n - 1, dirUp |-> TRUE, k |-> 0, taken |-> 0] /\ stage = "walk"
    BY DEF Init
  <2> HIDE DEF n
  <2>3. walk \in [x : -2..(n - 2), y : 0..(n - 1), dirUp : BOOLEAN, k : Nat, taken : Int]
    BY <2>1, <2>2
  <2>4. InColumn(walk, n, 0, 0)
    <3>1. walk.x = n - 2 /\ walk.y = n - 1 /\ walk.dirUp = TRUE /\ walk.k = 0
      BY <2>2
    <3>2. 0 \in Nat /\ 0 \in 0..(n - 1) /\ 0 = 0 * n + 0 /\ 2 * 0 < n - 1 /\ n - 1 - 2 * 0 > 6
      BY <2>1
    <3>3. (0 % 2 = 0) = TRUE
      OBVIOUS
    <3>4. n - 2 + 1 = n - 1 - 2 * 0 /\ n - 1 = n - 1 - 0
      BY <2>1
    <3> QED BY <3>1, <3>2, <3>3, <3>4 DEF InColumn
  <2> QED BY <2>1, <2>2, <2>3, <2>4 DEF WalkInv, n
<1>2. WalkInv /\ [Next]_vars => WalkInv'
  <2> SUFFICES ASSUME WalkInv, [Next]_vars PROVE WalkInv'
    OBVIOUS
  <2>1. CASE Walk
    BY <2>1, WalkKeeps
  <2>2. CASE \E level \in Level : PutInOrder(level)
    BY <2>2 DEF PutInOrder, WalkInv
  <2>3. CASE Open
    BY <2>3 DEF Open, WalkInv
  <2>4. CASE ReadMode
    BY <2>4 DEF ReadMode, Stop, WalkInv
  <2>5. CASE ReadCount
    BY <2>5 DEF ReadCount, Stop, WalkInv
  <2>6. CASE ReadChunk
    BY <2>6 DEF ReadChunk, Stop, WalkInv
  <2>7. CASE EndSegment
    BY <2>7 DEF EndSegment, WalkInv
  <2>8. CASE Done \/ UNCHANGED vars
    BY <2>8 DEF Done, vars, WalkInv
  <2> QED BY <2>1, <2>2, <2>3, <2>4, <2>5, <2>6, <2>7, <2>8 DEF Next
<1> QED BY <1>1, <1>2, PTL DEF Spec

(* When the walk over the grid ends it has read every pair of modules     *)
(* once: half of all modules but those of the timing column               *)
(* (unmaskBitsPolarity).                                                  *)
THEOREM WalkCoversTheGrid ==
  Spec => [](stage # "walk" => 2 * walk.k = Side(ver) * (Side(ver) - 1))
<1>1. WalkInv => (stage # "walk" => 2 * walk.k = Side(ver) * (Side(ver) - 1))
  BY DEF WalkInv
<1> QED BY <1>1, WalkStands, PTL

(* In every version the columns are read in the order in which they were  *)
(* written (unmaskBitsPolarity).                                          *)
THEOREM WalksInOrder == Spec => []ReadsInWritingOrder
<1>1. WalkInv => ReadsInWritingOrder
  <2> SUFFICES ASSUME WalkInv, stage = "walk"
               PROVE  LET n == Side(ver)
                          pair == walk.k \div n
                          right == n - 1 - 2 * pair
                      IN  /\ walk.x + 1 = (IF right > 6 THEN right ELSE right - 1)
                          /\ walk.y = (IF pair % 2 = 0 THEN n - 1 - (walk.k % n) ELSE walk.k % n)
    BY DEF ReadsInWritingOrder
  <2> DEFINE n == Side(ver)
  <2>1. n \in Nat \ {0}
    BY DEF WalkInv, Version, Side
  <2>2. PICK p, r : InColumn(walk, n, p, r)
    BY DEF WalkInv
  <2> HIDE DEF n
  <2>3. /\ p \in Nat /\ r \in 0..(n - 1) /\ walk.k = p * n + r
        /\ walk.x + 1 = (IF n - 1 - 2 * p > 6 THEN n - 1 - 2 * p ELSE n - 2 - 2 * p)
        /\ walk.y = (IF p % 2 = 0 THEN n - 1 - r ELSE r)
    BY <2>2 DEF InColumn
  <2>4. walk.k \div n = p /\ walk.k % n = r
    BY <2>1, <2>3, RowOfColumn
  <2>5. n - 2 - 2 * p = n - 1 - 2 * p - 1
    BY <2>1, <2>3
  <2> QED BY <2>3, <2>4, <2>5 DEF n
<1> QED BY <1>1, WalkStands, PTL

(* The position stays in the grid, or just left of it, and the parser     *)
(* never stands behind the end of the data.                               *)
THEOREM TypeCorrect == Spec => []TypeOK
<1>1. WalkInv /\ ParserInv => TypeOK
  <2> SUFFICES ASSUME WalkInv, ParserInv PROVE TypeOK
    OBVIOUS
  <2>1. walk.x \in -2..(Side(ver) - 2) /\ walk.y \in 0..(Side(ver) - 1) /\ walk.dirUp \in BOOLEAN
    BY DEF WalkInv
  <2>2. stage \in {"mode", "count", "data", "done"} =>
          parser.pos \in 0..Len(data) /\ parser.mode \in {0, 1, 2, 4}
    <3> SUFFICES ASSUME Parsing PROVE parser.pos \in 0..Len(data) /\ parser.mode \in {0, 1, 2, 4}
      BY DEF Parsing
    <3>1. Len(data) \in Nat /\ parser \in ParserState /\ parser.pos \in Nat /\ parser.pos <= Len(data)
      BY Standing
    <3>2. parser.mode \in {0, 1, 2, 4}
      BY <3>1 DEF ParserState
    <3> QED BY <3>1, <3>2
  <2> QED BY <2>1, <2>2 DEF TypeOK, WalkInv
<1> QED BY <1>1, WalkStands, ParserStands, PTL

-----------------------------------------------------------------------------
(* The blocks in order.                                                    *)

(* One group of blocks, or two whose blocks differ by one data codeword.   *)
Groupings(g) ==
  /\ Len(g) \in {1, 2}
  /\ g[1][1] \in Nat \ {0} /\ g[1][3] \in Nat \ {0} /\ g[1][2] \in Nat /\ g[1][3] <= g[1][2]
  /\ Len(g) = 2 => g[2][1] \in Nat \ {0} /\ g[2][2] \in Nat /\ g[2][3] = g[1][3] + 1 /\ g[2][3] <= g[2][2]

(* A row of the table, with a name for each entry.                         *)
Row(v) == \A l \in 1..4 : \E g : g = EccBlocks[v][l] /\ Groupings(g)

(* The table, version by version. *)
LEMMA Table == \A v \in Version, level \in Level : Groupings(EccBlocks[v][level + 1])
<1>1. Row(1)
  BY DEF EccBlocks, Groupings, Row
<1>2. Row(2)
  BY DEF EccBlocks, Groupings, Row
<1>3. Row(3)
  BY DEF EccBlocks, Groupings, Row
<1>4. Row(4)
  BY DEF EccBlocks, Groupings, Row
<1>5. Row(5)
  BY DEF EccBlocks, Groupings, Row
<1>6. Row(6)
  BY DEF EccBlocks, Groupings, Row
<1>7. Row(7)
  BY DEF EccBlocks, Groupings, Row
<1>8. Row(8)
  BY DEF EccBlocks, Groupings, Row
<1>9. Row(9)
  BY DEF EccBlocks, Groupings, Row
<1>10. Row(10)
  BY DEF EccBlocks, Groupings, Row
<1>11. Row(11)
  BY DEF EccBlocks, Groupings, Row
<1>12. Row(12)
  BY DEF EccBlocks, Groupings, Row
<1>13. Row(13)
  BY DEF EccBlocks, Groupings, Row
<1>14. Row(14)
  BY DEF EccBlocks, Groupings, Row
<1>15. Row(15)
  BY DEF EccBlocks, Groupings, Row
<1>16. Row(16)
  BY DEF EccBlocks, Groupings, Row
<1>17. Row(17)
  BY DEF EccBlocks, Groupings, Row
<1>18. Row(18)
  BY DEF EccBlocks, Groupings, Row
<1>19. Row(19)
  BY DEF EccBlocks, Groupings, Row
<1>20. Row(20)
  BY DEF EccBlocks, Groupings, Row
<1>21. ASSUME NEW v \in Version PROVE Row(v)
  <2>1. v \in 1..10 \/ v \in 11..20
    BY DEF Version
  <2>2. CASE v \in 1..10
    BY <2>2, <1>1, <1>2, <1>3, <1>4, <1>5, <1>6, <1>7, <1>8, <1>9, <1>10
  <2>3. CASE v \in 11..20
    BY <2>3, <1>11, <1>12, <1>13, <1>14, <1>15, <1>16, <1>17, <1>18, <1>19, <1>20
  <2> QED BY <2>1, <2>2, <2>3
<1>22. \A level \in Level : level + 1 \in 1..4
  BY DEF Level
<1> QED BY <1>21, <1>22 DEF Row

(* n blocks, the first s of d data codewords and the others of one more.   *)
Shape(blocks, n, s, d) ==
  /\ n \in Nat \ {0} /\ s \in 1..n /\ d \in Nat \ {0}
  /\ DOMAIN blocks = 1..n /\ Len(blocks) = n
  /\ \A b \in 1..n : /\ blocks[b].data = (IF b <= s THEN d ELSE d + 1)
                     /\ blocks[b].total \in Nat /\ blocks[b].data <= blocks[b].total

(* All blocks of a symbol have that shape. *)
LEMMA Shapes ==
  ASSUME NEW v \in Version, NEW level \in Level
  PROVE  \E n, s, d : Shape(Blocks(v, level), n, s, d)
<1> DEFINE g == EccBlocks[v][level + 1]
           n == g[1][1] + (IF Len(g) = 2 THEN g[2][1] ELSE 0)
           blocks == Blocks(v, level)
<1>1. Groupings(g)
  BY Table
<1>2. blocks = [b \in 1..n |-> LET h == g[IF b <= g[1][1] THEN 1 ELSE 2] IN [total |-> h[2], data |-> h[3]]]
  BY DEF Blocks
<1> HIDE DEF g, blocks
<1>3. n \in Nat \ {0} /\ g[1][1] \in 1..n /\ g[1][3] \in Nat \ {0}
  BY <1>1 DEF Groupings
<1>4. Len(blocks) = n /\ DOMAIN blocks = 1..n
  <2> HIDE DEF n
  <2>1. DOMAIN blocks = 1..n
    BY <1>2
  <2>2. blocks = [b \in 1..n |-> blocks[b]]
    BY <1>2
  <2> QED BY <1>3, <2>1, <2>2
<1>5. ASSUME NEW b \in 1..n
      PROVE  /\ blocks[b].data = (IF b <= g[1][1] THEN g[1][3] ELSE g[1][3] + 1)
             /\ blocks[b].total \in Nat /\ blocks[b].data <= blocks[b].total
  <2>1. CASE b <= g[1][1]
    BY <1>1, <1>2, <2>1 DEF Groupings
  <2>2. CASE ~ (b <= g[1][1])
    <3>1. Len(g) = 2
      BY <1>1, <2>2 DEF Groupings
    <3> QED BY <1>1, <1>2, <2>2, <3>1 DEF Groupings
  <2> QED BY <2>1, <2>2
<1> HIDE DEF n
<1>6. Shape(blocks, n, g[1][1], g[1][3])
  BY <1>3, <1>4, <1>5 DEF Shape
<1> QED BY <1>6 DEF blocks

(* A sum of numbers that are x and a step of e each.                       *)
LEMMA SumOfSteps ==
  ASSUME NEW m \in Nat, NEW f \in [1..m -> Nat], NEW x \in Int, NEW e \in [0..m -> Int], e[0] = 0,
         \A n \in 1..m : f[n] = x + e[n] - e[n - 1]
  PROVE  SumOf(f) = m * x + e[m]
<1>1. f \in Seq(Nat) /\ Len(f) = m
  OBVIOUS
<1>2. PICK h \in [0..m -> Nat] :
        h[0] = 0 /\ (\A n \in 1..m : h[n] = 1 * h[n - 1] + f[n]) /\ h[m] = Horner(1, f)
  BY <1>1, HornerSteps
<1> DEFINE S == {n \in Nat : n <= m => h[n] = n * x + e[n]}
<1>3. 0 \in S
  BY <1>2
<1>4. ASSUME NEW n \in Nat, n \in S PROVE n + 1 \in S
  <2> SUFFICES ASSUME n + 1 <= m PROVE h[n + 1] = (n + 1) * x + e[n + 1]
    OBVIOUS
  <2> DEFINE a == h[n]
             b == h[n + 1]
             c == e[n]
             k == e[n + 1]
             nx == n * x
  <2>1. n \in 0..m /\ n + 1 \in 1..m /\ n + 1 \in 0..m /\ (n + 1) - 1 = n
    OBVIOUS
  <2>2. b = 1 * a + f[n + 1] /\ f[n + 1] = x + k - c /\ a = nx + c
    <3> DEFINE q == n + 1
    <3>1. q \in 1..m /\ q - 1 = n
      BY <2>1
    <3>2. a = nx + c
      BY <1>4, <2>1
    <3> HIDE DEF q, S, nx
    <3>3. h[q] = 1 * h[q - 1] + f[q] /\ f[q] = x + e[q] - e[q - 1]
      BY <1>2, <3>1
    <3>4. h[q] = 1 * h[n] + f[q] /\ f[q] = x + e[q] - e[n]
      BY <3>1, <3>3
    <3> QED BY <3>2, <3>4 DEF q
  <2>3. a \in Nat /\ b \in Nat /\ c \in Int /\ k \in Int /\ nx \in Int /\ (n + 1) * x = nx + x
    BY <2>1
  <2> HIDE DEF a, b, c, k, nx, S
  <2>4. b = (nx + x) + k
    BY <2>2, <2>3
  <2> QED BY <2>3, <2>4 DEF b, k
<1>5. \A n \in Nat : n \in S
  <2> HIDE DEF S
  <2> QED BY <1>3, <1>4, UpFromZero
<1>6. h[m] = m * x + e[m]
  BY <1>5
<1> QED BY <1>2, <1>6 DEF SumOf

(* The data codewords in front of block c + 1. *)
Before(s, d, c) == d * c + (IF c > s THEN c - s ELSE 0)

(* Row i of block b stands behind the rows above it and the blocks before  *)
(* it that have a row i.                                                   *)
LEMMA PositionIs ==
  ASSUME NEW blocks, NEW n, NEW s, NEW d, Shape(blocks, n, s, d),
         NEW b \in 1..n, NEW i \in 1..blocks[b].data
  PROVE  Position(blocks, b, i) = IF i <= d THEN n * (i - 1) + b ELSE n * d + (b - s)
<1>1. /\ n \in Nat \ {0} /\ s \in 1..n /\ d \in Nat \ {0} /\ DOMAIN blocks = 1..n
      /\ \A c \in 1..n : blocks[c].data = (IF c <= s THEN d ELSE d + 1)
  BY DEF Shape
<1> DEFINE f == [c \in 1..n |-> Min({blocks[c].data, IF c <= b THEN i ELSE i - 1})]
<1>2. Position(blocks, b, i) = SumOf(f)
  BY <1>1 DEF Position
<1>3. \A c \in 1..n : f[c] = (IF blocks[c].data <= (IF c <= b THEN i ELSE i - 1)
                              THEN blocks[c].data ELSE IF c <= b THEN i ELSE i - 1)
  BY <1>1, MinOfTwo
<1>4. CASE i <= d
  <2> DEFINE e == [c \in 0..n |-> IF c <= b THEN c ELSE b]
  <2>1. \A c \in 1..n : f[c] = (IF c <= b THEN i ELSE i - 1)
    BY <1>1, <1>3, <1>4
  <2>2. f \in [1..n -> Nat]
    <3> HIDE DEF f
    <3>1. f = [c \in 1..n |-> f[c]]
      BY DEF f
    <3> QED BY <1>1, <2>1, <3>1
  <2> HIDE DEF f
  <2>3. \A c \in 1..n : f[c] = (i - 1) + e[c] - e[c - 1]
    BY <1>1, <2>1
  <2>4. e \in [0..n -> Int] /\ e[0] = 0 /\ e[n] = b
    BY <1>1
  <2>5. i - 1 \in Int /\ n \in Nat
    BY <1>1
  <2> HIDE DEF e
  <2>6. SumOf(f) = n * (i - 1) + e[n]
    BY <2>2, <2>3, <2>4, <2>5, SumOfSteps
  <2> QED BY <1>2, <1>4, <2>4, <2>6
<1>5. CASE ~ (i <= d)
  <2> DEFINE e == [c \in 0..n |-> IF c <= s THEN 0 ELSE IF c <= b THEN c - s ELSE b - s]
  <2>1. i = d + 1 /\ b > s
    BY <1>1, <1>5
  <2>2. \A c \in 1..n : f[c] = (IF c > s /\ c <= b THEN d + 1 ELSE d)
    BY <1>1, <1>3, <2>1
  <2>3. f \in [1..n -> Nat]
    <3> HIDE DEF f
    <3>1. f = [c \in 1..n |-> f[c]]
      BY DEF f
    <3> QED BY <1>1, <2>2, <3>1
  <2> HIDE DEF f
  <2>4. \A c \in 1..n : f[c] = d + e[c] - e[c - 1]
    BY <1>1, <2>1, <2>2
  <2>5. e \in [0..n -> Int] /\ e[0] = 0 /\ e[n] = b - s
    BY <1>1, <2>1
  <2>6. d \in Int /\ n \in Nat
    BY <1>1
  <2> HIDE DEF e
  <2>7. SumOf(f) = n * d + e[n]
    BY <2>3, <2>4, <2>5, <2>6, SumOfSteps
  <2> QED BY <1>2, <1>5, <2>5, <2>7
<1> QED BY <1>4, <1>5

(* A sum of numbers is at least the sum of smaller ones. *)
LEMMA SumGrows ==
  ASSUME NEW m \in Nat, NEW f \in [1..m -> Nat], NEW g \in [1..m -> Nat], \A n \in 1..m : f[n] <= g[n]
  PROVE  SumOf(f) <= SumOf(g) /\ SumOf(g) \in Nat
<1>1. f \in Seq(Nat) /\ Len(f) = m /\ g \in Seq(Nat) /\ Len(g) = m
  OBVIOUS
<1>2. PICK h \in [0..m -> Nat] :
        h[0] = 0 /\ (\A n \in 1..m : h[n] = 1 * h[n - 1] + f[n]) /\ h[m] = Horner(1, f)
  BY <1>1, HornerSteps
<1>3. PICK k \in [0..m -> Nat] :
        k[0] = 0 /\ (\A n \in 1..m : k[n] = 1 * k[n - 1] + g[n]) /\ k[m] = Horner(1, g)
  BY <1>1, HornerSteps, ZenonT(40)
<1> DEFINE S == {n \in Nat : n <= m => h[n] <= k[n]}
<1>4. 0 \in S
  BY <1>2, <1>3
<1>5. ASSUME NEW n \in Nat, n \in S PROVE n + 1 \in S
  <2> SUFFICES ASSUME n + 1 <= m PROVE h[n + 1] <= k[n + 1]
    OBVIOUS
  <2> DEFINE q == n + 1
  <2>1. q \in 1..m /\ q - 1 = n /\ n \in 0..m /\ q \in 0..m
    OBVIOUS
  <2>2. h[n] <= k[n]
    BY <1>5, <2>1
  <2> HIDE DEF q, S
  <2>3. h[q] = 1 * h[q - 1] + f[q] /\ k[q] = 1 * k[q - 1] + g[q] /\ f[q] <= g[q]
    BY <1>2, <1>3, <2>1
  <2>4. h[q] = 1 * h[n] + f[q] /\ k[q] = 1 * k[n] + g[q] /\ f[q] <= g[q]
    BY <2>1, <2>3
  <2>5. h[n] \in Nat /\ k[n] \in Nat /\ f[q] \in Nat /\ g[q] \in Nat
    BY <2>1
  <2>6. h[q] <= k[q]
    BY <2>2, <2>4, <2>5
  <2> QED BY <2>6 DEF q
<1>6. \A n \in Nat : n \in S
  <2> HIDE DEF S
  <2> QED BY <1>4, <1>5, UpFromZero
<1>7. h[m] <= k[m] /\ k[m] \in Nat
  BY <1>6
<1> QED BY <1>2, <1>3, <1>7 DEF SumOf

(* What Written holds in the rows all blocks have, and in the row after.   *)
AsWritten(blocks, n, s, d, x) ==
  /\ x <= d * n => Written(blocks)[x] = Before(s, d, (x - 1) % n) + ((x - 1) \div n) + 1
  /\ ~ (x <= d * n) /\ x > d * n /\ x <= DataCodewords(blocks) =>
       Written(blocks)[x] = Before(s, d, s + x - d * n - 1) + d + 1

(* The encoder's order, codeword by codeword. *)
LEMMA WrittenAt ==
  ASSUME NEW blocks, NEW n, NEW s, NEW d, Len(blocks) = n, blocks[1].data = d,
         Cardinality({c \in DOMAIN blocks : blocks[c].data = blocks[1].data}) = s,
         NEW x \in 1..TotalCodewords(blocks), d * n \in Nat, TotalCodewords(blocks) \in Nat
  PROVE  AsWritten(blocks, n, s, d, x)
<1> DEFINE B == Len(blocks)
           short == blocks[1].data
           shorts == Cardinality({b \in DOMAIN blocks : blocks[b].data = short})
           full == short * B
           F(q) == Before(shorts, short, (q - 1) % B) + ((q - 1) \div B) + 1
           G(q) == Before(shorts, short, shorts + q - full - 1) + short + 1
           all == TotalCodewords(blocks)
           most == DataCodewords(blocks)
<1>1. Written(blocks) = [q \in 1..all |-> CASE q <= full -> F(q) [] q > full /\ q <= most -> G(q) [] OTHER -> 0]
  BY DEF Written, Before
<1>2. B = n /\ short = d /\ shorts = s /\ full = d * n
  OBVIOUS
<1>3. full \in Nat /\ all \in Nat
  OBVIOUS
<1>4. /\ F(x) = Before(s, d, (x - 1) % n) + ((x - 1) \div n) + 1
      /\ G(x) = Before(s, d, s + x - d * n - 1) + d + 1
  <2> HIDE DEF B, short, shorts, full
  <2> QED BY <1>2
<1>5. x \in 1..all
  OBVIOUS
<1> HIDE DEF B, short, shorts, full, F, G, all, most
<1>6. Written(blocks)[x] = CASE x <= full -> F(x) [] x > full /\ x <= most -> G(x) [] OTHER -> 0
  BY <1>1, <1>5
<1>7. x <= full => Written(blocks)[x] = F(x)
  BY <1>5, <1>6, <1>3
<1>8. ~ (x <= full) /\ x > full /\ x <= most => Written(blocks)[x] = G(x)
  BY <1>6
<1>9. /\ x <= full => Written(blocks)[x] = F(x)
      /\ ~ (x <= full) /\ x > full /\ x <= most => Written(blocks)[x] = G(x)
  BY <1>7, <1>8
<1> QED BY <1>2, <1>4, <1>9 DEF most, AsWritten

(* The encoder's place for the codeword there is the one in the data.      *)
LEMMA WrittenIs ==
  ASSUME NEW blocks, NEW n, NEW s, NEW d, Shape(blocks, n, s, d),
         NEW b \in 1..n, NEW i \in 1..blocks[b].data
  PROVE  Written(blocks)[Position(blocks, b, i)] = Before(s, d, b - 1) + i
<1>1. /\ n \in Nat \ {0} /\ s \in 1..n /\ d \in Nat \ {0} /\ DOMAIN blocks = 1..n /\ Len(blocks) = n
      /\ \A c \in 1..n : /\ blocks[c].data = (IF c <= s THEN d ELSE d + 1)
                         /\ blocks[c].total \in Nat /\ blocks[c].data <= blocks[c].total
  BY DEF Shape
<1> DEFINE q == Position(blocks, b, i)
           all == TotalCodewords(blocks)
           full == d * n
<1>2. blocks[1].data = d /\ Cardinality({c \in DOMAIN blocks : blocks[c].data = blocks[1].data}) = s
  <2>1. blocks[1].data = d
    BY <1>1
  <2>2. {c \in DOMAIN blocks : blocks[c].data = blocks[1].data} = 1..s
    BY <1>1, <2>1
  <2>3. Cardinality(1..s) = s
    BY <1>1, FS_Interval
  <2> QED BY <2>1, <2>2, <2>3
<1>3. DataCodewords(blocks) = full + (n - s) /\ DataCodewords(blocks) <= all /\ all \in Nat
  <2> DEFINE f == [c \in 1..n |-> blocks[c].data]
             g == [c \in 1..n |-> blocks[c].total]
             e == [c \in 0..n |-> IF c <= s THEN 0 ELSE c - s]
  <2>1. DataCodewords(blocks) = SumOf(f) /\ all = SumOf(g)
    BY <1>1 DEF DataCodewords, TotalCodewords
  <2>2. f \in [1..n -> Nat] /\ g \in [1..n -> Nat] /\ \A c \in 1..n : f[c] <= g[c]
    BY <1>1
  <2>3. e \in [0..n -> Int] /\ e[0] = 0 /\ e[n] = n - s
    BY <1>1
  <2>4. \A c \in 1..n : f[c] = d + e[c] - e[c - 1]
    BY <1>1
  <2>5. n \in Nat /\ d \in Int /\ n * d = d * n
    BY <1>1
  <2> HIDE DEF f, g, e, all
  <2>6. SumOf(f) = n * d + e[n]
    BY <2>2, <2>3, <2>4, <2>5, SumOfSteps
  <2>7. SumOf(f) <= SumOf(g) /\ SumOf(g) \in Nat
    BY <2>2, <2>5, SumGrows
  <2> QED BY <2>1, <2>3, <2>5, <2>6, <2>7
<1>4. ASSUME NEW x \in 1..all
      PROVE  /\ x <= full => Written(blocks)[x] = Before(s, d, (x - 1) % n) + ((x - 1) \div n) + 1
             /\ ~ (x <= full) /\ x > full /\ x <= DataCodewords(blocks) =>
                  Written(blocks)[x] = Before(s, d, s + x - full - 1) + d + 1
  <2>1. Cardinality({c \in DOMAIN blocks : blocks[c].data = blocks[1].data}) = s /\ blocks[1].data = d
    BY <1>2
  <2>2. Len(blocks) = n /\ d * n \in Nat /\ all \in Nat
    BY <1>1, <1>3
  <2>3. AsWritten(blocks, n, s, d, x)
    BY <2>1, <2>2, WrittenAt
  <2> QED BY <2>3 DEF AsWritten
<1>5. q = IF i <= d THEN n * (i - 1) + b ELSE full + (b - s)
  <2>1. n * d = d * n
    BY <1>1
  <2> QED BY <2>1, PositionIs
<1>6. i \in Nat \ {0} /\ (~ (i <= d) => i = d + 1 /\ b > s)
  BY <1>1
<1> HIDE DEF q, all
<1>7. CASE i <= d
  <2>1. q = n * (i - 1) + b
    BY <1>5, <1>7
  <2>2. i - 1 \in Nat /\ b - 1 \in 0..(n - 1) /\ i - 1 <= d - 1 /\ b <= n
    BY <1>1, <1>6, <1>7
  <2> DEFINE a == (i - 1) * n
  <2>3. a \in Nat /\ a + n <= full /\ n * (i - 1) = a
    <3>1. ASSUME NEW x \in Nat, NEW y \in Nat, x <= y - 1 PROVE x * n + n <= y * n
      <4>1. (x + 1) * n <= y * n
        BY <1>1, <3>1
      <4>2. (x + 1) * n = x * n + n
        BY <1>1, <3>1
      <4> QED BY <4>1, <4>2
    <3>2. (i - 1) * n + n <= d * n
      BY <1>1, <2>2, <3>1
    <3> QED BY <1>1, <2>2, <3>2
  <2>4. (a + (b - 1)) \div n = i - 1 /\ (a + (b - 1)) % n = b - 1
    BY <1>1, <2>2, RowOfColumn
  <2> HIDE DEF a, full
  <2>5. q = a + b
    BY <2>1, <2>3
  <2>6. q - 1 = a + (b - 1) /\ q \in 1..full /\ q \in Nat
    <3>1. full \in Nat
      BY <1>1 DEF full
    <3> QED BY <1>1, <2>2, <2>3, <2>5, <3>1
  <2>7. q \in 1..all /\ q <= full
    <3> DEFINE most == DataCodewords(blocks)
    <3>1. most = full + (n - s) /\ most <= all /\ all \in Nat
      BY <1>3
    <3>2. n \in Nat /\ s \in 1..n /\ q \in 1..full /\ q \in Nat
      BY <1>1, <2>6
    <3>3. full \in Nat
      BY <1>1 DEF full
    <3> HIDE DEF most
    <3> QED BY <3>1, <3>2, <3>3
  <2>8. Written(blocks)[q] = Before(s, d, (q - 1) % n) + ((q - 1) \div n) + 1
    BY <1>4, <2>7
  <2>9. Written(blocks)[q] = Before(s, d, b - 1) + (i - 1) + 1
    BY <2>4, <2>6, <2>8
  <2> DEFINE o == Before(s, d, b - 1)
  <2>10. o \in Int
    BY <1>1 DEF Before
  <2> HIDE DEF o
  <2>11. o + (i - 1) + 1 = o + i
    BY <1>6, <2>10
  <2> QED BY <2>9, <2>10, <2>11 DEF o, q
<1>8. CASE ~ (i <= d)
  <2>1. q = full + (b - s) /\ i = d + 1 /\ b > s /\ b <= n /\ full \in Nat
    BY <1>1, <1>5, <1>6, <1>8
  <2> HIDE DEF full
  <2>2. /\ q \in 1..all /\ q > full /\ ~ (q <= full) /\ q <= DataCodewords(blocks)
        /\ s + q - full - 1 = b - 1
    BY <1>1, <1>3, <2>1
  <2>3. Written(blocks)[q] = Before(s, d, s + q - full - 1) + d + 1
    BY <1>4, <2>2
  <2>4. Written(blocks)[q] = Before(s, d, b - 1) + d + 1
    BY <2>2, <2>3
  <2> DEFINE o == Before(s, d, b - 1)
  <2>5. o \in Int
    BY <1>1 DEF Before
  <2> HIDE DEF o
  <2>6. o + d + 1 = o + i
    BY <1>1, <2>1, <2>5
  <2> QED BY <2>4, <2>5, <2>6 DEF o, q
<1> QED BY <1>7, <1>8

(* x goes on after k and ends at m. *)
CountsOn(x, k, m) ==
  x \in Seq(Int) /\ Len(x) = m - k /\ \A i \in 1..(m - k) : x[i] = k + i

(* Counting to k and from there to m is counting to m. *)
LEMMA GoesOn ==
  ASSUME NEW x, NEW y, NEW k \in Nat, NEW m \in Nat, CountsOn(x, 0, k), CountsOn(y, k, m)
  PROVE  CountsOn(x \o y, 0, m)
<1>1. x \in Seq(Int) /\ Len(x) = k /\ \A i \in 1..k : x[i] = i
  BY DEF CountsOn
<1>2. y \in Seq(Int) /\ Len(y) = m - k /\ \A i \in 1..(m - k) : y[i] = k + i
  BY DEF CountsOn
<1>3. x \o y \in Seq(Int) /\ Len(x \o y) = m
  BY <1>1, <1>2
<1>4. ASSUME NEW j \in 1..m PROVE (x \o y)[j] = j
  <2>1. CASE j <= k
    BY <1>1, <1>2, <2>1
  <2>2. CASE j > k
    BY <1>1, <1>2, <2>2
  <2>3. j <= k \/ j > k
    OBVIOUS
  <2> QED BY <2>1, <2>2, <2>3
<1> QED BY <1>3, <1>4 DEF CountsOn

(* Sequences that go on where the one before ended make one that counts.   *)
LEMMA Counting ==
  ASSUME NEW n \in Nat, NEW ss \in Seq(Seq(Int)), Len(ss) = n, NEW e \in [0..n -> Nat], e[0] = 0,
         \A b \in 1..n : CountsOn(ss[b], e[b - 1], e[b])
  PROVE  \A j \in DOMAIN FlattenSeq(ss) : FlattenSeq(ss)[j] = j
<1> DEFINE J(b) == Joined(ss, b)
           S == {b \in Nat : b <= n => CountsOn(J(b), 0, e[b])}
<1>1. /\ J(0) = <<>> /\ J(n) = FlattenSeq(ss)
      /\ \A b \in 0..n : b # n => J(b + 1) = J(b) \o ss[b + 1]
  BY Joins
<1> HIDE DEF J
<1>2. 0 \in S
  <2>1. CountsOn(<<>>, 0, 0)
    <3>1. <<>> \in Seq(Int) /\ Len(<<>>) = 0
      OBVIOUS
    <3> QED BY <3>1 DEF CountsOn
  <2>2. J(0) = <<>>
    BY <1>1
  <2>3. CountsOn(J(0), 0, e[0])
    BY <2>1, <2>2
  <2> QED BY <2>3
<1>3. ASSUME NEW b \in Nat, b \in S PROVE b + 1 \in S
  <2> SUFFICES ASSUME b + 1 <= n PROVE CountsOn(J(b + 1), 0, e[b + 1])
    OBVIOUS
  <2> DEFINE c == b + 1
  <2>1. c \in 1..n /\ c - 1 = b /\ b \in 0..n /\ b # n /\ c \in 0..n
    OBVIOUS
  <2>2. CountsOn(J(b), 0, e[b])
    BY <1>3, <2>1
  <2>3. J(c) = J(b) \o ss[c]
    BY <1>1, <2>1
  <2> HIDE DEF c, S
  <2>4. CountsOn(ss[c], e[c - 1], e[c])
    BY <2>1
  <2>5. CountsOn(ss[c], e[b], e[c])
    BY <2>1, <2>4
  <2>6. e[b] \in Nat /\ e[c] \in Nat
    BY <2>1
  <2>7. CountsOn(J(c), 0, e[c])
    BY <2>2, <2>3, <2>5, <2>6, GoesOn
  <2> QED BY <2>7 DEF c
<1>4. n \in S
  <2> HIDE DEF S
  <2> QED BY <1>2, <1>3, UpFromZero
<1>5. CountsOn(J(n), 0, e[n]) /\ e[n] \in Nat
  BY <1>4
<1> DEFINE x == J(n)
           m == e[n]
<1> HIDE DEF x, m
<1>6. x \in Seq(Int) /\ m \in Nat /\ Len(x) = m /\ \A i \in 1..m : x[i] = i
  BY <1>5 DEF CountsOn, x, m
<1>7. \A j \in DOMAIN x : x[j] = j
  BY <1>6
<1> QED BY <1>1, <1>7 DEF x

(* For blocks of any number and size the decoder undoes the interleaving.  *)
LEMMA InOrder ==
  ASSUME NEW blocks, NEW n, NEW s, NEW d, Shape(blocks, n, s, d)
  PROVE  LET out == Deinterleave(Written(blocks), blocks) IN \A j \in DOMAIN out : out[j] = j
<1> DEFINE ss == [b \in DOMAIN blocks |-> [i \in 1..blocks[b].data |-> Written(blocks)[Position(blocks, b, i)]]]
           e == [c \in 0..n |-> Before(s, d, c)]
<1>1. /\ n \in Nat \ {0} /\ s \in 1..n /\ d \in Nat \ {0} /\ DOMAIN blocks = 1..n
      /\ \A c \in 1..n : blocks[c].data = (IF c <= s THEN d ELSE d + 1)
  BY DEF Shape
<1>2. Deinterleave(Written(blocks), blocks) = FlattenSeq(ss)
  BY DEF Deinterleave
<1>3. e \in [0..n -> Nat] /\ e[0] = 0
  <2>1. \A c \in 0..n : d * c \in Nat
    BY <1>1
  <2> QED BY <1>1, <2>1 DEF Before
<1>4. ASSUME NEW b \in 1..n PROVE blocks[b].data \in Nat /\ blocks[b].data = e[b] - e[b - 1] /\ e[b - 1] \in Nat
  <2>1. b \in 0..n /\ b - 1 \in 0..n
    BY <1>1
  <2>2. d * b = d * (b - 1) + d
    BY <1>1
  <2> DEFINE x == d * (b - 1)
  <2>3. x \in Nat
    BY <1>1
  <2>4. e[b] = (x + d) + (IF b > s THEN b - s ELSE 0) /\ e[b - 1] = x + (IF b - 1 > s THEN b - 1 - s ELSE 0)
    BY <2>1, <2>2 DEF Before
  <2> HIDE DEF x, e
  <2> QED BY <1>1, <2>3, <2>4
<1>5. ASSUME NEW b \in 1..n
      PROVE  ss[b] = [i \in 1..blocks[b].data |-> e[b - 1] + i]
  <2>1. b - 1 \in 0..n
    BY <1>1
  <2>2. \A i \in 1..blocks[b].data : Written(blocks)[Position(blocks, b, i)] = e[b - 1] + i
    BY <2>1, WrittenIs
  <2> HIDE DEF e
  <2> QED BY <1>1, <2>2
<1>6. DOMAIN ss = 1..n /\ ss = [b \in 1..n |-> ss[b]]
  BY <1>1
<1> HIDE DEF ss, e
<1>7. ASSUME NEW b \in 1..n PROVE ss[b] \in Seq(Int) /\ CountsOn(ss[b], e[b - 1], e[b])
  <2> DEFINE m == blocks[b].data
             k == e[b - 1]
             y == ss[b]
             h == e[b]
  <2>1. m \in Nat /\ k \in Nat /\ y = [i \in 1..m |-> k + i] /\ m = h - k
    BY <1>4, <1>5
  <2> HIDE DEF m, k, y, h
  <2>2. y \in Seq(Int) /\ Len(y) = m /\ \A i \in 1..m : y[i] = k + i
    BY <2>1
  <2>3. CountsOn(y, k, h)
    BY <2>1, <2>2 DEF CountsOn
  <2> QED BY <2>2, <2>3 DEF k, y, h
<1>8. ss \in Seq(Seq(Int)) /\ Len(ss) = n
  <2>1. n \in Nat /\ \A b \in 1..n : ss[b] \in Seq(Int)
    BY <1>1, <1>7
  <2> DEFINE T == Seq(Int)
  <2>2. \A b \in 1..n : ss[b] \in T
    BY <2>1
  <2> HIDE DEF T
  <2>3. ss \in Seq(T) /\ Len(ss) = n
    BY <1>6, <2>1, <2>2
  <2> QED BY <2>3 DEF T
<1>9. \A j \in DOMAIN FlattenSeq(ss) : FlattenSeq(ss)[j] = j
  <2>1. n \in Nat
    BY <1>1
  <2> QED BY <1>3, <1>7, <1>8, <2>1, Counting
<1> QED BY <1>2, <1>9

(* For every version and level the data codewords come out of             *)
(* deinterleave in the order in which they were written.                  *)
THEOREM BlocksComeInOrder == Spec => []BlocksInOrder
<1> DEFINE Inv == BlocksInOrder /\ (stage = "walk" => data = <<>>)
<1>1. Init => Inv
  BY DEF Init, BlocksInOrder
<1>2. Inv /\ [Next]_vars /\ WalkInv => Inv'
  <2> SUFFICES ASSUME Inv, [Next]_vars, WalkInv PROVE Inv'
    OBVIOUS
  <2>1. CASE Walk
    <3>1. data' = <<>>
      BY <2>1 DEF Walk
    <3>2. DOMAIN <<>> = {}
      OBVIOUS
    <3> QED BY <3>1, <3>2 DEF BlocksInOrder
  <2>2. ASSUME NEW level \in Level, PutInOrder(level) PROVE Inv'
    <3>1. ver \in Version
      BY DEF WalkInv
    <3>2. PICK n, s, d : Shape(Blocks(ver, level), n, s, d)
      BY <3>1, Shapes
    <3>3. \A j \in DOMAIN data' : data'[j] = j
      <4>1. data' = Deinterleave(Written(Blocks(ver, level)), Blocks(ver, level))
        BY <2>2 DEF PutInOrder
      <4> QED BY <3>2, <4>1, InOrder
    <3>4. stage' = "blocks"
      BY <2>2 DEF PutInOrder
    <3> QED BY <3>3, <3>4 DEF BlocksInOrder
  <2>3. CASE Open
    BY <2>3 DEF Open, BlocksInOrder
  <2>4. CASE ReadMode
    BY <2>4 DEF ReadMode, Stop, BlocksInOrder
  <2>5. CASE ReadCount
    BY <2>5 DEF ReadCount, Stop, BlocksInOrder
  <2>6. CASE ReadChunk
    BY <2>6 DEF ReadChunk, Stop, BlocksInOrder
  <2>7. CASE EndSegment
    BY <2>7 DEF EndSegment, BlocksInOrder
  <2>8. CASE Done \/ UNCHANGED vars
    BY <2>8 DEF Done, vars, BlocksInOrder
  <2> QED BY <2>1, <2>2, <2>3, <2>4, <2>5, <2>6, <2>7, <2>8 DEF Next
<1>3. Inv => BlocksInOrder
  OBVIOUS
<1> QED BY <1>1, <1>2, <1>3, WalkStands, PTL DEF Spec

=============================================================================
