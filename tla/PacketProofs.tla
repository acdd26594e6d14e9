---------------------------- MODULE PacketProofs ----------------------------
(***************************************************************************)
(* What holds of Packet for all messages, configurations and lengths: an   *)
(* UPDATE that is written is read back by a peer.                          *)
(*                                                                         *)
(* Packet's encodePrefixes, readRoutes and readAttributes are recursive    *)
(* functions.  What is recursive calls itself on what measures less (a     *)
(* shorter sequence, fewer routes), so each has a value that satisfies its *)
(* definition (MeasureRecursion), and what holds of all that measures less *)
(* holds (MeasureInduction).                                               *)
(***************************************************************************)
EXTENDS Packet, SequenceTheorems, WellFoundedInduction, TLAPS

-----------------------------------------------------------------------------
(* Induction and recursion on a measure.                                   *)

\* A set of numbers has a least one.
LEMMA LeastNumber ==
    ASSUME NEW N, N \subseteq Nat, N # {}
    PROVE  \E x \in N : \A y \in N : x <= y
<1> DEFINE R == {p \in Nat \X Nat : p[1] < p[2]}
<1>1. IsWellFoundedOn(R, Nat)
  BY NatLessThanWellFounded DEF OpToRel
<1>2. PICK x \in N : \A y \in N : ~ (<<y, x>> \in R)
  <2> HIDE DEF R
  <2> QED  BY <1>1, WFMin
<1>3. ASSUME NEW y \in N
      PROVE  x <= y
  <2>1. x \in Nat /\ y \in Nat
    OBVIOUS
  <2>2. ~(y < x)
    BY <1>2, <2>1
  <2>3. QED  BY <2>1, <2>2
<1>4. QED  BY <1>3

\* What holds of s when it holds of all that measure less, holds of all.
LEMMA MeasureInduction ==
    ASSUME NEW S, NEW mu \in [S -> Nat], NEW P,
           \A s \in S : (\A y \in S : mu[y] < mu[s] => y \in P) => s \in P
    PROVE  S \subseteq P
<1> DEFINE N == {mu[s] : s \in S \ P}
<1>1. SUFFICES ASSUME N # {} PROVE FALSE
  OBVIOUS
<1>2. N \subseteq Nat
  OBVIOUS
<1>3. PICK x \in N : \A y \in N : x <= y
  <2> HIDE DEF N
  <2> QED  BY <1>1, <1>2, LeastNumber
<1>4. PICK s \in S \ P : x = mu[s]
  BY <1>3
<1>5. PICK y \in S : mu[y] < mu[s] /\ y \notin P
  OBVIOUS
<1>6. mu[y] \in N
  BY <1>5
<1>7. x <= mu[y]
  BY <1>3, <1>6
<1>8. mu[y] \in Nat /\ mu[s] \in Nat
  OBVIOUS
<1>9. QED  BY <1>4, <1>5, <1>7, <1>8

\* F[g] at s looks at g only at what measures less than s.
Local(S, V, mu, F) ==
    \A g, h \in [S -> V] : \A s \in S :
        (\A y \in S : mu[y] < mu[s] => g[y] = h[y]) => F[g][s] = F[h][s]

\* The functions that satisfy the equation g = F[g] below n.
Approximations(S, V, mu, F, n) ==
    {g \in [S -> V] : \A s \in S : mu[s] < n => g[s] = F[g][s]}

FixedPoints(S, V, F) == {g \in [S -> V] : g = F[g]}

\* Two solutions below a bound agree below both bounds.
LEMMA ApproximationsAgree ==
    ASSUME NEW S, NEW V, NEW mu, NEW F, NEW n, NEW m, NEW g, NEW h,
           mu \in [S -> Nat], Local(S, V, mu, F), n \in Nat, m \in Nat,
           g \in Approximations(S, V, mu, F, n), h \in Approximations(S, V, mu, F, m)
    PROVE  \A s \in S : mu[s] < n /\ mu[s] < m => g[s] = h[s]
<1> DEFINE P == {s \in S : mu[s] < n /\ mu[s] < m => g[s] = h[s]}
<1>1. ASSUME NEW s \in S, \A y \in S : mu[y] < mu[s] => y \in P
      PROVE  s \in P
  <2> SUFFICES ASSUME mu[s] < n, mu[s] < m PROVE g[s] = h[s]
    OBVIOUS
  <2>1. ASSUME NEW y \in S, mu[y] < mu[s]
        PROVE  g[y] = h[y]
    <3>1. mu[y] \in Nat /\ mu[s] \in Nat
      OBVIOUS
    <3>2. mu[y] < n /\ mu[y] < m
      BY <2>1, <3>1
    <3>3. QED  BY <1>1, <2>1, <3>2
  <2>2. g \in [S -> V] /\ h \in [S -> V]
    BY DEF Approximations
  <2>3. F[g][s] = F[h][s]
    BY <2>1, <2>2 DEF Local
  <2>4. g[s] = F[g][s] /\ h[s] = F[h][s]
    BY DEF Approximations
  <2>5. QED  BY <2>3, <2>4
<1>2. S \subseteq P
  <2> HIDE DEF P
  <2> QED  BY <1>1, MeasureInduction
<1>3. QED  BY <1>2

\* A recursive definition whose recursion measures less has a solution.
LEMMA MeasureRecursion ==
    ASSUME NEW S, NEW V, NEW mu, NEW F, V # {}, mu \in [S -> Nat],
           F \in [[S -> V] -> [S -> V]], Local(S, V, mu, F)
    PROVE  FixedPoints(S, V, F) # {}
<1> DEFINE A(n) == Approximations(S, V, mu, F, n)
           id == [n \in Nat |-> n]
           P == {n \in Nat : A(n) # {}}
<1>1. Nat \subseteq P
  <2>1. ASSUME NEW n \in Nat, \A m \in Nat : id[m] < id[n] => m \in P
        PROVE  n \in P
    <3>1. CASE n = 0
      <4>1. PICK v \in V : TRUE
        OBVIOUS
      <4>2. [s \in S |-> v] \in [S -> V]
        OBVIOUS
      <4>3. \A s \in S : ~(mu[s] < 0)
        OBVIOUS
      <4>4. [s \in S |-> v] \in A(n)
        BY <3>1, <4>2, <4>3 DEF Approximations
      <4>5. QED  BY <4>4
    <3>2. CASE n # 0
      <4>1. n - 1 \in Nat /\ n - 1 < n
        BY <3>2
      <4>2. id[n - 1] = n - 1 /\ id[n] = n
        BY <4>1
      <4>3. n - 1 \in P
        BY <2>1, <4>1, <4>2
      <4>4. PICK g \in A(n - 1) : TRUE
        BY <4>3
      <4>5. g \in [S -> V] /\ F[g] \in [S -> V]
        BY <4>4 DEF Approximations
      <4>6. ASSUME NEW s \in S, mu[s] < n
            PROVE  F[g][s] = F[F[g]][s]
        <5>1. ASSUME NEW y \in S, mu[y] < mu[s]
              PROVE  g[y] = F[g][y]
          <6>1. mu[y] \in Nat /\ mu[s] \in Nat
            OBVIOUS
          <6>2. mu[y] < n - 1
            BY <4>6, <5>1, <6>1
          <6>3. QED  BY <4>4, <6>2 DEF Approximations
        <5>2. QED  BY <4>5, <5>1 DEF Local
      <4>7. F[g] \in A(n)
        BY <4>5, <4>6 DEF Approximations
      <4>8. QED  BY <4>7
    <3>3. QED  BY <3>1, <3>2
  <2>2. id \in [Nat -> Nat]
    OBVIOUS
  <2> HIDE DEF P, id
  <2>3. QED  BY <2>1, <2>2, MeasureInduction
<1> DEFINE a(s) == CHOOSE g : g \in A(mu[s] + 1)
           f == [s \in S |-> a(s)[s]]
<1>2. ASSUME NEW s \in S
      PROVE  /\ mu[s] \in Nat /\ mu[s] + 1 \in Nat /\ mu[s] < mu[s] + 1
             /\ a(s) \in A(mu[s] + 1) /\ a(s) \in [S -> V]
  <2>1. mu[s] \in Nat /\ mu[s] + 1 \in Nat /\ mu[s] < mu[s] + 1
    OBVIOUS
  <2>2. A(mu[s] + 1) # {}
    BY <1>1, <2>1
  <2>3. a(s) \in A(mu[s] + 1)
    <3> HIDE DEF A
    <3> QED  BY <2>2
  <2>4. a(s) \in [S -> V]
    <3> HIDE DEF a
    <3> QED  BY <2>3 DEF Approximations
  <2>5. QED  BY <2>1, <2>3, <2>4
<1>3. f \in [S -> V]
  <2>1. \A s \in S : a(s)[s] \in V
    BY <1>2
  <2> HIDE DEF a
  <2>2. QED  BY <2>1
<1>4. ASSUME NEW s \in S
      PROVE  f[s] = F[f][s]
  <2>1. ASSUME NEW y \in S, mu[y] < mu[s]
        PROVE  f[y] = a(s)[y]
    <3>1. mu[y] < mu[y] + 1 /\ mu[y] < mu[s] + 1
      BY <1>2, <2>1
    <3>2. mu[y] + 1 \in Nat /\ mu[s] + 1 \in Nat /\ a(y) \in A(mu[y] + 1) /\ a(s) \in A(mu[s] + 1)
      BY <1>2
    <3>3. a(y)[y] = a(s)[y]
      <4> HIDE DEF a
      <4> QED  BY <3>1, <3>2, ApproximationsAgree
    <3>4. f[y] = a(y)[y]
      OBVIOUS
    <3>5. QED  BY <3>3, <3>4
  <2>2. a(s) \in [S -> V] /\ a(s) \in A(mu[s] + 1) /\ mu[s] < mu[s] + 1
    BY <1>2
  <2>3. f[s] = a(s)[s]
    OBVIOUS
  <2> HIDE DEF f, a
  <2>4. F[f][s] = F[a(s)][s]
    BY <1>3, <2>1, <2>2 DEF Local
  <2>5. a(s)[s] = F[a(s)][s]
    BY <2>2 DEF Approximations
  <2>6. QED  BY <2>3, <2>4, <2>5
<1>5. F[f] \in [S -> V]
  <2> HIDE DEF f
  <2> QED  BY <1>3
<1>6. f = F[f]
  <2> HIDE DEF f
  <2> QED  BY <1>3, <1>4, <1>5
<1>7. QED
  <2> HIDE DEF f
  <2> QED  BY <1>3, <1>6 DEF FixedPoints

-----------------------------------------------------------------------------
(* The bytes of a sequence of routes.                                      *)

\* The length of a sequence, as a number.
LEMMA LenNumber ==
    ASSUME NEW S, NEW s \in Seq(S)
    PROVE  \E n \in Nat : n = Len(s)
OBVIOUS

\* A route has the byte of its mask, and the bytes that the mask reaches.
LEMMA NetworkBytes ==
    ASSUME NEW r \in Network
    PROVE  /\ Reach(r.ones) \in 0..4
           /\ encodePrefix(r) \in Seq(Byte)
           /\ Len(encodePrefix(r)) = Reach(r.ones) + 1
           /\ encodePrefix(r)[1] = r.ones
           /\ \A i \in 1..Reach(r.ones) : encodePrefix(r)[i + 1] = r.ip[i]
<1> DEFINE k == Reach(r.ones)
           b == SubSeq(r.ip, 1, k)
           h == <<r.ones>>
           e == h \o b
<1>1. r.ones \in 0..32 /\ r.ip \in [1..4 -> Byte]
  BY DEF Network
<1>2. k \in 0..4
  <2>1. \A n \in 0..32 : (n + 7) \div 8 \in 0..4
    OBVIOUS
  <2>2. QED  BY <1>1, <2>1 DEF Reach
<1>3. h \in Seq(Byte) /\ Len(h) = 1 /\ h[1] = r.ones
  BY <1>1 DEF Byte
<1> HIDE DEF k, h
<1>4. PICK n \in 0..4 : n = k
  BY <1>2
<1>5. /\ b \in Seq(Byte) /\ Len(b) = n
      /\ \A i \in 1..n : b[i] = r.ip[i]
  <2>1. \A i \in 1..n : i \in 1..4
    BY <1>4
  <2>2. \A i \in 1..n : r.ip[i] \in Byte
    BY <1>1, <2>1
  <2>3. 1 \in Int /\ n \in Int
    BY <1>4
  <2>4. /\ SubSeq(r.ip, 1, n) \in Seq(Byte)
        /\ Len(SubSeq(r.ip, 1, n)) = IF 1 <= n THEN n - 1 + 1 ELSE 0
        /\ \A i \in 1..n - 1 + 1 : SubSeq(r.ip, 1, n)[i] = r.ip[1 + i - 1]
    BY <2>2, <2>3, SubSeqProperties
  <2>5. (IF 1 <= n THEN n - 1 + 1 ELSE 0) = n /\ n - 1 + 1 = n /\ \A i \in 1..n : 1 + i - 1 = i
    BY <1>4
  <2>6. QED  BY <1>4, <2>4, <2>5
<1> HIDE DEF b
<1>6. /\ e \in Seq(Byte) /\ Len(e) = Len(h) + Len(b)
      /\ \A i \in 1..Len(h) + Len(b) : e[i] = IF i <= Len(h) THEN h[i] ELSE b[i - Len(h)]
  <2>1. h \in Seq(Byte) /\ b \in Seq(Byte)
    BY <1>3, <1>5
  <2>2. QED  BY <2>1, ConcatProperties
<1> HIDE DEF e
<1>7. Len(h) + Len(b) = n + 1 /\ Len(h) = 1
  BY <1>3, <1>4, <1>5
<1>8. /\ Len(e) = n + 1
      /\ \A i \in 1..n + 1 : e[i] = IF i <= 1 THEN h[i] ELSE b[i - 1]
  BY <1>6, <1>7
<1>9. e[1] = r.ones
  <2>1. 1 \in 1..n + 1 /\ 1 <= 1
    BY <1>4
  <2>2. QED  BY <1>3, <1>8, <2>1
<1>10. ASSUME NEW i \in 1..n
       PROVE  e[i + 1] = r.ip[i]
  <2>1. i + 1 \in 1..n + 1 /\ ~(i + 1 <= 1) /\ i + 1 - 1 = i
    BY <1>4
  <2>2. e[i + 1] = b[i]
    BY <1>8, <2>1
  <2>3. QED  BY <1>5, <2>2
<1>11. encodePrefix(r) = e
  BY DEF encodePrefix, e, h, b, k
<1>12. QED  BY <1>2, <1>4, <1>6, <1>8, <1>9, <1>10, <1>11 DEF k

\* One step of the recursion, with g for what it has of shorter sequences.
EncodeStep(g, s) ==
    LET h == Len(s) \div 2
    IN  CASE Len(s) = 0 -> <<>>
          [] Len(s) = 1 -> encodePrefix(s[1])
          [] OTHER      -> g[SubSeq(s, 1, h)] \o g[SubSeq(s, h + 1, Len(s))]

\* A sequence is empty, of one route, or longer.
LEMMA LenCases ==
    ASSUME NEW S, NEW s \in Seq(S)
    PROVE  /\ Len(s) = 0 \/ Len(s) = 1 \/ Len(s) > 1
           /\ Len(s) > 1 => Len(s) # 0 /\ Len(s) # 1
<1>1. PICK n \in Nat : n = Len(s)
  BY LenNumber
<1>2. (n = 0 \/ n = 1 \/ n > 1) /\ (n > 1 => n # 0 /\ n # 1)
  OBVIOUS
<1>3. QED  BY <1>1, <1>2

\* The two halves of a sequence are sequences, and shorter.
LEMMA Halves ==
    ASSUME NEW S, NEW s \in Seq(S), Len(s) > 1, NEW h, h = Len(s) \div 2
    PROVE  /\ SubSeq(s, 1, h) \in Seq(S) /\ SubSeq(s, h + 1, Len(s)) \in Seq(S)
           /\ Len(SubSeq(s, 1, h)) = h /\ Len(SubSeq(s, h + 1, Len(s))) = Len(s) - h
           /\ Len(SubSeq(s, 1, h)) < Len(s) /\ Len(SubSeq(s, h + 1, Len(s))) < Len(s)
           /\ h \in 1..Len(s) - 1
<1>1. PICK n \in Nat : n = Len(s)
  BY LenNumber
<1>2. n > 1 /\ h = n \div 2
  BY <1>1
<1>3. h \in 1..n - 1 /\ h \in Nat /\ h + 1 \in Nat
  BY <1>2
<1>4. \A i \in 1..n : s[i] \in S
  BY <1>1, ElementOfSeq
<1>5. (\A i \in 1..h : s[i] \in S) /\ (\A i \in h + 1..n : s[i] \in S)
  <2>1. (\A i \in 1..h : i \in 1..n) /\ (\A i \in h + 1..n : i \in 1..n)
    BY <1>3
  <2>2. QED  BY <1>4, <2>1
<1>6. 1 \in Int /\ h \in Int /\ h + 1 \in Int /\ n \in Int
  BY <1>3
<1>7. /\ SubSeq(s, 1, h) \in Seq(S)
      /\ Len(SubSeq(s, 1, h)) = IF 1 <= h THEN h - 1 + 1 ELSE 0
  BY <1>5, <1>6, SubSeqProperties
<1>8. /\ SubSeq(s, h + 1, n) \in Seq(S)
      /\ Len(SubSeq(s, h + 1, n)) = IF h + 1 <= n THEN n - (h + 1) + 1 ELSE 0
  BY <1>5, <1>6, SubSeqProperties
<1>9. /\ (IF 1 <= h THEN h - 1 + 1 ELSE 0) = h
      /\ (IF h + 1 <= n THEN n - (h + 1) + 1 ELSE 0) = n - h
      /\ h < n /\ n - h < n
  BY <1>3
<1>10. QED  BY <1>1, <1>3, <1>7, <1>8, <1>9

\* encodePrefixes on each of the three.
LEMMA EncodeCases ==
    ASSUME NEW g, NEW s \in Seq(Network), NEW h, h = Len(s) \div 2
    PROVE  /\ Len(s) = 0 => EncodeStep(g, s) = <<>>
           /\ Len(s) = 1 => EncodeStep(g, s) = encodePrefix(s[1])
           /\ Len(s) > 1 => EncodeStep(g, s) = g[SubSeq(s, 1, h)] \o g[SubSeq(s, h + 1, Len(s))]
<1>1. Len(s) = 0 => EncodeStep(g, s) = <<>>
  BY DEF EncodeStep
<1>2. Len(s) = 1 => EncodeStep(g, s) = encodePrefix(s[1])
  BY DEF EncodeStep
<1>3. ASSUME Len(s) > 1
      PROVE  EncodeStep(g, s) = g[SubSeq(s, 1, h)] \o g[SubSeq(s, h + 1, Len(s))]
  <2>1. Len(s) # 0 /\ Len(s) # 1
    BY <1>3, LenCases
  <2>2. QED  BY <2>1, Zenon DEF EncodeStep
<1>4. QED  BY <1>1, <1>2, <1>3

\* Routes encode as bytes.
LEMMA EncodeType ==
    ASSUME NEW g, NEW s \in Seq(Network),
           \A y \in Seq(Network) : Len(y) < Len(s) => g[y] \in Seq(Byte)
    PROVE  EncodeStep(g, s) \in Seq(Byte)
<1>1. CASE Len(s) = 0
  <2>1. <<>> \in Seq(Byte)
    BY EmptySeq
  <2>2. EncodeStep(g, s) = <<>>
    BY <1>1, EncodeCases
  <2>3. QED  BY <2>1, <2>2
<1>2. CASE Len(s) = 1
  <2>1. s[1] \in Network
    <3>1. 1 \in 1..Len(s)
      BY <1>2
    <3>2. QED  BY <3>1, ElementOfSeq
  <2>2. EncodeStep(g, s) = encodePrefix(s[1])
    BY <1>2, EncodeCases
  <2>3. QED  BY <2>1, <2>2, NetworkBytes
<1>3. CASE Len(s) > 1
  <2>1. PICK h : h = Len(s) \div 2
    OBVIOUS
  <2>2. /\ SubSeq(s, 1, h) \in Seq(Network) /\ SubSeq(s, h + 1, Len(s)) \in Seq(Network)
        /\ Len(SubSeq(s, 1, h)) < Len(s) /\ Len(SubSeq(s, h + 1, Len(s))) < Len(s)
    BY <1>3, <2>1, Halves
  <2>3. g[SubSeq(s, 1, h)] \in Seq(Byte) /\ g[SubSeq(s, h + 1, Len(s))] \in Seq(Byte)
    BY <2>2
  <2>4. EncodeStep(g, s) = g[SubSeq(s, 1, h)] \o g[SubSeq(s, h + 1, Len(s))]
    BY <1>3, <2>1, EncodeCases
  <2>5. QED  BY <2>3, <2>4, ConcatProperties
<1>4. QED  BY <1>1, <1>2, <1>3, LenCases

\* The recursion looks only at shorter sequences.
LEMMA EncodeLocal ==
    ASSUME NEW g, NEW h, NEW s \in Seq(Network),
           \A y \in Seq(Network) : Len(y) < Len(s) => g[y] = h[y]
    PROVE  EncodeStep(g, s) = EncodeStep(h, s)
<1>1. CASE Len(s) = 0
  BY <1>1, EncodeCases
<1>2. CASE Len(s) = 1
  BY <1>2, EncodeCases
<1>3. CASE Len(s) > 1
  <2>1. PICK k : k = Len(s) \div 2
    OBVIOUS
  <2>2. /\ SubSeq(s, 1, k) \in Seq(Network) /\ SubSeq(s, k + 1, Len(s)) \in Seq(Network)
        /\ Len(SubSeq(s, 1, k)) < Len(s) /\ Len(SubSeq(s, k + 1, Len(s))) < Len(s)
    BY <1>3, <2>1, Halves
  <2>3. g[SubSeq(s, 1, k)] = h[SubSeq(s, 1, k)] /\ g[SubSeq(s, k + 1, Len(s))] = h[SubSeq(s, k + 1, Len(s))]
    BY <2>2
  <2>4. /\ EncodeStep(g, s) = g[SubSeq(s, 1, k)] \o g[SubSeq(s, k + 1, Len(s))]
        /\ EncodeStep(h, s) = h[SubSeq(s, 1, k)] \o h[SubSeq(s, k + 1, Len(s))]
    BY <1>3, <2>1, EncodeCases
  <2>5. QED  BY <2>3, <2>4
<1>4. QED  BY <1>1, <1>2, <1>3, LenCases

\* encodePrefixes is defined, and satisfies its definition.
LEMMA EncodeExists ==
    \A s \in Seq(Network) : /\ encodePrefixes[s] = EncodeStep(encodePrefixes, s)
                            /\ encodePrefixes[s] \in Seq(Byte)
<1> DEFINE S == Seq(Network)
           V == Seq(Byte)
           mu == [s \in S |-> Len(s)]
           G(g) == [s \in S |-> EncodeStep(g, s)]
           F == [g \in [S -> V] |-> G(g)]
<1>1. mu \in [S -> Nat] /\ \A s \in S : mu[s] = Len(s)
  BY LenProperties
<1>2. ASSUME NEW g \in [S -> V]
      PROVE  G(g) \in [S -> V]
  <2>1. ASSUME NEW s \in S
        PROVE  EncodeStep(g, s) \in V
    <3>1. \A y \in S : g[y] \in V
      <4> HIDE DEF S, V
      <4> QED  OBVIOUS
    <3>2. QED  BY <3>1, EncodeType
  <2> HIDE DEF S, V
  <2>2. QED  BY <2>1
<1>3. F \in [[S -> V] -> [S -> V]] /\ V # {} /\ \A g \in [S -> V] : F[g] = G(g)
  <2>1. <<>> \in V
    BY EmptySeq
  <2> HIDE DEF S, V, G
  <2>2. QED  BY <1>2, <2>1
<1>4. Local(S, V, mu, F)
  <2> SUFFICES ASSUME NEW g \in [S -> V], NEW h \in [S -> V], NEW s \in S,
                      \A y \in S : mu[y] < mu[s] => g[y] = h[y]
               PROVE  F[g][s] = F[h][s]
    BY DEF Local
  <2>1. \A y \in S : Len(y) < Len(s) => g[y] = h[y]
    <3> HIDE DEF S, mu
    <3> QED  BY <1>1
  <2>2. EncodeStep(g, s) = EncodeStep(h, s)
    BY <2>1, EncodeLocal
  <2>3. F[g] = G(g) /\ F[h] = G(h)
    BY <1>3
  <2> HIDE DEF F
  <2>4. QED  BY <2>2, <2>3
<1>5. PICK f \in FixedPoints(S, V, F) : TRUE
  <2>1. mu \in [S -> Nat] /\ F \in [[S -> V] -> [S -> V]] /\ V # {}
    BY <1>1, <1>3
  <2> HIDE DEF S, V, mu, F
  <2>2. FixedPoints(S, V, F) # {}
    BY <2>1, <1>4, MeasureRecursion
  <2>3. QED  BY <2>2
<1>6. f = G(f)
  BY <1>3, <1>5 DEF FixedPoints
<1>7. encodePrefixes = CHOOSE g : g = G(g)
  BY DEF encodePrefixes, EncodeStep
<1>8. encodePrefixes = G(encodePrefixes)
  <2> HIDE DEF G
  <2> QED  BY <1>6, <1>7
<1>9. \A s \in S : encodePrefixes[s] = EncodeStep(encodePrefixes, s)
  <2>1. \A s \in S : G(encodePrefixes)[s] = EncodeStep(encodePrefixes, s)
    OBVIOUS
  <2> HIDE DEF G
  <2>2. QED  BY <1>8, <2>1
<1> DEFINE P == {s \in S : encodePrefixes[s] \in V}
<1>10. ASSUME NEW s \in S, \A y \in S : mu[y] < mu[s] => y \in P
       PROVE  s \in P
  <2>1. \A y \in S : Len(y) < Len(s) => encodePrefixes[y] \in V
    <3> HIDE DEF S, mu
    <3> QED  BY <1>1, <1>10
  <2>2. EncodeStep(encodePrefixes, s) \in V
    BY <2>1, EncodeType
  <2>3. QED  BY <1>9, <2>2
<1>11. S \subseteq P
  <2> HIDE DEF S, P, mu
  <2> QED  BY <1>1, <1>10, MeasureInduction
<1>12. QED  BY <1>9, <1>11

-----------------------------------------------------------------------------
(* The bytes of a sequence are those of its two parts, wherever it is cut. *)

\* What holds of a sequence when it holds of the shorter ones holds of all.
LEMMA SequenceInduction ==
    ASSUME NEW S, NEW P,
           \A s \in Seq(S) : (\A y \in Seq(S) : Len(y) < Len(s) => y \in P) => s \in P
    PROVE  Seq(S) \subseteq P
<1> DEFINE Q == Seq(S)
           mu == [s \in Q |-> Len(s)]
<1>1. mu \in [Q -> Nat] /\ \A s \in Q : mu[s] = Len(s)
  BY LenProperties
<1> HIDE DEF mu
<1>2. ASSUME NEW s \in Q, \A y \in Q : mu[y] < mu[s] => y \in P
      PROVE  s \in P
  <2>1. \A y \in Q : Len(y) < Len(s) => y \in P
    <3> HIDE DEF Q
    <3> QED  BY <1>1, <1>2
  <2>2. QED  BY <2>1
<1>3. Q \subseteq P
  <2> HIDE DEF Q
  <2> QED  BY <1>1, <1>2, MeasureInduction
<1>4. QED  BY <1>3

\* A part of a sequence.
LEMMA Part ==
    ASSUME NEW S, NEW s \in Seq(S), NEW a \in Nat, NEW b \in Nat,
           1 <= a, a <= b + 1, b <= Len(s)
    PROVE  /\ SubSeq(s, a, b) \in Seq(S)
           /\ Len(SubSeq(s, a, b)) = b - a + 1
           /\ \A i \in 1..b - a + 1 : SubSeq(s, a, b)[i] = s[a + i - 1]
<1>1. PICK l \in Nat : l = Len(s)
  BY LenNumber
<1>2. \A i \in a..b : i \in 1..l
  BY <1>1
<1>3. \A i \in a..b : s[i] \in S
  BY <1>1, <1>2, ElementOfSeq
<1>4. a \in Int /\ b \in Int
  OBVIOUS
<1>5. /\ SubSeq(s, a, b) \in Seq(S)
      /\ Len(SubSeq(s, a, b)) = IF a <= b THEN b - a + 1 ELSE 0
      /\ \A i \in 1..b - a + 1 : SubSeq(s, a, b)[i] = s[a + i - 1]
  BY <1>3, <1>4, SubSeqProperties
<1>6. (IF a <= b THEN b - a + 1 ELSE 0) = b - a + 1
  OBVIOUS
<1>7. QED  BY <1>5, <1>6

\* A part of a part is a part.
LEMMA PartOfPart ==
    ASSUME NEW S, NEW s \in Seq(S), NEW a \in Nat, NEW b \in Nat, NEW c \in Nat, NEW d \in Nat,
           1 <= a, a <= b + 1, b <= Len(s), 1 <= c, c <= d + 1, a + d <= b + 1
    PROVE  SubSeq(SubSeq(s, a, b), c, d) = SubSeq(s, a + c - 1, a + d - 1)
<1> DEFINE t == SubSeq(s, a, b)
           u == SubSeq(t, c, d)
           v == SubSeq(s, a + c - 1, a + d - 1)
<1>1. t \in Seq(S) /\ Len(t) = b - a + 1 /\ \A i \in 1..b - a + 1 : t[i] = s[a + i - 1]
  BY Part
<1> HIDE DEF t
<1>2. d <= b - a + 1
  OBVIOUS
<1>3. u \in Seq(S) /\ Len(u) = d - c + 1 /\ \A i \in 1..d - c + 1 : u[i] = t[c + i - 1]
  <2>1. t \in Seq(S) /\ d <= Len(t)
    BY <1>1, <1>2
  <2>2. QED  BY <2>1, Part
<1>4. PICK l \in Nat : l = Len(s)
  BY LenNumber
<1>5. PICK x \in Nat : x = a + c - 1
  OBVIOUS
<1>6. PICK y \in Nat : y = a + d - 1
  OBVIOUS
<1>7. 1 <= x /\ x <= y + 1 /\ y <= l /\ y - x + 1 = d - c + 1
  BY <1>4, <1>5, <1>6
<1>8. v \in Seq(S) /\ Len(v) = y - x + 1 /\ \A i \in 1..y - x + 1 : v[i] = s[x + i - 1]
  <2>1. /\ SubSeq(s, x, y) \in Seq(S) /\ Len(SubSeq(s, x, y)) = y - x + 1
        /\ \A i \in 1..y - x + 1 : SubSeq(s, x, y)[i] = s[x + i - 1]
    BY <1>4, <1>7, Part
  <2>2. QED  BY <1>5, <1>6, <2>1
<1> HIDE DEF u, v
<1>9. ASSUME NEW i \in 1..d - c + 1
      PROVE  u[i] = v[i]
  <2>1. u[i] = t[c + i - 1]
    BY <1>3
  <2>2. c + i - 1 \in 1..b - a + 1 /\ a + (c + i - 1) - 1 = x + i - 1
    BY <1>2, <1>5
  <2>3. t[c + i - 1] = s[a + (c + i - 1) - 1]
    BY <1>1, <2>2
  <2>4. v[i] = s[x + i - 1]
    BY <1>7, <1>8
  <2>5. QED  BY <2>1, <2>2, <2>3, <2>4
<1>10. u = v
  <2>1. Len(u) = Len(v) /\ \A i \in 1..Len(u) : u[i] = v[i]
    BY <1>3, <1>7, <1>8, <1>9
  <2>2. u \in Seq(S) /\ v \in Seq(S)
    BY <1>3, <1>8
  <2>3. QED  BY <2>1, <2>2, SeqEqual
<1>11. QED  BY <1>10 DEF u, v

\* Cut at k, the bytes of s are those of the two parts.
Split(s) ==
    \A k \in 0..Len(s) :
        encodePrefixes[s] = encodePrefixes[SubSeq(s, 1, k)] \o encodePrefixes[SubSeq(s, k + 1, Len(s))]

SplitShorter(u) == \A s \in Seq(Network) : Len(s) < Len(u) => Split(s)

\* No routes encode as no bytes.
LEMMA EncodeEmpty ==
    /\ <<>> \in Seq(Network)
    /\ encodePrefixes[<<>>] = <<>>
<1>1. <<>> \in Seq(Network) /\ Len(<<>>) = 0
  BY EmptySeq
<1>2. QED  BY <1>1, EncodeExists, EncodeCases

\* At its ends a sequence splits into itself and nothing.
LEMMA SplitAtEnds ==
    ASSUME NEW u \in Seq(Network), NEW k, k = 0 \/ k = Len(u)
    PROVE  encodePrefixes[u] = encodePrefixes[SubSeq(u, 1, k)] \o encodePrefixes[SubSeq(u, k + 1, Len(u))]
<1>1. PICK n \in Nat : n = Len(u)
  BY LenNumber
<1>2. encodePrefixes[u] \in Seq(Byte)
  BY EncodeExists
<1>3. SubSeq(u, 1, n) = u
  BY <1>1, SubSeqFull
<1>4. SubSeq(u, 1, 0) = <<>> /\ SubSeq(u, n + 1, n) = <<>>
  BY SubSeqEmpty
<1>5. CASE k = 0
  <2>1. k + 1 = 1
    BY <1>5
  <2>2. encodePrefixes[u] = <<>> \o encodePrefixes[u]
    BY <1>2, ConcatEmptySeq
  <2>3. QED  BY <1>1, <1>3, <1>4, <1>5, <2>1, <2>2, EncodeEmpty
<1>6. CASE k = n
  <2>1. encodePrefixes[u] = encodePrefixes[u] \o <<>>
    BY <1>2, ConcatEmptySeq
  <2>2. QED  BY <1>1, <1>3, <1>4, <1>6, <2>1, EncodeEmpty
<1>7. QED  BY <1>1, <1>5, <1>6

\* The bytes of the routes from a to b.
PartBytes(u, a, b) == encodePrefixes[SubSeq(u, a, b)]

\* A part that is shorter than the whole splits wherever it is cut.
LEMMA SplitPart ==
    ASSUME NEW u \in Seq(Network), SplitShorter(u),
           NEW a \in Nat, NEW b \in Nat, NEW c \in Nat,
           1 <= a, a <= c, c <= b, b <= Len(u), 1 < a \/ b < Len(u)
    PROVE  PartBytes(u, a, b) = PartBytes(u, a, c) \o PartBytes(u, c + 1, b)
<1>1. PICK n \in Nat : n = Len(u)
  BY LenNumber
<1> DEFINE s == SubSeq(u, a, b)
           k == c - a + 1
<1>2. s \in Seq(Network) /\ Len(s) = b - a + 1
  <2>1. a <= b + 1
    OBVIOUS
  <2>2. QED  BY <2>1, Part
<1>3. k \in Nat /\ k \in 0..b - a + 1 /\ b - a + 1 < n /\ b - a + 1 \in Nat
  BY <1>1
<1> HIDE DEF s
<1>4. encodePrefixes[s] = encodePrefixes[SubSeq(s, 1, k)] \o encodePrefixes[SubSeq(s, k + 1, b - a + 1)]
  <2>1. Split(s)
    BY <1>1, <1>2, <1>3 DEF SplitShorter
  <2>2. QED  BY <1>2, <1>3, <2>1 DEF Split
<1>5. SubSeq(s, 1, k) = SubSeq(u, a, c)
  <2>1. 1 \in Nat /\ 1 <= 1 /\ 1 <= k + 1 /\ a + k <= b + 1 /\ a <= b + 1
    BY <1>3
  <2>2. SubSeq(SubSeq(u, a, b), 1, k) = SubSeq(u, a + 1 - 1, a + k - 1)
    BY <1>3, <2>1, PartOfPart
  <2>3. a + 1 - 1 = a /\ a + k - 1 = c
    OBVIOUS
  <2>4. QED  BY <2>2, <2>3 DEF s
<1>6. SubSeq(s, k + 1, b - a + 1) = SubSeq(u, c + 1, b)
  <2>1. /\ k + 1 \in Nat /\ 1 <= k + 1 /\ k + 1 <= (b - a + 1) + 1
        /\ a + (b - a + 1) <= b + 1 /\ a <= b + 1
    BY <1>3
  <2>2. SubSeq(SubSeq(u, a, b), k + 1, b - a + 1) = SubSeq(u, a + (k + 1) - 1, a + (b - a + 1) - 1)
    BY <1>3, <2>1, PartOfPart
  <2>3. a + (k + 1) - 1 = c + 1 /\ a + (b - a + 1) - 1 = b
    OBVIOUS
  <2>4. QED  BY <2>2, <2>3 DEF s
<1>7. QED  BY <1>4, <1>5, <1>6 DEF PartBytes, s

\* Three pieces of bytes, joined from either side.
LEMMA JoinBytes ==
    \A x, y, z \in Seq(Byte) : (x \o y) \o z = x \o (y \o z)
BY ConcatAssociative

\* A sequence splits anywhere when the shorter ones do: its halves are cut, or
\* the cut lies between them.
LEMMA SplitStep ==
    ASSUME NEW u \in Seq(Network), SplitShorter(u)
    PROVE  Split(u)
<1>1. PICK n \in Nat : n = Len(u)
  BY LenNumber
<1> SUFFICES ASSUME NEW k \in 0..n
             PROVE  PartBytes(u, 1, n) = PartBytes(u, 1, k) \o PartBytes(u, k + 1, n)
  <2>1. SubSeq(u, 1, n) = u
    BY <1>1, SubSeqFull
  <2>2. QED  BY <1>1, <2>1 DEF Split, PartBytes
<1>2. SubSeq(u, 1, n) = u
  BY <1>1, SubSeqFull
<1>3. CASE k = 0 \/ k = n
  BY <1>1, <1>2, <1>3, SplitAtEnds DEF PartBytes
<1>4. CASE 0 < k /\ k < n
  <2>1. n > 1 /\ k \in Nat
    BY <1>4
  <2>2. PICK h : h = n \div 2
    OBVIOUS
  <2>3. h \in Nat /\ 1 <= h /\ h < n
    BY <2>1, <2>2
  <2>4. PartBytes(u, 1, n) = PartBytes(u, 1, h) \o PartBytes(u, h + 1, n)
    <3>1. EncodeStep(encodePrefixes, u) = PartBytes(u, 1, h) \o PartBytes(u, h + 1, n)
      BY <1>1, <2>1, <2>2, EncodeCases DEF PartBytes
    <3>2. QED  BY <1>2, <3>1, EncodeExists DEF PartBytes
  <2>5. ASSUME NEW a \in Nat, NEW b \in Nat, 1 <= a, a <= b + 1, b <= n
        PROVE  PartBytes(u, a, b) \in Seq(Byte)
    <3>1. SubSeq(u, a, b) \in Seq(Network)
      BY <1>1, <2>5, Part
    <3>2. QED  BY <3>1, EncodeExists DEF PartBytes
  <2>6. CASE k = h
    BY <2>4, <2>6
  <2>7. CASE k < h
    <3>1. PartBytes(u, 1, h) = PartBytes(u, 1, k) \o PartBytes(u, k + 1, h)
      <4>1. 1 \in Nat /\ 1 <= 1 /\ 1 <= k /\ k <= h /\ h <= n /\ h < n
        BY <1>4, <2>3, <2>7
      <4>2. QED  BY <1>1, <2>1, <2>3, <4>1, SplitPart
    <3>2. PartBytes(u, k + 1, n) = PartBytes(u, k + 1, h) \o PartBytes(u, h + 1, n)
      <4>1. k + 1 \in Nat /\ 1 <= k + 1 /\ k + 1 <= h /\ h <= n /\ n <= n /\ 1 < k + 1
        BY <1>4, <2>1, <2>3, <2>7
      <4>2. QED  BY <1>1, <2>3, <4>1, SplitPart
    <3>3. /\ PartBytes(u, 1, k) \in Seq(Byte) /\ PartBytes(u, k + 1, h) \in Seq(Byte)
          /\ PartBytes(u, h + 1, n) \in Seq(Byte)
      <4>1. 1 \in Nat /\ 1 <= 1 /\ 1 <= k + 1 /\ k <= n
        BY <1>4, <2>1
      <4>2. k + 1 \in Nat /\ 1 <= k + 1 /\ k + 1 <= h + 1 /\ h <= n
        BY <1>4, <2>1, <2>3, <2>7
      <4>3. h + 1 \in Nat /\ 1 <= h + 1 /\ h + 1 <= n + 1 /\ n <= n
        BY <2>3
      <4>4. QED  BY <2>1, <2>3, <2>5, <4>1, <4>2, <4>3
    <3>4. (PartBytes(u, 1, k) \o PartBytes(u, k + 1, h)) \o PartBytes(u, h + 1, n)
              = PartBytes(u, 1, k) \o (PartBytes(u, k + 1, h) \o PartBytes(u, h + 1, n))
      BY <3>3, JoinBytes
    <3>5. QED  BY <2>4, <3>1, <3>2, <3>4
  <2>8. CASE h < k
    <3>1. PartBytes(u, h + 1, n) = PartBytes(u, h + 1, k) \o PartBytes(u, k + 1, n)
      <4>1. h + 1 \in Nat /\ 1 <= h + 1 /\ h + 1 <= k /\ k <= n /\ n <= n /\ 1 < h + 1
        BY <1>4, <2>1, <2>3, <2>8
      <4>2. QED  BY <1>1, <2>1, <4>1, SplitPart
    <3>2. PartBytes(u, 1, k) = PartBytes(u, 1, h) \o PartBytes(u, h + 1, k)
      <4>1. 1 \in Nat /\ 1 <= 1 /\ 1 <= h /\ h <= k /\ k <= n /\ k < n
        BY <1>4, <2>1, <2>3, <2>8
      <4>2. QED  BY <1>1, <2>1, <2>3, <4>1, SplitPart
    <3>3. /\ PartBytes(u, 1, h) \in Seq(Byte) /\ PartBytes(u, h + 1, k) \in Seq(Byte)
          /\ PartBytes(u, k + 1, n) \in Seq(Byte)
      <4>1. 1 \in Nat /\ 1 <= 1 /\ 1 <= h + 1 /\ h <= n
        BY <2>3
      <4>2. h + 1 \in Nat /\ 1 <= h + 1 /\ h + 1 <= k + 1 /\ k <= n
        BY <1>4, <2>1, <2>3, <2>8
      <4>3. k + 1 \in Nat /\ 1 <= k + 1 /\ k + 1 <= n + 1 /\ n <= n
        BY <1>4, <2>1
      <4>4. QED  BY <2>1, <2>3, <2>5, <4>1, <4>2, <4>3
    <3>4. (PartBytes(u, 1, h) \o PartBytes(u, h + 1, k)) \o PartBytes(u, k + 1, n)
              = PartBytes(u, 1, h) \o (PartBytes(u, h + 1, k) \o PartBytes(u, k + 1, n))
      BY <3>3, JoinBytes
    <3>5. QED  BY <2>4, <3>1, <3>2, <3>4
  <2>9. k = h \/ k < h \/ h < k
    BY <2>1, <2>3
  <2>10. QED  BY <2>6, <2>7, <2>8, <2>9
<1>5. k = 0 \/ k = n \/ (0 < k /\ k < n)
  OBVIOUS
<1>6. QED  BY <1>3, <1>4, <1>5

\* encodePrefixes does not depend on where the routes are split.
LEMMA EncodeSplit == \A u \in Seq(Network) : Split(u)
<1> DEFINE P == {u \in Seq(Network) : Split(u)}
<1>1. ASSUME NEW u \in Seq(Network), \A y \in Seq(Network) : Len(y) < Len(u) => y \in P
      PROVE  u \in P
  <2>1. SplitShorter(u)
    BY <1>1 DEF SplitShorter
  <2>2. QED  BY <2>1, SplitStep
<1>2. Seq(Network) \subseteq P
  <2> HIDE DEF P
  <2> QED  BY <1>1, SequenceInduction
<1>3. QED  BY <1>2

-----------------------------------------------------------------------------
(* Fronts and rests, and how long the bytes are.                           *)

Taken(s, n) == SubSeq(s, 1, n)

\* What is taken from the front of a sequence, and what is left of it.
LEMMA TakenDropped ==
    ASSUME NEW S, NEW s \in Seq(S), NEW n \in Nat, n <= Len(s)
    PROVE  /\ Taken(s, n) \in Seq(S) /\ Len(Taken(s, n)) = n
           /\ \A i \in 1..n : Taken(s, n)[i] = s[i]
           /\ Dropped(s, n) \in Seq(S) /\ Len(Dropped(s, n)) = Len(s) - n
           /\ \A i \in 1..Len(s) - n : Dropped(s, n)[i] = s[n + i]
<1>1. PICK l \in Nat : l = Len(s)
  BY LenNumber
<1>2. 1 \in Nat /\ 1 <= 1 /\ 1 <= n + 1 /\ n - 1 + 1 = n /\ \A i \in 1..n : 1 + i - 1 = i
  OBVIOUS
<1>3. /\ SubSeq(s, 1, n) \in Seq(S) /\ Len(SubSeq(s, 1, n)) = n - 1 + 1
      /\ \A i \in 1..n - 1 + 1 : SubSeq(s, 1, n)[i] = s[1 + i - 1]
  BY <1>2, Part
<1>4. n + 1 \in Nat /\ 1 <= n + 1 /\ n + 1 <= l + 1 /\ l <= l /\ l - (n + 1) + 1 = l - n
  BY <1>1
<1>5. /\ SubSeq(s, n + 1, l) \in Seq(S) /\ Len(SubSeq(s, n + 1, l)) = l - (n + 1) + 1
      /\ \A i \in 1..l - (n + 1) + 1 : SubSeq(s, n + 1, l)[i] = s[(n + 1) + i - 1]
  BY <1>1, <1>4, Part
<1>6. \A i \in 1..l - n : (n + 1) + i - 1 = n + i
  BY <1>1
<1>7. Dropped(s, n) = SubSeq(s, n + 1, l)
  BY <1>1 DEF Dropped
<1>8. /\ Taken(s, n) \in Seq(S) /\ Len(Taken(s, n)) = n
      /\ \A i \in 1..n : Taken(s, n)[i] = s[i]
  BY <1>2, <1>3 DEF Taken
<1>9. /\ Dropped(s, n) \in Seq(S) /\ Len(Dropped(s, n)) = l - n
      /\ \A i \in 1..l - n : Dropped(s, n)[i] = s[n + i]
  BY <1>4, <1>5, <1>6, <1>7
<1>10. QED  BY <1>1, <1>8, <1>9

\* Dropping from what is left.
LEMMA DroppedTwice ==
    ASSUME NEW S, NEW s \in Seq(S), NEW m \in Nat, NEW n \in Nat, m + n <= Len(s)
    PROVE  Dropped(Dropped(s, m), n) = Dropped(s, m + n)
<1>1. PICK l \in Nat : l = Len(s)
  BY LenNumber
<1>2. m <= l /\ m + n \in Nat /\ m + n <= l /\ n <= l - m /\ l - m - n = l - (m + n)
  BY <1>1
<1>3. /\ Dropped(s, m) \in Seq(S) /\ Len(Dropped(s, m)) = l - m
      /\ \A i \in 1..l - m : Dropped(s, m)[i] = s[m + i]
  BY <1>1, <1>2, TakenDropped
<1>4. /\ Dropped(s, m + n) \in Seq(S) /\ Len(Dropped(s, m + n)) = l - (m + n)
      /\ \A i \in 1..l - (m + n) : Dropped(s, m + n)[i] = s[(m + n) + i]
  BY <1>1, <1>2, TakenDropped
<1> DEFINE t == Dropped(s, m)
           u == Dropped(t, n)
           v == Dropped(s, m + n)
<1> HIDE DEF t, v
<1>5. /\ u \in Seq(S) /\ Len(u) = l - m - n
      /\ \A i \in 1..l - m - n : u[i] = t[n + i]
  <2>1. t \in Seq(S) /\ Len(t) = l - m
    BY <1>3 DEF t
  <2>2. n <= Len(t)
    BY <1>2, <2>1
  <2>3. /\ u \in Seq(S) /\ Len(u) = Len(t) - n
        /\ \A i \in 1..Len(t) - n : u[i] = t[n + i]
    BY <2>1, <2>2, TakenDropped
  <2> HIDE DEF u
  <2>4. QED  BY <2>1, <2>3
<1> HIDE DEF u
<1>6. ASSUME NEW i \in 1..l - m - n
      PROVE  u[i] = v[i]
  <2>1. n + i \in 1..l - m /\ m + (n + i) = (m + n) + i
    BY <1>1, <1>2
  <2>2. t[n + i] = s[m + (n + i)]
    BY <1>3, <2>1 DEF t
  <2>3. v[i] = s[(m + n) + i]
    BY <1>2, <1>4 DEF v
  <2>4. QED  BY <1>5, <2>1, <2>2, <2>3
<1>7. u = v
  <2>1. u \in Seq(S) /\ v \in Seq(S)
    BY <1>4, <1>5 DEF v
  <2>2. Len(u) = Len(v) /\ \A i \in 1..Len(u) : u[i] = v[i]
    BY <1>2, <1>4, <1>5, <1>6 DEF v
  <2>3. QED  BY <2>1, <2>2, SeqEqual
<1>8. QED  BY <1>7 DEF u, v, t

\* Two sequences that are joined are its parts.
LEMMA ConcatParts ==
    ASSUME NEW S, NEW s \in Seq(S), NEW t \in Seq(S)
    PROVE  Taken(s \o t, Len(s)) = s /\ Dropped(s \o t, Len(s)) = t
<1>1. PICK m \in Nat : m = Len(s)
  BY LenNumber
<1>2. PICK n \in Nat : n = Len(t)
  BY LenNumber
<1> DEFINE b == s \o t
<1>3. /\ b \in Seq(S) /\ Len(b) = m + n
      /\ \A i \in 1..m + n : b[i] = IF i <= m THEN s[i] ELSE t[i - m]
  BY <1>1, <1>2, ConcatProperties
<1> HIDE DEF b
<1>4. PICK l \in Nat : l = m + n /\ m <= l /\ l - m = n
  OBVIOUS
<1>5. /\ Taken(b, m) \in Seq(S) /\ Len(Taken(b, m)) = m
      /\ \A i \in 1..m : Taken(b, m)[i] = b[i]
      /\ Dropped(b, m) \in Seq(S) /\ Len(Dropped(b, m)) = l - m
      /\ \A i \in 1..l - m : Dropped(b, m)[i] = b[m + i]
  <2>1. b \in Seq(S) /\ Len(b) = l
    BY <1>3, <1>4
  <2>2. m <= Len(b)
    BY <1>4, <2>1
  <2>3. /\ Taken(b, m) \in Seq(S) /\ Len(Taken(b, m)) = m
        /\ \A i \in 1..m : Taken(b, m)[i] = b[i]
        /\ Dropped(b, m) \in Seq(S) /\ Len(Dropped(b, m)) = Len(b) - m
        /\ \A i \in 1..Len(b) - m : Dropped(b, m)[i] = b[m + i]
    BY <2>1, <2>2, TakenDropped
  <2>4. QED  BY <2>1, <2>3
<1>6. Taken(b, m) = s
  <2>1. \A i \in 1..m : i \in 1..m + n /\ i <= m
    OBVIOUS
  <2>2. \A i \in 1..m : Taken(b, m)[i] = s[i]
    BY <1>3, <1>5, <2>1
  <2>3. /\ Taken(b, m) \in Seq(S) /\ Len(Taken(b, m)) = Len(s)
        /\ \A i \in 1..Len(Taken(b, m)) : Taken(b, m)[i] = s[i]
    BY <1>1, <1>5, <2>2
  <2>4. QED  BY <2>3, SeqEqual
<1>7. Dropped(b, m) = t
  <2>1. \A i \in 1..n : m + i \in 1..m + n /\ ~(m + i <= m) /\ m + i - m = i
    OBVIOUS
  <2>2. \A i \in 1..n : Dropped(b, m)[i] = t[i]
    BY <1>3, <1>4, <1>5, <2>1
  <2>3. /\ Dropped(b, m) \in Seq(S) /\ Len(Dropped(b, m)) = Len(t)
        /\ \A i \in 1..Len(Dropped(b, m)) : Dropped(b, m)[i] = t[i]
    BY <1>2, <1>4, <1>5, <2>2
  <2>4. QED  BY <2>3, SeqEqual
<1>8. QED  BY <1>1, <1>6, <1>7 DEF b

\* The bytes of the first route stand first.
LEMMA EncodeHead ==
    ASSUME NEW s \in Seq(Network), s # <<>>
    PROVE  /\ 1 <= Len(s) /\ s[1] \in Network
           /\ Dropped(s, 1) \in Seq(Network) /\ Len(Dropped(s, 1)) = Len(s) - 1
           /\ \A i \in 1..Len(s) - 1 : Dropped(s, 1)[i] = s[i + 1]
           /\ encodePrefixes[s] = encodePrefix(s[1]) \o encodePrefixes[Dropped(s, 1)]
<1>1. PICK n \in Nat : n = Len(s)
  BY LenNumber
<1>2. n # 0
  BY <1>1, EmptySeq
<1>3. 1 \in Nat /\ 1 <= n /\ 1 \in 1..n /\ 1 \in 0..n
  BY <1>2
<1>4. s[1] \in Network
  BY <1>1, <1>3, ElementOfSeq
<1>5. /\ Taken(s, 1) \in Seq(Network) /\ Len(Taken(s, 1)) = 1
      /\ \A i \in 1..1 : Taken(s, 1)[i] = s[i]
      /\ Dropped(s, 1) \in Seq(Network) /\ Len(Dropped(s, 1)) = n - 1
      /\ \A i \in 1..n - 1 : Dropped(s, 1)[i] = s[1 + i]
  <2>1. 1 \in Nat /\ 1 <= Len(s)
    BY <1>1, <1>3
  <2>2. /\ Taken(s, 1) \in Seq(Network) /\ Len(Taken(s, 1)) = 1
        /\ \A i \in 1..1 : Taken(s, 1)[i] = s[i]
        /\ Dropped(s, 1) \in Seq(Network) /\ Len(Dropped(s, 1)) = Len(s) - 1
        /\ \A i \in 1..Len(s) - 1 : Dropped(s, 1)[i] = s[1 + i]
    BY <2>1, TakenDropped
  <2>3. QED  BY <1>1, <2>2
<1>6. encodePrefixes[s] = encodePrefixes[Taken(s, 1)] \o encodePrefixes[Dropped(s, 1)]
  BY <1>1, <1>3, EncodeSplit DEF Split, Taken, Dropped
<1>7. encodePrefixes[Taken(s, 1)] = encodePrefix(s[1])
  <2>1. 1 \in 1..1
    OBVIOUS
  <2>2. Taken(s, 1)[1] = s[1]
    BY <1>5, <2>1
  <2>3. EncodeStep(encodePrefixes, Taken(s, 1)) = encodePrefix(Taken(s, 1)[1])
    BY <1>5, EncodeCases
  <2>4. QED  BY <1>5, <2>2, <2>3, EncodeExists
<1>8. \A i \in 1..n - 1 : 1 + i = i + 1
  OBVIOUS
<1>9. QED  BY <1>1, <1>3, <1>4, <1>5, <1>6, <1>7, <1>8

AllHosts(s) == \A i \in DOMAIN s : s[i].ones = 32

\* A route has one byte to five, a host five.
EncodedLength(s) ==
    \A n \in Nat, l \in Nat : n = Len(s) /\ l = Len(encodePrefixes[s])
        => n <= l /\ l <= 5 * n /\ (AllHosts(s) => l = 5 * n)

\* Each route has from 1 to 5 bytes, and a host has 5.
LEMMA EncodeLength == \A s \in Seq(Network) : EncodedLength(s)
<1> DEFINE P == {s \in Seq(Network) : EncodedLength(s)}
<1>1. ASSUME NEW s \in Seq(Network), \A y \in Seq(Network) : Len(y) < Len(s) => y \in P
      PROVE  s \in P
  <2>1. CASE s = <<>>
    <3>1. Len(<<>>) = 0
      BY EmptySeq
    <3>2. QED  BY <2>1, <3>1, EncodeEmpty DEF EncodedLength
  <2>2. CASE s # <<>>
    <3> DEFINE t == Dropped(s, 1)
               a == encodePrefix(s[1])
               b == encodePrefixes[t]
    <3>1. PICK n \in Nat : n = Len(s)
      BY LenNumber
    <3>2. /\ 1 <= n /\ s[1] \in Network
          /\ t \in Seq(Network) /\ Len(t) = n - 1
          /\ \A i \in 1..n - 1 : t[i] = s[i + 1]
          /\ encodePrefixes[s] = a \o b
      BY <2>2, <3>1, EncodeHead
    <3>3. PICK k \in 0..4 : k = Reach(s[1].ones)
      BY <3>2, NetworkBytes
    <3>4. a \in Seq(Byte) /\ Len(a) = k + 1
      BY <3>2, <3>3, NetworkBytes
    <3>5. b \in Seq(Byte)
      BY <3>2, EncodeExists
    <3> HIDE DEF a, t
    <3>6. PICK m \in Nat : m = Len(b)
      BY <3>5, LenNumber
    <3> HIDE DEF b
    <3>7. Len(encodePrefixes[s]) = k + 1 + m
      <4>1. a \in Seq(Byte)
        BY <3>4
      <4>2. Len(a \o b) = Len(a) + Len(b)
        BY <3>5, <4>1, ConcatProperties
      <4>3. QED  BY <3>2, <3>4, <3>6, <4>2
    <3>8. EncodedLength(t)
      <4>1. n - 1 < n
        OBVIOUS
      <4>2. Len(t) < Len(s)
        BY <3>1, <3>2, <4>1
      <4>3. QED  BY <1>1, <3>2, <4>2
    <3>9. n - 1 \in Nat
      BY <3>2
    <3>10. n - 1 <= m /\ m <= 5 * (n - 1) /\ (AllHosts(t) => m = 5 * (n - 1))
      BY <3>2, <3>6, <3>8, <3>9 DEF EncodedLength, b
    <3>11. n <= k + 1 + m /\ k + 1 + m <= 5 * n
      BY <3>3, <3>10
    <3>12. ASSUME AllHosts(s)
           PROVE  k + 1 + m = 5 * n
      <4>1. DOMAIN s = 1..n /\ DOMAIN t = 1..n - 1
        BY <3>1, <3>2, LenProperties
      <4>2. AllHosts(t)
        <5>1. \A i \in 1..n - 1 : i + 1 \in 1..n
          OBVIOUS
        <5>2. \A i \in 1..n - 1 : t[i].ones = 32
          BY <3>2, <3>12, <4>1, <5>1 DEF AllHosts
        <5>3. QED  BY <4>1, <5>2 DEF AllHosts
      <4>3. s[1].ones = 32
        <5>1. 1 \in 1..n
          BY <3>2
        <5>2. \A i \in 1..n : s[i].ones = 32
          BY <3>12, <4>1 DEF AllHosts
        <5>3. QED  BY <5>1, <5>2
      <4>4. k = 4
        <5>1. (32 + 7) \div 8 = 4
          OBVIOUS
        <5>2. QED  BY <3>3, <4>3, <5>1 DEF Reach
      <4>5. m = 5 * (n - 1)
        BY <3>10, <4>2
      <4>6. QED  BY <4>4, <4>5
    <3>13. QED  BY <3>1, <3>7, <3>11, <3>12 DEF EncodedLength
  <2>3. QED  BY <2>1, <2>2
<1>2. Seq(Network) \subseteq P
  <2> HIDE DEF P
  <2> QED  BY <1>1, SequenceInduction
<1>3. QED  BY <1>2

-----------------------------------------------------------------------------
(* Reading routes.                                                         *)

\* One step of the recursion, with g for what it reads of fewer routes.
ReadStep(g, b, n) ==
    LET h     == n \div 2
        front == g[<<b, h>>]
        back  == g[<<front[2], n - h>>]
    IN  CASE b = <<>> \/ n = 0  -> <<{}, b>>
          [] b # <<>> /\ n = 1  -> <<{HeadRoute(b)}, Dropped(b, Reach(b[1]) + 1)>>
          [] b # <<>> /\ n > 1  -> <<front[1] \cup back[1], back[2]>>

\* From no bytes, or for no routes, nothing is read.
LEMMA ReadNothing ==
    ASSUME NEW g, NEW b, NEW n \in Nat, b = <<>> \/ n = 0
    PROVE  ReadStep(g, b, n) = <<{}, b>>
<1>1. ~(b # <<>> /\ n = 1) /\ ~(b # <<>> /\ n > 1)
  OBVIOUS
<1>2. QED  BY <1>1, Zenon DEF ReadStep

\* One route is the one at the head of the bytes.
LEMMA ReadOne ==
    ASSUME NEW g, NEW b, b # <<>>
    PROVE  ReadStep(g, b, 1) = <<{HeadRoute(b)}, Dropped(b, Reach(b[1]) + 1)>>
<1>1. ~(b = <<>> \/ 1 = 0) /\ ~(b # <<>> /\ 1 > 1)
  OBVIOUS
<1>2. QED  BY <1>1, Zenon DEF ReadStep

Front(g, b, h)   == g[<<b, h>>]
Back(g, b, n, h) == g[<<Front(g, b, h)[2], n - h>>]

\* More routes are read in two halves.
LEMMA ReadMore ==
    ASSUME NEW g, NEW b, NEW n \in Nat, b # <<>>, n > 1, NEW h, h = n \div 2
    PROVE  ReadStep(g, b, n) = <<Front(g, b, h)[1] \cup Back(g, b, n, h)[1], Back(g, b, n, h)[2]>>
<1>1. ~(b = <<>> \/ n = 0) /\ ~(b # <<>> /\ n = 1)
  OBVIOUS
<1>2. QED  BY <1>1, Zenon DEF ReadStep, Front, Back

\* What is left of a sequence, however many are dropped.
LEMMA DroppedType ==
    ASSUME NEW S, NEW s \in Seq(S), NEW n \in Nat
    PROVE  Dropped(s, n) \in Seq(S)
<1>1. PICK l \in Nat : l = Len(s)
  BY LenNumber
<1>2. CASE n <= l
  BY <1>1, <1>2, TakenDropped
<1>3. CASE ~(n <= l)
  <2>1. l \in Int /\ n + 1 \in Int /\ l < n + 1
    BY <1>3
  <2>2. SubSeq(s, n + 1, l) = <<>>
    BY <2>1, SubSeqEmpty
  <2>3. <<>> \in Seq(S)
    BY EmptySeq
  <2>4. QED  BY <1>1, <2>2, <2>3 DEF Dropped
<1>4. QED  BY <1>2, <1>3

\* The first byte of a field, and the bytes its mask reaches.
LEMMA FirstByte ==
    ASSUME NEW b \in Seq(Byte), b # <<>>
    PROVE  b[1] \in Byte /\ Reach(b[1]) \in Nat /\ 1 <= Len(b)
<1>1. PICK l \in Nat : l = Len(b)
  BY LenNumber
<1>2. l # 0
  BY <1>1, EmptySeq
<1>3. 1 <= l /\ 1 \in 1..l
  BY <1>2
<1>4. b[1] \in Byte
  BY <1>1, <1>3, ElementOfSeq
<1>5. Reach(b[1]) \in Nat
  <2>1. \A x \in 0..255 : (x + 7) \div 8 \in Nat
    OBVIOUS
  <2>2. QED  BY <1>4, <2>1 DEF Reach, Byte
<1>6. QED  BY <1>1, <1>3, <1>4, <1>5

ReadRoutes == SUBSET {HeadRoute(b) : b \in Seq(Byte)}

ReadTypes(g, n) ==
    \A c \in Seq(Byte) : \A m \in Nat : m < n => g[<<c, m>>] \in ReadRoutes \X Seq(Byte)

\* The halves of a number above 1 are less.
LEMMA ReadHalves ==
    ASSUME NEW n \in Nat, n > 1, NEW h, h = n \div 2
    PROVE  h \in Nat /\ n - h \in Nat /\ h < n /\ n - h < n
OBVIOUS

\* Two parts make a pair.
LEMMA Pair ==
    ASSUME NEW A, NEW B, NEW x \in A, NEW y \in B
    PROVE  <<x, y>> \in A \X B
OBVIOUS

\* The parts of a pair.
LEMMA PairParts ==
    ASSUME NEW A, NEW B, NEW p \in A \X B
    PROVE  p[1] \in A /\ p[2] \in B
OBVIOUS

\* What the two halves of a reading return.
LEMMA ReadFrontBack ==
    ASSUME NEW g, NEW b \in Seq(Byte), NEW n \in Nat, n > 1, NEW h, h = n \div 2, ReadTypes(g, n)
    PROVE  /\ Front(g, b, h)[1] \in ReadRoutes /\ Front(g, b, h)[2] \in Seq(Byte)
           /\ Back(g, b, n, h)[1] \in ReadRoutes /\ Back(g, b, n, h)[2] \in Seq(Byte)
<1>1. h \in Nat /\ n - h \in Nat /\ h < n /\ n - h < n
  BY ReadHalves
<1>2. Front(g, b, h) \in ReadRoutes \X Seq(Byte)
  BY <1>1 DEF ReadTypes, Front
<1>3. Front(g, b, h)[1] \in ReadRoutes /\ Front(g, b, h)[2] \in Seq(Byte)
  BY <1>2, PairParts
<1>4. Back(g, b, n, h) \in ReadRoutes \X Seq(Byte)
  BY <1>1, <1>3 DEF ReadTypes, Back
<1>5. QED  BY <1>3, <1>4, PairParts

\* What is read is a set of routes and the bytes left.
LEMMA ReadType ==
    ASSUME NEW g, NEW b \in Seq(Byte), NEW n \in Nat, ReadTypes(g, n)
    PROVE  ReadStep(g, b, n) \in ReadRoutes \X Seq(Byte)
<1>1. CASE b = <<>> \/ n = 0
  <2>1. {} \in ReadRoutes
    BY DEF ReadRoutes
  <2>2. ReadStep(g, b, n) = <<{}, b>>
    BY <1>1, ReadNothing
  <2>3. <<{}, b>> \in ReadRoutes \X Seq(Byte)
    BY <2>1, Pair
  <2>4. QED  BY <2>2, <2>3
<1>2. CASE b # <<>> /\ n = 1
  <2>1. {HeadRoute(b)} \in ReadRoutes
    BY Zenon DEF ReadRoutes
  <2>2. Reach(b[1]) + 1 \in Nat
    BY <1>2, FirstByte
  <2>3. Dropped(b, Reach(b[1]) + 1) \in Seq(Byte)
    BY <2>2, DroppedType
  <2>4. <<{HeadRoute(b)}, Dropped(b, Reach(b[1]) + 1)>> \in ReadRoutes \X Seq(Byte)
    BY <2>1, <2>3, Pair
  <2>5. ReadStep(g, b, 1) = <<{HeadRoute(b)}, Dropped(b, Reach(b[1]) + 1)>>
    BY <1>2, ReadOne
  <2>6. QED  BY <1>2, <2>4, <2>5
<1>3. CASE b # <<>> /\ n > 1
  <2>1. PICK h : h = n \div 2
    OBVIOUS
  <2>2. /\ Front(g, b, h)[1] \in ReadRoutes
        /\ Back(g, b, n, h)[1] \in ReadRoutes /\ Back(g, b, n, h)[2] \in Seq(Byte)
    BY <1>3, <2>1, ReadFrontBack
  <2>3. \A x, y \in ReadRoutes : x \cup y \in ReadRoutes
    BY Zenon DEF ReadRoutes
  <2>4. Front(g, b, h)[1] \cup Back(g, b, n, h)[1] \in ReadRoutes
    BY <2>2, <2>3
  <2>5. <<Front(g, b, h)[1] \cup Back(g, b, n, h)[1], Back(g, b, n, h)[2]>> \in ReadRoutes \X Seq(Byte)
    BY <2>2, <2>4, Pair
  <2>6. ReadStep(g, b, n) = <<Front(g, b, h)[1] \cup Back(g, b, n, h)[1], Back(g, b, n, h)[2]>>
    BY <1>3, <2>1, ReadMore
  <2>7. QED  BY <2>5, <2>6
<1>4. n = 0 \/ n = 1 \/ n > 1
  OBVIOUS
<1>5. QED  BY <1>1, <1>2, <1>3, <1>4

\* The recursion reads fewer routes.
LEMMA ReadLocal ==
    ASSUME NEW g, NEW h, NEW b \in Seq(Byte), NEW n \in Nat, ReadTypes(h, n),
           \A c \in Seq(Byte), m \in Nat : m < n => g[<<c, m>>] = h[<<c, m>>]
    PROVE  ReadStep(g, b, n) = ReadStep(h, b, n)
<1>1. CASE b = <<>> \/ n = 0
  BY <1>1, ReadNothing
<1>2. CASE b # <<>> /\ n = 1
  BY <1>2, ReadOne
<1>3. CASE b # <<>> /\ n > 1
  <2>1. PICK k : k = n \div 2
    OBVIOUS
  <2>2. k \in Nat /\ n - k \in Nat /\ k < n /\ n - k < n
    BY <1>3, <2>1, ReadHalves
  <2>3. Front(g, b, k) = Front(h, b, k)
    BY <2>2 DEF Front
  <2>4. Front(h, b, k)[2] \in Seq(Byte)
    BY <1>3, <2>1, ReadFrontBack
  <2>5. Back(g, b, n, k) = Back(h, b, n, k)
    BY <2>2, <2>3, <2>4 DEF Back
  <2>6. /\ ReadStep(g, b, n) = <<Front(g, b, k)[1] \cup Back(g, b, n, k)[1], Back(g, b, n, k)[2]>>
        /\ ReadStep(h, b, n) = <<Front(h, b, k)[1] \cup Back(h, b, n, k)[1], Back(h, b, n, k)[2]>>
    BY <1>3, <2>1, ReadMore
  <2>7. QED  BY <2>3, <2>5, <2>6
<1>4. n = 0 \/ n = 1 \/ n > 1
  OBVIOUS
<1>5. QED  BY <1>1, <1>2, <1>3, <1>4

\* readRoutes is defined, and satisfies its definition.
LEMMA ReadExists ==
    \A b \in Seq(Byte), n \in Nat : readRoutes[<<b, n>>] = ReadStep(readRoutes, b, n)
<1> DEFINE S == Seq(Byte) \X Nat
           V == ReadRoutes \X Seq(Byte)
           mu == [p \in S |-> p[2]]
           G(g) == [p \in S |-> ReadStep(g, p[1], p[2])]
           F == [g \in [S -> V] |-> G(g)]
<1>1. mu \in [S -> Nat] /\ \A p \in S : mu[p] = p[2]
  OBVIOUS
<1>2. \A b \in Seq(Byte), n \in Nat : <<b, n>> \in S /\ mu[<<b, n>>] = n
  <2>1. \A b \in Seq(Byte), n \in Nat : <<b, n>> \in S
    BY Pair
  <2> HIDE DEF S, mu
  <2>2. \A b \in Seq(Byte), n \in Nat : <<b, n>>[2] = n
    OBVIOUS
  <2>3. QED  BY <1>1, <2>1, <2>2
<1>3. ASSUME NEW g \in [S -> V], NEW n \in Nat
      PROVE  ReadTypes(g, n)
  <2>1. ASSUME NEW c \in Seq(Byte), NEW m \in Nat
        PROVE  g[<<c, m>>] \in V
    <3>1. <<c, m>> \in S
      BY <1>2
    <3> HIDE DEF S, V
    <3>2. QED  BY <3>1
  <2>2. QED  BY <2>1 DEF ReadTypes
<1>4. ASSUME NEW g \in [S -> V]
      PROVE  G(g) \in [S -> V]
  <2>1. ASSUME NEW p \in S
        PROVE  ReadStep(g, p[1], p[2]) \in V
    <3>1. p[1] \in Seq(Byte) /\ p[2] \in Nat
      OBVIOUS
    <3>2. ReadTypes(g, p[2])
      BY <1>3, <3>1
    <3>3. QED  BY <3>1, <3>2, ReadType
  <2> HIDE DEF S, V
  <2>2. QED  BY <2>1
<1>5. F \in [[S -> V] -> [S -> V]] /\ V # {} /\ \A g \in [S -> V] : F[g] = G(g)
  <2>1. V # {}
    <3>1. {} \in ReadRoutes
      BY DEF ReadRoutes
    <3>2. <<>> \in Seq(Byte)
      BY EmptySeq
    <3>3. <<{}, <<>>>> \in V
      BY <3>1, <3>2, Pair
    <3> HIDE DEF V
    <3>4. QED  BY <3>3
  <2> HIDE DEF S, V, G
  <2>2. QED  BY <1>4, <2>1
<1>6. Local(S, V, mu, F)
  <2> SUFFICES ASSUME NEW g \in [S -> V], NEW h \in [S -> V], NEW p \in S,
                      \A y \in S : mu[y] < mu[p] => g[y] = h[y]
               PROVE  F[g][p] = F[h][p]
    BY DEF Local
  <2>0. p[1] \in Seq(Byte) /\ p[2] \in Nat /\ mu[p] = p[2]
    OBVIOUS
  <2>1. PICK b \in Seq(Byte), n \in Nat : b = p[1] /\ n = p[2] /\ mu[p] = n
    BY <2>0
  <2>2. ASSUME NEW c \in Seq(Byte), NEW m \in Nat, m < n
        PROVE  g[<<c, m>>] = h[<<c, m>>]
    <3>1. <<c, m>> \in S /\ mu[<<c, m>>] = m
      BY <1>2
    <3>2. mu[<<c, m>>] < mu[p]
      BY <2>1, <2>2, <3>1
    <3> HIDE DEF S, mu
    <3>3. QED  BY <3>1, <3>2
  <2>3. ReadTypes(h, n)
    BY <1>3, <2>1
  <2>4. ReadStep(g, b, n) = ReadStep(h, b, n)
    BY <2>2, <2>3, ReadLocal
  <2>5. F[g] = G(g) /\ F[h] = G(h)
    BY <1>5
  <2>6. G(g)[p] = ReadStep(g, p[1], p[2]) /\ G(h)[p] = ReadStep(h, p[1], p[2])
    OBVIOUS
  <2> HIDE DEF F, G
  <2>7. QED  BY <2>1, <2>4, <2>5, <2>6
<1>7. PICK f \in FixedPoints(S, V, F) : TRUE
  <2>1. mu \in [S -> Nat] /\ F \in [[S -> V] -> [S -> V]] /\ V # {}
    BY <1>1, <1>5
  <2> HIDE DEF S, V, mu, F
  <2>2. FixedPoints(S, V, F) # {}
    BY <2>1, <1>6, MeasureRecursion
  <2>3. QED  BY <2>2
<1>8. f = G(f)
  BY <1>5, <1>7 DEF FixedPoints
<1>9. readRoutes = CHOOSE g : g = G(g)
  BY DEF readRoutes, ReadStep
<1>10. readRoutes = G(readRoutes)
  <2> HIDE DEF G
  <2> QED  BY <1>8, <1>9
<1>11. ASSUME NEW b \in Seq(Byte), NEW n \in Nat
       PROVE  G(readRoutes)[<<b, n>>] = ReadStep(readRoutes, b, n)
  <2>1. <<b, n>> \in S
    BY <1>2
  <2>2. <<b, n>>[1] = b /\ <<b, n>>[2] = n
    OBVIOUS
  <2>3. G(readRoutes)[<<b, n>>] = ReadStep(readRoutes, <<b, n>>[1], <<b, n>>[2])
    <3> HIDE DEF S
    <3> QED  BY <2>1
  <2>4. QED  BY <2>2, <2>3
<1>12. QED
  <2> HIDE DEF G
  <2> QED  BY <1>10, <1>11

-----------------------------------------------------------------------------
(* A peer reads the routes that were encoded.                              *)

\* A function on 1..n is a sequence.
LEMMA FunctionSequence ==
    ASSUME NEW S, NEW n \in Nat, NEW f \in [1..n -> S]
    PROVE  f \in Seq(S) /\ Len(f) = n
OBVIOUS

\* An address of four bytes is not empty.
LEMMA NotEmptyAddress ==
    ASSUME NEW a, a \in [1..4 -> Byte]
    PROVE  a # <<>>
<1>1. a \in Seq(Byte) /\ Len(a) = 4
  BY FunctionSequence
<1>2. QED  BY <1>1, EmptySeq

\* The head of encoded routes is the first, and the others are left.
LEMMA ReadHead ==
    ASSUME NEW s \in Seq(Network), s # <<>>
    PROVE  /\ encodePrefixes[s] # <<>>
           /\ HeadRoute(encodePrefixes[s]) = Net(s[1])
           /\ Dropped(encodePrefixes[s], Reach(encodePrefixes[s][1]) + 1) = encodePrefixes[Dropped(s, 1)]
<1> DEFINE r == s[1]
           k == Reach(r.ones)
           a == encodePrefix(r)
           t == encodePrefixes[Dropped(s, 1)]
           b == encodePrefixes[s]
<1>1. r \in Network /\ Dropped(s, 1) \in Seq(Network) /\ b = a \o t
  BY EncodeHead
<1>2. t \in Seq(Byte) /\ b \in Seq(Byte)
  BY <1>1, EncodeExists
<1> HIDE DEF t, b
<1>3. /\ k \in 0..4 /\ a \in Seq(Byte) /\ Len(a) = k + 1 /\ a[1] = r.ones
      /\ \A i \in 1..k : a[i + 1] = r.ip[i]
  BY <1>1, NetworkBytes
<1> HIDE DEF a
<1>4. PICK n \in 0..4 : n = k
  BY <1>3
<1>5. PICK l \in Nat : l = Len(t)
  BY <1>2, LenNumber
<1>6. /\ Len(b) = n + 1 + l
      /\ \A i \in 1..n + 1 + l : b[i] = IF i <= n + 1 THEN a[i] ELSE t[i - (n + 1)]
      /\ Dropped(b, n + 1) = t
  <2>1. a \in Seq(Byte) /\ t \in Seq(Byte)
    BY <1>2, <1>3
  <2>2. /\ Len(a \o t) = Len(a) + Len(t)
        /\ \A i \in 1..Len(a) + Len(t) : (a \o t)[i] = IF i <= Len(a) THEN a[i] ELSE t[i - Len(a)]
        /\ Dropped(a \o t, Len(a)) = t
    BY <2>1, ConcatProperties, ConcatParts
  <2>3. Len(a) = n + 1 /\ Len(t) = l
    BY <1>3, <1>4, <1>5
  <2>4. QED  BY <1>1, <2>2, <2>3
<1>7. \A i \in 1..n + 1 : b[i] = a[i]
  <2>1. \A i \in 1..n + 1 : i \in 1..n + 1 + l /\ i <= n + 1
    BY <1>4
  <2>2. QED  BY <1>6, <2>1
<1>8. b[1] = r.ones
  <2>1. 1 \in 1..n + 1
    BY <1>4
  <2>2. QED  BY <1>3, <1>7, <2>1
<1>9. Reach(b[1]) = n
  BY <1>4, <1>8
<1>10. b # <<>>
  <2>1. Len(b) # 0
    BY <1>4, <1>6
  <2>2. QED  BY <2>1, EmptySeq
<1>11. HeadRoute(b) = Net(r)
  <2>1. ASSUME NEW i \in 1..4
        PROVE  (IF i <= n /\ i < Len(b) THEN b[i + 1] ELSE 0) = (IF i <= n THEN r.ip[i] ELSE 0)
    <3>1. CASE i <= n
      <4>1. i \in 1..n /\ i + 1 \in 1..n + 1 /\ i < n + 1 + l
        BY <1>4, <3>1
      <4>2. b[i + 1] = a[i + 1] /\ a[i + 1] = r.ip[i]
        BY <1>3, <1>4, <1>7, <4>1
      <4>3. i < Len(b)
        BY <1>6, <4>1
      <4>4. QED  BY <3>1, <4>2, <4>3
    <3>2. CASE ~(i <= n)
      BY <3>2
    <3>3. QED  BY <3>1, <3>2
  <2>2. HeadRoute(b) = [ones |-> r.ones, ip |-> [i \in 1..4 |-> IF i <= n /\ i < Len(b) THEN b[i + 1] ELSE 0]]
    BY <1>8, <1>9 DEF HeadRoute
  <2>3. Net(r) = [ones |-> r.ones, ip |-> [i \in 1..4 |-> IF i <= n THEN r.ip[i] ELSE 0]]
    <3>1. r.ip \in [1..4 -> Byte]
      BY <1>1 DEF Network
    <3>2. r.ip # <<>>
      BY <3>1, NotEmptyAddress
    <3>3. Net(r) = [ones |-> r.ones, ip |-> [i \in 1..4 |-> IF i <= k THEN r.ip[i] ELSE 0]]
      BY <3>2 DEF Net
    <3>4. QED  BY <1>4, <3>3
  <2>4. [i \in 1..4 |-> IF i <= n /\ i < Len(b) THEN b[i + 1] ELSE 0]
          = [i \in 1..4 |-> IF i <= n THEN r.ip[i] ELSE 0]
    BY <2>1
  <2>5. QED  BY <2>2, <2>3, <2>4
<1>12. QED  BY <1>6, <1>9, <1>10, <1>11 DEF b, t

\* The routes in two parts that follow each other.
LEMMA NetsJoin ==
    ASSUME NEW s \in Seq(Network), NEW m \in Nat, NEW n \in Nat, m + n <= Len(s)
    PROVE  Nets(Taken(s, m)) \cup Nets(Taken(Dropped(s, m), n)) = Nets(Taken(s, m + n))
<1>1. PICK l \in Nat : l = Len(s)
  BY LenNumber
<1>2. m <= l /\ m + n \in Nat /\ m + n <= l /\ n <= l - m
  BY <1>1
<1> DEFINE t == Taken(s, m)
           d == Dropped(s, m)
           u == Taken(d, n)
           v == Taken(s, m + n)
<1>3. /\ t \in Seq(Network) /\ Len(t) = m
      /\ \A i \in 1..m : t[i] = s[i]
      /\ d \in Seq(Network) /\ Len(d) = l - m
      /\ \A i \in 1..l - m : d[i] = s[m + i]
  BY <1>1, <1>2, TakenDropped
<1>4. v \in Seq(Network) /\ Len(v) = m + n /\ \A i \in 1..m + n : v[i] = s[i]
  BY <1>1, <1>2, TakenDropped
<1> HIDE DEF t, d, v
<1>5. u \in Seq(Network) /\ Len(u) = n /\ \A i \in 1..n : u[i] = d[i]
  <2>1. d \in Seq(Network) /\ n <= Len(d)
    BY <1>2, <1>3
  <2>2. QED  BY <2>1, TakenDropped
<1> HIDE DEF u
<1>6. DOMAIN t = 1..m /\ DOMAIN u = 1..n /\ DOMAIN v = 1..m + n
  BY <1>3, <1>4, <1>5, LenProperties
<1>7. Nets(t) = {Net(s[i]) : i \in 1..m}
  BY <1>3, <1>6 DEF Nets
<1>8. Nets(v) = {Net(s[i]) : i \in 1..m + n}
  BY <1>4, <1>6 DEF Nets
<1>9. Nets(u) = {Net(s[m + i]) : i \in 1..n}
  <2>1. \A i \in 1..n : i \in 1..l - m
    BY <1>2
  <2>2. \A i \in 1..n : u[i] = s[m + i]
    BY <1>3, <1>5, <2>1
  <2>3. QED  BY <1>6, <2>2 DEF Nets
<1>10. ASSUME NEW x \in Nets(v)
       PROVE  x \in Nets(t) \cup Nets(u)
  <2>1. PICK i \in 1..m + n : x = Net(s[i])
    BY <1>8, <1>10
  <2>2. CASE i <= m
    <3>1. i \in 1..m
      BY <2>2
    <3>2. QED  BY <1>7, <2>1, <3>1
  <2>3. CASE ~(i <= m)
    <3>1. i - m \in 1..n /\ m + (i - m) = i
      BY <2>3
    <3>2. Net(s[m + (i - m)]) \in Nets(u)
      BY <1>9, <3>1
    <3>3. QED  BY <2>1, <3>1, <3>2
  <2>4. QED  BY <2>2, <2>3
<1>11. Nets(t) \subseteq Nets(v)
  <2>1. \A i \in 1..m : i \in 1..m + n
    OBVIOUS
  <2>2. QED  BY <1>7, <1>8, <2>1
<1>12. Nets(u) \subseteq Nets(v)
  <2>1. \A i \in 1..n : m + i \in 1..m + n
    OBVIOUS
  <2>2. QED  BY <1>8, <1>9, <2>1
<1>13. Nets(t) \cup Nets(u) = Nets(v)
  BY <1>10, <1>11, <1>12
<1>14. QED  BY <1>13 DEF t, u, v, d

\* A reading of up to n routes covers m of s.
Covers(s, n, m) == m <= n /\ m <= Len(s) /\ (m = n \/ m = Len(s))

ReadsFront(n) ==
    \A s \in Seq(Network) : \A m \in Nat : Covers(s, n, m)
        => readRoutes[<<encodePrefixes[s], n>>] = <<Nets(Taken(s, m)), encodePrefixes[Dropped(s, m)]>>

\* Nothing taken, nothing dropped.
LEMMA TakenNone ==
    ASSUME NEW s \in Seq(Network)
    PROVE  Nets(Taken(s, 0)) = {} /\ Dropped(s, 0) = s
<1>1. PICK n \in Nat : n = Len(s)
  BY LenNumber
<1>2. Taken(s, 0) = <<>>
  BY SubSeqEmpty DEF Taken
<1>3. DOMAIN <<>> = {}
  OBVIOUS
<1>4. Nets(<<>>) = {}
  BY <1>3 DEF Nets
<1>5. Dropped(s, 0) = s
  BY SubSeqFull DEF Dropped
<1>6. QED  BY <1>2, <1>4, <1>5

\* n routes are read from the front when fewer are.
LEMMA ReadFrontStep ==
    ASSUME NEW n \in Nat, \A k \in Nat : k < n => ReadsFront(k)
    PROVE  ReadsFront(n)
<1> SUFFICES ASSUME NEW s \in Seq(Network), NEW m \in Nat, Covers(s, n, m)
             PROVE  readRoutes[<<encodePrefixes[s], n>>]
                        = <<Nets(Taken(s, m)), encodePrefixes[Dropped(s, m)]>>
  BY DEF ReadsFront
<1> DEFINE b == encodePrefixes[s]
<1>1. PICK l \in Nat : l = Len(s)
  BY LenNumber
<1>2. m <= n /\ m <= l /\ (m = n \/ m = l)
  BY <1>1 DEF Covers
<1>3. b \in Seq(Byte) /\ readRoutes[<<b, n>>] = ReadStep(readRoutes, b, n)
  BY EncodeExists, ReadExists
<1>4. s = <<>> => l = 0 /\ b = <<>>
  BY <1>1, EmptySeq, EncodeEmpty
<1>5. CASE s = <<>> \/ n = 0
  <2>1. m = 0
    BY <1>2, <1>4, <1>5
  <2>2. b = <<>> \/ n = 0
    BY <1>4, <1>5
  <2> HIDE DEF b
  <2>3. readRoutes[<<b, n>>] = <<{}, b>>
    BY <1>3, <2>2, ReadNothing
  <2>4. QED  BY <2>1, <2>3, TakenNone DEF b
<1>6. CASE s # <<>> /\ n = 1
  <2>1. /\ b # <<>> /\ HeadRoute(b) = Net(s[1])
        /\ Dropped(b, Reach(b[1]) + 1) = encodePrefixes[Dropped(s, 1)]
    BY <1>6, ReadHead
  <2>2. 1 <= l
    BY <1>1, <1>6, EncodeHead
  <2>3. m = 1
    BY <1>2, <1>6, <2>2
  <2> HIDE DEF b
  <2>4. readRoutes[<<b, n>>] = <<{Net(s[1])}, encodePrefixes[Dropped(s, 1)]>>
    BY <1>3, <1>6, <2>1, ReadOne
  <2>5. Nets(Taken(s, 1)) = {Net(s[1])}
    <3>1. /\ Taken(s, 1) \in Seq(Network) /\ Len(Taken(s, 1)) = 1
          /\ \A i \in 1..1 : Taken(s, 1)[i] = s[i]
      <4>1. 1 \in Nat /\ 1 <= Len(s)
        BY <1>1, <2>2
      <4>2. QED  BY <4>1, TakenDropped
    <3>2. DOMAIN Taken(s, 1) = 1..1
      BY <3>1, LenProperties
    <3>3. 1..1 = {1}
      OBVIOUS
    <3>4. QED  BY <3>1, <3>2, <3>3 DEF Nets
  <2>6. QED  BY <2>3, <2>4, <2>5 DEF b
<1>7. CASE s # <<>> /\ n > 1
  <2>1. PICK h : h = n \div 2
    OBVIOUS
  <2>2. h \in Nat /\ n - h \in Nat /\ h < n /\ n - h < n
    BY <1>7, <2>1, ReadHalves
  <2>3. PICK p \in Nat : p <= h /\ p <= l /\ (p = h \/ p = l)
    <3>1. h <= l \/ l <= h
      BY <2>2
    <3>2. QED  BY <2>2, <3>1
  <2>4. PICK q \in Nat : q = m - p /\ p + q = m /\ q <= n - h /\ q <= l - p /\ (q = n - h \/ q = l - p)
    BY <1>2, <2>2, <2>3
  <2> DEFINE d == Dropped(s, p)
             c == encodePrefixes[d]
  <2>5. d \in Seq(Network) /\ Len(d) = l - p
    BY <1>1, <2>3, TakenDropped
  <2>6. Front(readRoutes, b, h) = <<Nets(Taken(s, p)), c>>
    <3>1. Covers(s, h, p)
      BY <1>1, <2>3 DEF Covers
    <3>2. QED  BY <2>2, <2>3, <3>1 DEF ReadsFront, Front
  <2> HIDE DEF d
  <2>7. readRoutes[<<c, n - h>>] = <<Nets(Taken(d, q)), encodePrefixes[Dropped(d, q)]>>
    <3>1. Covers(d, n - h, q)
      BY <2>4, <2>5 DEF Covers
    <3>2. QED  BY <2>2, <2>4, <2>5, <3>1 DEF ReadsFront
  <2> HIDE DEF c
  <2>8. Back(readRoutes, b, n, h) = <<Nets(Taken(d, q)), encodePrefixes[Dropped(d, q)]>>
    BY <2>6, <2>7 DEF Back
  <2>9. b # <<>>
    BY <1>7, ReadHead
  <2>10. ReadStep(readRoutes, b, n)
            = <<Front(readRoutes, b, h)[1] \cup Back(readRoutes, b, n, h)[1], Back(readRoutes, b, n, h)[2]>>
    BY <1>7, <2>1, <2>9, ReadMore
  <2>11. ReadStep(readRoutes, b, n)
           = <<Nets(Taken(s, p)) \cup Nets(Taken(d, q)), encodePrefixes[Dropped(d, q)]>>
    BY <2>6, <2>8, <2>10
  <2>12. p + q <= l
    BY <2>4, <1>2
  <2>13. Nets(Taken(s, p)) \cup Nets(Taken(d, q)) = Nets(Taken(s, p + q)) /\ Dropped(d, q) = Dropped(s, p + q)
    BY <1>1, <2>3, <2>4, <2>12, NetsJoin, DroppedTwice DEF d
  <2>14. QED  BY <1>3, <2>4, <2>11, <2>13
<1>8. n = 0 \/ n = 1 \/ n > 1
  OBVIOUS
<1>9. QED  BY <1>5, <1>6, <1>7, <1>8

\* From the bytes of routes, n of them or all are read, and the bytes of the others are left.
LEMMA ReadFront == \A n \in Nat : ReadsFront(n)
<1> DEFINE P == {n \in Nat : ReadsFront(n)}
           id == [n \in Nat |-> n]
<1>1. ASSUME NEW n \in Nat, \A k \in Nat : id[k] < id[n] => k \in P
      PROVE  n \in P
  <2>1. \A k \in Nat : k < n => k \in P
    BY <1>1
  <2>2. \A k \in Nat : k < n => ReadsFront(k)
    BY <2>1
  <2>3. QED  BY <2>2, ReadFrontStep
<1>2. id \in [Nat -> Nat]
  OBVIOUS
<1>3. Nat \subseteq P
  <2> HIDE DEF P, id
  <2> QED  BY <1>1, <1>2, MeasureInduction
<1>4. QED  BY <1>3

\* What encodePrefix writes, one route behind the other, is read as these routes:
\* any number of them and any masks, the bytes behind a mask's last one 0.
THEOREM RoutesAreRead ==
    ASSUME NEW s \in Seq(Network)
    PROVE  Routes(encodePrefixes[s]) = Nets(s)
<1> DEFINE b == encodePrefixes[s]
<1>1. PICK n \in Nat : n = Len(s)
  BY LenNumber
<1>2. b \in Seq(Byte)
  BY EncodeExists
<1>3. PICK l \in Nat : l = Len(b)
  BY <1>2, LenNumber
<1>4. n <= l
  BY <1>1, <1>3, EncodeLength DEF EncodedLength
<1>5. Covers(s, l, n)
  BY <1>1, <1>4 DEF Covers
<1>6. readRoutes[<<b, l>>] = <<Nets(Taken(s, n)), encodePrefixes[Dropped(s, n)]>>
  BY <1>5, ReadFront DEF ReadsFront
<1>7. Taken(s, n) = s
  BY <1>1, SubSeqFull DEF Taken
<1>8. QED  BY <1>3, <1>6, <1>7 DEF Routes

-----------------------------------------------------------------------------
(* Reading attributes, and fields behind their length.                     *)

\* One step of the recursion, with g for what it reads of shorter bytes.
AttributeStep(g, b) ==
    IF Len(b) < 3 \/ Len(b) < b[3] + 3 THEN {}
    ELSE {<<b[2], SubSeq(b, 4, b[3] + 3)>>} \cup g[Dropped(b, b[3] + 3)]

ReadPairs == SUBSET {<<b[2], SubSeq(b, 4, b[3] + 3)>> : b \in Seq(Byte)}

\* What is left behind an attribute is shorter.
LEMMA AttributeRest ==
    ASSUME NEW b \in Seq(Byte), ~(Len(b) < 3 \/ Len(b) < b[3] + 3)
    PROVE  /\ Dropped(b, b[3] + 3) \in Seq(Byte)
           /\ Len(Dropped(b, b[3] + 3)) < Len(b)
<1>1. PICK l \in Nat : l = Len(b)
  BY LenNumber
<1>2. 3 <= l /\ 3 \in 1..l
  BY <1>1
<1>3. b[3] \in 0..255
  BY <1>1, <1>2, ElementOfSeq DEF Byte
<1>4. PICK n \in Nat : n = b[3] + 3 /\ 0 < n /\ n <= l
  <2>1. PICK x \in 0..255 : x = b[3]
    BY <1>3
  <2>2. ~(l < x + 3)
    BY <1>1, <2>1
  <2>3. x + 3 \in Nat /\ 0 < x + 3 /\ x + 3 <= l
    BY <2>2
  <2>4. QED  BY <2>1, <2>3
<1>5. Dropped(b, n) \in Seq(Byte) /\ Len(Dropped(b, n)) = l - n
  BY <1>1, <1>4, TakenDropped
<1>6. l - n < l
  BY <1>4
<1>7. QED  BY <1>1, <1>4, <1>5, <1>6

\* readAttributes is defined, and satisfies its definition.
LEMMA AttributeExists == \A b \in Seq(Byte) : readAttributes[b] = AttributeStep(readAttributes, b)
<1> DEFINE S == Seq(Byte)
           V == ReadPairs
           mu == [b \in S |-> Len(b)]
           G(g) == [b \in S |-> AttributeStep(g, b)]
           F == [g \in [S -> V] |-> G(g)]
<1>1. mu \in [S -> Nat] /\ \A b \in S : mu[b] = Len(b)
  BY LenProperties
<1>2. ASSUME NEW g \in [S -> V]
      PROVE  G(g) \in [S -> V]
  <2>1. ASSUME NEW b \in S
        PROVE  AttributeStep(g, b) \in V
    <3>1. CASE Len(b) < 3 \/ Len(b) < b[3] + 3
      <4>1. AttributeStep(g, b) = {}
        BY <3>1, Zenon DEF AttributeStep
      <4>2. QED  BY <4>1 DEF ReadPairs
    <3>2. CASE ~(Len(b) < 3 \/ Len(b) < b[3] + 3)
      <4>1. g[Dropped(b, b[3] + 3)] \in V
        <5>1. Dropped(b, b[3] + 3) \in S
          BY <3>2, AttributeRest
        <5> HIDE DEF S, V
        <5>2. QED  BY <5>1
      <4>2. AttributeStep(g, b) = {<<b[2], SubSeq(b, 4, b[3] + 3)>>} \cup g[Dropped(b, b[3] + 3)]
        BY <3>2, Zenon DEF AttributeStep
      <4>3. {<<b[2], SubSeq(b, 4, b[3] + 3)>>} \in V
        BY Zenon DEF ReadPairs
      <4>4. \A x, y \in V : x \cup y \in V
        BY Zenon DEF ReadPairs
      <4> HIDE DEF S, V
      <4>5. QED  BY <4>1, <4>2, <4>3, <4>4
    <3>3. QED  BY <3>1, <3>2
  <2> HIDE DEF S, V
  <2>2. QED  BY <2>1
<1>3. F \in [[S -> V] -> [S -> V]] /\ V # {} /\ \A g \in [S -> V] : F[g] = G(g)
  <2>1. {} \in V
    BY DEF ReadPairs
  <2> HIDE DEF S, V, G
  <2>2. QED  BY <1>2, <2>1
<1>4. Local(S, V, mu, F)
  <2> SUFFICES ASSUME NEW g \in [S -> V], NEW h \in [S -> V], NEW s \in S,
                      \A y \in S : mu[y] < mu[s] => g[y] = h[y]
               PROVE  F[g][s] = F[h][s]
    BY DEF Local
  <2>1. \A y \in S : Len(y) < Len(s) => g[y] = h[y]
    <3> HIDE DEF S, mu
    <3> QED  BY <1>1
  <2>2. AttributeStep(g, s) = AttributeStep(h, s)
    <3>1. CASE Len(s) < 3 \/ Len(s) < s[3] + 3
      BY <3>1, Zenon DEF AttributeStep
    <3>2. CASE ~(Len(s) < 3 \/ Len(s) < s[3] + 3)
      <4>1. g[Dropped(s, s[3] + 3)] = h[Dropped(s, s[3] + 3)]
        BY <2>1, <3>2, AttributeRest
      <4>2. QED  BY <3>2, <4>1, Zenon DEF AttributeStep
    <3>3. QED  BY <3>1, <3>2
  <2>3. F[g] = G(g) /\ F[h] = G(h)
    BY <1>3
  <2> HIDE DEF F
  <2>4. QED  BY <2>2, <2>3
<1>5. PICK f \in FixedPoints(S, V, F) : TRUE
  <2>1. mu \in [S -> Nat] /\ F \in [[S -> V] -> [S -> V]] /\ V # {}
    BY <1>1, <1>3
  <2> HIDE DEF S, V, mu, F
  <2>2. FixedPoints(S, V, F) # {}
    BY <2>1, <1>4, MeasureRecursion
  <2>3. QED  BY <2>2
<1>6. f = G(f)
  BY <1>3, <1>5 DEF FixedPoints
<1>7. readAttributes = CHOOSE g : g = G(g)
  BY DEF readAttributes, AttributeStep
<1>8. readAttributes = G(readAttributes)
  <2> HIDE DEF G
  <2> QED  BY <1>6, <1>7
<1>9. \A b \in S : G(readAttributes)[b] = AttributeStep(readAttributes, b)
  OBVIOUS
<1>10. QED
  <2> HIDE DEF G
  <2> QED  BY <1>8, <1>9

\* The attribute at the head of its field.
LEMMA AttributeRead ==
    ASSUME NEW a \in Seq(Byte), NEW r \in Seq(Byte), 3 <= Len(a), Len(a) = a[3] + 3
    PROVE  readAttributes[a \o r] = {<<a[2], Dropped(a, 3)>>} \cup readAttributes[r]
<1> DEFINE b == a \o r
<1>1. PICK m \in Nat : m = Len(a)
  BY LenNumber
<1>2. PICK n \in Nat : n = Len(r)
  BY LenNumber
<1>3. /\ b \in Seq(Byte) /\ Len(b) = m + n
      /\ \A i \in 1..m + n : b[i] = IF i <= m THEN a[i] ELSE r[i - m]
      /\ Taken(b, m) = a /\ Dropped(b, m) = r
  <2>1. /\ b \in Seq(Byte) /\ Len(b) = Len(a) + Len(r)
        /\ \A i \in 1..Len(a) + Len(r) : b[i] = IF i <= Len(a) THEN a[i] ELSE r[i - Len(a)]
    BY ConcatProperties
  <2>2. Taken(b, Len(a)) = a /\ Dropped(b, Len(a)) = r
    BY ConcatParts
  <2> HIDE DEF b
  <2>3. QED  BY <1>1, <1>2, <2>1, <2>2
<1> HIDE DEF b
<1>4. 2 \in 1..m + n /\ 3 \in 1..m + n /\ 2 <= m /\ 3 <= m
  BY <1>1
<1>5. b[2] = a[2] /\ b[3] = a[3]
  BY <1>3, <1>4
<1>6. m = b[3] + 3
  BY <1>1, <1>5
<1>7. ~(Len(b) < 3 \/ Len(b) < m)
  BY <1>3, <1>4
<1>8. AttributeStep(readAttributes, b)
          = {<<b[2], SubSeq(b, 4, m)>>} \cup readAttributes[Dropped(b, m)]
  BY <1>6, <1>7, Zenon DEF AttributeStep
<1>9. SubSeq(b, 4, m) = SubSeq(a, 4, m)
  <2>1. SubSeq(Taken(b, m), 4, m) = SubSeq(b, 1 + 4 - 1, 1 + m - 1)
    <3>1. /\ 1 \in Nat /\ 4 \in Nat /\ 1 <= 1 /\ 1 <= m + 1 /\ m <= Len(b)
          /\ 1 <= 4 /\ 4 <= m + 1 /\ 1 + m <= m + 1
      BY <1>3, <1>4
    <3>2. QED  BY <1>3, <3>1, PartOfPart DEF Taken
  <2>2. 1 + 4 - 1 = 4 /\ 1 + m - 1 = m
    OBVIOUS
  <2>3. QED  BY <1>3, <2>1, <2>2
<1>10. SubSeq(a, 4, m) = Dropped(a, 3)
  <2>1. 3 + 1 = 4
    OBVIOUS
  <2>2. QED  BY <1>1, <2>1 DEF Dropped
<1>11. readAttributes[b] = {<<a[2], Dropped(a, 3)>>} \cup readAttributes[r]
  BY <1>3, <1>5, <1>8, <1>9, <1>10, AttributeExists
<1>12. QED  BY <1>11 DEF b

\* Two bytes hold a number, the high one first.
LEMMA LowByte ==
    ASSUME NEW x \in Nat
    PROVE  \E q \in Nat, r \in 0..255 : q = x \div 256 /\ r = x % 256 /\ x = 256 * q + r
<1>1. PICK q \in Nat : q = x \div 256
  OBVIOUS
<1>2. PICK r \in 0..255 : r = x % 256
  OBVIOUS
<1>3. x % 256 = x - 256 * (x \div 256)
  OBVIOUS
<1>4. r = x - 256 * q
  BY <1>1, <1>2, <1>3
<1>5. x = 256 * q + r
  BY <1>4
<1>6. q = x \div 256 /\ r = x % 256 /\ x = 256 * q + r
  BY <1>1, <1>2, <1>5
<1>7. \E b \in 0..255 : q = x \div 256 /\ b = x % 256 /\ x = 256 * q + b
  BY <1>6
<1>8. QED  BY <1>7

\* Numbers of two bytes are numbers, and not above 65535.
LEMMA TwoBytesRange ==
    ASSUME NEW x \in TwoBytes
    PROVE  x \in Nat /\ x <= 65535
BY SMT DEF TwoBytes

\* A number that is cut to its low byte.
LEMMA CutByte == \A n \in Nat : n % 256 \in 0..255
BY SMT

\* A number of two bytes is read as it was written.
LEMMA Uint16Read ==
    ASSUME NEW x \in TwoBytes
    PROVE  /\ Uint16(x) \in Seq(Byte) /\ Len(Uint16(x)) = 2
           /\ Uint16(x)[1] * 256 + Uint16(x)[2] = x
<1>0. x \in Nat
  BY TwoBytesRange, SMT
<1>1. PICK q \in Nat, r \in 0..255 : q = x \div 256 /\ r = x % 256 /\ x = 256 * q + r
  BY <1>0, LowByte
<1>2. q \in 0..255
  <2>1. q \in Nat /\ r \in Nat /\ x = 256 * q + r
    BY <1>1
  <2>2. x <= 65535
    BY TwoBytesRange, SMT
  <2>3. QED  BY <2>1, <2>2, SMT
<1>3. q % 256 = q
  BY <1>2
<1>4. Uint16(x) = <<q, r>>
  BY <1>1, <1>3 DEF Uint16
<1>5. <<q, r>> \in Seq(Byte) /\ Len(<<q, r>>) = 2 /\ <<q, r>>[1] = q /\ <<q, r>>[2] = r
  BY <1>2 DEF Byte
<1>6. q * 256 + r = x
  BY <1>1
<1>7. QED  BY <1>4, <1>5, <1>6

\* A field behind its length.
LEMMA CountedFront ==
    ASSUME NEW u \in Seq(Byte), NEW w \in Seq(Byte), NEW r \in Seq(Byte), NEW n \in Nat,
           Len(u) = 2, Len(w) = n, u[1] * 256 + u[2] = n
    PROVE  Field((u \o w) \o r) = w /\ Behind((u \o w) \o r) = r
<1> DEFINE c == u \o w
           b == c \o r
<1>1. /\ c \in Seq(Byte) /\ Len(c) = n + 2
      /\ \A i \in 1..n + 2 : c[i] = IF i <= 2 THEN u[i] ELSE w[i - 2]
      /\ Dropped(c, 2) = w
  <2>1. /\ c \in Seq(Byte) /\ Len(c) = Len(u) + Len(w)
        /\ \A i \in 1..Len(u) + Len(w) : c[i] = IF i <= Len(u) THEN u[i] ELSE w[i - Len(u)]
    BY ConcatProperties
  <2>2. Dropped(c, Len(u)) = w
    BY ConcatParts
  <2>3. Len(u) + Len(w) = n + 2
    OBVIOUS
  <2> HIDE DEF c
  <2>4. QED  BY <2>1, <2>2, <2>3
<1> HIDE DEF c
<1>2. PICK l \in Nat : l = Len(r)
  BY LenNumber
<1>3. /\ b \in Seq(Byte) /\ Len(b) = n + 2 + l
      /\ \A i \in 1..n + 2 + l : b[i] = IF i <= n + 2 THEN c[i] ELSE r[i - (n + 2)]
      /\ Taken(b, n + 2) = c /\ Dropped(b, n + 2) = r
  <2>1. c \in Seq(Byte) /\ r \in Seq(Byte)
    BY <1>1
  <2>2. /\ b \in Seq(Byte) /\ Len(b) = Len(c) + Len(r)
        /\ \A i \in 1..Len(c) + Len(r) : b[i] = IF i <= Len(c) THEN c[i] ELSE r[i - Len(c)]
        /\ Taken(b, Len(c)) = c /\ Dropped(b, Len(c)) = r
    BY <2>1, ConcatProperties, ConcatParts
  <2>3. Len(c) = n + 2
    BY <1>1
  <2> HIDE DEF b
  <2>4. QED  BY <1>2, <2>2, <2>3
<1> HIDE DEF b
<1>4. \A i \in 1..2 : b[i] = u[i]
  <2>1. \A i \in 1..2 : i \in 1..n + 2 /\ i \in 1..n + 2 + l /\ i <= n + 2 /\ i <= 2
    OBVIOUS
  <2>2. QED  BY <1>1, <1>3, <2>1
<1>5. Number(b) = n
  <2>1. 1 \in 1..2 /\ 2 \in 1..2
    OBVIOUS
  <2>2. b[1] = u[1] /\ b[2] = u[2]
    BY <1>4, <2>1
  <2>3. QED  BY <2>2 DEF Number
<1>6. Behind(b) = r
  BY <1>3, <1>5 DEF Behind
<1>7. Field(b) = w
  <2>1. SubSeq(Taken(b, n + 2), 3, n + 2) = SubSeq(b, 1 + 3 - 1, 1 + (n + 2) - 1)
    <3>1. /\ 1 \in Nat /\ 3 \in Nat /\ n + 2 \in Nat /\ 1 <= 1 /\ 1 <= n + 2 + 1 /\ n + 2 <= Len(b)
          /\ 1 <= 3 /\ 3 <= n + 2 + 1 /\ 1 + (n + 2) <= n + 2 + 1
      BY <1>3
    <3>2. QED  BY <1>3, <3>1, PartOfPart DEF Taken
  <2>2. 1 + 3 - 1 = 3 /\ 1 + (n + 2) - 1 = n + 2 /\ 2 + 1 = 3
    OBVIOUS
  <2>3. SubSeq(c, 3, n + 2) = w
    BY <1>1, <2>2 DEF Dropped
  <2>4. QED  BY <1>3, <1>5, <2>1, <2>2, <2>3 DEF Field
<1>8. QED  BY <1>6, <1>7 DEF b, c

\* A field behind its length is read, and what stands behind it.
LEMMA CountedRead ==
    ASSUME NEW w \in Seq(Byte), NEW r \in Seq(Byte), NEW n \in TwoBytes, n = Len(w)
    PROVE  Field(Counted(w) \o r) = w /\ Behind(Counted(w) \o r) = r
<1>1. /\ Uint16(n) \in Seq(Byte) /\ Len(Uint16(n)) = 2
      /\ Uint16(n)[1] * 256 + Uint16(n)[2] = n /\ n \in Nat
  BY Uint16Read, TwoBytesRange
<1>2. Counted(w) = Uint16(n) \o w
  BY DEF Counted
<1>3. QED  BY <1>1, <1>2, CountedFront

-----------------------------------------------------------------------------
(* The attributes.                                                         *)

PathNumbers(asns) == [i \in 1..2 * Len(asns) |-> Uint16(asns[(i + 1) \div 2])[2 - (i % 2)]]
PathSegment(asns) == <<2, Len(asns) % 256>> \o PathNumbers(asns)

\* Odd places hold high bytes, even ones low bytes.
LEMMA Halving ==
    /\ \A i \in Nat : i % 2 \in 0..1
    /\ \A n \in Nat : \A i \in 1..2 * n : (i + 1) \div 2 \in 1..n
    /\ \A k \in Nat : /\ (2 * k + 1) \div 2 = k /\ (2 * k) % 2 = 0
                      /\ k # 0 => (2 * k - 1) % 2 = 1 /\ (2 * k - 1 + 1) \div 2 = k
<1>1. \A i \in Nat : i % 2 \in 0..1
  OBVIOUS
<1>2. ASSUME NEW n \in Nat, NEW i \in 1..2 * n
      PROVE  (i + 1) \div 2 \in 1..n
  OBVIOUS
<1>3. ASSUME NEW k \in Nat
      PROVE  (2 * k + 1) \div 2 = k /\ (2 * k) % 2 = 0
  OBVIOUS
<1>4. ASSUME NEW k \in Nat, k # 0
      PROVE  (2 * k - 1) % 2 = 1 /\ (2 * k - 1 + 1) \div 2 = k
  OBVIOUS
<1>5. QED  BY <1>1, <1>2, <1>3, <1>4

\* Both are bytes, also of a number that is cut.
LEMMA Uint16Bytes ==
    ASSUME NEW x \in Nat
    PROVE  \A j \in 1..2 : Uint16(x)[j] \in Byte
<1>1. (x \div 256) % 256 \in 0..255 /\ x % 256 \in 0..255
  OBVIOUS
<1>2. QED  BY <1>1 DEF Uint16, Byte

\* The numbers of an AS path are read as they were written.
LEMMA PathNumbersRead ==
    ASSUME NEW asns \in Seq(TwoBytes), NEW n \in Nat, n = Len(asns)
    PROVE  /\ PathNumbers(asns) \in Seq(Byte) /\ Len(PathNumbers(asns)) = 2 * n
           /\ \A k \in 1..n :
                 PathNumbers(asns)[2 * k - 1] * 256 + PathNumbers(asns)[2 * k] = asns[k]
<1> DEFINE v == PathNumbers(asns)
           f(i) == Uint16(asns[(i + 1) \div 2])[2 - (i % 2)]
<1>1. \A i \in 1..2 * n : f(i) \in Byte
  <2> TAKE i \in 1..2 * n
  <2>1. PICK k \in 1..n : k = (i + 1) \div 2
    BY Halving
  <2>2. PICK j \in 1..2 : j = 2 - (i % 2)
    <3>1. i \in Nat
      OBVIOUS
    <3>2. PICK r \in 0..1 : r = i % 2
      BY <3>1, Halving
    <3>3. 2 - r \in 1..2
      OBVIOUS
    <3>4. QED  BY <3>2, <3>3
  <2>3. asns[k] \in TwoBytes
    BY ElementOfSeq
  <2>4. asns[k] \in Nat
    BY <2>3, TwoBytesRange
  <2>5. Uint16(asns[k])[j] \in Byte
    BY <2>4, Uint16Bytes
  <2>6. QED  BY <2>1, <2>2, <2>5
<1>2. v = [i \in 1..2 * n |-> f(i)]
  BY DEF PathNumbers
<1>3. 2 * n \in Nat
  OBVIOUS
<1>4. v \in Seq(Byte) /\ Len(v) = 2 * n /\ \A i \in 1..2 * n : v[i] = f(i)
  <2> HIDE DEF v, f
  <2>1. v \in [1..2 * n -> Byte]
    BY <1>1, <1>2
  <2>2. \A i \in 1..2 * n : v[i] = f(i)
    BY <1>2
  <2>3. QED  BY <1>3, <2>1, <2>2
<1>5. ASSUME NEW k \in 1..n
      PROVE  v[2 * k - 1] * 256 + v[2 * k] = asns[k]
  <2>1. 2 * k - 1 \in 1..2 * n /\ 2 * k \in 1..2 * n /\ k \in Nat /\ k # 0
    OBVIOUS
  <2>2. (2 * k - 1) % 2 = 1 /\ (2 * k - 1 + 1) \div 2 = k /\ (2 * k) % 2 = 0 /\ (2 * k + 1) \div 2 = k
    BY <2>1, Halving
  <2>3. v[2 * k - 1] = Uint16(asns[k])[2 - 1] /\ v[2 * k] = Uint16(asns[k])[2 - 0]
    <3>1. v[2 * k - 1] = f(2 * k - 1) /\ v[2 * k] = f(2 * k)
      <4> HIDE DEF v, f
      <4> QED  BY <1>4, <2>1
    <3> HIDE DEF v
    <3>2. QED  BY <2>2, <3>1
  <2>4. PICK x \in TwoBytes : x = asns[k]
    <3>1. asns[k] \in TwoBytes
      BY ElementOfSeq
    <3>2. QED  BY <3>1
  <2>5. Uint16(x)[1] * 256 + Uint16(x)[2] = x
    BY <2>4, Uint16Read
  <2>6. 2 - 1 = 1 /\ 2 - 0 = 2
    OBVIOUS
  <2> HIDE DEF v, f
  <2>7. v[2 * k - 1] = Uint16(x)[1] /\ v[2 * k] = Uint16(x)[2]
    BY <2>3, <2>4, <2>6
  <2>8. QED  BY <2>4, <2>5, <2>7
<1>6. QED  BY <1>4, <1>5

\* A segment of up to 126 numbers says how many they are.
LEMMA PathSegmentRead ==
    ASSUME NEW asns \in Seq(TwoBytes), NEW n \in Nat, n = Len(asns)
    PROVE  /\ PathSegment(asns) \in Seq(Byte) /\ Len(PathSegment(asns)) = 2 * n + 2
           /\ n <= 126 => Segment(PathSegment(asns), asns)
<1> DEFINE v == PathNumbers(asns)
           h == <<2, Len(asns) % 256>>
           s == h \o v
<1>1. /\ v \in Seq(Byte) /\ Len(v) = 2 * n
      /\ \A k \in 1..n : v[2 * k - 1] * 256 + v[2 * k] = asns[k]
  BY PathNumbersRead
<1>2. /\ h \in Seq(Byte) /\ Len(h) = 2 /\ h[1] = 2 /\ h[2] = n % 256
  <2>1. n % 256 \in 0..255
    BY CutByte
  <2>2. QED  BY <2>1 DEF Byte
<1> HIDE DEF v, h
<1>3. /\ s \in Seq(Byte) /\ Len(s) = 2 * n + 2
      /\ \A i \in 1..2 * n + 2 : s[i] = IF i <= 2 THEN h[i] ELSE v[i - 2]
  <2>0. v \in Seq(Byte) /\ h \in Seq(Byte)
    BY <1>1, <1>2
  <2>1. /\ s \in Seq(Byte) /\ Len(s) = Len(h) + Len(v)
        /\ \A i \in 1..Len(h) + Len(v) : s[i] = IF i <= Len(h) THEN h[i] ELSE v[i - Len(h)]
    BY <2>0, ConcatProperties
  <2>2. Len(h) + Len(v) = 2 * n + 2 /\ Len(h) = 2
    BY <1>1, <1>2
  <2> HIDE DEF s
  <2>3. QED  BY <2>1, <2>2
<1> HIDE DEF s
<1>4. PathSegment(asns) = s
  BY DEF PathSegment, s, h, v
<1>5. ASSUME n <= 126
      PROVE  Segment(s, asns)
  <2>1. s[1] = 2 /\ s[2] = n
    <3>1. \A i \in 1..2 : i \in 1..2 * n + 2 /\ i <= 2
      OBVIOUS
    <3>2. \A i \in 1..2 : s[i] = h[i]
      BY <1>3, <3>1
    <3>3. n % 256 = n
      BY <1>5
    <3>4. 1 \in 1..2 /\ 2 \in 1..2
      OBVIOUS
    <3>5. QED  BY <1>2, <3>2, <3>3, <3>4
  <2>2. ASSUME NEW k \in 1..n
        PROVE  s[2 * k + 1] * 256 + s[2 * k + 2] = asns[k]
    <3>1. /\ 2 * k + 1 \in 1..2 * n + 2 /\ ~(2 * k + 1 <= 2) /\ 2 * k + 1 - 2 = 2 * k - 1
          /\ 2 * k + 2 \in 1..2 * n + 2 /\ ~(2 * k + 2 <= 2) /\ 2 * k + 2 - 2 = 2 * k
      OBVIOUS
    <3>2. s[2 * k + 1] = v[2 * k - 1] /\ s[2 * k + 2] = v[2 * k]
      BY <1>3, <3>1
    <3>3. v[2 * k - 1] * 256 + v[2 * k] = asns[k]
      BY <1>1
    <3>4. QED  BY <3>2, <3>3
  <2>3. DOMAIN asns = 1..n
    BY LenProperties
  <2>4. Len(s) = 2 + 2 * Len(asns)
    BY <1>3
  <2>5. QED  BY <2>1, <2>2, <2>3, <2>4 DEF Segment
<1>6. QED  BY <1>3, <1>4, <1>5

\* A front of three bytes and a value.
LEMMA Headed ==
    ASSUME NEW x \in Byte, NEW y \in Byte, NEW z \in Byte, NEW v \in Seq(Byte), NEW n \in Nat, n = Len(v)
    PROVE  /\ <<x, y, z>> \o v \in Seq(Byte) /\ Len(<<x, y, z>> \o v) = n + 3
           /\ (<<x, y, z>> \o v)[2] = y /\ (<<x, y, z>> \o v)[3] = z
           /\ Dropped(<<x, y, z>> \o v, 3) = v
<1> DEFINE h == <<x, y, z>>
           b == h \o v
<1>1. h \in Seq(Byte) /\ Len(h) = 3 /\ h[2] = y /\ h[3] = z
  OBVIOUS
<1> HIDE DEF h
<1>2. h \in Seq(Byte)
  BY <1>1
<1>3. /\ b \in Seq(Byte) /\ Len(b) = Len(h) + Len(v)
      /\ \A i \in 1..Len(h) + Len(v) : b[i] = IF i <= Len(h) THEN h[i] ELSE v[i - Len(h)]
      /\ Dropped(b, Len(h)) = v
  BY <1>2, ConcatProperties, ConcatParts
<1>4. Len(h) + Len(v) = n + 3 /\ Len(h) = 3
  BY <1>1
<1> HIDE DEF b
<1>5. \A i \in 1..n + 3 : b[i] = IF i <= 3 THEN h[i] ELSE v[i - 3]
  BY <1>3, <1>4
<1>6. \A i \in 1..3 : i \in 1..n + 3 /\ i <= 3
  OBVIOUS
<1>7. \A i \in 1..3 : b[i] = h[i]
  BY <1>5, <1>6
<1>8. 2 \in 1..3 /\ 3 \in 1..3
  OBVIOUS
<1>9. b[2] = y /\ b[3] = z
  BY <1>1, <1>7, <1>8
<1>10. QED  BY <1>3, <1>4, <1>9 DEF b, h

\* An attribute of type t and value v, behind the length of v.
Encodes(a, t, v) ==
    /\ a \in Seq(Byte) /\ 3 <= Len(a) /\ Len(a) = a[3] + 3
    /\ a[2] = t /\ Dropped(a, 3) = v

\* An attribute of up to 255 bytes has its length in front.
LEMMA HeadedEncodes ==
    ASSUME NEW x \in Byte, NEW t \in Byte, NEW v \in Seq(Byte), NEW n \in Byte, n = Len(v)
    PROVE  Encodes(<<x, t, n>> \o v, t, v) /\ Len(<<x, t, n>> \o v) = n + 3
<1>1. n \in Nat
  BY SMT DEF Byte
<1> DEFINE a == <<x, t, n>> \o v
<1>2. a \in Seq(Byte) /\ Len(a) = n + 3 /\ a[2] = t /\ a[3] = n /\ Dropped(a, 3) = v
  BY <1>1, Headed
<1> HIDE DEF a
<1>3. 3 <= n + 3
  BY <1>1
<1>4. Encodes(a, t, v)
  BY <1>2, <1>3 DEF Encodes
<1>5. QED  BY <1>2, <1>4 DEF a

PathValue(asns) == IF asns = <<>> THEN <<>> ELSE PathSegment(asns)

\* ASPath.Encode is an attribute like the others.
LEMMA PathForm ==
    ASSUME NEW asns \in Seq(TwoBytes)
    PROVE  ASPath(asns) = <<64, 2, Len(PathValue(asns)) % 256>> \o PathValue(asns)
<1>1. CASE asns = <<>>
  <2>1. PathValue(asns) = <<>>
    BY <1>1 DEF PathValue
  <2>2. Len(<<>>) = 0 /\ 0 % 256 = 0
    OBVIOUS
  <2>3. <<64, 2, 0>> \in Seq(Byte)
    BY DEF Byte
  <2>4. <<64, 2, 0>> \o <<>> = <<64, 2, 0>>
    BY <2>3, ConcatEmptySeq
  <2>5. ASPath(asns) = <<64, 2, 0>>
    BY <1>1 DEF ASPath
  <2>6. QED  BY <2>1, <2>2, <2>4, <2>5
<1>2. CASE asns # <<>>
  <2>1. PathValue(asns) = PathSegment(asns)
    BY <1>2 DEF PathValue
  <2>2. ASPath(asns) = <<64, 2, Len(PathSegment(asns)) % 256>> \o PathSegment(asns)
    BY <1>2, Zenon DEF ASPath, PathSegment, PathNumbers
  <2>3. QED  BY <2>1, <2>2
<1>3. QED  BY <1>1, <1>2

\* Its value: a segment, or nothing without ASNs.
LEMMA PathValueRead ==
    ASSUME NEW asns \in Seq(TwoBytes), NEW n \in Nat, n = Len(asns)
    PROVE  /\ PathValue(asns) \in Seq(Byte) /\ Len(PathValue(asns)) <= 2 * n + 2
           /\ asns = <<>> => PathValue(asns) = <<>>
           /\ asns # <<>> /\ n <= 126 => Segment(PathValue(asns), asns)
<1>1. CASE asns = <<>>
  <2>1. PathValue(asns) = <<>>
    BY <1>1 DEF PathValue
  <2>2. <<>> \in Seq(Byte) /\ Len(<<>>) = 0
    BY EmptySeq
  <2>3. 0 <= 2 * n + 2
    OBVIOUS
  <2>4. QED  BY <1>1, <2>1, <2>2, <2>3
<1>2. CASE asns # <<>>
  <2>1. PathValue(asns) = PathSegment(asns)
    BY <1>2 DEF PathValue
  <2>2. /\ PathSegment(asns) \in Seq(Byte) /\ Len(PathSegment(asns)) = 2 * n + 2
        /\ n <= 126 => Segment(PathSegment(asns), asns)
    BY PathSegmentRead
  <2>3. 2 * n + 2 <= 2 * n + 2
    OBVIOUS
  <2>4. QED  BY <1>2, <2>1, <2>2, <2>3
<1>3. QED  BY <1>1, <1>2

\* An AS path is bytes, whatever its length.
LEMMA PathType ==
    ASSUME NEW asns \in Seq(TwoBytes)
    PROVE  ASPath(asns) \in Seq(Byte) /\ Len(ASPath(asns)) = Len(PathValue(asns)) + 3
<1> DEFINE v == PathValue(asns)
<1>1. v \in Seq(Byte)
  <2>1. PICK n \in Nat : n = Len(asns)
    BY LenNumber
  <2>2. QED  BY <2>1, PathValueRead
<1>2. ASPath(asns) = <<64, 2, Len(v) % 256>> \o v
  BY PathForm
<1> HIDE DEF v
<1>3. PICK l \in Nat : l = Len(v)
  BY <1>1, LenNumber
<1>4. PICK z \in 0..255 : z = l % 256
  BY LowByte
<1>5. 64 \in Byte /\ 2 \in Byte /\ z \in Byte
  BY DEF Byte
<1>6. <<64, 2, z>> \o v \in Seq(Byte) /\ Len(<<64, 2, z>> \o v) = l + 3
  BY <1>1, <1>3, <1>5, Headed
<1>7. QED  BY <1>2, <1>3, <1>4, <1>6 DEF v

\* An AS path of up to 126 numbers is read as it was written.
LEMMA PathRead ==
    ASSUME NEW asns \in Seq(TwoBytes), NEW n \in Nat, n = Len(asns), n <= 126
    PROVE  Encodes(ASPath(asns), 2, PathValue(asns))
<1> DEFINE v == PathValue(asns)
<1>1. v \in Seq(Byte) /\ Len(v) <= 2 * n + 2
  BY PathValueRead
<1>2. ASPath(asns) = <<64, 2, Len(v) % 256>> \o v
  BY PathForm
<1> HIDE DEF v
<1>3. PICK l \in Nat : l = Len(v) /\ l <= 2 * n + 2
  BY <1>1, LenNumber
<1>4. l <= 255
  BY <1>3
<1>5. l % 256 = l
  BY <1>4
<1>6. 64 \in Byte /\ 2 \in Byte /\ l \in Byte
  BY <1>4 DEF Byte
<1>7. Encodes(<<64, 2, l>> \o v, 2, v)
  BY <1>1, <1>3, <1>6, HeadedEncodes
<1>8. QED  BY <1>2, <1>3, <1>5, <1>7 DEF v

\* The four digits of a number to the base 256.
Digits(p, a, b, c, d) ==
    /\ a \in Nat /\ b \in 0..255 /\ c \in 0..255 /\ d \in 0..255
    /\ p \div 16777216 = a
    /\ p \div 65536 = 256 * a + b /\ p % 65536 = 256 * c + d
    /\ p \div 256 = 256 * (256 * a + b) + c /\ p % 256 = d

Composed(p, a, b, c, d) ==
    /\ a \in Nat /\ b \in 0..255 /\ c \in 0..255 /\ d \in 0..255
    /\ p = 16777216 * a + 65536 * b + 256 * c + d

\* The quotients and the rests of a number written to the base 256.
LEMMA Quotients ==
    ASSUME NEW p, NEW a, NEW b, NEW c, NEW d, Composed(p, a, b, c, d)
    PROVE  Digits(p, a, b, c, d)
<1>0. /\ a \in Nat /\ b \in 0..255 /\ c \in 0..255 /\ d \in 0..255
      /\ p = 16777216 * a + 65536 * b + 256 * c + d
  BY SMT DEF Composed
<1>1. p \in Nat
  BY <1>0, SMT
<1>2. p \div 16777216 = a
  BY <1>0, SMT
<1>3. p \div 65536 = 256 * a + b
  BY <1>0, SMT
<1>4. p % 65536 = 256 * c + d
  BY <1>0, SMT
<1>5. p \div 256 = 256 * (256 * a + b) + c
  BY <1>0, SMT
<1>6. p % 256 = d
  BY <1>0, SMT
<1>7. QED  BY <1>0, <1>2, <1>3, <1>4, <1>5, <1>6, SMT DEF Digits

\* The low byte of 256 * q + r is r.
LEMMA LowRest == \A q \in Nat : \A r \in 0..255 : (256 * q + r) % 256 = r
BY SMT

\* Every number has a low byte.
LEMMA HasLowByte == \A x \in Nat : \E q \in Nat : \E r \in 0..255 : x = 256 * q + r
BY LowByte

\* Every number has its four digits.
LEMMA HasDigits ==
    ASSUME NEW p \in Nat
    PROVE  \E a, b, c, d : Digits(p, a, b, c, d)
<1>1. PICK x \in Nat, d \in 0..255 : p = 256 * x + d
  BY HasLowByte
<1>2. PICK y \in Nat, c \in 0..255 : x = 256 * y + c
  BY HasLowByte
<1>3. PICK a \in Nat, b \in 0..255 : y = 256 * a + b
  BY HasLowByte
<1>4. Composed(p, a, b, c, d)
  BY <1>1, <1>2, <1>3, SMT DEF Composed
<1>5. Digits(p, a, b, c, d)
  BY <1>4, Quotients
<1>6. QED  BY <1>5, SMT

\* The bytes of a preference.
LEMMA Uint32Read ==
    ASSUME NEW p, IsPref(p)
    PROVE  Uint32(p) \in Seq(Byte) /\ Len(Uint32(p)) = 4 /\ PrefRead(Uint32(p), p)
<1>1. PICK a, b, c, d : Digits(p, a, b, c, d)
  <2>1. p \in Nat
    BY SMT DEF IsPref
  <2>2. QED  BY <2>1, HasDigits
<1>5. /\ a \in Nat /\ b \in 0..255 /\ c \in 0..255 /\ d \in 0..255
      /\ p \div 16777216 = a
      /\ p \div 65536 = 256 * a + b /\ p % 65536 = 256 * c + d
      /\ p \div 256 = 256 * (256 * a + b) + c /\ p % 256 = d
  BY <1>1, SMT DEF Digits
<1>6. a <= 255
  <2>0. p \div 65536 \in TwoBytes
    BY SMT DEF IsPref
  <2>1. 256 * a + b <= 65535
    BY <1>5, <2>0, TwoBytesRange, SMT
  <2>2. QED  BY <1>5, <2>1, SMT
<1>7. a % 256 = a
  BY <1>5, <1>6, SMT
<1>8. (256 * a + b) % 256 = b /\ (256 * (256 * a + b) + c) % 256 = c
  <2>1. 256 * a + b \in Nat
    BY <1>5, SMT
  <2>2. QED  BY <1>5, <2>1, LowRest, SMT
<1>9. Uint32(p) = <<a, b, c, d>>
  BY <1>5, <1>7, <1>8, SMT DEF Uint32
<1>10. a \in Byte /\ b \in Byte /\ c \in Byte /\ d \in Byte
  BY <1>5, <1>6, SMT DEF Byte
<1> DEFINE u == <<a, b, c, d>>
<1>11. u \in Seq(Byte) /\ Len(u) = 4 /\ u[1] = a /\ u[2] = b /\ u[3] = c /\ u[4] = d
  BY <1>10, SMT
<1> HIDE DEF u
<1>12. SubSeq(u, 3, 4)[1] = c /\ SubSeq(u, 3, 4)[2] = d
  <2>1. 3 \in Nat /\ 4 \in Nat /\ 1 <= 3 /\ 3 <= 4 + 1 /\ 4 <= Len(u)
    BY <1>11, SMT
  <2>2. \A i \in 1..4 - 3 + 1 : SubSeq(u, 3, 4)[i] = u[3 + i - 1]
    BY <1>11, <2>1, Part, SMT
  <2>3. 1 \in 1..4 - 3 + 1 /\ 2 \in 1..4 - 3 + 1 /\ 3 + 1 - 1 = 3 /\ 3 + 2 - 1 = 4
    BY SMT
  <2>4. QED  BY <1>11, <2>2, <2>3, SMT
<1>13. Number(u) = 256 * a + b
  <2>1. a * 256 + b = 256 * a + b
    BY <1>5, SMT
  <2>2. QED  BY <1>11, <2>1, SMT DEF Number
<1>14. Number(SubSeq(u, 3, 4)) = 256 * c + d
  <2>1. c * 256 + d = 256 * c + d
    BY <1>5, SMT
  <2>2. QED  BY <1>12, <2>1, SMT DEF Number
<1>15. QED  BY <1>5, <1>9, <1>11, <1>13, <1>14, SMT DEF u, PrefRead

-----------------------------------------------------------------------------
(* The attributes of newWriter, written and read.                          *)

IsConfig(c) ==
    c \in [NextHop   : [1..4 -> Byte] \cup {<<>>},
           ASNs      : Seq(TwoBytes),
           LocalPref : {p \in Nat : IsPref(p)}]

\* The configurations of PacketAssumption.
LEMMA ConfigsAre == \A c \in Configs : IsConfig(c)
BY PacketAssumption, Zenon DEF IsConfig

\* The origin is read as its one byte.
LEMMA OriginRead == Encodes(Origin, 1, <<1>>) /\ Len(Origin) = 4
<1>1. 64 \in Byte /\ 1 \in Byte
  BY DEF Byte
<1>2. <<1>> \in Seq(Byte) /\ Len(<<1>>) = 1
  BY <1>1
<1>3. Encodes(<<64, 1, 1>> \o <<1>>, 1, <<1>>) /\ Len(<<64, 1, 1>> \o <<1>>) = 1 + 3
  BY <1>1, <1>2, HeadedEncodes
<1>4. <<64, 1, 1>> \o <<1>> = Origin
  <2> DEFINE h == <<64, 1, 1>>
             v == <<1>>
  <2>1. h \in Seq(Byte) /\ v \in Seq(Byte) /\ Len(h) = 3 /\ Len(v) = 1
    BY <1>1
  <2>2. h[1] = 64 /\ h[2] = 1 /\ h[3] = 1 /\ v[1] = 1
    OBVIOUS
  <2> HIDE DEF h, v
  <2>3. h \in Seq(Byte) /\ v \in Seq(Byte)
    BY <2>1
  <2>4. /\ h \o v \in Seq(Byte) /\ Len(h \o v) = Len(h) + Len(v)
        /\ \A i \in 1..Len(h) + Len(v) : (h \o v)[i] = IF i <= Len(h) THEN h[i] ELSE v[i - Len(h)]
    BY <2>3, ConcatProperties
  <2> DEFINE o == h \o v
  <2> HIDE DEF o
  <2>5. o \in Seq(Byte) /\ Len(o) = 4 /\ \A i \in 1..4 : o[i] = IF i <= 3 THEN h[i] ELSE v[i - 3]
    BY <2>1, <2>4 DEF o
  <2>6. o[1] = 64 /\ o[2] = 1 /\ o[3] = 1 /\ o[4] = 1
    BY <2>2, <2>5
  <2>7. Origin \in Seq(Byte) /\ Len(Origin) = 4
    BY <1>1 DEF Origin
  <2>8. Origin[1] = 64 /\ Origin[2] = 1 /\ Origin[3] = 1 /\ Origin[4] = 1
    BY DEF Origin
  <2>9. \A i \in 1..4 : i = 1 \/ i = 2 \/ i = 3 \/ i = 4
    OBVIOUS
  <2>10. \A i \in 1..4 : o[i] = Origin[i]
    BY <2>6, <2>8, <2>9
  <2>11. o = Origin
    BY <2>5, <2>7, <2>10, SeqEqual
  <2>12. QED  BY <2>11 DEF o, h, v
<1>5. 1 + 3 = 4
  OBVIOUS
<1>6. QED  BY <1>3, <1>4, <1>5

\* The next hop is read as it was written.
LEMMA NextHopRead ==
    ASSUME NEW ip \in [1..4 -> Byte]
    PROVE  Encodes(NextHopAttr(ip), 3, ip) /\ Len(NextHopAttr(ip)) = 7
<1>1. 64 \in Byte /\ 3 \in Byte /\ 4 \in Byte
  BY DEF Byte
<1>2. ip \in Seq(Byte) /\ Len(ip) = 4
  <2>1. 4 \in Nat
    OBVIOUS
  <2>2. QED  BY <2>1, FunctionSequence
<1>3. Encodes(<<64, 3, 4>> \o ip, 3, ip) /\ Len(<<64, 3, 4>> \o ip) = 4 + 3
  BY <1>1, <1>2, HeadedEncodes
<1>4. 4 + 3 = 7
  OBVIOUS
<1>5. QED  BY <1>3, <1>4 DEF NextHopAttr

\* The local preference is read as its four bytes.
LEMMA LocalPrefRead ==
    ASSUME NEW p, IsPref(p)
    PROVE  Encodes(LocalPrefAttr(p), 5, Uint32(p)) /\ Len(LocalPrefAttr(p)) = 7
<1>1. 64 \in Byte /\ 5 \in Byte /\ 4 \in Byte
  BY DEF Byte
<1>2. Uint32(p) \in Seq(Byte) /\ Len(Uint32(p)) = 4
  BY Uint32Read
<1>3. Encodes(<<64, 5, 4>> \o Uint32(p), 5, Uint32(p)) /\ Len(<<64, 5, 4>> \o Uint32(p)) = 4 + 3
  BY <1>1, <1>2, HeadedEncodes
<1>4. 4 + 3 = 7
  OBVIOUS
<1>5. QED  BY <1>3, <1>4 DEF LocalPrefAttr

\* How long the attributes are: 21 bytes without an AS path.
LEMMA AttributesType ==
    ASSUME NEW c, IsConfig(c), c.NextHop # <<>>, NEW l \in Nat, l = Len(PathValue(c.ASNs))
    PROVE  Attributes(c) \in Seq(Byte) /\ Len(Attributes(c)) = l + 21
<1>1. c.NextHop \in [1..4 -> Byte] /\ c.ASNs \in Seq(TwoBytes) /\ IsPref(c.LocalPref)
  BY DEF IsConfig
<1> DEFINE p == LocalPrefAttr(c.LocalPref)
           h == NextHopAttr(c.NextHop)
           a == ASPath(c.ASNs)
           o == Origin
<1>2. p \in Seq(Byte) /\ Len(p) = 7
  BY <1>1, LocalPrefRead DEF Encodes
<1>3. h \in Seq(Byte) /\ Len(h) = 7
  BY <1>1, NextHopRead DEF Encodes
<1>4. a \in Seq(Byte) /\ Len(a) = l + 3
  BY <1>1, PathType
<1>5. o \in Seq(Byte) /\ Len(o) = 4
  BY OriginRead DEF Encodes
<1> HIDE DEF p, h, a, o
<1> DEFINE hp == h \o p
           ahp == a \o hp
<1>6. /\ p \in Seq(Byte) /\ h \in Seq(Byte) /\ a \in Seq(Byte) /\ o \in Seq(Byte)
  BY <1>2, <1>3, <1>4, <1>5
<1>7. hp \in Seq(Byte) /\ Len(hp) = Len(h) + Len(p)
  BY <1>6, ConcatProperties
<1> HIDE DEF hp
<1>8. hp \in Seq(Byte)
  BY <1>7
<1>9. ahp \in Seq(Byte) /\ Len(ahp) = Len(a) + Len(hp)
  BY <1>6, <1>8, ConcatProperties
<1> HIDE DEF ahp
<1>10. ahp \in Seq(Byte)
  BY <1>9
<1>11. o \o ahp \in Seq(Byte) /\ Len(o \o ahp) = Len(o) + Len(ahp)
  BY <1>6, <1>10, ConcatProperties
<1>14. Len(o) + Len(ahp) = l + 21
  <2>1. Len(p) = 7 /\ Len(h) = 7 /\ Len(a) = l + 3 /\ Len(o) = 4
    BY <1>2, <1>3, <1>4, <1>5
  <2>2. Len(hp) = 7 + 7
    BY <1>7, <2>1
  <2>3. Len(ahp) = (l + 3) + (7 + 7)
    BY <1>9, <2>1, <2>2
  <2>4. 4 + ((l + 3) + (7 + 7)) = l + 21
    OBVIOUS
  <2>5. QED  BY <2>1, <2>3, <2>4
<1>12. Attributes(c) = o \o ahp
  BY DEF Attributes, o, ahp, a, hp, h, p
<1>13. QED  BY <1>11, <1>12, <1>14

\* What a peer reads of them.
Read(c) ==
    {<<1, <<1>>>>, <<2, PathValue(c.ASNs)>>, <<3, c.NextHop>>, <<5, Uint32(c.LocalPref)>>}

\* An attribute is read, and then the attributes behind it.
LEMMA EncodesRead ==
    ASSUME NEW a, NEW t, NEW v, NEW r \in Seq(Byte), Encodes(a, t, v)
    PROVE  readAttributes[a \o r] = {<<t, v>>} \cup readAttributes[r]
<1>1. a \in Seq(Byte) /\ 3 <= Len(a) /\ Len(a) = a[3] + 3 /\ a[2] = t /\ Dropped(a, 3) = v
  BY DEF Encodes
<1>2. readAttributes[a \o r] = {<<a[2], Dropped(a, 3)>>} \cup readAttributes[r]
  BY <1>1, AttributeRead
<1>3. QED  BY <1>1, <1>2

\* No bytes hold no attributes.
LEMMA NoAttributes == readAttributes[<<>>] = {}
<1>1. <<>> \in Seq(Byte) /\ Len(<<>>) = 0
  BY EmptySeq
<1>2. AttributeStep(readAttributes, <<>>) = {}
  <2>1. Len(<<>>) < 3
    BY <1>1
  <2>2. QED  BY <2>1, Zenon DEF AttributeStep
<1>3. QED  BY <1>1, <1>2, AttributeExists

\* A peer reads the four attributes of newWriter, and no other.
LEMMA ReadBack ==
    ASSUME NEW c, IsConfig(c), c.NextHop # <<>>, Len(c.ASNs) <= 126
    PROVE  readAttributes[Attributes(c)] = Read(c)
<1>1. c.NextHop \in [1..4 -> Byte] /\ c.ASNs \in Seq(TwoBytes) /\ IsPref(c.LocalPref)
  BY DEF IsConfig
<1>0. PICK n \in Nat : n = Len(c.ASNs) /\ n <= 126
  BY <1>1, LenNumber
<1> DEFINE p == LocalPrefAttr(c.LocalPref)
           h == NextHopAttr(c.NextHop)
           a == ASPath(c.ASNs)
           o == Origin
<1>2. p \in Seq(Byte) /\ Encodes(p, 5, Uint32(c.LocalPref))
  BY <1>1, LocalPrefRead DEF Encodes
<1>3. h \in Seq(Byte) /\ Encodes(h, 3, c.NextHop)
  BY <1>1, NextHopRead DEF Encodes
<1>4. a \in Seq(Byte) /\ Encodes(a, 2, PathValue(c.ASNs))
  BY <1>0, <1>1, PathRead DEF Encodes
<1>5. Encodes(o, 1, <<1>>)
  BY OriginRead
<1> HIDE DEF p, h, a, o
<1> DEFINE e == <<>>
           hp == h \o p
           ahp == a \o hp
<1>6. e \in Seq(Byte) /\ readAttributes[e] = {} /\ p \o e = p
  BY <1>2, EmptySeq, NoAttributes, ConcatEmptySeq
<1> HIDE DEF e
<1>7. readAttributes[p] = {<<5, Uint32(c.LocalPref)>>}
  <2>0. e \in Seq(Byte)
    BY <1>6
  <2>1. readAttributes[p \o e] = {<<5, Uint32(c.LocalPref)>>} \cup readAttributes[e]
    BY <1>2, <2>0, EncodesRead
  <2>2. QED  BY <1>6, <2>1
<1>8. hp \in Seq(Byte)
  BY <1>2, <1>3, ConcatProperties
<1>9. readAttributes[hp] = {<<3, c.NextHop>>} \cup readAttributes[p]
  BY <1>2, <1>3, EncodesRead
<1> HIDE DEF hp
<1>10. ahp \in Seq(Byte)
  BY <1>4, <1>8, ConcatProperties
<1>11. readAttributes[ahp] = {<<2, PathValue(c.ASNs)>>} \cup readAttributes[hp]
  BY <1>4, <1>8, EncodesRead
<1> HIDE DEF ahp
<1>12. readAttributes[o \o ahp] = {<<1, <<1>>>>} \cup readAttributes[ahp]
  BY <1>5, <1>10, EncodesRead
<1>13. Attributes(c) = o \o ahp
  BY DEF Attributes, o, ahp, a, hp, h, p
<1>14. QED  BY <1>7, <1>9, <1>11, <1>12, <1>13 DEF Read

-----------------------------------------------------------------------------
(* The bytes of an UPDATE.                                                 *)

\* Two bytes hold some number.
LEMMA Uint16Type ==
    ASSUME NEW x \in Nat
    PROVE  Uint16(x) \in Seq(Byte) /\ Len(Uint16(x)) = 2
<1>1. PICK q \in 0..255 : q = (x \div 256) % 256
  <2>1. PICK y \in Nat : y = x \div 256
    BY LowByte
  <2>2. QED  BY <2>1, LowByte
<1>2. PICK r \in 0..255 : r = x % 256
  BY LowByte
<1>3. Uint16(x) = <<q, r>>
  BY <1>1, <1>2 DEF Uint16
<1>4. <<q, r>> \in Seq(Byte) /\ Len(<<q, r>>) = 2
  BY DEF Byte
<1>5. QED  BY <1>3, <1>4

\* A field behind its length is two bytes longer.
LEMMA CountedType ==
    ASSUME NEW w \in Seq(Byte), NEW n \in Nat, n = Len(w)
    PROVE  Counted(w) \in Seq(Byte) /\ Len(Counted(w)) = n + 2
<1> DEFINE u == Uint16(n)
<1>1. u \in Seq(Byte) /\ Len(u) = 2
  BY Uint16Type
<1>2. Counted(w) = u \o w
  BY DEF Counted
<1> HIDE DEF u
<1>3. u \in Seq(Byte)
  BY <1>1
<1>4. u \o w \in Seq(Byte) /\ Len(u \o w) = Len(u) + Len(w)
  BY <1>3, ConcatProperties
<1>5. Len(u \o w) = 2 + n
  BY <1>1, <1>4
<1>6. 2 + n = n + 2
  OBVIOUS
<1>7. QED  BY <1>2, <1>4, <1>5, <1>6

\* An UPDATE of three fields.
Update(w, a, u) == Counted(w) \o (Counted(a) \o u)

\* An UPDATE has its fields and four bytes of lengths.
LEMMA UpdateType ==
    ASSUME NEW w \in Seq(Byte), NEW a \in Seq(Byte), NEW u \in Seq(Byte),
           NEW k \in Nat, NEW l \in Nat, NEW n \in Nat, k = Len(w), l = Len(a), n = Len(u)
    PROVE  Update(w, a, u) \in Seq(Byte) /\ Len(Update(w, a, u)) = k + l + n + 4
<1> DEFINE x == Counted(w)
           y == Counted(a)
           z == y \o u
<1>1. x \in Seq(Byte) /\ Len(x) = k + 2
  BY CountedType
<1>2. y \in Seq(Byte) /\ Len(y) = l + 2
  BY CountedType
<1> HIDE DEF x, y
<1>3. x \in Seq(Byte) /\ y \in Seq(Byte)
  BY <1>1, <1>2
<1>4. z \in Seq(Byte) /\ Len(z) = Len(y) + Len(u)
  BY <1>3, ConcatProperties
<1> HIDE DEF z
<1>5. z \in Seq(Byte)
  BY <1>4
<1>6. x \o z \in Seq(Byte) /\ Len(x \o z) = Len(x) + Len(z)
  BY <1>3, <1>5, ConcatProperties
<1>7. Len(x \o z) = (k + 2) + ((l + 2) + n)
  BY <1>1, <1>2, <1>4, <1>6
<1>8. (k + 2) + ((l + 2) + n) = k + l + n + 4
  OBVIOUS
<1>9. QED  BY <1>6, <1>7, <1>8 DEF Update, x, y, z

\* Fields whose lengths fit two bytes are read as they were written.
LEMMA UpdateParsed ==
    ASSUME NEW w \in Seq(Byte), NEW a \in Seq(Byte), NEW u \in Seq(Byte),
           Len(w) \in TwoBytes, Len(a) \in TwoBytes
    PROVE  Parse(Update(w, a, u)) = [withdrawn  |-> Routes(w),
                                     attributes |-> readAttributes[a],
                                     nlri       |-> Routes(u)]
<1> DEFINE z == Counted(a) \o u
           b == Counted(w) \o z
<1>1. Field(z) = a /\ Behind(z) = u
  BY CountedRead
<1>2. z \in Seq(Byte)
  <2>1. Counted(a) \in Seq(Byte)
    <3>1. PICK l \in Nat : l = Len(a)
      BY LenNumber
    <3>2. QED  BY <3>1, CountedType
  <2>2. QED  BY <2>1, ConcatProperties
<1> HIDE DEF z
<1>3. Field(b) = w /\ Behind(b) = z
  BY <1>2, CountedRead
<1>4. Update(w, a, u) = b
  BY DEF Update, z
<1> HIDE DEF b
<1>5. QED  BY <1>1, <1>3, <1>4 DEF Parse, Withdrawn, NLRI

\* The parts of what is parsed.
LEMMA ParsedFields ==
    ASSUME NEW b, NEW w, NEW a, NEW n,
           Parse(b) = [withdrawn |-> w, attributes |-> a, nlri |-> n]
    PROVE  Withdrawn(b) = w /\ NLRI(b) = n
<1>1. Parse(b).withdrawn = w /\ Parse(b).nlri = n
  OBVIOUS
<1>2. QED  BY <1>1 DEF Parse

\* An End-of-RIB is an UPDATE of empty fields.
LEMMA MarkerForm == EndOfRIB = Update(<<>>, <<>>, <<>>)
<1> DEFINE e == <<>>
           z == <<0, 0>>
<1>1. e \in Seq(Byte) /\ z \in Seq(Byte) /\ Len(e) = 0 /\ Len(z) = 2
  BY DEF Byte
<1>2. Uint16(0) = z
  <2>1. (0 \div 256) % 256 = 0 /\ 0 % 256 = 0
    OBVIOUS
  <2>2. QED  BY <2>1 DEF Uint16
<1>3. z[1] = 0 /\ z[2] = 0
  OBVIOUS
<1> HIDE DEF e, z
<1>4. e \in Seq(Byte) /\ z \in Seq(Byte)
  BY <1>1
<1>5. z \o e = z
  BY <1>4, ConcatEmptySeq DEF e
<1>6. Counted(e) = z
  BY <1>1, <1>2, <1>5 DEF Counted
<1> DEFINE b == z \o z
<1>7. /\ b \in Seq(Byte) /\ Len(b) = Len(z) + Len(z)
      /\ \A i \in 1..Len(z) + Len(z) : b[i] = IF i <= Len(z) THEN z[i] ELSE z[i - Len(z)]
  BY <1>4, ConcatProperties
<1> HIDE DEF b
<1>8. b \in Seq(Byte) /\ Len(b) = 4 /\ \A i \in 1..4 : b[i] = IF i <= 2 THEN z[i] ELSE z[i - 2]
  BY <1>1, <1>7
<1>9. \A i \in 1..4 : b[i] = 0
  <2> TAKE i \in 1..4
  <2>1. CASE i <= 2
    <3>1. i = 1 \/ i = 2
      BY <2>1
    <3>2. QED  BY <1>3, <1>8, <2>1, <3>1
  <2>2. CASE ~(i <= 2)
    <3>1. i - 2 = 1 \/ i - 2 = 2
      BY <2>2
    <3>2. QED  BY <1>3, <1>8, <2>2, <3>1
  <2>3. QED  BY <2>1, <2>2
<1>10. EndOfRIB \in Seq(Byte) /\ Len(EndOfRIB) = 4
  BY DEF EndOfRIB, Byte
<1>11. \A i \in 1..4 : EndOfRIB[i] = 0
  <2>1. EndOfRIB[1] = 0 /\ EndOfRIB[2] = 0 /\ EndOfRIB[3] = 0 /\ EndOfRIB[4] = 0
    BY DEF EndOfRIB
  <2>2. \A i \in 1..4 : i = 1 \/ i = 2 \/ i = 3 \/ i = 4
    OBVIOUS
  <2>3. QED  BY <2>1, <2>2
<1>12. EndOfRIB = b
  BY <1>8, <1>9, <1>10, <1>11, SeqEqual
<1>13. z \o e = z /\ Counted(e) \o (Counted(e) \o e) = b
  BY <1>5, <1>6 DEF b
<1>14. QED  BY <1>12, <1>13 DEF Update, e

\* An End-of-RIB changes no table.
LEMMA MarkerRead ==
    /\ EndOfRIB \in Seq(Byte) /\ Len(EndOfRIB) = 4
    /\ \A t : TableAfter(t, EndOfRIB) = t
<1> DEFINE e == <<>>
<1>1. e \in Seq(Byte) /\ Len(e) = 0 /\ Routes(e) = {}
  <2>1. Routes(encodePrefixes[<<>>]) = Nets(<<>>)
    BY EncodeEmpty, RoutesAreRead
  <2>2. DOMAIN <<>> = {}
    OBVIOUS
  <2>3. Nets(<<>>) = {}
    BY <2>2 DEF Nets
  <2>4. <<>> \in Seq(Byte) /\ Len(<<>>) = 0
    BY EmptySeq
  <2>5. QED  BY <2>1, <2>3, <2>4, EncodeEmpty
<1>2. 0 \in TwoBytes
  BY SMT DEF TwoBytes
<1> HIDE DEF e
<1>3. Parse(Update(e, e, e)) = [withdrawn |-> {}, attributes |-> readAttributes[e], nlri |-> {}]
  BY <1>1, <1>2, UpdateParsed
<1>4. EndOfRIB = Update(e, e, e)
  BY MarkerForm DEF e
<1>5. \A t : TableAfter(t, EndOfRIB) = t
  <2>1. Withdrawn(EndOfRIB) = {} /\ NLRI(EndOfRIB) = {}
    BY <1>3, <1>4, ParsedFields
  <2>2. QED  BY <2>1 DEF TableAfter
<1>6. EndOfRIB \in Seq(Byte) /\ Len(EndOfRIB) = 4
  BY DEF EndOfRIB, Byte
<1>7. QED  BY <1>5, <1>6

-----------------------------------------------------------------------------
(* The UPDATE of a message.                                                *)

\* A message of IPv4 routes has the bytes of all of them.
LEMMA IPv4Routes ==
    ASSUME NEW s \in Seq(Route), \A i \in DOMAIN s : s[i].ip # <<>>
    PROVE  s \in Seq(Network)
<1>1. PICK n \in Nat : n = Len(s)
  BY LenNumber
<1>2. DOMAIN s = 1..n
  BY <1>1, LenProperties
<1>3. ASSUME NEW i \in 1..n
      PROVE  s[i] \in Network
  <2>1. s[i] \in Route
    BY <1>1, <1>3, ElementOfSeq
  <2>2. s[i].ip # <<>>
    BY <1>2, <1>3
  <2>3. s[i] \notin NoIPv4
    BY <2>2 DEF NoIPv4
  <2>4. QED  BY <2>1, <2>3 DEF Route
<1>4. 1 \in Int /\ n \in Int
  OBVIOUS
<1>5. SubSeq(s, 1, n) \in Seq(Network)
  BY <1>3, <1>4, SubSeqProperties
<1>6. SubSeq(s, 1, n) = s
  BY <1>1, SubSeqFull
<1>7. QED  BY <1>5, <1>6

\* A message and attributes that have all their bytes.
Built(m, c) ==
    /\ m \in Messages /\ c \in Configs /\ IsIPv4(m, c)

\* Such a message has routes of four bytes, and a next hop.
LEMMA BuiltParts ==
    ASSUME NEW m, NEW c, Built(m, c)
    PROVE  /\ m.ToRemove \in Seq(Network) /\ m.ToUpdate \in Seq(Network)
           /\ IsConfig(c) /\ c.NextHop # <<>>
<1>1. m \in [ToUpdate : Seq(Route), ToRemove : Seq(Route)]
  BY PacketAssumption, Zenon DEF Built
<1>2. m.ToUpdate \in Seq(Route) /\ m.ToRemove \in Seq(Route)
  BY <1>1
<1>3. /\ \A i \in DOMAIN m.ToUpdate : m.ToUpdate[i].ip # <<>>
      /\ \A i \in DOMAIN m.ToRemove : m.ToRemove[i].ip # <<>>
      /\ c.NextHop # <<>>
  BY DEF Built, IsIPv4
<1>4. m.ToRemove \in Seq(Network) /\ m.ToUpdate \in Seq(Network)
  BY <1>2, <1>3, IPv4Routes
<1>5. IsConfig(c)
  BY ConfigsAre DEF Built
<1>6. QED  BY <1>3, <1>4, <1>5

\* The withdrawn routes, the attributes and the routes of its UPDATE.
LEMMA BuildForm ==
    ASSUME NEW m, NEW c, Built(m, c)
    PROVE  buildUpdateMessage(m, c)
             = Update(encodePrefixes[m.ToRemove], Attributes(c), encodePrefixes[m.ToUpdate])
BY Zenon DEF Built, buildUpdateMessage, Update

\* The lengths of its parts: bytes withdrawn, of the AS path and announced.
Lengths(m, c, k, l, n) ==
    /\ k = Len(encodePrefixes[m.ToRemove])
    /\ l = Len(PathValue(c.ASNs))
    /\ n = Len(encodePrefixes[m.ToUpdate])

\* Each part has a length.
LEMMA BuiltLengths ==
    ASSUME NEW m, NEW c, Built(m, c)
    PROVE  \E k, l, n \in Nat : Lengths(m, c, k, l, n)
<1>1. /\ encodePrefixes[m.ToRemove] \in Seq(Byte)
      /\ encodePrefixes[m.ToUpdate] \in Seq(Byte)
  BY BuiltParts, EncodeExists
<1>2. c.ASNs \in Seq(TwoBytes)
  BY BuiltParts DEF IsConfig
<1>3. PICK a \in Nat : a = Len(c.ASNs)
  BY <1>2, LenNumber
<1>4. PathValue(c.ASNs) \in Seq(Byte)
  BY <1>2, <1>3, PathValueRead
<1>5. PICK k \in Nat : k = Len(encodePrefixes[m.ToRemove])
  BY <1>1, LenNumber
<1>6. PICK l \in Nat : l = Len(PathValue(c.ASNs))
  BY <1>4, LenNumber
<1>7. PICK n \in Nat : n = Len(encodePrefixes[m.ToUpdate])
  BY <1>1, LenNumber
<1>8. Lengths(m, c, k, l, n)
  BY <1>5, <1>6, <1>7 DEF Lengths
<1>9. QED  BY <1>8

\* How long an UPDATE is.
LEMMA BuildType ==
    ASSUME NEW m, NEW c, Built(m, c),
           NEW k \in Nat, NEW l \in Nat, NEW n \in Nat, Lengths(m, c, k, l, n)
    PROVE  /\ buildUpdateMessage(m, c) \in Seq(Byte)
           /\ Len(buildUpdateMessage(m, c)) = k + (l + 21) + n + 4
<1>1. /\ encodePrefixes[m.ToRemove] \in Seq(Byte)
      /\ encodePrefixes[m.ToUpdate] \in Seq(Byte)
  BY BuiltParts, EncodeExists
<1>2. Attributes(c) \in Seq(Byte) /\ Len(Attributes(c)) = l + 21
  BY BuiltParts, AttributesType DEF Lengths
<1>3. l + 21 \in Nat
  OBVIOUS
<1>4. PICK j \in Nat : j = l + 21
  BY <1>3
<1>5. j = Len(Attributes(c)) /\ Attributes(c) \in Seq(Byte)
  BY <1>2, <1>4
<1> DEFINE w == encodePrefixes[m.ToRemove]
           a == Attributes(c)
           u == encodePrefixes[m.ToUpdate]
<1>6. w \in Seq(Byte) /\ a \in Seq(Byte) /\ u \in Seq(Byte) /\ k = Len(w) /\ j = Len(a) /\ n = Len(u)
  BY <1>1, <1>5 DEF Lengths
<1> HIDE DEF w, a, u
<1>7. Update(w, a, u) \in Seq(Byte) /\ Len(Update(w, a, u)) = k + j + n + 4
  BY <1>6, UpdateType
<1>8. buildUpdateMessage(m, c) = Update(w, a, u)
  BY BuildForm DEF w, a, u
<1>9. QED  BY <1>4, <1>7, <1>8

\* It is neither an error nor an End-of-RIB.
LEMMA BuildIs ==
    ASSUME NEW m, NEW c, Built(m, c)
    PROVE  /\ buildUpdateMessage(m, c) \in Seq(Byte)
           /\ buildUpdateMessage(m, c) # Error
           /\ buildUpdateMessage(m, c) # EndOfRIB
<1> DEFINE b == buildUpdateMessage(m, c)
<1>1. PICK k, l, n \in Nat : Lengths(m, c, k, l, n)
  BY BuiltLengths
<1>2. b \in Seq(Byte) /\ Len(b) = k + (l + 21) + n + 4
  BY <1>1, BuildType
<1>3. k + (l + 21) + n + 4 # 1 /\ k + (l + 21) + n + 4 # 4
  OBVIOUS
<1> HIDE DEF b
<1>4. Len(b) # 1 /\ Len(b) # 4
  BY <1>2, <1>3
<1>5. Len(Error) = 1 /\ Len(EndOfRIB) = 4
  BY MarkerRead DEF Error
<1>6. b # Error /\ b # EndOfRIB /\ b \in Seq(Byte)
  BY <1>2, <1>4, <1>5
<1>7. QED  BY <1>6 DEF b

\* An address without four bytes ends the encoding.
LEMMA NotBuilt ==
    ASSUME NEW m \in Messages, NEW c \in Configs, ~IsIPv4(m, c)
    PROVE  buildUpdateMessage(m, c) = Error
BY Zenon DEF buildUpdateMessage

\* The fields that hold their length in two bytes are short enough.
Fits(m, c) == Len(m.ToRemove) <= 13107 /\ Len(c.ASNs) <= 126

\* Numbers up to 65535 fit two bytes.
LEMMA InTwoBytes ==
    ASSUME NEW l \in Nat, l <= 65535
    PROVE  l \in TwoBytes
BY SMT DEF TwoBytes

\* 13107 routes of at most 5 bytes fit.
LEMMA WithdrawnFits ==
    ASSUME NEW n \in Nat, NEW l \in Nat, n <= 13107, l <= 5 * n
    PROVE  l \in TwoBytes
<1>1. l <= 65535
  BY SMT
<1>2. QED  BY <1>1, InTwoBytes, SMT

\* Attributes with up to 126 ASNs fit.
LEMMA AttributesFit ==
    ASSUME NEW n \in Nat, NEW l \in Nat, n <= 126, l <= 2 * n + 2
    PROVE  l + 21 \in TwoBytes
<1>1. l + 21 \in Nat /\ l + 21 <= 65535
  BY SMT
<1>2. QED  BY <1>1, InTwoBytes, SMT

\* What a peer reads in it.
LEMMA BuildParsed ==
    ASSUME NEW m, NEW c, Built(m, c), Fits(m, c)
    PROVE  Parse(buildUpdateMessage(m, c)) = [withdrawn  |-> Nets(m.ToRemove),
                                              attributes |-> Read(c),
                                              nlri       |-> Nets(m.ToUpdate)]
<1> DEFINE w == encodePrefixes[m.ToRemove]
           a == Attributes(c)
           u == encodePrefixes[m.ToUpdate]
<1>1. w \in Seq(Byte) /\ u \in Seq(Byte)
  BY BuiltParts, EncodeExists
<1>2. c.ASNs \in Seq(TwoBytes)
  BY BuiltParts DEF IsConfig
<1>3. Routes(w) = Nets(m.ToRemove) /\ Routes(u) = Nets(m.ToUpdate)
  BY BuiltParts, RoutesAreRead
<1>4. Len(w) \in TwoBytes
  <2>1. PICK n \in Nat : n = Len(m.ToRemove)
    BY BuiltParts, LenNumber
  <2>2. PICK l \in Nat : l = Len(encodePrefixes[m.ToRemove])
    BY <1>1, LenNumber
  <2>3. l <= 5 * n
    BY <2>1, <2>2, BuiltParts, EncodeLength DEF EncodedLength
  <2>4. n <= 13107
    BY <2>1, SMT DEF Fits
  <2>5. l \in TwoBytes
    BY <2>3, <2>4, WithdrawnFits, SMT
  <2>6. QED  BY <2>2, <2>5, Zenon
<1>5. PICK n \in Nat : n = Len(c.ASNs)
  BY <1>2, LenNumber
<1>6. Len(c.ASNs) <= 126 /\ n <= 126
  BY <1>5, SMT DEF Fits
<1>7. a \in Seq(Byte) /\ Len(a) \in TwoBytes
  <2>0. PathValue(c.ASNs) \in Seq(Byte)
    BY <1>2, <1>5, PathValueRead
  <2>1. PICK l \in Nat : l = Len(PathValue(c.ASNs))
    BY <2>0, LenNumber
  <2>2. l <= 2 * n + 2
    BY <1>2, <1>5, <2>1, PathValueRead
  <2>3. a \in Seq(Byte) /\ Len(a) = l + 21
    BY <2>1, BuiltParts, AttributesType
  <2>4. l + 21 \in TwoBytes
    BY <1>6, <2>2, AttributesFit, SMT
  <2>5. QED  BY <2>3, <2>4, Zenon
<1>8. readAttributes[a] = Read(c)
  BY <1>6, BuiltParts, ReadBack, SMT
<1> HIDE DEF w, a, u
<1>9. Parse(Update(w, a, u)) = [withdrawn  |-> Routes(w),
                                attributes |-> readAttributes[a],
                                nlri       |-> Routes(u)]
  BY <1>1, <1>4, <1>7, UpdateParsed
<1>10. buildUpdateMessage(m, c) = Update(w, a, u)
  BY BuildForm DEF w, a, u
<1>11. QED  BY <1>3, <1>8, <1>9, <1>10

\* The table a peer has after it.
LEMMA BuildRead ==
    ASSUME NEW m, NEW c, Built(m, c), Fits(m, c), NEW t
    PROVE  TableAfter(t, buildUpdateMessage(m, c)) = ListAfter(t, m)
<1>1. /\ Withdrawn(buildUpdateMessage(m, c)) = Nets(m.ToRemove)
      /\ NLRI(buildUpdateMessage(m, c)) = Nets(m.ToUpdate)
  BY BuildParsed, ParsedFields
<1>2. QED  BY <1>1 DEF TableAfter, ListAfter

\* 19 bytes of header, and 4096 in all.
Sendable(b)         == 19 + Len(b) <= 4096
Few(hosts)          == Len(hosts) <= 810
FitsHosts(b, hosts) == Sendable(b) <=> Few(hosts)

\* 25 bytes beside 5 for each host, up to 810 of them.
LEMMA UpTo810 ==
    ASSUME NEW b, NEW hosts, NEW n \in Nat, Len(hosts) = n, Len(b) = 5 * n + 25
    PROVE  FitsHosts(b, hosts)
<1>1. 19 + (5 * n + 25) <= 4096 <=> n <= 810
  BY SMT
<1>2. QED  BY <1>1, SMT DEF FitsHosts, Sendable, Few

\* An UPDATE of hosts has 5 bytes for each of them, and 25 beside them.
LEMMA HostsFit ==
    ASSUME NEW m, NEW c, Built(m, c), c.ASNs = <<>>, AllHosts(m.ToUpdate \o m.ToRemove)
    PROVE  FitsHosts(buildUpdateMessage(m, c), m.ToUpdate \o m.ToRemove)
<1> DEFINE u == m.ToUpdate
           r == m.ToRemove
           hosts == u \o r
<1>0. AllHosts(hosts)
  OBVIOUS
<1>1. u \in Seq(Network) /\ r \in Seq(Network) /\ IsConfig(c)
  BY BuiltParts
<1>2. PICK a \in Nat : a = Len(u)
  BY <1>1, LenNumber
<1>3. PICK b \in Nat : b = Len(r)
  BY <1>1, LenNumber
<1>5. PICK k, l, n \in Nat : Lengths(m, c, k, l, n)
  BY BuiltLengths
<1>6. k = Len(encodePrefixes[r]) /\ n = Len(encodePrefixes[u]) /\ l = Len(PathValue(<<>>))
  BY <1>5 DEF Lengths
<1> HIDE DEF u, r
<1>7. /\ hosts \in Seq(Network) /\ Len(hosts) = Len(u) + Len(r)
      /\ \A i \in 1..Len(u) + Len(r) : hosts[i] = IF i <= Len(u) THEN u[i] ELSE r[i - Len(u)]
  BY <1>1, ConcatProperties
<1> HIDE DEF hosts
<1>8. Len(hosts) = a + b
  BY <1>2, <1>3, <1>7
<1>9. \A i \in 1..a + b : hosts[i] = IF i <= a THEN u[i] ELSE r[i - a]
  BY <1>2, <1>3, <1>7
<1>10. DOMAIN hosts = 1..a + b /\ DOMAIN u = 1..a /\ DOMAIN r = 1..b
  BY <1>1, <1>2, <1>3, <1>7, <1>8, LenProperties
<1>11. AllHosts(u)
  <2>1. ASSUME NEW i \in 1..a
        PROVE  u[i].ones = 32
    <3>1. i \in 1..a + b /\ i <= a
      OBVIOUS
    <3>2. hosts[i] = u[i]
      BY <1>9, <3>1
    <3>3. hosts[i].ones = 32
      BY <1>0, <1>10, <3>1 DEF AllHosts
    <3>4. QED  BY <3>2, <3>3
  <2>2. QED  BY <1>10, <2>1 DEF AllHosts
<1>12. AllHosts(r)
  <2>1. ASSUME NEW i \in 1..b
        PROVE  r[i].ones = 32
    <3>1. PICK j \in 1..a + b : ~(j <= a) /\ j - a = i
      <4>1. a + i \in 1..a + b /\ ~(a + i <= a) /\ (a + i) - a = i
        OBVIOUS
      <4>2. QED  BY <4>1
    <3>2. hosts[j] = r[i]
      BY <1>9, <3>1
    <3>3. hosts[j].ones = 32
      BY <1>0, <1>10, <3>1 DEF AllHosts
    <3>4. QED  BY <3>2, <3>3
  <2>2. QED  BY <1>10, <2>1 DEF AllHosts
<1>13. k = 5 * b
  BY <1>1, <1>3, <1>6, <1>12, EncodeLength DEF EncodedLength
<1>14. n = 5 * a
  BY <1>1, <1>2, <1>6, <1>11, EncodeLength DEF EncodedLength
<1>15. l = 0
  <2>1. PathValue(<<>>) = <<>>
    BY DEF PathValue
  <2>2. QED  BY <1>6, <2>1, EmptySeq
<1>16. Len(buildUpdateMessage(m, c)) = k + (l + 21) + n + 4
  BY <1>5, BuildType
<1>17. k + (l + 21) + n + 4 = 5 * (a + b) + 25
  BY <1>13, <1>14, <1>15
<1>18. a + b \in Nat
  OBVIOUS
<1>19. FitsHosts(buildUpdateMessage(m, c), hosts)
  BY <1>8, <1>16, <1>17, <1>18, UpTo810
<1>20. QED  BY <1>19 DEF hosts, u, r

-----------------------------------------------------------------------------
(* The inductive invariant.                                                *)

\* The bytes b are what is written for M, a message or none.
WrittenFor(c, M, b) ==
    \/ M = {} /\ b = EndOfRIB
    \/ \E m \in Messages : IsIPv4(m, c) /\ M = {m} /\ b = buildUpdateMessage(m, c)

\* No message follows a message.
History(c, w, t) ==
    /\ w \in Seq(Seq(Byte)) /\ t \in Seq(SUBSET Messages) /\ Len(t) = Len(w)
    /\ \A i \in 1..Len(w) : WrittenFor(c, t[i], w[i])
    /\ \A i \in 1..Len(w) : i + 1 \in 1..Len(w) => t[i] = {} \/ t[i + 1] = {}

MarkerLast(t) == t # <<>> => t[Len(t)] = {}

\* The type of what History leaves open.
WriterType ==
    /\ conf \in Configs
    /\ at \in {"idle", "eor", "failed"} /\ paused \in BOOLEAN

\* The routes that the peer and the runner disagree about.
Disagreed(t, l) == (t \ l) \cup (l \ t)

PIInv ==
    /\ WriterType
    /\ History(conf, wire, told)
    /\ at = "idle" => MarkerLast(told)
    /\ PeerReadsTheList


\* What is written behind a history makes one.
LEMMA HistoryGrows ==
    ASSUME NEW c, NEW w, NEW t, NEW M, NEW b, History(c, w, t), WrittenFor(c, M, b),
           b \in Seq(Byte), M \in SUBSET Messages, M = {} \/ MarkerLast(t)
    PROVE  /\ History(c, Append(w, b), Append(t, M))
           /\ M = {} => MarkerLast(Append(t, M))
<1>1. /\ w \in Seq(Seq(Byte)) /\ t \in Seq(SUBSET Messages) /\ Len(t) = Len(w)
      /\ \A i \in 1..Len(w) : WrittenFor(c, t[i], w[i])
      /\ \A i \in 1..Len(w) : i + 1 \in 1..Len(w) => t[i] = {} \/ t[i + 1] = {}
  BY DEF History
<1>2. PICK n \in Nat : n = Len(w) /\ n = Len(t)
  BY <1>1, LenNumber
<1> DEFINE v == Append(w, b)
           s == Append(t, M)
<1>3. /\ v \in Seq(Seq(Byte)) /\ Len(v) = Len(w) + 1
      /\ \A i \in 1..Len(w) : v[i] = w[i]
      /\ v[Len(w) + 1] = b
  BY <1>1, AppendProperties
<1>4. /\ s \in Seq(SUBSET Messages) /\ Len(s) = Len(t) + 1
      /\ \A i \in 1..Len(t) : s[i] = t[i]
      /\ s[Len(t) + 1] = M
  BY <1>1, AppendProperties
<1> HIDE DEF v, s
<1>5. Len(v) = n + 1 /\ Len(s) = n + 1 /\ v[n + 1] = b /\ s[n + 1] = M
  BY <1>2, <1>3, <1>4
<1>6. \A i \in 1..n : v[i] = w[i] /\ s[i] = t[i]
  BY <1>2, <1>3, <1>4
<1>7. \A i \in 1..n : WrittenFor(c, t[i], w[i])
  BY <1>1, <1>2
<1>8. \A i \in 1..n : i + 1 \in 1..n => t[i] = {} \/ t[i + 1] = {}
  BY <1>1, <1>2
<1>9. ASSUME NEW i \in 1..n + 1
      PROVE  WrittenFor(c, s[i], v[i])
  <2>1. CASE i \in 1..n
    BY <1>6, <1>7, <2>1
  <2>2. CASE i = n + 1
    BY <1>5, <2>2
  <2>3. QED  BY <2>1, <2>2
<1>10. ASSUME NEW i \in 1..n + 1, i + 1 \in 1..n + 1
       PROVE  s[i] = {} \/ s[i + 1] = {}
  <2>1. i \in 1..n
    BY <1>10
  <2>2. CASE i + 1 \in 1..n
    BY <1>6, <1>8, <2>1, <2>2
  <2>3. CASE i = n
    <3>1. CASE M = {}
      BY <1>5, <2>3, <3>1
    <3>2. CASE MarkerLast(t)
      <4>1. t # <<>>
        <5>1. Len(t) # 0
          BY <1>2, <2>1
        <5>2. QED  BY <5>1, EmptySeq
      <4>2. t[n] = {}
        BY <1>2, <3>2, <4>1 DEF MarkerLast
      <4>3. QED  BY <1>6, <2>1, <2>3, <4>2
    <3>3. QED  BY <3>1, <3>2
  <2>4. QED  BY <2>1, <2>2, <2>3
<1>11. History(c, v, s)
  <2>1. v \in Seq(Seq(Byte)) /\ s \in Seq(SUBSET Messages) /\ Len(s) = Len(v)
    BY <1>3, <1>4, <1>5
  <2>2. \A i \in 1..Len(v) : WrittenFor(c, s[i], v[i])
    BY <1>5, <1>9
  <2>3. \A i \in 1..Len(v) : i + 1 \in 1..Len(v) => s[i] = {} \/ s[i + 1] = {}
    BY <1>5, <1>10
  <2>4. QED  BY <2>1, <2>2, <2>3 DEF History
<1>12. M = {} => MarkerLast(s)
  BY <1>5 DEF MarkerLast
<1>13. QED  BY <1>11, <1>12 DEF v, s

\* Nothing written is a history.
LEMMA HistoryStarts == \A c : History(c, <<>>, <<>>)
<1>1. /\ <<>> \in Seq(Seq(Byte)) /\ <<>> \in Seq(SUBSET Messages)
      /\ Len(<<>>) = 0
  BY EmptySeq
<1>2. \A i \in 1..0 : FALSE
  OBVIOUS
<1>3. QED  BY <1>1, <1>2 DEF History

\* The lengths of a history fit when those of its messages do.
AllFit(c, t) == \A i \in DOMAIN t : \A m \in t[i] : Fits(m, c)

\* The lengths fit when those of each message do, and only then.
LEMMA LengthsAre ==
    /\ LengthsFit => AllFit(conf, told)
    /\ AllFit(conf, told) /\ Len(conf.ASNs) <= 126 => LengthsFit
BY SMT DEF LengthsFit, AllFit, Fits

\* What is written stays written: lengths that fit have fit before.
LEMMA LengthsKept ==
    ASSUME told \in Seq(SUBSET Messages), NEW M, M \in SUBSET Messages,
           told' = Append(told, M), conf' = conf, LengthsFit'
    PROVE  LengthsFit /\ \A m \in M : Fits(m, conf)
<1>1. PICK n \in Nat : n = Len(told)
  BY LenNumber
<1>2. /\ told' \in Seq(SUBSET Messages) /\ Len(told') = Len(told) + 1
      /\ \A i \in 1..Len(told) : told'[i] = told[i]
      /\ told'[Len(told) + 1] = M
  BY AppendProperties
<1>3. /\ DOMAIN told' = 1..n + 1 /\ DOMAIN told = 1..n /\ told'[n + 1] = M
      /\ \A i \in 1..n : told'[i] = told[i]
  BY <1>1, <1>2, LenProperties
<1>4. AllFit(conf, told') /\ Len(conf.ASNs) <= 126
  BY SMT DEF LengthsFit, AllFit, Fits
<1>5. /\ n + 1 \in 1..n + 1
      /\ \A i \in 1..n : i \in 1..n + 1
  OBVIOUS
<1>6. \A m \in M : Fits(m, conf)
  BY <1>3, <1>4, <1>5 DEF AllFit
<1>7. AllFit(conf, told)
  BY <1>3, <1>4, <1>5 DEF AllFit
<1>8. QED  BY <1>4, <1>6, <1>7, LengthsAre

\* The invariant holds when the session is established.
LEMMA PIInvInit == PInit => PIInv
<1> SUFFICES ASSUME PInit PROVE PIInv
  OBVIOUS
<1>1. wire = <<>> /\ told = <<>> /\ conf \in Configs /\ at = "idle" /\ paused = TRUE
  BY DEF PInit
<1>2. History(conf, wire, told)
  BY <1>1, HistoryStarts
<1>3. WriterType
  BY <1>1 DEF WriterType
<1>4. MarkerLast(told)
  BY <1>1 DEF MarkerLast
<1>5. PeerReadsTheList
  BY DEF PeerReadsTheList, PInit
<1>6. QED  BY <1>2, <1>3, <1>4, <1>5 DEF PIInv

\* A message about routes settles them, and leaves the others as they were.
LEMMA MessageSettles ==
    ASSUME NEW t, NEW l, NEW m
    PROVE  Disagreed(ListAfter(t, m), ListAfter(l, m)) \subseteq Disagreed(t, l) \ Touched(m)
BY DEF Disagreed, ListAfter, Touched

\* A list that takes a message alone differs in its routes at most.
LEMMA MessageDisturbs ==
    ASSUME NEW t, NEW l, NEW m
    PROVE  Disagreed(t, ListAfter(l, m)) \subseteq Disagreed(t, l) \cup Touched(m)
BY DEF Disagreed, ListAfter, Touched

LEMMA ListRead == PeerReadsTheList <=> (LengthsFit => Disagreed(table, list) \subseteq unwritten)
BY DEF PeerReadsTheList, Disagreed

\* Bytes that are written leave no more disagreement than is accounted for.
LEMMA Written ==
    ASSUME PIInv, NEW M, NEW b, WrittenFor(conf, M, b), b \in Seq(Byte),
           M \in SUBSET Messages, M = {} \/ MarkerLast(told),
           Write(b, M), conf' = conf,
           /\ \A m \in M : Fits(m, conf)
           /\ Disagreed(table, list) \subseteq unwritten
           => Disagreed(TableAfter(table, b), list') \subseteq unwritten',
           at' \in {"idle", "eor", "failed"}, paused' \in BOOLEAN, at' = "idle" => M = {}
    PROVE  PIInv'
<1>1. wire' = Append(wire, b) /\ told' = Append(told, M) /\ table' = TableAfter(table, b)
  BY DEF Write
<1>2. History(conf, wire, told) /\ conf \in Configs
  BY DEF PIInv, WriterType
<1>3. /\ History(conf, Append(wire, b), Append(told, M))
      /\ M = {} => MarkerLast(Append(told, M))
  BY <1>2, HistoryGrows
<1>4. History(conf', wire', told') /\ (M = {} => MarkerLast(told'))
  BY <1>1, <1>3
<1>5. WriterType'
  BY <1>2 DEF WriterType
<1>6. PeerReadsTheList'
  <2> SUFFICES ASSUME LengthsFit' PROVE Disagreed(table', list') \subseteq unwritten'
    BY DEF PeerReadsTheList, Disagreed
  <2>1. told \in Seq(SUBSET Messages)
    BY <1>2 DEF History
  <2>2. LengthsFit /\ \A m \in M : Fits(m, conf)
    BY <1>1, <2>1, LengthsKept
  <2>3. Disagreed(table, list) \subseteq unwritten
    BY <2>2, ListRead DEF PIInv
  <2>4. QED  BY <1>1, <2>2, <2>3
<1>7. QED  BY <1>4, <1>5, <1>6 DEF PIInv

\* A message of which nothing is written leaves its routes in unwritten.
LEMMA NotWrittenStep ==
    ASSUME PIInv, NEW m, NotWritten(m), list' = ListAfter(list, m),
           conf' = conf, paused' = paused, at' \in {at, "failed"}
    PROVE  PIInv'
<1>1. UNCHANGED <<wire, told, table>> /\ unwritten' = unwritten \cup Touched(m)
  BY DEF NotWritten
<1>2. LengthsFit' <=> LengthsFit
  BY <1>1 DEF LengthsFit
<1>3. PeerReadsTheList'
  <2> SUFFICES ASSUME LengthsFit PROVE Disagreed(table', list') \subseteq unwritten'
    BY <1>2 DEF PeerReadsTheList, Disagreed
  <2>1. Disagreed(table, list) \subseteq unwritten
    BY ListRead DEF PIInv
  <2>2. QED  BY <1>1, <2>1, MessageDisturbs
<1>4. QED  BY <1>1, <1>3 DEF PIInv, WriterType

\* What reads as no route, and changes no list, changes nothing.
LEMMA NothingRead ==
    ASSUME UNCHANGED <<list, unwritten>>
    PROVE  Disagreed(table, list) \subseteq unwritten
             => Disagreed(TableAfter(table, EndOfRIB), list') \subseteq unwritten'
<1>1. TableAfter(table, EndOfRIB) = table
  BY MarkerRead
<1>2. QED  BY <1>1

\* What stands still keeps it.
LEMMA PIInvKept ==
    ASSUME PIInv, UNCHANGED <<conf, wire, told, table, list, unwritten>>,
           at' \in {at, "failed"}, paused' = paused
    PROVE  PIInv'
<1>1. LengthsFit' <=> LengthsFit
  BY DEF LengthsFit
<1>2. QED  BY <1>1 DEF PIInv, WriterType, PeerReadsTheList

\* Each step keeps it: a message is written whole or not at all.
LEMMA PIInvStep == PIInv /\ [PNext]_pvars => PIInv'
<1> SUFFICES ASSUME PIInv, [PNext]_pvars PROVE PIInv'
  OBVIOUS
<1>1. conf \in Configs /\ at \in {"idle", "eor", "failed"} /\ paused \in BOOLEAN
  BY DEF PIInv, WriterType
<1>2. ASSUME NEW m \in Messages, WriteMessage(m)
      PROVE  PIInv'
  <2>1. at = "idle" /\ UNCHANGED <<conf, paused>> /\ list' = ListAfter(list, m)
    BY <1>2, Zenon DEF WriteMessage
  <2>2. CASE NotWritten(m) /\ (UNCHANGED at \/ at' = "failed")
    BY <2>1, <2>2, NotWrittenStep
  <2>3. CASE /\ buildUpdateMessage(m, conf) # Error
             /\ Write(buildUpdateMessage(m, conf), {m})
             /\ unwritten' = unwritten \ Touched(m)
             /\ at' = "eor"
    <3>1. Built(m, conf)
      BY <1>1, <1>2, <2>3, NotBuilt DEF Built
    <3>2. buildUpdateMessage(m, conf) \in Seq(Byte)
      BY <3>1, BuildIs
    <3>3. WrittenFor(conf, {m}, buildUpdateMessage(m, conf))
      BY <3>1 DEF WrittenFor, Built
    <3>4. MarkerLast(told)
      BY <2>1 DEF PIInv
    <3>5. ASSUME Fits(m, conf), Disagreed(table, list) \subseteq unwritten
          PROVE  Disagreed(TableAfter(table, buildUpdateMessage(m, conf)), list') \subseteq unwritten'
      <4>1. TableAfter(table, buildUpdateMessage(m, conf)) = ListAfter(table, m)
        BY <3>1, <3>5, BuildRead
      <4>2. Disagreed(ListAfter(table, m), ListAfter(list, m)) \subseteq Disagreed(table, list) \ Touched(m)
        BY MessageSettles
      <4>3. QED  BY <2>1, <2>3, <3>5, <4>1, <4>2
    <3>6. {m} \in SUBSET Messages /\ conf' = conf /\ paused' \in BOOLEAN
      BY <1>1, <1>2, <2>1
    <3>7. at' \in {"idle", "eor", "failed"} /\ (at' = "idle" => {m} = {})
      BY <2>3
    <3>8. QED  BY <2>3, <3>2, <3>3, <3>4, <3>5, <3>6, <3>7, Written
  <2>4. QED  BY <1>2, <2>2, <2>3, Zenon DEF WriteMessage
<1>3. WrittenFor(conf, {}, EndOfRIB) /\ {} \in SUBSET Messages
  BY DEF WrittenFor
<1>4. EndOfRIB \in Seq(Byte)
  BY MarkerRead
<1>5. ASSUME WriteEndOfRIB
      PROVE  PIInv'
  <2>1. UNCHANGED <<conf, list, unwritten, paused>>
    BY <1>5 DEF WriteEndOfRIB
  <2>2. CASE at' = "idle" /\ Write(EndOfRIB, {})
    <3>1. conf' = conf /\ paused' \in BOOLEAN /\ at' \in {"idle", "eor", "failed"}
      BY <1>1, <2>1, <2>2
    <3>2. QED  BY <1>3, <1>4, <2>1, <2>2, <3>1, NothingRead, Written
  <2>3. CASE at' = "failed" /\ UNCHANGED <<wire, told, table>>
    BY <2>1, <2>3, PIInvKept
  <2>4. QED  BY <1>5, <2>2, <2>3 DEF WriteEndOfRIB
<1>6. ASSUME EstablishedEndOfRIB
      PROVE  PIInv'
  <2>1. paused' = FALSE /\ Write(EndOfRIB, {}) /\ UNCHANGED <<conf, list, unwritten, at>>
    BY <1>6 DEF EstablishedEndOfRIB
  <2>2. conf' = conf /\ paused' \in BOOLEAN
    BY <2>1
  <2>3. QED  BY <1>1, <1>3, <1>4, <2>1, <2>2, NothingRead, Written
<1>7. CASE UNCHANGED pvars
  BY <1>7, PIInvKept DEF pvars
<1>8. QED  BY <1>2, <1>5, <1>6, <1>7, Zenon DEF PNext

-----------------------------------------------------------------------------
(* What the invariant says.                                                *)

\* PIInv holds in every reachable state: what is in wire was built, by
\* buildUpdateMessage or as the End-of-RIB, for what is in told.
THEOREM PIInvAlways == PSpec => []PIInv
<1>1. PInit => PIInv
  BY PIInvInit
<1>2. PIInv /\ [PNext]_pvars => PIInv'
  BY PIInvStep
<1>3. QED  BY <1>1, <1>2, PTL DEF PSpec

\* Whatever the messages, and in whatever order OnEstablished and the runner
\* write, a peer that reads the UPDATEs of encodePrefixes agrees with the
\* runner's list on every route but those whose last message could not be built
\* or written, while the withdrawn routes fit the 16 bits of their length.
THEOREM PeerHasTheList == PSpec => []PeerReadsTheList
<1>1. PIInv => PeerReadsTheList
  BY DEF PIInv
<1>2. QED  BY <1>1, PIInvAlways, PTL

\* What the i-th UPDATE is.
LEMMA WrittenAt ==
    ASSUME PIInv, NEW i \in DOMAIN wire
    PROVE  WrittenFor(conf, told[i], wire[i]) /\ i \in DOMAIN told
<1>1. /\ wire \in Seq(Seq(Byte)) /\ told \in Seq(SUBSET Messages) /\ Len(told) = Len(wire)
      /\ \A k \in 1..Len(wire) : WrittenFor(conf, told[k], wire[k])
  BY DEF PIInv, History
<1>2. DOMAIN wire = 1..Len(wire) /\ DOMAIN told = 1..Len(told)
  BY <1>1, LenProperties
<1>3. QED  BY <1>1, <1>2

\* writeEndOfRIB: an UPDATE of a message never reads as the marker, because it
\* carries attributes, and the runner writes a marker behind each message.
THEOREM MarkersFollow == PSpec => []MarkersFollowMessages
<1>1. ASSUME PIInv
      PROVE  MarkersFollowMessages
  <2> SUFFICES ASSUME NEW i \in DOMAIN wire
               PROVE  /\ wire[i] = EndOfRIB <=> told[i] = {}
                      /\ i + 1 \in DOMAIN wire => told[i] = {} \/ told[i + 1] = {}
    BY DEF MarkersFollowMessages
  <2>1. WrittenFor(conf, told[i], wire[i])
    BY <1>1, WrittenAt
  <2>2. conf \in Configs
    BY <1>1 DEF PIInv, WriterType
  <2>3. wire[i] = EndOfRIB <=> told[i] = {}
    <3>1. CASE told[i] = {} /\ wire[i] = EndOfRIB
      BY <3>1
    <3>2. CASE \E m \in Messages : IsIPv4(m, conf) /\ told[i] = {m} /\ wire[i] = buildUpdateMessage(m, conf)
      <4>1. PICK m \in Messages : IsIPv4(m, conf) /\ told[i] = {m} /\ wire[i] = buildUpdateMessage(m, conf)
        BY <3>2
      <4>2. Built(m, conf)
        BY <2>2, <4>1 DEF Built
      <4>3. wire[i] # EndOfRIB
        BY <4>1, <4>2, BuildIs
      <4>4. QED  BY <4>1, <4>3
    <3>3. QED  BY <2>1, <3>1, <3>2 DEF WrittenFor
  <2>4. i + 1 \in DOMAIN wire => told[i] = {} \/ told[i + 1] = {}
    <3>1. /\ wire \in Seq(Seq(Byte))
          /\ \A k \in 1..Len(wire) : k + 1 \in 1..Len(wire) => told[k] = {} \/ told[k + 1] = {}
      BY <1>1 DEF PIInv, History
    <3>2. DOMAIN wire = 1..Len(wire)
      BY <3>1, LenProperties
    <3>3. QED  BY <3>1, <3>2
  <2>5. QED  BY <2>3, <2>4
<1>2. QED  BY <1>1, PIInvAlways, PTL

\* What the attributes of newWriter say of a configuration.
SaysOf(attributes, c) ==
    /\ {a[1] : a \in attributes} = {1, 2, 3, 5}
    /\ \A a \in attributes :
          /\ a[1] = 1 => a[2] = <<1>>
          /\ a[1] = 2 => IF c.ASNs = <<>> THEN a[2] = <<>> ELSE Segment(a[2], c.ASNs)
          /\ a[1] = 3 => a[2] = c.NextHop
          /\ a[1] = 5 => PrefRead(a[2], c.LocalPref)

\* The four attributes that are read say what the configuration has.
LEMMA ReadSays ==
    ASSUME NEW c, IsConfig(c), Len(c.ASNs) <= 126
    PROVE  SaysOf(Read(c), c)
<1>1. c.ASNs \in Seq(TwoBytes) /\ IsPref(c.LocalPref)
  BY DEF IsConfig
<1>2. PICK n \in Nat : n = Len(c.ASNs) /\ n <= 126
  BY <1>1, LenNumber
<1> DEFINE o == <<1>>
           v == PathValue(c.ASNs)
           h == c.NextHop
           p == Uint32(c.LocalPref)
<1>3. /\ c.ASNs = <<>> => v = <<>>
      /\ c.ASNs # <<>> => Segment(v, c.ASNs)
  BY <1>1, <1>2, PathValueRead
<1>4. PrefRead(p, c.LocalPref)
  BY <1>1, Uint32Read
<1>5. Read(c) = {<<1, o>>, <<2, v>>, <<3, h>>, <<5, p>>}
  BY DEF Read
<1> HIDE DEF o, v, p, h
<1>6. {a[1] : a \in Read(c)} = {1, 2, 3, 5}
  BY <1>5
<1>7. ASSUME NEW a \in Read(c)
      PROVE  /\ a[1] = 1 => a[2] = o
             /\ a[1] = 2 => a[2] = v
             /\ a[1] = 3 => a[2] = h
             /\ a[1] = 5 => a[2] = p
  BY <1>5
<1>8. ASSUME NEW a \in Read(c), a[1] = 2
      PROVE  IF c.ASNs = <<>> THEN a[2] = <<>> ELSE Segment(a[2], c.ASNs)
  BY <1>3, <1>7, <1>8
<1>9. ASSUME NEW a \in Read(c), a[1] = 5
      PROVE  PrefRead(a[2], c.LocalPref)
  BY <1>4, <1>7, <1>9
<1>10. o = <<1>> /\ h = c.NextHop
  BY DEF o, h
<1>11. QED  BY <1>6, <1>7, <1>8, <1>9, <1>10, Zenon DEF SaysOf

\* The attributes of each UPDATE, read back: origin, AS path, next hop and
\* local preference with the values of the writer, and no other.
THEOREM AttributesAreRead == PSpec => []AttributesRead
<1>1. ASSUME PIInv
      PROVE  AttributesRead
  <2>1. ASSUME LengthsFit, NEW i \in DOMAIN wire, told[i] # {}
        PROVE  SaysOf(Parse(wire[i]).attributes, conf)
    <3>1. PICK m \in Messages : IsIPv4(m, conf) /\ told[i] = {m} /\ wire[i] = buildUpdateMessage(m, conf)
      BY <1>1, <2>1, WrittenAt DEF WrittenFor
    <3>2. conf \in Configs
      BY <1>1 DEF PIInv, WriterType
    <3>3. Built(m, conf)
      BY <3>1, <3>2 DEF Built
    <3>4. Fits(m, conf)
      <4>1. AllFit(conf, told)
        BY <2>1, SMT DEF LengthsFit, AllFit, Fits
      <4>2. i \in DOMAIN told
        BY <1>1, WrittenAt
      <4>3. QED  BY <3>1, <4>1, <4>2 DEF AllFit
    <3>5. Parse(wire[i]).attributes = Read(conf)
      BY <3>1, <3>3, <3>4, BuildParsed
    <3>6. IsConfig(conf) /\ Len(conf.ASNs) <= 126
      BY <3>2, <3>4, ConfigsAre, SMT DEF Fits
    <3>7. SaysOf(Read(conf), conf)
      BY <3>6, ReadSays, SMT
    <3>8. QED  BY <3>5, <3>7
  <2>2. LengthsFit => \A i \in DOMAIN wire : told[i] # {} => SaysOf(Parse(wire[i]).attributes, conf)
    BY <2>1, Zenon
  <2>3. QED  BY <2>2, Zenon DEF AttributesRead, SaysOf
<1>2. QED  BY <1>1, PIInvAlways, PTL

\* What the length of each UPDATE of hosts says.
LEMMA HostsWritten ==
    ASSUME PIInv
    PROVE  \A i \in DOMAIN wire : \A m \in told[i] :
               conf.ASNs = <<>> /\ AllHosts(m.ToUpdate \o m.ToRemove)
                 => FitsHosts(wire[i], m.ToUpdate \o m.ToRemove)
<1>1. ASSUME NEW i \in DOMAIN wire, NEW m \in told[i],
             conf.ASNs = <<>>, AllHosts(m.ToUpdate \o m.ToRemove)
      PROVE  FitsHosts(wire[i], m.ToUpdate \o m.ToRemove)
  <2>1. WrittenFor(conf, told[i], wire[i]) /\ conf \in Configs
    BY <1>1, WrittenAt DEF PIInv, WriterType
  <2>2. IsIPv4(m, conf) /\ m \in Messages /\ wire[i] = buildUpdateMessage(m, conf)
    BY <2>1 DEF WrittenFor
  <2>3. Built(m, conf)
    BY <2>1, <2>2 DEF Built
  <2>4. QED  BY <1>1, <2>2, <2>3, HostsFit
<1>2. QED  BY <1>1, Zenon

\* buildUpdateMessage: an UPDATE of up to 810 hosts, with the attributes of
\* newWriter, is one BGP message.
THEOREM Fits810 == PSpec => []FitsUpTo810
<1>1. ASSUME PIInv
      PROVE  FitsUpTo810
  <2>1. ASSUME NEW i \in DOMAIN wire, NEW m \in told[i],
               conf.ASNs = <<>>, AllHosts(m.ToUpdate \o m.ToRemove),
               Few(m.ToUpdate \o m.ToRemove)
        PROVE  Sendable(wire[i])
    <3>1. FitsHosts(wire[i], m.ToUpdate \o m.ToRemove)
      BY <1>1, <2>1, HostsWritten
    <3>2. QED  BY <2>1, <3>1, Zenon DEF FitsHosts
  <2>2. \A i \in DOMAIN wire : \A m \in told[i] :
           /\ conf.ASNs = <<>>
           /\ AllHosts(m.ToUpdate \o m.ToRemove)
           /\ Few(m.ToUpdate \o m.ToRemove)
           => Sendable(wire[i])
    BY <2>1, Zenon
  <2>3. QED  BY <2>2, Zenon DEF FitsUpTo810, AllHosts, Sendable, Few
<1>2. QED  BY <1>1, PIInvAlways, PTL

\* An UPDATE of more hosts than 810 is longer than a BGP message.
TooLongAbove810 ==
    \A i \in DOMAIN wire : \A m \in told[i] :
        LET hosts == m.ToUpdate \o m.ToRemove
        IN  /\ conf.ASNs = <<>>
            /\ \A k \in DOMAIN hosts : hosts[k].ones = 32
            /\ ~(Len(hosts) <= 810)
            => ~(19 + Len(wire[i]) <= 4096)

\* buildUpdateMessage splits no message: whatever the hosts, an UPDATE of more
\* than 810 of them is not "suitable for transmission over a BGP session".
THEOREM UnsuitableAbove810 == PSpec => []TooLongAbove810
<1>1. ASSUME PIInv
      PROVE  TooLongAbove810
  <2>1. ASSUME NEW i \in DOMAIN wire, NEW m \in told[i],
               conf.ASNs = <<>>, AllHosts(m.ToUpdate \o m.ToRemove),
               ~Few(m.ToUpdate \o m.ToRemove)
        PROVE  ~Sendable(wire[i])
    <3>1. FitsHosts(wire[i], m.ToUpdate \o m.ToRemove)
      BY <1>1, <2>1, HostsWritten
    <3>2. QED  BY <2>1, <3>1, Zenon DEF FitsHosts
  <2>2. \A i \in DOMAIN wire : \A m \in told[i] :
           /\ conf.ASNs = <<>>
           /\ AllHosts(m.ToUpdate \o m.ToRemove)
           /\ ~Few(m.ToUpdate \o m.ToRemove)
           => ~Sendable(wire[i])
    BY <2>1, Zenon
  <2>3. QED  BY <2>2, Zenon DEF TooLongAbove810, AllHosts, Sendable, Few
<1>2. QED  BY <1>1, PIInvAlways, PTL

=============================================================================
