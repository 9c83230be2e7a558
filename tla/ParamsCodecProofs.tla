-------------------------- MODULE ParamsCodecProofs --------------------------
(***************************************************************************)
(* Theorems about the parameters of jobs, for any characters and any       *)
(* parameters, up to 255 of up to 255 characters: what Res holds from one  *)
(* job to the next, when decoding them leaves the text or the array, and   *)
(* which parameters come through.                                          *)
(***************************************************************************)
EXTENDS ParamsCodec, FiniteSetTheorems, SequenceTheorems, TLAPS

-----------------------------------------------------------------------------
(* Numbers.                                                                *)

\* A set of natural numbers has a least one.
LEMMA LeastNat ==
    ASSUME NEW T \in SUBSET Nat, T # {}
    PROVE  Min(T) \in T /\ \A y \in T : Min(T) <= y
<1> DEFINE R == OpToRel(<, Nat)
<1>1. \E x \in T : \A y \in T : <<y, x>> \notin R
  BY NatLessThanWellFounded, WFMin
<1>2. \A x, y \in Nat : y < x => <<y, x>> \in R
  BY DEF OpToRel
<1> HIDE DEF R
<1>3. PICK x \in T : \A y \in T : <<y, x>> \notin R
  BY <1>1
<1>4. \A y \in T : x <= y
  <2> TAKE y \in T
  <2>1. x \in Nat /\ y \in Nat /\ ~(y < x)
    BY <1>2, <1>3
  <2> QED
    BY <2>1
<1> QED
  BY <1>4 DEF Min

\* What holds of 1, and of each number that comes after one of which it holds,
\* holds up to any number: otherwise there were a least one of which it does not.
LEMMA UpTo ==
    ASSUME NEW N \in Nat, NEW Q, N > 0 => 1 \in Q, \A n \in 2 .. N : n - 1 \in Q => n \in Q
    PROVE  \A n \in 1 .. N : n \in Q
<1> DEFINE T == {n \in 1 .. N : n \notin Q}
<1>1. SUFFICES ASSUME T # {}
               PROVE  FALSE
  OBVIOUS
<1>2. T \in SUBSET Nat
  OBVIOUS
<1>3. PICK n \in T : \A m \in T : n <= m
  BY <1>1, <1>2, LeastNat
<1>4. n \in 1 .. N /\ n \notin Q
  OBVIOUS
<1>5. n # 1
  BY <1>4
<1>6. n \in 2 .. N /\ n - 1 \in 1 .. N /\ ~(n <= n - 1)
  BY <1>4, <1>5
<1>7. n - 1 \in Q
  BY <1>3, <1>6
<1> QED
  BY <1>4, <1>6, <1>7

-----------------------------------------------------------------------------
(* Characters in a text.                                                   *)

LEMMA PlaceIs ==
    ASSUME NEW S, NEW t \in Seq(S), NEW c
    PROVE  \/ Place(c, t) = 0 /\ \A i \in 1 .. Len(t) : t[i] # c
           \/ /\ Place(c, t) \in 1 .. Len(t) /\ t[Place(c, t)] = c
              /\ \A i \in 1 .. Len(t) : i < Place(c, t) => t[i] # c
<1>1. CASE Places(c, t) = {}
  BY <1>1 DEF Place, Places
<1>2. CASE Places(c, t) # {}
  <2>1. Places(c, t) \in SUBSET Nat
    BY DEF Places
  <2>2. Min(Places(c, t)) \in Places(c, t) /\ \A i \in Places(c, t) : Min(Places(c, t)) <= i
    BY <1>2, <2>1, LeastNat
  <2>3. Place(c, t) = Min(Places(c, t))
    BY <1>2 DEF Place
  <2>4. Place(c, t) \in 1 .. Len(t) /\ t[Place(c, t)] = c
    BY <2>2, <2>3 DEF Places
  <2>5. ASSUME NEW i \in 1 .. Len(t), i < Place(c, t), t[i] = c
        PROVE  FALSE
    <3>1. i \in Places(c, t)
      BY <2>5 DEF Places
    <3> QED
      BY <2>2, <2>3, <2>4, <2>5, <3>1
  <2> QED
    BY <2>4, <2>5
<1> QED
  BY <1>1, <1>2

LEMMA OccurrencesIs ==
    ASSUME NEW S, NEW t \in Seq(S), NEW c
    PROVE  /\ IsFiniteSet(Places(c, t)) /\ Occurrences(c, t) \in Nat
           /\ Occurrences(c, t) = 0 <=> \A i \in 1 .. Len(t) : t[i] # c
<1>1. Places(c, t) \in SUBSET (1 .. Len(t)) /\ Len(t) \in Nat
  BY DEF Places
<1>2. IsFiniteSet(1 .. Len(t))
  BY <1>1, FS_Interval
<1>3. IsFiniteSet(Places(c, t))
  BY <1>1, <1>2, FS_Subset
<1>4. Occurrences(c, t) \in Nat /\ (Occurrences(c, t) = 0 <=> Places(c, t) = {})
  BY <1>3, FS_CardinalityType, FS_EmptySet DEF Occurrences
<1>5. Places(c, t) = {} <=> \A i \in 1 .. Len(t) : t[i] # c
  BY DEF Places
<1> QED
  BY <1>3, <1>4, <1>5

LEMMA FromIs ==
    ASSUME NEW S, NEW t \in Seq(S), NEW i \in 1 .. Len(t) + 1
    PROVE  /\ From(t, i) \in Seq(S) /\ Len(From(t, i)) = Len(t) - i + 1
           /\ \A j \in 1 .. Len(t) - i + 1 : From(t, i)[j] = t[j + i - 1]
  BY DEF From

\* The rest of a text has as many of a character as the text if there are none
\* before, and one less if it begins after the first.
LEMMA OccurrencesFrom ==
    ASSUME NEW S, NEW t \in Seq(S), NEW c, NEW i \in 1 .. Len(t) + 1
    PROVE  /\ (\A j \in 1 .. Len(t) : j < i => t[j] # c) => Occurrences(c, From(t, i)) = Occurrences(c, t)
           /\ Place(c, t) # 0 /\ i = Place(c, t) + 1 => Occurrences(c, From(t, i)) = Occurrences(c, t) - 1
<1> DEFINE rest == From(t, i)
           P == Places(c, t)
           Q == {j \in P : j >= i}
           R == Places(c, rest)
           f == [j \in R |-> j + i - 1]
<1>1. /\ rest \in Seq(S) /\ Len(rest) = Len(t) - i + 1 /\ Len(t) \in Nat /\ i \in Int
      /\ \A j \in 1 .. Len(t) - i + 1 : rest[j] = t[j + i - 1]
  BY FromIs
<1> HIDE DEF rest
<1>2. \A j : j \in R <=> j \in 1 .. Len(t) - i + 1 /\ t[j + i - 1] = c
  <2>1. DOMAIN rest = 1 .. Len(t) - i + 1
    BY <1>1
  <2> QED
    BY <1>1, <2>1 DEF Places
<1>3. \A j : j \in Q <=> j \in 1 .. Len(t) /\ j >= i /\ t[j] = c
  BY DEF Places
<1> HIDE DEF P, Q, R
<1>4. f \in [R -> Q] /\ \A j \in R : f[j] = j + i - 1 /\ j \in Int
  <2>1. \A j \in R : j + i - 1 \in Q
    BY <1>1, <1>2, <1>3
  <2> QED
    BY <1>2, <2>1
<1> HIDE DEF f
<1>5. f \in Injection(R, Q)
  <2>1. \A j, k \in R : f[j] = f[k] => j = k
    BY <1>1, <1>4
  <2> QED
    BY <1>4, <2>1 DEF Injection, IsInjective
<1>6. f \in Surjection(R, Q)
  <2>1. ASSUME NEW k \in Q
        PROVE  \E j \in R : f[j] = k
    <3> DEFINE j == k - i + 1
    <3>1. j \in 1 .. Len(t) - i + 1 /\ j + i - 1 = k /\ t[k] = c
      BY <1>1, <1>3
    <3> HIDE DEF j
    <3>2. j \in R
      BY <1>2, <3>1
    <3>3. f[j] = k
      BY <1>4, <3>1, <3>2
    <3> QED
      BY <3>2, <3>3
  <2> QED
    BY <1>4, <2>1 DEF Surjection
<1>7. IsFiniteSet(P) /\ IsFiniteSet(R)
  BY <1>1, OccurrencesIs DEF P, R
<1>8. IsFiniteSet(Q)
  <2>1. Q \in SUBSET P
    BY DEF Q
  <2> QED
    BY <1>7, <2>1, FS_Subset
<1>9. Cardinality(R) = Cardinality(Q)
  BY <1>5, <1>6, <1>8, FS_Injection
<1>10. Occurrences(c, rest) = Cardinality(Q) /\ Occurrences(c, t) = Cardinality(P)
  BY <1>9 DEF Occurrences, P, R
<1>11. ASSUME \A j \in 1 .. Len(t) : j < i => t[j] # c
       PROVE  Q = P
  BY <1>1, <1>11 DEF Q, P, Places
<1>12. ASSUME Place(c, t) # 0, i = Place(c, t) + 1
       PROVE  Cardinality(Q) = Cardinality(P) - 1
  <2>1. /\ Place(c, t) \in 1 .. Len(t) /\ t[Place(c, t)] = c
        /\ \A j \in 1 .. Len(t) : j < Place(c, t) => t[j] # c
    BY <1>12, PlaceIs
  <2>2. Place(c, t) \in P /\ Q = P \ {Place(c, t)}
    BY <1>12, <2>1 DEF P, Q, Places
  <2> QED
    BY <1>7, <2>2, FS_RemoveElement
<1> QED
  BY <1>10, <1>11, <1>12 DEF rest
-----------------------------------------------------------------------------
(* The text that msgpack prints.                                           *)

Signs == Chars \cup {"[", "'", Space}

LEMMA OtherSigns == Comma # ":" /\ ":" # "]" /\ ":" # "[" /\ ":" # "'" /\ ":" # Space /\ Comma # "]"
  BY Zenon DEF Comma, Space

\* Each parameter has one colon at most.
Regular(p) == \A i \in DOMAIN p : Colons(p[i]) <= 1

\* Between any two colons there is a comma.
Separate(t) ==
    \A i, j \in DOMAIN t : i < j /\ t[i] = ":" /\ t[j] = ":" =>
        \E k \in DOMAIN t : i < k /\ k < j /\ t[k] = Comma

Plain(t) == \A i \in DOMAIN t : t[i] # ":"

LEMMA FewSeparate ==
    ASSUME NEW S, NEW t \in Seq(S), Colons(t) <= 1
    PROVE  Separate(t)
<1> SUFFICES ASSUME NEW i \in DOMAIN t, NEW j \in DOMAIN t, i < j, t[i] = ":", t[j] = ":"
             PROVE  FALSE
  BY DEF Separate
<1> DEFINE P == Places(":", t)
<1>1. i \in P /\ j \in P \ {i} /\ IsFiniteSet(P)
  BY OccurrencesIs DEF Places
<1>2. Cardinality(P) \in Nat /\ Cardinality(P) <= 1
  BY OccurrencesIs DEF Colons, Occurrences
<1> HIDE DEF P
<1>3. IsFiniteSet(P \ {i}) /\ Cardinality(P \ {i}) = Cardinality(P) - 1
  BY <1>1, FS_RemoveElement
<1>4. Cardinality(P \ {i}) # 0 /\ Cardinality(P \ {i}) \in Nat
  BY <1>1, <1>3, FS_EmptySet, FS_CardinalityType
<1> QED
  BY <1>2, <1>3, <1>4

LEMMA DomainOf == \A S : \A t \in Seq(S) : DOMAIN t = 1 .. Len(t) /\ Len(t) \in Nat
  OBVIOUS

LEMMA ConcatIs ==
    ASSUME NEW S, NEW s \in Seq(S), NEW u \in Seq(S)
    PROVE  /\ s \o u \in Seq(S) /\ Len(s \o u) = Len(s) + Len(u)
           /\ Len(s) \in Nat /\ Len(u) \in Nat
           /\ \A i \in 1 .. Len(s) : (s \o u)[i] = s[i]
           /\ \A i \in 1 .. Len(u) : (s \o u)[Len(s) + i] = u[i]
           /\ \A i \in 1 .. Len(s) + Len(u) :
                  i \in 1 .. Len(s) \/ (i - Len(s) \in 1 .. Len(u) /\ (s \o u)[i] = u[i - Len(s)])
  OBVIOUS

\* Texts are joined without bringing two colons together.
LEMMA JoinSeparate ==
    ASSUME NEW S, NEW s \in Seq(S), NEW u \in Seq(S), Separate(s), Separate(u),
           Plain(s) \/ Plain(u) \/ (u # <<>> /\ u[1] = Comma)
    PROVE  Separate(s \o u)
<1> DEFINE w == s \o u
<1>1. /\ w \in Seq(S) /\ Len(w) = Len(s) + Len(u) /\ Len(s) \in Nat /\ Len(u) \in Nat
      /\ \A i \in 1 .. Len(s) : w[i] = s[i]
      /\ \A i \in 1 .. Len(u) : w[Len(s) + i] = u[i]
      /\ \A i \in 1 .. Len(s) + Len(u) :
             i \in 1 .. Len(s) \/ (i - Len(s) \in 1 .. Len(u) /\ w[i] = u[i - Len(s)])
  BY ConcatIs
<1> HIDE DEF w
<1> SUFFICES ASSUME NEW i \in 1 .. Len(w), NEW j \in 1 .. Len(w), i < j, w[i] = ":", w[j] = ":"
             PROVE  \E k \in 1 .. Len(w) : i < k /\ k < j /\ w[k] = Comma
  <2>1. DOMAIN w = 1 .. Len(w)
    BY <1>1, DomainOf
  <2>2. Separate(w)
    BY <2>1 DEF Separate
  <2> QED
    BY <2>2 DEF w
<1>0. /\ DOMAIN s = 1 .. Len(s) /\ DOMAIN u = 1 .. Len(u) /\ i \in 1 .. Len(s) + Len(u)
      /\ j \in 1 .. Len(s) + Len(u) /\ Len(w) = Len(s) + Len(u)
  BY <1>1, DomainOf
<1>2. CASE j \in 1 .. Len(s)
  <2>1. i \in 1 .. Len(s) /\ s[i] = ":" /\ s[j] = ":"
    BY <1>1, <1>2
  <2>2. PICK k \in 1 .. Len(s) : i < k /\ k < j /\ s[k] = Comma
    BY <1>0, <1>2, <2>1 DEF Separate
  <2>3. k \in 1 .. Len(w) /\ w[k] = Comma
    BY <1>1, <2>2
  <2> QED
    BY <2>2, <2>3
<1>3. CASE i \notin 1 .. Len(s)
  <2> DEFINE a == i - Len(s)
             b == j - Len(s)
  <2>1. a \in 1 .. Len(u) /\ b \in 1 .. Len(u) /\ a < b /\ u[a] = ":" /\ u[b] = ":"
    BY <1>1, <1>3
  <2>2. PICK k \in 1 .. Len(u) : a < k /\ k < b /\ u[k] = Comma
    <3> HIDE DEF a, b
    <3> QED
      BY <1>0, <2>1 DEF Separate
  <2>3. Len(s) + k \in 1 .. Len(w) /\ w[Len(s) + k] = Comma /\ i < Len(s) + k /\ Len(s) + k < j
    BY <1>1, <2>2
  <2> QED
    BY <2>3
<1>4. CASE i \in 1 .. Len(s) /\ j \notin 1 .. Len(s)
  <2>1. s[i] = ":" /\ j - Len(s) \in 1 .. Len(u) /\ u[j - Len(s)] = ":"
    BY <1>0, <1>1, <1>4
  <2>2. ~Plain(s)
    BY <1>0, <1>4, <2>1 DEF Plain
  <2>3. ~Plain(u)
    BY <1>0, <2>1 DEF Plain
  <2>4. u[1] = Comma
    BY <2>2, <2>3
  <2>5. j - Len(s) # 1
    BY <2>1, <2>4, OtherSigns
  <2>6. Len(s) \in Nat /\ Len(u) \in Nat /\ j \in Int
    BY <1>0, <1>1
  <2>7. 1 \in 1 .. Len(u) /\ Len(s) + 1 < j
    BY <2>1, <2>5, <2>6
  <2>8. Len(s) + 1 \in 1 .. Len(w) /\ i < Len(s) + 1
    BY <1>0, <1>4, <2>6, <2>7
  <2>9. w[Len(s) + 1] = Comma
    BY <1>1, <2>4, <2>7
  <2> QED
    BY <2>7, <2>8, <2>9
<1> QED
  BY <1>2, <1>3, <1>4

\* The rest of a text keeps what lies between colons.
LEMMA FromSeparate ==
    ASSUME NEW S, NEW t \in Seq(S), NEW i \in 1 .. Len(t) + 1, Separate(t)
    PROVE  Separate(From(t, i))
<1> DEFINE rest == From(t, i)
<1>1. /\ rest \in Seq(S) /\ Len(rest) = Len(t) - i + 1 /\ Len(t) \in Nat /\ i \in Int
      /\ \A j \in 1 .. Len(t) - i + 1 : rest[j] = t[j + i - 1]
  <2>1. /\ From(t, i) \in Seq(S) /\ Len(From(t, i)) = Len(t) - i + 1
        /\ \A j \in 1 .. Len(t) - i + 1 : From(t, i)[j] = t[j + i - 1]
    BY FromIs
  <2>2. Len(t) \in Nat /\ i \in Int
    OBVIOUS
  <2> QED
    BY <2>1, <2>2
<1> HIDE DEF rest
<1>0. DOMAIN t = 1 .. Len(t) /\ DOMAIN rest = 1 .. Len(t) - i + 1
  BY <1>1, DomainOf
<1>2. ASSUME NEW a \in 1 .. Len(t) - i + 1, NEW b \in 1 .. Len(t) - i + 1, a < b,
             rest[a] = ":", rest[b] = ":"
      PROVE  \E k \in 1 .. Len(t) - i + 1 : a < k /\ k < b /\ rest[k] = Comma
  <2> DEFINE c == a + i - 1
             d == b + i - 1
  <2>1. c \in DOMAIN t /\ d \in DOMAIN t /\ c < d /\ t[c] = ":" /\ t[d] = ":"
    BY <1>0, <1>1, <1>2
  <2> HIDE DEF c, d
  <2>2. PICK k \in DOMAIN t : c < k /\ k < d /\ t[k] = Comma
    BY <2>1 DEF Separate
  <2> DEFINE j == k - i + 1
  <2>3. a \in Int /\ b \in Int /\ k \in Int /\ i \in Int
    BY <1>0, <1>1, <2>2
  <2>4. a < j /\ j < b /\ j + i - 1 = k
    BY <2>2, <2>3 DEF c, d
  <2>5. j \in 1 .. Len(t) - i + 1
    <3> DEFINE n == Len(t) - i + 1
    <3>1. n \in Int /\ 1 <= a /\ b <= n
      BY <1>1
    <3>2. j \in Int
      BY <2>3
    <3> HIDE DEF j, n
    <3>3. j \in 1 .. n
      BY <2>3, <2>4, <3>1, <3>2
    <3> QED
      BY <3>3 DEF n
  <2> HIDE DEF j
  <2>6. rest[j] = Comma
    BY <1>1, <2>2, <2>4, <2>5
  <2> QED
    BY <2>4, <2>5, <2>6
<1> QED
  BY <1>0, <1>2 DEF Separate, rest
-----------------------------------------------------------------------------
(* FlattenSeq joins from the left.                                         *)

Joins(g, seqs, n) ==
    g = [i \in 1 .. n |-> IF i = 1 THEN seqs[i] ELSE g[i - 1] \o seqs[i]]

LEMMA JoinsExist ==
    ASSUME NEW seqs, NEW N \in Nat
    PROVE  \E g : Joins(g, seqs, N)
<1> DEFINE T == {n \in Nat : ~\E g : Joins(g, seqs, n)}
<1>1. SUFFICES ASSUME T # {} PROVE FALSE
  OBVIOUS
<1>2. PICK n \in T : \A m \in T : n <= m
  BY <1>1, LeastNat
<1>3. n \in Nat /\ ~\E g : Joins(g, seqs, n)
  OBVIOUS
<1>4. n # 0
  <2> DEFINE g == [i \in 1 .. 0 |-> 0]
  <2>1. Joins(g, seqs, 0)
    BY DEF Joins
  <2> QED
    BY <1>3, <2>1
<1>5. n - 1 \in Nat /\ n - 1 \notin T
  BY <1>2, <1>3, <1>4
<1>6. PICK g : Joins(g, seqs, n - 1)
  BY <1>5
<1> DEFINE h == [i \in 1 .. n |-> IF i = 1 THEN seqs[i] ELSE g[i - 1] \o seqs[i]]
<1>7. \A i \in 1 .. n - 1 : h[i] = g[i]
  <2> SUFFICES ASSUME NEW i \in 1 .. n - 1
               PROVE  h[i] = g[i]
    OBVIOUS
  <2>1. g[i] = IF i = 1 THEN seqs[i] ELSE g[i - 1] \o seqs[i]
    BY <1>6 DEF Joins
  <2>2. i \in 1 .. n
    BY <1>3
  <2> QED
    BY <2>1, <2>2
<1>8. h = [i \in 1 .. n |-> IF i = 1 THEN seqs[i] ELSE h[i - 1] \o seqs[i]]
  <2>1. \A i \in 1 .. n : i # 1 => i - 1 \in 1 .. n - 1
    BY <1>3
  <2>2. \A i \in 1 .. n : (IF i = 1 THEN seqs[i] ELSE g[i - 1] \o seqs[i]) = (IF i = 1 THEN seqs[i] ELSE h[i - 1] \o seqs[i])
    BY <1>7, <2>1
  <2> QED
    BY <2>2
<1> HIDE DEF h
<1>9. Joins(h, seqs, n)
  BY <1>8 DEF Joins
<1> QED
  BY <1>3, <1>9

LEMMA FlattenIs ==
    ASSUME NEW seqs, Len(seqs) \in Nat, Len(seqs) # 0
    PROVE  \E g : Joins(g, seqs, Len(seqs)) /\ FlattenSeq(seqs) = g[Len(seqs)]
<1> DEFINE g == CHOOSE f : f = [i \in 1 .. Len(seqs) |-> IF i = 1 THEN seqs[i] ELSE f[i - 1] \o seqs[i]]
<1>1. g = [i \in 1 .. Len(seqs) |-> IF i = 1 THEN seqs[i] ELSE g[i - 1] \o seqs[i]]
  BY JoinsExist DEF Joins
<1>2. FlattenSeq(seqs) = g[Len(seqs)]
  BY DEF FlattenSeq
<1> HIDE DEF g
<1> QED
  BY <1>1, <1>2 DEF Joins
-----------------------------------------------------------------------------
(* What the printed text is like.                                          *)

Ended(t) == t # <<>> /\ t[Len(t)] = "]"

LEMMA OneSign ==
    ASSUME NEW S, NEW c \in S
    PROVE  <<c>> \in Seq(S) /\ Len(<<c>>) = 1 /\ <<c>>[1] = c
  OBVIOUS

LEMMA TwoSigns ==
    ASSUME NEW S, NEW c \in S, NEW d \in S
    PROVE  <<c, d>> \in Seq(S) /\ Len(<<c, d>>) = 2 /\ <<c, d>>[1] = c /\ <<c, d>>[2] = d
  OBVIOUS

LEMMA PlainIs ==
    ASSUME NEW S, NEW t \in Seq(S)
    PROVE  /\ Plain(t) <=> Colons(t) = 0
           /\ Plain(t) => Separate(t)
<1>1. DOMAIN t = 1 .. Len(t)
  BY DomainOf
<1>2. Colons(t) = 0 <=> \A i \in 1 .. Len(t) : t[i] # ":"
  BY OccurrencesIs DEF Colons
<1> QED
  BY <1>1, <1>2 DEF Plain, Separate

LEMMA PlainJoin ==
    ASSUME NEW S, NEW s \in Seq(S), NEW u \in Seq(S)
    PROVE  Plain(s \o u) <=> Plain(s) /\ Plain(u)
<1> DEFINE w == s \o u
<1>1. /\ w \in Seq(S) /\ Len(w) = Len(s) + Len(u) /\ Len(s) \in Nat /\ Len(u) \in Nat
      /\ \A i \in 1 .. Len(s) : w[i] = s[i]
      /\ \A i \in 1 .. Len(u) : w[Len(s) + i] = u[i]
      /\ \A i \in 1 .. Len(s) + Len(u) :
             i \in 1 .. Len(s) \/ (i - Len(s) \in 1 .. Len(u) /\ w[i] = u[i - Len(s)])
  BY ConcatIs
<1> HIDE DEF w
<1>2. DOMAIN w = 1 .. Len(s) + Len(u) /\ DOMAIN s = 1 .. Len(s) /\ DOMAIN u = 1 .. Len(u)
  BY <1>1, DomainOf
<1>3. Plain(w) => Plain(s)
  <2>1. \A i \in 1 .. Len(s) : i \in 1 .. Len(s) + Len(u)
    BY <1>1
  <2> QED
    BY <1>1, <1>2, <2>1 DEF Plain
<1>4. Plain(w) => Plain(u)
  <2>1. \A i \in 1 .. Len(u) : Len(s) + i \in 1 .. Len(s) + Len(u)
    BY <1>1
  <2> QED
    BY <1>1, <1>2, <2>1 DEF Plain
<1>5. Plain(s) /\ Plain(u) => Plain(w)
  BY <1>1, <1>2 DEF Plain
<1> QED
  BY <1>3, <1>4, <1>5 DEF w

LEMMA QuotedIs ==
    ASSUME NEW s \in Seq(Chars)
    PROVE  /\ Quoted(s) \in Seq(Signs)
           /\ Colons(s) <= 1 => Separate(Quoted(s))
           /\ Plain(Quoted(s)) <=> Plain(s)
<1> DEFINE q == <<"'">>
<1>1. q \in Seq(Signs) /\ Plain(q)
  <2>1. "'" \in Signs
    BY DEF Signs
  <2>2. q \in Seq(Signs) /\ Len(q) = 1 /\ q[1] = "'"
    BY <2>1, OneSign
  <2> HIDE DEF q
  <2>3. DOMAIN q = 1 .. 1
    BY <2>2, DomainOf
  <2> QED
    BY <2>2, <2>3, OtherSigns DEF Plain
<1>2. s \in Seq(Signs)
  BY DEF Signs
<1>3. Quoted(s) = (q \o s) \o q
  BY DEF Quoted
<1> HIDE DEF q
<1>4. q \o s \in Seq(Signs) /\ (q \o s) \o q \in Seq(Signs)
  BY <1>1, <1>2, ConcatIs
<1>5. Plain((q \o s) \o q) <=> Plain(s)
  BY <1>1, <1>2, <1>4, PlainJoin
<1>6. ASSUME Colons(s) <= 1
      PROVE  Separate((q \o s) \o q)
  <2>1. Separate(s) /\ Separate(q)
    BY <1>1, <1>2, <1>6, FewSeparate, PlainIs
  <2>2. Separate(q \o s)
    BY <1>1, <1>2, <2>1, JoinSeparate
  <2> QED
    BY <1>1, <1>4, <2>1, <2>2, JoinSeparate
<1> QED
  BY <1>3, <1>4, <1>5, <1>6
\* Each piece of the text: a parameter in quotes, from the second on after a
\* comma.
LEMMA PieceIs ==
    ASSUME NEW p \in Seq(Seq(Chars)), NEW i \in DOMAIN p
    PROVE  LET piece == Separated(p)[i]
           IN /\ piece \in Seq(Signs)
              /\ i # 1 => piece # <<>> /\ piece[1] = Comma
              /\ Colons(p[i]) <= 1 => Separate(piece)
              /\ Plain(piece) <=> Plain(p[i])
<1>1. p[i] \in Seq(Chars)
  BY DomainOf
<1> DEFINE q == Quoted(p[i])
           gap == <<Comma, Space>>
<1>2. /\ q \in Seq(Signs)
      /\ Colons(p[i]) <= 1 => Separate(q)
      /\ Plain(q) <=> Plain(p[i])
  BY <1>1, QuotedIs
<1>3. Separated(p)[i] = IF i = 1 THEN q ELSE gap \o q
  BY DEF Separated
<1>4. gap \in Seq(Signs) /\ Plain(gap) /\ Len(gap) = 2 /\ gap[1] = Comma
  <2>1. Comma \in Signs /\ Space \in Signs
    BY InputAssumption DEF Signs
  <2>2. gap \in Seq(Signs) /\ Len(gap) = 2 /\ gap[1] = Comma /\ gap[2] = Space
    BY <2>1, TwoSigns
  <2> HIDE DEF gap
  <2>3. DOMAIN gap = 1 .. 2
    BY <2>2, DomainOf
  <2>4. \A k \in 1 .. 2 : k = 1 \/ k = 2
    OBVIOUS
  <2> QED
    BY <2>2, <2>3, <2>4, OtherSigns DEF Plain
<1> HIDE DEF q, gap
<1>5. CASE i = 1
  BY <1>2, <1>3, <1>5
<1>6. CASE i # 1
  <2> DEFINE piece == gap \o q
  <2>0. gap \in Seq(Signs) /\ q \in Seq(Signs)
    BY <1>2, <1>4
  <2>1. /\ piece \in Seq(Signs) /\ Len(piece) = Len(gap) + Len(q) /\ Len(q) \in Nat
        /\ \A k \in 1 .. Len(gap) : piece[k] = gap[k]
    BY <2>0, ConcatIs
  <2>2. Plain(piece) <=> Plain(p[i])
    BY <1>2, <1>4, PlainJoin
  <2>3. Colons(p[i]) <= 1 => Separate(piece)
    <3>1. Separate(gap)
      BY <1>4, PlainIs
    <3> QED
      BY <1>2, <1>4, <3>1, JoinSeparate
  <2> HIDE DEF piece
  <2>4. piece # <<>> /\ piece[1] = Comma
    BY <1>4, <2>1
  <2>5. Separated(p)[i] = piece
    BY <1>3, <1>6 DEF piece
  <2> QED
    BY <2>1, <2>2, <2>3, <2>4, <2>5
<1> QED
  BY <1>5, <1>6

\* The pieces joined.
Joined(p, n, t) ==
    /\ t \in Seq(Signs)
    /\ Regular(p) => Separate(t)
    /\ Plain(t) => \A i \in 1 .. n : Plain(p[i])

LEMMA PiecesJoined ==
    ASSUME NEW p \in Seq(Seq(Chars))
    PROVE  Joined(p, Len(p), FlattenSeq(Separated(p)))
<1> DEFINE sep == Separated(p)
<1>1. DOMAIN p = 1 .. Len(p) /\ Len(p) \in Nat
  BY DomainOf
<1>2. \A i \in 1 .. Len(p) :
          /\ sep[i] \in Seq(Signs)
          /\ i # 1 => sep[i] # <<>> /\ sep[i][1] = Comma
          /\ Colons(p[i]) <= 1 => Separate(sep[i])
          /\ Plain(sep[i]) => Plain(p[i])
  BY <1>1, PieceIs
<1>3. Len(sep) = Len(p)
  BY <1>1 DEF Separated
<1>4. CASE Len(p) = 0
  <2>1. sep = <<>>
    BY <1>1, <1>4 DEF Separated
  <2>2. FlattenSeq(sep) = <<>>
    BY <2>1 DEF FlattenSeq
  <2>3. Separate(<<>>) /\ <<>> \in Seq(Signs)
    BY DEF Separate
  <2> QED
    BY <1>4, <2>2, <2>3 DEF Joined
<1>5. CASE Len(p) # 0
  <2> HIDE DEF sep
  <2>1. PICK g : Joins(g, sep, Len(p)) /\ FlattenSeq(sep) = g[Len(p)]
    BY <1>1, <1>3, <1>5, FlattenIs
  <2>2. \A n \in 1 .. Len(p) : g[n] = IF n = 1 THEN sep[n] ELSE g[n - 1] \o sep[n]
    BY <2>1 DEF Joins
  <2> DEFINE Q == {n \in 1 .. Len(p) : Joined(p, n, g[n])}
  <2>3. 1 \in Q
    <3>1. 1 \in 1 .. Len(p) /\ g[1] = sep[1]
      BY <1>1, <1>5, <2>2
    <3>2. Regular(p) => Separate(sep[1])
      BY <1>1, <1>2, <3>1 DEF Regular
    <3>3. \A i \in 1 .. 1 : i = 1
      OBVIOUS
    <3>4. Plain(sep[1]) => \A i \in 1 .. 1 : Plain(p[i])
      BY <1>2, <3>1, <3>3
    <3> QED
      BY <1>2, <3>1, <3>2, <3>4 DEF Joined
  <2>4. ASSUME NEW n \in 2 .. Len(p), n - 1 \in Q
        PROVE  n \in Q
    <3>1. n \in 1 .. Len(p) /\ n # 1 /\ n \in Int
      BY <1>1
    <3>2. g[n] = g[n - 1] \o sep[n]
      BY <2>2, <3>1
    <3>3. Joined(p, n - 1, g[n - 1])
      BY <2>4
    <3>4. g[n - 1] \in Seq(Signs) /\ sep[n] \in Seq(Signs) /\ sep[n] # <<>> /\ sep[n][1] = Comma
      BY <1>2, <3>1, <3>3 DEF Joined
    <3>5. g[n] \in Seq(Signs)
      BY <3>2, <3>4, ConcatIs
    <3>6. ASSUME Regular(p)
          PROVE  Separate(g[n])
      <4>1. Separate(g[n - 1])
        BY <3>3, <3>6 DEF Joined
      <4>2. Separate(sep[n])
        BY <1>1, <1>2, <3>1, <3>6 DEF Regular
      <4> QED
        BY <3>2, <3>4, <4>1, <4>2, JoinSeparate
    <3>7. ASSUME Plain(g[n]), NEW i \in 1 .. n
          PROVE  Plain(p[i])
      <4>1. Plain(g[n - 1]) /\ Plain(sep[n])
        BY <3>2, <3>4, <3>7, PlainJoin
      <4>2. CASE i = n
        BY <1>2, <3>1, <4>1, <4>2
      <4>3. CASE i # n
        <5>1. i \in 1 .. n - 1
          BY <3>1, <4>3
        <5> QED
          BY <3>3, <4>1, <5>1 DEF Joined
      <4> QED
        BY <4>2, <4>3
    <3> QED
      BY <3>1, <3>5, <3>6, <3>7 DEF Joined
  <2> HIDE DEF Q
  <2>5. \A n \in 1 .. Len(p) : n \in Q
    BY <1>1, <2>3, <2>4, UpTo
  <2>6. Len(p) \in 1 .. Len(p)
    BY <1>1, <1>5
  <2>7. Joined(p, Len(p), g[Len(p)])
    BY <2>5, <2>6 DEF Q
  <2> QED
    BY <2>1, <2>7 DEF sep
<1> QED
  BY <1>4, <1>5

\* The text as DecodePack finds it.
LEMMA PrintedIs ==
    ASSUME NEW p \in Inputs
    PROVE  /\ Printed(p) \in Seq(Signs) /\ Ended(Printed(p))
           /\ Regular(p) => Separate(Printed(p))
           /\ GetParamsNum(Printed(p)) = 0 => \A i \in DOMAIN p : Colons(p[i]) = 0
<1>1. p \in Seq(Seq(Chars))
  BY InputAssumption
<1>2. DOMAIN p = 1 .. Len(p) /\ \A i \in DOMAIN p : p[i] \in Seq(Chars)
  BY <1>1, DomainOf
<1> DEFINE t == FlattenSeq(Separated(p))
           open == <<"[">>
           close == <<"]">>
<1>3. t \in Seq(Signs) /\ (Regular(p) => Separate(t)) /\ (Plain(t) => \A i \in 1 .. Len(p) : Plain(p[i]))
  BY <1>1, PiecesJoined DEF Joined
<1>4. open \in Seq(Signs) /\ Plain(open)
  <2>1. open \in Seq(Signs) /\ Len(open) = 1 /\ open[1] = "["
    BY OneSign DEF Signs
  <2> HIDE DEF open
  <2>2. DOMAIN open = 1 .. 1
    BY <2>1, DomainOf
  <2> QED
    BY <2>1, <2>2, OtherSigns DEF Plain
<1>5. close \in Seq(Signs) /\ Plain(close) /\ Len(close) = 1 /\ close[1] = "]"
  <2>1. "]" \in Signs
    BY InputAssumption DEF Signs
  <2>2. close \in Seq(Signs) /\ Len(close) = 1 /\ close[1] = "]"
    BY <2>1, OneSign
  <2> HIDE DEF close
  <2>3. DOMAIN close = 1 .. 1
    BY <2>2, DomainOf
  <2> QED
    BY <2>2, <2>3, OtherSigns DEF Plain
<1>6. Printed(p) = (open \o t) \o close
  BY DEF Printed
<1> HIDE DEF t, open, close
<1>7. open \o t \in Seq(Signs)
  BY <1>3, <1>4, ConcatIs
<1> DEFINE u == open \o t
           w == u \o close
<1>8. w \in Seq(Signs) /\ Len(w) = Len(u) + Len(close) /\ Len(u) \in Nat
      /\ \A i \in 1 .. Len(close) : w[Len(u) + i] = close[i]
  <2> HIDE DEF u
  <2>1. u \in Seq(Signs)
    BY <1>7 DEF u
  <2> QED
    BY <1>5, <2>1, ConcatIs
<1>9. Ended(w)
  <2> HIDE DEF u, w
  <2>1. Len(w) = Len(u) + 1 /\ w[Len(u) + 1] = "]"
    BY <1>5, <1>8
  <2> QED
    BY <1>8, <2>1 DEF Ended
<1>10. Plain(w) <=> Plain(t)
  <2>1. Plain(u) <=> Plain(t)
    BY <1>3, <1>4, PlainJoin
  <2> HIDE DEF u
  <2>2. u \in Seq(Signs)
    BY <1>7 DEF u
  <2> QED
    BY <1>5, <2>1, <2>2, PlainJoin
<1>11. ASSUME Regular(p)
       PROVE  Separate(w)
  <2>1. Separate(t) /\ Separate(open) /\ Separate(close)
    BY <1>3, <1>4, <1>5, <1>11, PlainIs
  <2>2. Separate(u)
    BY <1>3, <1>4, <2>1, JoinSeparate
  <2> HIDE DEF u
  <2>3. u \in Seq(Signs)
    BY <1>7 DEF u
  <2> QED
    BY <1>5, <2>1, <2>2, <2>3, JoinSeparate
<1> HIDE DEF w
<1>12. ASSUME GetParamsNum(w) = 0
       PROVE  \A i \in DOMAIN p : Colons(p[i]) = 0
  <2>1. Plain(w)
    BY <1>8, <1>12, PlainIs DEF GetParamsNum, Colons
  <2>2. \A i \in DOMAIN p : Plain(p[i])
    BY <1>2, <1>3, <1>10, <2>1
  <2> QED
    BY <1>2, <2>2, PlainIs
<1>13. Printed(p) = w
  BY <1>6 DEF w
<1> QED
  BY <1>8, <1>9, <1>11, <1>12, <1>13
-----------------------------------------------------------------------------
(* The part of it that fits.                                               *)

LEMMA PrefixTyped ==
    ASSUME NEW S, NEW t \in Seq(S), NEW n \in 0 .. Len(t)
    PROVE  SubSeq(t, 1, n) \in Seq(S)
  OBVIOUS

\* Sequences over S are joined to one over S.
LEMMA FlattenTyped ==
    ASSUME NEW S, NEW seqs \in Seq(Seq(S))
    PROVE  FlattenSeq(seqs) \in Seq(S)
<1> DEFINE N == Len(seqs)
<1>1. N \in Nat /\ \A i \in 1 .. N : seqs[i] \in Seq(S)
  BY DomainOf
<1>2. CASE N = 0
  <2>1. seqs = <<>>
    BY <1>2
  <2> QED
    BY <2>1 DEF FlattenSeq
<1>3. CASE N # 0
  <2>1. PICK g : Joins(g, seqs, N) /\ FlattenSeq(seqs) = g[N]
    BY <1>1, <1>3, FlattenIs
  <2> HIDE DEF N
  <2>2. \A i \in 1 .. N : g[i] = IF i = 1 THEN seqs[i] ELSE g[i - 1] \o seqs[i]
    BY <2>1 DEF Joins
  <2>3. \A i \in 1 .. N : g[i] \in Seq(S)
    <3> DEFINE Bad == {i \in Nat : i \in 1 .. N /\ g[i] \notin Seq(S)}
    <3>1. SUFFICES ASSUME Bad # {} PROVE FALSE
      BY <1>1
    <3>2. PICK i \in Bad : \A k \in Bad : i <= k
      BY <3>1, LeastNat
    <3>3. i \in 1 .. N /\ g[i] \notin Seq(S) /\ i \in Nat
      OBVIOUS
    <3>4. i # 1
      BY <1>1, <2>2, <3>3
    <3>5. i - 1 \in 1 .. N /\ i - 1 \in Nat /\ ~(i <= i - 1)
      BY <1>1, <3>3, <3>4
    <3>6. i - 1 \notin Bad
      BY <3>2, <3>5
    <3>7. g[i - 1] \in Seq(S)
      BY <3>5, <3>6
    <3>8. g[i - 1] \o seqs[i] \in Seq(S)
      BY <1>1, <3>3, <3>7, ConcatIs
    <3> QED
      BY <2>2, <3>3, <3>4, <3>8
  <2>4. N \in 1 .. N
    BY <1>1, <1>3
  <2> QED
    BY <2>1, <2>3, <2>4
<1> QED
  BY <1>2, <1>3

LEMMA PackLenIs ==
    ASSUME NEW p \in Inputs
    PROVE  PackLen(p) \in Nat /\ PackLen(p) >= 1
<1> DEFINE S == Chars \cup Int
           parts == [i \in DOMAIN p |-> StrHeader(Len(p[i])) \o p[i]]
<1>1. p \in Seq(Seq(Chars))
  BY InputAssumption
<1>2. DOMAIN p = 1 .. Len(p) /\ Len(p) \in Nat /\ \A i \in DOMAIN p : p[i] \in Seq(Chars)
  BY <1>1, DomainOf
<1>3. ASSUME NEW i \in DOMAIN p
      PROVE  StrHeader(Len(p[i])) \o p[i] \in Seq(S)
  <2>1. Len(p[i]) \in Nat /\ p[i] \in Seq(S)
    <3>1. p[i] \in Seq(Chars)
      BY <1>2
    <3>2. \A s \in Seq(Chars) : s \in Seq(S) /\ Len(s) \in Nat
      OBVIOUS
    <3> QED
      BY <3>1, <3>2
  <2> DEFINE n == Len(p[i])
  <2>2. n \in Nat => StrHeader(n) \in Seq(S)
    <3> HIDE DEF n
    <3>1. n \in Nat => 160 + n \in S /\ 217 \in S /\ n \in S
      OBVIOUS
    <3> HIDE DEF S
    <3>2. n \in Nat => <<160 + n>> \in Seq(S) /\ <<217, n>> \in Seq(S)
      BY <3>1
    <3> QED
      BY <3>2 DEF StrHeader
  <2> HIDE DEF n, S
  <2>3. StrHeader(Len(p[i])) \in Seq(S)
    BY <2>1, <2>2 DEF n
  <2> QED
    BY <2>1, <2>3, ConcatIs
<1> HIDE DEF S
<1>4. parts \in Seq(Seq(S))
  BY <1>2, <1>3
<1>5. Packed(p) \in Seq(S)
  <2>1. FlattenSeq(parts) \in Seq(S)
    <3> HIDE DEF parts
    <3> QED
      BY <1>4, FlattenTyped
  <2> QED
    BY <2>1 DEF Packed
<1>6. Len(Packed(p)) \in Nat
  BY <1>5
<1> QED
  BY <1>6 DEF PackLen

LEMMA TextIs ==
    ASSUME NEW p \in Inputs
    PROVE  /\ Text(p) \in Seq(Signs)
           /\ GetParamsNum(Text(p)) \in Nat /\ GetParamsNum(Text(p)) = Occurrences(":", Text(p))
<1>1. Text(p) \in Seq(Signs)
  <2>1. Printed(p) \in Seq(Signs)
    BY PrintedIs
  <2>2. CASE Len(p) > 15
    <3>1. "[" \in Signs /\ "]" \in Signs
      BY InputAssumption DEF Signs
    <3>2. <<"[", "]">> \in Seq(Signs)
      BY <3>1
    <3> QED
      BY <2>2, <3>2 DEF Text, EmptyArray
  <2>3. CASE ~(Len(p) > 15) /\ Len(Printed(p)) < 2 * PackLen(p)
    BY <2>1, <2>3 DEF Text
  <2>4. CASE ~(Len(p) > 15) /\ ~(Len(Printed(p)) < 2 * PackLen(p))
    <3> DEFINE t == Printed(p)
               n == PackLen(p)
    <3>1. t \in Seq(Signs) /\ n \in Nat /\ n >= 1 /\ ~(Len(t) < 2 * n) /\ Text(p) = SubSeq(t, 1, 2 * n - 1)
      BY <2>1, <2>4, PackLenIs DEF Text
    <3> HIDE DEF t, n
    <3>2. Len(t) \in Nat
      BY <3>1
    <3>3. 2 * n - 1 \in 0 .. Len(t)
      BY <3>1, <3>2
    <3> QED
      BY <3>1, <3>3, PrefixTyped
  <2> QED
    BY <2>2, <2>3, <2>4
<1> DEFINE t == Text(p)
<1>2. t \in Seq(Signs)
  BY <1>1
<1> HIDE DEF t
<1>3. GetParamsNum(t) \in Nat /\ GetParamsNum(t) = Occurrences(":", t)
  BY <1>2, OccurrencesIs DEF GetParamsNum
<1> QED
  BY <1>2, <1>3 DEF t
-----------------------------------------------------------------------------
(* One round of GetParamsArr on a text of parameters with a colon each.    *)

LEMMA FromEnded ==
    ASSUME NEW t \in Seq(Signs), NEW i \in 1 .. Len(t), Ended(t)
    PROVE  Ended(From(t, i))
<1>1. /\ From(t, i) \in Seq(Signs) /\ Len(From(t, i)) = Len(t) - i + 1
      /\ \A j \in 1 .. Len(t) - i + 1 : From(t, i)[j] = t[j + i - 1]
  <2>1. i \in 1 .. Len(t) + 1
    OBVIOUS
  <2> QED
    BY <2>1, FromIs
<1>2. Len(t) \in Nat /\ i \in Int /\ 1 <= i /\ i <= Len(t) /\ t[Len(t)] = "]"
  BY DEF Ended
<1> DEFINE n == Len(t) - i + 1
<1>3. n \in 1 .. Len(t) - i + 1 /\ n + i - 1 = Len(t) /\ n > 0
  BY <1>2
<1>4. From(t, i)[n] = "]"
  BY <1>1, <1>2, <1>3
<1> QED
  BY <1>1, <1>3, <1>4 DEF Ended

LEMMA TailIs ==
    ASSUME NEW t \in Seq(Signs), Place(":", t) # 0, NEW tail, tail = From(t, Place(":", t) + 1)
    PROVE  /\ tail \in Seq(Signs)
           /\ Occurrences(":", tail) = Occurrences(":", t) - 1
           /\ Separate(t) => Separate(tail)
           /\ Ended(t) => Ended(tail)
           /\ Separate(t) /\ Occurrences(":", tail) # 0 => Place(Comma, tail) # 0
<1> DEFINE P == Place(":", t)
<1>0. tail = From(t, P + 1)
  OBVIOUS
<1>1. P \in 1 .. Len(t) /\ t[P] = ":" /\ Len(t) \in Nat /\ P \in Nat /\ P + 1 \in 1 .. Len(t) + 1
  <2>1. P \in 1 .. Len(t) /\ t[P] = ":"
    BY PlaceIs
  <2>2. Len(t) \in Nat
    OBVIOUS
  <2> HIDE DEF P
  <2> QED
    BY <2>1, <2>2
<1>2. Occurrences(":", tail) = Occurrences(":", t) - 1
  BY <1>0, <1>1, OccurrencesFrom
<1> HIDE DEF P
<1>3. /\ tail \in Seq(Signs) /\ Len(tail) = Len(t) - P
      /\ \A j \in 1 .. Len(t) - P : tail[j] = t[j + P]
  <2>1. /\ tail \in Seq(Signs) /\ Len(tail) = Len(t) - (P + 1) + 1
        /\ \A j \in 1 .. Len(t) - (P + 1) + 1 : tail[j] = t[j + (P + 1) - 1]
    BY <1>0, <1>1, FromIs
  <2>2. Len(t) - (P + 1) + 1 = Len(t) - P /\ \A j \in 1 .. Len(t) - P : j + (P + 1) - 1 = j + P
    BY <1>1
  <2> QED
    BY <2>1, <2>2
<1>4. Separate(t) => Separate(tail)
  BY <1>0, <1>1, FromSeparate
<1>5. ASSUME Ended(t)
      PROVE  Ended(tail)
  <2>1. P # Len(t)
    BY <1>1, <1>5, OtherSigns DEF Ended
  <2>2. P + 1 \in 1 .. Len(t)
    BY <1>1, <2>1
  <2> QED
    BY <1>0, <1>5, <2>2, FromEnded
<1>6. ASSUME Separate(t), Occurrences(":", tail) # 0
      PROVE  Place(Comma, tail) # 0
  <2>1. PICK j \in 1 .. Len(tail) : tail[j] = ":"
    BY <1>3, <1>6, OccurrencesIs
  <2>2. j \in 1 .. Len(t) - P /\ j \in Int
    BY <1>3, <2>1
  <2>3. P \in DOMAIN t /\ j + P \in DOMAIN t /\ P < j + P /\ t[j + P] = ":"
    BY <1>1, <1>3, <2>1, <2>2
  <2> DEFINE m == j + P
  <2>4. m \in DOMAIN t /\ P < m /\ t[m] = ":" /\ m \in Int
    BY <1>1, <2>2, <2>3
  <2> HIDE DEF m
  <2>5. PICK k \in DOMAIN t : P < k /\ k < m /\ t[k] = Comma
    BY <1>1, <1>6, <2>3, <2>4 DEF Separate
  <2> DEFINE l == k - P
  <2>6. l \in 1 .. Len(t) - P /\ l + P = k
    <3>1. k \in 1 .. Len(t) /\ k \in Int
      BY <2>5
    <3> QED
      BY <1>1, <2>5, <3>1
  <2> HIDE DEF l
  <2>7. l \in 1 .. Len(tail) /\ tail[l] = Comma
    BY <1>3, <2>5, <2>6
  <2> QED
    BY <1>3, <2>7, PlaceIs
<1> QED
  BY <1>2, <1>3, <1>4, <1>5, <1>6

\* No colon stands before the comma that ends a value: the first one after the
\* comma would not be separate from the value's own.
LEMMA CommaFirst ==
    ASSUME NEW t \in Seq(Signs), Separate(t), Place(":", t) # 0, NEW tail, tail = From(t, Place(":", t) + 1)
    PROVE  \A j \in 1 .. Len(tail) : j < Place(Comma, tail) => tail[j] # ":"
<1> DEFINE P == Place(":", t)
<1>0. tail = From(t, P + 1)
  OBVIOUS
<1>1. P \in 1 .. Len(t) /\ t[P] = ":" /\ Len(t) \in Nat /\ P \in Nat /\ P + 1 \in 1 .. Len(t) + 1
  <2>1. P \in 1 .. Len(t) /\ t[P] = ":"
    BY PlaceIs
  <2>2. Len(t) \in Nat
    OBVIOUS
  <2> HIDE DEF P
  <2> QED
    BY <2>1, <2>2
<1> HIDE DEF P
<1>2. /\ tail \in Seq(Signs) /\ Len(tail) = Len(t) - P
      /\ \A j \in 1 .. Len(t) - P : tail[j] = t[j + P]
  <2>1. /\ tail \in Seq(Signs) /\ Len(tail) = Len(t) - (P + 1) + 1
        /\ \A j \in 1 .. Len(t) - (P + 1) + 1 : tail[j] = t[j + (P + 1) - 1]
    BY <1>0, <1>1, FromIs
  <2>2. Len(t) - (P + 1) + 1 = Len(t) - P /\ \A j \in 1 .. Len(t) - P : j + (P + 1) - 1 = j + P
    BY <1>1
  <2> QED
    BY <2>1, <2>2
<1> SUFFICES ASSUME NEW j \in 1 .. Len(tail), j < Place(Comma, tail), tail[j] = ":"
             PROVE  FALSE
  OBVIOUS
<1> DEFINE m == j + P
<1>3. j \in 1 .. Len(t) - P /\ j \in Int /\ m \in 1 .. Len(t) /\ P < m /\ m \in Int
  <2>1. j \in 1 .. Len(t) - P
    BY <1>2
  <2> QED
    BY <1>1, <2>1
<1>4. t[m] = ":"
  BY <1>2, <1>3
<1>5. P \in DOMAIN t /\ m \in DOMAIN t
  BY <1>1, <1>3
<1> HIDE DEF m
<1>6. PICK k \in DOMAIN t : P < k /\ k < m /\ t[k] = Comma
  BY <1>1, <1>3, <1>4, <1>5 DEF Separate
<1>7. k \in 1 .. Len(t) /\ k \in Int
  BY <1>6
<1> DEFINE l == k - P
<1>8. l \in 1 .. Len(t) - P /\ l + P = k /\ l < j /\ l \in Int
  BY <1>1, <1>3, <1>6, <1>7 DEF m
<1> HIDE DEF l
<1>9. l \in 1 .. Len(tail) /\ tail[l] = Comma
  BY <1>2, <1>6, <1>8
<1>10. /\ Place(Comma, tail) \in 1 .. Len(tail)
       /\ \A i \in 1 .. Len(tail) : i < Place(Comma, tail) => tail[i] # Comma
  BY <1>2, <1>9, PlaceIs
<1>11. Place(Comma, tail) \in Int /\ l < Place(Comma, tail)
  BY <1>3, <1>8, <1>10
<1> QED
  BY <1>9, <1>10, <1>11
-----------------------------------------------------------------------------
(* The inductive invariant.                                                *)

Texts == text \in Seq(Signs) /\ arr \in Seq(Seq(Signs))

\* While the values of parameters with one colon each are cut out of a whole
\* text, it has as many colons as values are missing, a comma between any two of
\* them and the bracket at its end.
Aligned ==
    at = "scan" /\ Regular(sent) /\ Fits(sent) =>
        Separate(text) /\ Ended(text) /\ Occurrences(":", text) = num - Len(arr)

\* Without an array of its own a job comes to FreeParamsArr only if it had no
\* parameter to decode.
NothingKept ==
    at = "free" /\ held # "live" /\ Fits(sent) => \A i \in DOMAIN sent : Colons(sent[i]) = 0

\* All slots of the array are filled if each parameter has one colon at most.
Filled ==
    at \in {"run", "free"} /\ held = "live" /\ Regular(sent) /\ Fits(sent) => Len(arr) = num

IInv == TypeOK /\ Texts /\ Aligned /\ NothingKept /\ Filled /\ UndefinedOnlyIf

LEMMA NotRegular ==
    ASSUME NEW p \in Inputs \cup {<<>>}, ~Regular(p)
    PROVE  \E i \in DOMAIN p : Colons(p[i]) > 1
<1>1. p \in Seq(Seq(Chars))
  <2>1. CASE p \in Inputs
    BY <2>1, InputAssumption
  <2>2. CASE p = <<>>
    BY <2>2
  <2> QED
    BY <2>1, <2>2
<1>2. PICK i \in DOMAIN p : ~(Colons(p[i]) <= 1)
  BY DEF Regular
<1>3. p[i] \in Seq(Chars)
  BY <1>1, DomainOf
<1>4. Colons(p[i]) \in Nat
  BY <1>3, OccurrencesIs DEF Colons
<1> QED
  BY <1>2, <1>4

LEMMA InitIInv == Init => IInv
<1> SUFFICES ASSUME Init
             PROVE  IInv
  OBVIOUS
<1>1. TypeOK
  BY DEF Init, TypeOK
<1>2. Texts
  BY DEF Init, Texts
<1>3. Aligned /\ NothingKept /\ Filled /\ UndefinedOnlyIf
  BY DEF Init, Aligned, NothingKept, Filled, UndefinedOnlyIf
<1> QED
  BY <1>1, <1>2, <1>3 DEF IInv

LEMMA PrintUnsetIInv ==
    ASSUME IInv, proc = "run", NEW p \in Inputs, PrintUnset(p)
    PROVE  IInv'
<1>1. /\ at = "idle" /\ at' = at /\ sent' = p /\ proc' = "crash"
      /\ text' = text /\ num' = num /\ arr' = arr /\ held' = held
  BY DEF PrintUnset
<1>2. TypeOK'
  BY <1>1 DEF IInv, TypeOK
<1>3. Texts'
  BY <1>1 DEF IInv, Texts
<1>4. Aligned' /\ Filled' /\ NothingKept' /\ UndefinedOnlyIf'
  BY <1>1 DEF Aligned, Filled, NothingKept, UndefinedOnlyIf
<1> QED
  BY <1>2, <1>3, <1>4 DEF IInv

LEMMA DecodeIInv ==
    ASSUME IInv, proc = "run", NEW p \in Inputs, Decode(p)
    PROVE  IInv'
<1> DEFINE t == Text(p)
<1>1. t \in Seq(Signs) /\ GetParamsNum(t) \in Nat /\ GetParamsNum(t) = Occurrences(":", t)
  BY TextIs
<1>2. Fits(p) => Ended(t) /\ (Regular(p) => Separate(t))
  BY PrintedIs DEF Fits
<1>3. /\ at' = "scan" /\ sent' = p /\ text' = t /\ arr' = <<>> /\ num' = GetParamsNum(t)
      /\ proc' = "run" /\ held' = held /\ at = "idle"
  BY DEF Decode
<1> HIDE DEF t
<1>4. TypeOK'
  BY <1>1, <1>3 DEF IInv, TypeOK
<1>5. Texts'
  BY <1>1, <1>3 DEF Texts
<1>6. Aligned'
  BY <1>1, <1>2, <1>3 DEF Aligned
<1>7. NothingKept' /\ Filled' /\ UndefinedOnlyIf'
  BY <1>3 DEF NothingKept, Filled, UndefinedOnlyIf
<1> QED
  BY <1>4, <1>5, <1>6, <1>7 DEF IInv

LEMMA DecodeNothingIInv ==
    ASSUME IInv, proc = "run", NEW p \in Inputs, DecodeNothing(p)
    PROVE  IInv'
<1>1. Fits(p) => \A i \in DOMAIN p : Colons(p[i]) = 0
  BY PrintedIs DEF DecodeNothing, Fits
<1>2. /\ at = "idle" /\ at' = "free" /\ sent' = p /\ proc' \in {"run", "ub"}
      /\ text' = text /\ num' = num /\ arr' = arr /\ held' = held
  BY DEF DecodeNothing
<1>3. TypeOK' /\ held # "live"
  BY <1>2 DEF IInv, TypeOK
<1>4. Texts'
  BY <1>2 DEF IInv, Texts
<1>5. Aligned' /\ Filled'
  BY <1>2, <1>3 DEF Aligned, Filled
<1>6. NothingKept' /\ UndefinedOnlyIf'
  BY <1>1, <1>2, <1>3 DEF NothingKept, UndefinedOnlyIf
<1> QED
  BY <1>3, <1>4, <1>5, <1>6 DEF IInv

LEMMA DecodedIInv ==
    ASSUME IInv, proc = "run", Decoded
    PROVE  IInv'
<1>1. /\ at = "scan" /\ ~MoreValues /\ at' = "run" /\ held' = "live"
      /\ proc' = proc /\ num' = num /\ sent' = sent /\ text' = text /\ arr' = arr
  BY DEF Decoded, job
<1>2. TypeOK' /\ Texts'
  BY <1>1 DEF IInv, TypeOK, Texts
<1>3. NothingKept' /\ UndefinedOnlyIf' /\ Aligned'
  BY <1>1 DEF NothingKept, UndefinedOnlyIf, Aligned
<1>4. ASSUME Regular(sent), Fits(sent)
      PROVE  Len(arr) = num
  <2>1. text \in Seq(Signs) /\ Occurrences(":", text) = num - Len(arr) /\ num \in Nat
        /\ Len(arr) <= num /\ Len(arr) \in Nat
    BY <1>1, <1>4 DEF IInv, Texts, Aligned, TypeOK
  <2>2. CASE Place(":", text) = 0
    <3>1. Occurrences(":", text) = 0
      BY <2>1, <2>2, PlaceIs, OccurrencesIs
    <3> QED
      BY <2>1, <3>1
  <2>3. CASE Place(":", text) # 0
    <3>1. ~(Len(arr) < num)
      BY <1>1, <2>3 DEF MoreValues
    <3> QED
      BY <2>1, <3>1
  <2> QED
    BY <2>2, <2>3
<1>5. Filled'
  BY <1>1, <1>4 DEF Filled
<1> QED
  BY <1>2, <1>3, <1>5 DEF IInv

LEMMA DoIInv ==
    ASSUME IInv, proc = "run", Do
    PROVE  IInv'
<1>1. /\ at = "run" /\ at' = "free" /\ held' = held
      /\ proc' = proc /\ num' = num /\ sent' = sent /\ text' = text /\ arr' = arr
  BY DEF Do, job
<1>2. TypeOK' /\ Texts' /\ held = "live"
  BY <1>1 DEF IInv, TypeOK, Texts
<1>3. NothingKept' /\ UndefinedOnlyIf' /\ Aligned' /\ Filled'
  BY <1>1, <1>2 DEF IInv, NothingKept, UndefinedOnlyIf, Aligned, Filled
<1> QED
  BY <1>2, <1>3 DEF IInv

LEMMA FreeIInv ==
    ASSUME IInv, proc = "run", Free
    PROVE  IInv'
<1>1. /\ at' = "idle" /\ held' = "freed" /\ proc' = proc
      /\ num' = num /\ sent' = <<>> /\ text' = <<>> /\ arr' = <<>>
  BY DEF Free, Released
<1>2. TypeOK' /\ Texts'
  BY <1>1 DEF IInv, TypeOK, Texts
<1>3. NothingKept' /\ UndefinedOnlyIf' /\ Aligned' /\ Filled'
  BY <1>1 DEF NothingKept, UndefinedOnlyIf, Aligned, Filled
<1> QED
  BY <1>2, <1>3 DEF IInv

LEMMA FreeFailsIInv ==
    ASSUME IInv, proc = "run", FreeFails
    PROVE  IInv'
<1>1. /\ at = "free" /\ at' = at /\ held' = held
      /\ num' = num /\ sent' = sent /\ text' = text /\ arr' = arr
      /\ proc' \in {"abort", "ub"}
  BY DEF FreeFails, job
<1>2. TypeOK' /\ Texts'
  BY <1>1 DEF IInv, TypeOK, Texts
<1>3. NothingKept' /\ Aligned' /\ Filled'
  BY <1>1 DEF IInv, NothingKept, Aligned, Filled
<1>4. UndefinedOnlyIf'
  <2>1. CASE held # "live"
    <3>1. Fits(sent) => \A i \in DOMAIN sent : Colons(sent[i]) = 0
      BY <1>1, <2>1 DEF IInv, NothingKept
    <3> QED
      BY <1>1, <2>1, <3>1 DEF UndefinedOnlyIf
  <2>2. CASE held = "live" /\ proc' = "ub"
    <3>1. Len(arr) < num /\ num \in Nat /\ Len(arr) \in Nat
      BY <2>2 DEF FreeFails, IInv, TypeOK, Texts
    <3>2. ~(Regular(sent) /\ Fits(sent))
      BY <1>1, <2>2, <3>1 DEF IInv, Filled
    <3>3. ~Fits(sent) \/ \E i \in DOMAIN sent : Colons(sent[i]) > 1
      BY <3>2, NotRegular DEF IInv, TypeOK
    <3> QED
      BY <1>1, <2>2, <3>3 DEF UndefinedOnlyIf
  <2>3. CASE proc' # "ub"
    BY <2>3 DEF UndefinedOnlyIf
  <2> QED
    BY <2>1, <2>2, <2>3
<1> QED
  BY <1>2, <1>3, <1>4 DEF IInv
\* What is taken for a value is made of characters of the text.
LEMMA ValueTyped ==
    ASSUME NEW tail \in Seq(Signs), NEW c, num > 1 => Place(c, tail) # 0
    PROVE  LET value == Cut(tail, Place(c, tail) - 1)
           IN value \in Seq(Signs) /\ SubStrLastVal(value) \in Seq(Signs)
<1> DEFINE i == Place(c, tail) - 1
           value == Cut(tail, i)
<1>1. value \in Seq(Signs)
  <2>1. CASE num = 1 \/ i = 0
    BY <2>1 DEF Cut
  <2>2. CASE ~(num = 1 \/ i = 0)
    <3>1. value = SubSeq(tail, 1, i - 1)
      BY <2>2 DEF Cut
    <3>2. Place(c, tail) = 0 \/ Place(c, tail) \in 1 .. Len(tail)
      BY PlaceIs
    <3>3. CASE i - 1 \in 0 .. Len(tail)
      BY <3>1, <3>3, PrefixTyped
    <3>4. CASE i - 1 \notin 0 .. Len(tail)
      <4>1. i - 1 = -2
        <5>1. Len(tail) \in Nat
          OBVIOUS
        <5> QED
          BY <2>2, <3>2, <3>4, <5>1
      <4>2. SubSeq(tail, 1, -2) = <<>>
        OBVIOUS
      <4> QED
        BY <3>1, <4>1, <4>2
    <3> QED
      BY <3>3, <3>4
  <2> QED
    BY <2>1, <2>2
<1> HIDE DEF value
<1>2. SubStrLastVal(value) \in Seq(Signs)
  <2>1. CASE Place("]", value) = 0 \/ Len(value) - 2 < 2
    BY <1>1, <2>1 DEF SubStrLastVal
  <2>2. CASE ~(Place("]", value) = 0 \/ Len(value) - 2 < 2)
    <3>1. SubStrLastVal(value) = SubSeq(value, 1, Len(value) - 2)
      BY <2>2 DEF SubStrLastVal
    <3>2. Len(value) \in Nat
      BY <1>1
    <3>3. Len(value) - 2 \in 0 .. Len(value)
      BY <2>2, <3>2
    <3> QED
      BY <1>1, <3>1, <3>3, PrefixTyped
  <2> QED
    BY <2>1, <2>2
<1> QED
  BY <1>1, <1>2 DEF value

\* The stop of a value is there, and what follows it is a text of the same kind.
LEMMA StopFound ==
    ASSUME IInv, at = "scan", MoreValues, Regular(sent), Fits(sent), num > 1,
           NEW tail, tail = From(text, Place(":", text) + 1)
    PROVE  /\ Place(Stop, tail) # 0 /\ \A j \in 1 .. Len(tail) : j < Place(Stop, tail) => tail[j] # ":"
           /\ Separate(From(tail, Place(Stop, tail))) /\ Ended(From(tail, Place(Stop, tail)))
           /\ Occurrences(":", From(tail, Place(Stop, tail))) = num - Len(arr) - 1
<1>1. /\ text \in Seq(Signs) /\ Separate(text) /\ Ended(text) /\ Place(":", text) # 0
      /\ Occurrences(":", text) = num - Len(arr) /\ Len(arr) < num
      /\ num \in Nat /\ Len(arr) \in Nat
  BY DEF IInv, Texts, Aligned, MoreValues, TypeOK
<1>2. /\ tail \in Seq(Signs) /\ Separate(tail) /\ Ended(tail)
      /\ Occurrences(":", tail) = Occurrences(":", text) - 1
      /\ Occurrences(":", tail) # 0 => Place(Comma, tail) # 0
  BY <1>1, TailIs
<1>3. Occurrences(":", tail) = num - Len(arr) - 1
  BY <1>1, <1>2
<1>4. Place(Stop, tail) # 0 /\ \A j \in 1 .. Len(tail) : j < Place(Stop, tail) => tail[j] # ":"
  <2>1. CASE IsLast
    <3>1. Stop = "]"
      BY <2>1 DEF Stop
    <3>2. Occurrences(":", tail) = 0
      BY <1>1, <1>3, <2>1 DEF IsLast
    <3>3. \A j \in 1 .. Len(tail) : tail[j] # ":"
      BY <1>2, <3>2, OccurrencesIs
    <3>4. Len(tail) \in 1 .. Len(tail) /\ tail[Len(tail)] = "]"
      BY <1>2 DEF Ended
    <3>5. Place("]", tail) # 0
      BY <1>2, <3>4, PlaceIs
    <3> QED
      BY <3>1, <3>3, <3>5
  <2>2. CASE ~IsLast
    <3>1. Stop = Comma
      BY <2>2 DEF Stop
    <3>2. Occurrences(":", tail) # 0
      BY <1>1, <1>3, <2>2 DEF IsLast
    <3>3. \A j \in 1 .. Len(tail) : j < Place(Comma, tail) => tail[j] # ":"
      BY <1>1, CommaFirst
    <3> QED
      BY <1>2, <3>1, <3>2, <3>3
  <2> QED
    BY <2>1, <2>2
<1>5. Place(Stop, tail) \in 1 .. Len(tail) /\ Place(Stop, tail) \in 1 .. Len(tail) + 1
  <2>1. Place(Stop, tail) \in 1 .. Len(tail)
    BY <1>2, <1>4, PlaceIs
  <2>2. Len(tail) \in Nat
    BY <1>2
  <2> QED
    BY <2>1, <2>2
<1>6. Separate(From(tail, Place(Stop, tail)))
  BY <1>2, <1>5, FromSeparate
<1>7. Ended(From(tail, Place(Stop, tail)))
  BY <1>2, <1>5, FromEnded
<1>8. Occurrences(":", From(tail, Place(Stop, tail))) = Occurrences(":", tail)
  BY <1>2, <1>4, <1>5, OccurrencesFrom
<1> QED
  BY <1>3, <1>4, <1>6, <1>7, <1>8

LEMMA NextValueIInv ==
    ASSUME IInv, proc = "run", NextValue
    PROVE  IInv'
<1> DEFINE tail == From(text, Place(":", text) + 1)
           P == Place(Stop, tail)
           i == P - 1
           value == Cut(tail, i)
           last == IF IsLast THEN SubStrLastVal(value) ELSE value
<1>1. /\ at = "scan" /\ MoreValues /\ at' = at /\ sent' = sent /\ num' = num /\ held' = held
      /\ IF num > 1 /\ i < 0
         THEN proc' = "ub" /\ text' = text /\ arr' = arr
         ELSE /\ arr' = Append(arr, last)
              /\ text' = IF num > 1 THEN From(tail, i + 1) ELSE tail
              /\ proc' = proc
  BY DEF NextValue
<1>2. /\ text \in Seq(Signs) /\ arr \in Seq(Seq(Signs)) /\ num \in Nat /\ Len(arr) \in Nat
      /\ Len(arr) < num /\ Place(":", text) # 0 /\ held # "live"
  BY <1>1 DEF IInv, Texts, TypeOK, MoreValues
<1>3. tail \in Seq(Signs) /\ Occurrences(":", tail) = Occurrences(":", text) - 1
      /\ (Separate(text) => Separate(tail)) /\ (Ended(text) => Ended(tail))
  BY <1>2, TailIs
<1>4. Regular(sent) /\ Fits(sent) /\ num > 1 =>
          /\ P # 0 /\ Separate(From(tail, P)) /\ Ended(From(tail, P))
          /\ Occurrences(":", From(tail, P)) = num - Len(arr) - 1
  BY <1>1, StopFound
<1>5. (num > 1 => P # 0) => value \in Seq(Signs) /\ last \in Seq(Signs)
  <2>1. (num > 1 => P # 0) => value \in Seq(Signs) /\ SubStrLastVal(value) \in Seq(Signs)
    <3> HIDE DEF tail
    <3> QED
      BY <1>3, ValueTyped
  <2> QED
    BY <2>1
<1> HIDE DEF value, tail
<1>6. P \in Nat /\ (P # 0 => P \in 1 .. Len(tail))
  <2>1. P = 0 \/ P \in 1 .. Len(tail)
    BY <1>3, PlaceIs
  <2>2. Len(tail) \in Nat
    BY <1>3
  <2> QED
    BY <2>1, <2>2
<1>7. (i < 0 <=> P = 0) /\ i + 1 = P
  BY <1>6
<1> HIDE DEF P, last
<1>8. CASE num > 1 /\ i < 0
  <2>1. proc' = "ub" /\ text' = text /\ arr' = arr
    BY <1>1, <1>8
  <2>2. ~(Regular(sent) /\ Fits(sent))
    BY <1>4, <1>7, <1>8
  <2>3. TypeOK'
    BY <1>1, <2>1 DEF IInv, TypeOK
  <2>4. Texts' /\ Aligned'
    BY <1>1, <2>1 DEF IInv, Texts, Aligned
  <2>5. NothingKept' /\ Filled'
    BY <1>1 DEF NothingKept, Filled
  <2>6. ~Fits(sent) \/ \E k \in DOMAIN sent : Colons(sent[k]) > 1
    BY <2>2, NotRegular DEF IInv, TypeOK
  <2>7. UndefinedOnlyIf'
    BY <1>1, <2>6 DEF UndefinedOnlyIf
  <2> QED
    BY <2>3, <2>4, <2>5, <2>7 DEF IInv
<1>9. CASE ~(num > 1 /\ i < 0)
  <2>1. arr' = Append(arr, last) /\ proc' = proc /\ text' = IF num > 1 THEN From(tail, P) ELSE tail
    BY <1>1, <1>7, <1>9
  <2>2. num > 1 => P # 0
    BY <1>7, <1>9
  <2>3. arr' \in Seq(Seq(Signs)) /\ Len(arr') = Len(arr) + 1
    BY <1>2, <1>5, <2>1, <2>2
  <2>4. TypeOK'
    <3>1. Len(arr') <= num
      BY <1>2, <2>3
    <3> QED
      BY <1>1, <2>1, <3>1 DEF IInv, TypeOK
  <2>5. text' \in Seq(Signs)
    <3>1. CASE num > 1
      <4>1. P \in 1 .. Len(tail) + 1
        BY <1>3, <1>6, <2>2, <3>1
      <4>2. From(tail, P) \in Seq(Signs)
        BY <1>3, <4>1, FromIs
      <4> QED
        BY <2>1, <3>1, <4>2
    <3>2. CASE ~(num > 1)
      BY <1>3, <2>1, <3>2
    <3> QED
      BY <3>1, <3>2
  <2>6. Texts'
    BY <2>3, <2>5 DEF Texts
  <2>7. ASSUME Regular(sent), Fits(sent)
        PROVE  Separate(text') /\ Ended(text') /\ Occurrences(":", text') = num - Len(arr')
    <3>1. num - Len(arr') = num - Len(arr) - 1
      BY <1>2, <2>3
    <3>2. CASE num > 1
      BY <1>4, <2>1, <2>7, <3>1, <3>2
    <3>3. CASE ~(num > 1)
      <4>1. Separate(text) /\ Ended(text) /\ Occurrences(":", text) = num - Len(arr)
        BY <1>1, <2>7 DEF IInv, Aligned
      <4> QED
        BY <1>2, <1>3, <2>1, <3>1, <3>3, <4>1
    <3> QED
      BY <3>2, <3>3
  <2>8. Aligned'
    BY <1>1, <2>7 DEF Aligned
  <2>9. NothingKept' /\ Filled' /\ UndefinedOnlyIf'
    BY <1>1, <2>1 DEF NothingKept, Filled, UndefinedOnlyIf
  <2> QED
    BY <2>4, <2>6, <2>8, <2>9 DEF IInv
<1> QED
  BY <1>8, <1>9

-----------------------------------------------------------------------------
(* The theorems.                                                           *)

LEMMA StepIInv == IInv /\ [Next]_vars => IInv'
<1> SUFFICES ASSUME IInv, [Next]_vars
             PROVE  IInv'
  OBVIOUS
<1>1. CASE UNCHANGED vars
  <2>1. /\ proc' = proc /\ at' = at /\ sent' = sent /\ text' = text /\ num' = num
        /\ arr' = arr /\ held' = held
    BY <1>1 DEF vars
  <2>2. TypeOK' /\ Texts' /\ Aligned'
    BY <2>1 DEF IInv, TypeOK, Texts, Aligned
  <2>3. NothingKept' /\ Filled' /\ UndefinedOnlyIf'
    BY <2>1 DEF IInv, NothingKept, Filled, UndefinedOnlyIf
  <2> QED
    BY <2>2, <2>3 DEF IInv
<1>2. CASE Next
  <2>1. proc = "run"
    BY <1>2 DEF Next
  <2>0. ASSUME NEW p \in Inputs, PrintUnset(p)
        PROVE  IInv'
    BY <2>0, <2>1, PrintUnsetIInv
  <2>2. ASSUME NEW p \in Inputs, Decode(p)
        PROVE  IInv'
    BY <2>1, <2>2, DecodeIInv
  <2>3. ASSUME NEW p \in Inputs, DecodeNothing(p)
        PROVE  IInv'
    BY <2>1, <2>3, DecodeNothingIInv
  <2>4. CASE NextValue
    BY <2>1, <2>4, NextValueIInv
  <2>5. CASE Decoded
    BY <2>1, <2>5, DecodedIInv
  <2>6. CASE Do
    BY <2>1, <2>6, DoIInv
  <2>7. CASE Free
    BY <2>1, <2>7, FreeIInv
  <2>8. CASE FreeFails
    BY <2>1, <2>8, FreeFailsIInv
  <2> QED
    BY <1>2, <2>0, <2>2, <2>3, <2>4, <2>5, <2>6, <2>7, <2>8 DEF Next
<1> QED
  BY <1>1, <1>2

LEMMA SpecIInv == Spec => []IInv
<1>1. Init => IInv
  BY InitIInv
<1>2. IInv /\ [Next]_vars => IInv'
  BY StepIInv
<1> QED
  BY <1>1, <1>2, PTL DEF Spec

\* Whatever jobs come, the variables of GetParamsArr and of Res have the values
\* they are meant for; never more slots are filled than the array has, and the
\* array is alive while a function runs and dead between two jobs.
THEOREM ParamsTyped == Spec => []TypeOK
<1>1. IInv => TypeOK
  BY DEF IInv
<1> QED
  BY <1>1, SpecIInv, PTL

\* Whatever jobs come: decoding runs beyond its text, or a slot never filled is
\* freed, only for a job of which one parameter has two colons or whose text did
\* not fit its buffer; an array is freed twice, or a variable that was never set
\* is used but for printing it, only for a job without any colon or whose text
\* did not fit.
THEOREM ParamsUndefinedOnlyIf == Spec => []UndefinedOnlyIf
<1>1. IInv => UndefinedOnlyIf
  BY DEF IInv
<1> QED
  BY <1>1, SpecIInv, PTL

-----------------------------------------------------------------------------
(* Where the parameters are in the text: the i-th ends before e[i].        *)

LEMMA QuotedShape ==
    ASSUME NEW s \in Seq(Chars)
    PROVE  /\ Quoted(s) \in Seq(Signs) /\ Len(Quoted(s)) = Len(s) + 2 /\ Len(s) \in Nat
           /\ Quoted(s)[1] = "'" /\ Quoted(s)[Len(s) + 2] = "'"
           /\ \A j \in 1 .. Len(s) : Quoted(s)[j + 1] = s[j]
<1> DEFINE q == <<"'">>
           u == q \o s
           w == u \o q
<1>1. q \in Seq(Signs) /\ Len(q) = 1 /\ q[1] = "'"
  BY OneSign DEF Signs
<1>2. s \in Seq(Signs) /\ Len(s) \in Nat
  BY DEF Signs
<1>3. Quoted(s) = w
  BY DEF Quoted
<1> HIDE DEF q
<1>4. /\ u \in Seq(Signs) /\ Len(u) = Len(q) + Len(s)
      /\ \A j \in 1 .. Len(q) : u[j] = q[j]
      /\ \A j \in 1 .. Len(s) : u[Len(q) + j] = s[j]
  <2>1. q \in Seq(Signs) /\ s \in Seq(Signs)
    BY <1>1, <1>2
  <2> QED
    BY <2>1, ConcatIs
<1>5. u \in Seq(Signs) /\ Len(u) = Len(s) + 1 /\ u[1] = "'" /\ \A j \in 1 .. Len(s) : u[j + 1] = s[j]
  <2> HIDE DEF u
  <2>1. \A j \in 1 .. Len(s) : Len(q) + j = j + 1
    BY <1>1
  <2> QED
    BY <1>1, <1>2, <1>4, <2>1
<1> HIDE DEF u
<1>6. /\ w \in Seq(Signs) /\ Len(w) = Len(u) + Len(q)
      /\ \A j \in 1 .. Len(u) : w[j] = u[j]
      /\ \A j \in 1 .. Len(q) : w[Len(u) + j] = q[j]
  <2>1. u \in Seq(Signs) /\ q \in Seq(Signs)
    BY <1>1, <1>5
  <2> QED
    BY <2>1, ConcatIs
<1> HIDE DEF w
<1>7. Len(w) = Len(s) + 2 /\ w[1] = "'" /\ w[Len(s) + 2] = "'"
  <2>1. 1 \in 1 .. Len(u) /\ 1 \in 1 .. Len(q) /\ Len(u) + 1 = Len(s) + 2
    BY <1>1, <1>2, <1>5
  <2> QED
    BY <1>1, <1>2, <1>5, <1>6, <2>1
<1>8. ASSUME NEW j \in 1 .. Len(s)
      PROVE  w[j + 1] = s[j]
  <2>1. j + 1 \in 1 .. Len(u)
    BY <1>2, <1>5
  <2> QED
    BY <1>5, <1>6, <2>1
<1> QED
  BY <1>2, <1>3, <1>6, <1>7, <1>8

\* How many characters stand before the i-th parameter in its piece.
Lead(i) == IF i = 1 THEN 1 ELSE 3

LEMMA PieceShape ==
    ASSUME NEW p \in Seq(Seq(Chars)), NEW i \in DOMAIN p, NEW piece, piece = Separated(p)[i]
    PROVE  /\ piece \in Seq(Signs) /\ Len(p[i]) \in Nat /\ Len(piece) = Lead(i) + Len(p[i]) + 1
           /\ piece[Lead(i)] = "'" /\ piece[Len(piece)] = "'"
           /\ i # 1 => piece[1] = Comma /\ piece[2] = Space
           /\ \A j \in 1 .. Len(p[i]) : piece[Lead(i) + j] = p[i][j]
<1>1. p[i] \in Seq(Chars)
  BY DomainOf
<1> DEFINE q == Quoted(p[i])
           gap == <<Comma, Space>>
<1>2. /\ q \in Seq(Signs) /\ Len(q) = Len(p[i]) + 2 /\ Len(p[i]) \in Nat
      /\ q[1] = "'" /\ q[Len(p[i]) + 2] = "'"
      /\ \A j \in 1 .. Len(p[i]) : q[j + 1] = p[i][j]
  BY <1>1, QuotedShape
<1>3. piece = IF i = 1 THEN q ELSE gap \o q
  BY DEF Separated
<1>4. gap \in Seq(Signs) /\ Len(gap) = 2 /\ gap[1] = Comma /\ gap[2] = Space
  <2>1. Comma \in Signs /\ Space \in Signs
    BY InputAssumption DEF Signs
  <2> QED
    BY <2>1, TwoSigns
<1> HIDE DEF q, gap
<1>5. CASE i = 1
  <2>1. \A j \in 1 .. Len(p[i]) : 1 + j = j + 1
    BY <1>2
  <2>2. Lead(i) = 1 /\ piece = q
    BY <1>3, <1>5 DEF Lead
  <2>3. Len(piece) = 1 + Len(p[i]) + 1
    BY <1>2, <2>2
  <2>4. piece[Len(piece)] = "'"
    BY <1>2, <2>2
  <2>5. \A j \in 1 .. Len(p[i]) : piece[1 + j] = p[i][j]
    BY <1>2, <2>1, <2>2
  <2> QED
    BY <1>2, <1>5, <2>2, <2>3, <2>4, <2>5
<1>6. CASE i # 1
  <2>1. Lead(i) = 3 /\ piece = gap \o q
    BY <1>3, <1>6 DEF Lead
  <2>2. /\ piece \in Seq(Signs) /\ Len(piece) = Len(gap) + Len(q)
        /\ \A k \in 1 .. Len(gap) : piece[k] = gap[k]
        /\ \A k \in 1 .. Len(q) : piece[Len(gap) + k] = q[k]
    <3>1. gap \in Seq(Signs) /\ q \in Seq(Signs)
      BY <1>2, <1>4
    <3>2. /\ gap \o q \in Seq(Signs) /\ Len(gap \o q) = Len(gap) + Len(q)
          /\ \A k \in 1 .. Len(gap) : (gap \o q)[k] = gap[k]
          /\ \A k \in 1 .. Len(q) : (gap \o q)[Len(gap) + k] = q[k]
      BY <3>1, ConcatIs
    <3> QED
      BY <2>1, <3>2
  <2>3. Len(piece) = Len(p[i]) + 4 /\ piece[1] = Comma /\ piece[2] = Space
    <3>1. 1 \in 1 .. Len(gap) /\ 2 \in 1 .. Len(gap)
      BY <1>4
    <3> QED
      BY <1>2, <1>4, <2>2, <3>1
  <2>4. \A k \in 1 .. Len(p[i]) + 2 : piece[2 + k] = q[k]
    BY <1>2, <1>4, <2>2
  <2>5. piece[3] = "'" /\ piece[Len(piece)] = "'"
    <3>1. 1 \in 1 .. Len(p[i]) + 2 /\ Len(p[i]) + 2 \in 1 .. Len(p[i]) + 2
      BY <1>2
    <3>2. piece[2 + 1] = "'" /\ piece[2 + (Len(p[i]) + 2)] = "'"
      BY <1>2, <2>4, <3>1
    <3>3. 2 + 1 = 3 /\ 2 + (Len(p[i]) + 2) = Len(piece)
      BY <1>2, <2>3
    <3> QED
      BY <3>2, <3>3
  <2>6. ASSUME NEW j \in 1 .. Len(p[i])
        PROVE  piece[3 + j] = p[i][j]
    <3>1. j + 1 \in 1 .. Len(p[i]) + 2 /\ 2 + (j + 1) = 3 + j
      BY <1>2
    <3>2. piece[2 + (j + 1)] = q[j + 1]
      BY <2>4, <3>1
    <3> QED
      BY <1>2, <3>1, <3>2
  <2>7. Len(piece) = 3 + Len(p[i]) + 1
    BY <1>2, <2>3
  <2> QED
    BY <1>2, <2>1, <2>2, <2>3, <2>5, <2>6, <2>7
<1> QED
  BY <1>5, <1>6

\* The first n parameters are all that t consists of, each in quotes, with a
\* comma and a space in between.
Laid(p, n, t, e) ==
    /\ Len(t) = e[n]
    /\ \A i \in 1 .. n : e[i] \in Nat /\ Len(p[i]) + 2 <= e[i] /\ e[i] <= e[n]
    /\ \A i, k \in 1 .. n : i < k => e[i] + 4 + Len(p[k]) <= e[k]
    /\ \A i \in 1 .. n : \A j \in 1 .. Len(p[i]) : t[e[i] - Len(p[i]) - 1 + j] = p[i][j]
    /\ \A i \in 1 .. n : t[e[i]] = "'"
    /\ \A i \in 1 .. n : i < n => t[e[i] + 1] = Comma /\ t[e[i] + 2] = Space /\ t[e[i] + 3] = "'"
    /\ \A x \in 1 .. Len(t) : t[x] = ":" =>
           \E i \in 1 .. n : x - (e[i] - Len(p[i]) - 1) \in 1 .. Len(p[i])

LEMMA LaidFirst ==
    ASSUME NEW p \in Seq(Seq(Chars)), 1 \in DOMAIN p, NEW t, t = Separated(p)[1],
           NEW e, e[1] = Len(t)
    PROVE  Laid(p, 1, t, e)
<1> DEFINE l == Len(p[1])
<1>1. /\ t \in Seq(Signs) /\ l \in Nat /\ Len(t) = l + 2 /\ t[1] = "'" /\ t[l + 2] = "'"
      /\ \A j \in 1 .. l : t[j + 1] = p[1][j]
  <2>1. /\ t \in Seq(Signs) /\ l \in Nat /\ Len(t) = Lead(1) + l + 1
        /\ t[Lead(1)] = "'" /\ t[Len(t)] = "'"
        /\ \A j \in 1 .. l : t[Lead(1) + j] = p[1][j]
    BY PieceShape
  <2>2. Lead(1) = 1
    BY DEF Lead
  <2> HIDE DEF l
  <2>3. Lead(1) + l + 1 = l + 2 /\ \A j \in 1 .. l : Lead(1) + j = j + 1
    BY <2>1, <2>2
  <2> QED
    BY <2>1, <2>2, <2>3
<1>2. \A i : i \in 1 .. 1 <=> i = 1
  OBVIOUS
<1>3. e[1] = l + 2 /\ e[1] \in Nat /\ \A j \in 1 .. l : e[1] - l - 1 + j = j + 1
  <2> HIDE DEF l
  <2> QED
    BY <1>1
<1>4. ASSUME NEW x \in 1 .. Len(t), t[x] = ":"
      PROVE  x - (e[1] - l - 1) \in 1 .. l
  <2> HIDE DEF l
  <2>1. x # 1 /\ x # l + 2
    BY <1>1, <1>4, OtherSigns
  <2>2. x \in 1 .. l + 2 /\ x \in Int
    BY <1>1
  <2> QED
    BY <1>1, <1>3, <2>1, <2>2
<1>5. \A i, k \in 1 .. 1 : ~(i < k)
  OBVIOUS
<1>6. \A i \in 1 .. 1 : i = 1 /\ ~(i < 1) /\ Len(p[i]) = l
  BY <1>2
<1>7. \A j \in 1 .. l : t[e[1] - l - 1 + j] = p[1][j]
  BY <1>1, <1>3
<1>8. l + 2 <= e[1] /\ e[1] <= e[1] /\ t[e[1]] = "'"
  <2> HIDE DEF l
  <2> QED
    BY <1>1, <1>3
<1>9. \A i \in 1 .. 1 : \A j \in 1 .. Len(p[i]) : t[e[i] - Len(p[i]) - 1 + j] = p[i][j]
  BY <1>6, <1>7
<1>10. \A x \in 1 .. Len(t) : t[x] = ":" =>
           \E i \in 1 .. 1 : x - (e[i] - Len(p[i]) - 1) \in 1 .. Len(p[i])
  BY <1>2, <1>4
<1>11. \A i \in 1 .. 1 : e[i] \in Nat /\ Len(p[i]) + 2 <= e[i] /\ e[i] <= e[1] /\ t[e[i]] = "'"
  BY <1>3, <1>6, <1>8
<1> QED
  BY <1>5, <1>6, <1>9, <1>10, <1>11 DEF Laid

NextPiece(p, n, t, e, piece) ==
    /\ p \in Seq(Seq(Chars)) /\ n \in 2 .. Len(p) /\ t \in Seq(Signs)
    /\ Laid(p, n - 1, t, e) /\ piece = Separated(p)[n] /\ e[n] = Len(t) + Len(piece)

LEMMA LaidNext ==
    ASSUME NEW p, NEW n, NEW t, NEW e, NEW piece, NextPiece(p, n, t, e, piece)
    PROVE  Laid(p, n, t \o piece, e)
<1> DEFINE w == t \o piece
           m == Len(t)
           l == Len(p[n])
<1>1. DOMAIN p = 1 .. Len(p) /\ Len(p) \in Nat /\ n \in DOMAIN p /\ n # 1 /\ n \in Int /\ n - 1 \in 1 .. n - 1
  <2>1. p \in Seq(Seq(Chars)) /\ n \in 2 .. Len(p)
    BY DEF NextPiece
  <2>2. DOMAIN p = 1 .. Len(p) /\ Len(p) \in Nat
    BY <2>1, DomainOf
  <2> QED
    BY <2>1, <2>2
<1>t. \A i \in 1 .. n : Len(p[i]) \in Nat
  <2>1. p \in Seq(Seq(Chars)) /\ n \in 2 .. Len(p)
    BY DEF NextPiece
  <2> SUFFICES ASSUME NEW i \in 1 .. n
               PROVE  Len(p[i]) \in Nat
    OBVIOUS
  <2>2. i \in 1 .. Len(p)
    BY <1>1, <2>1
  <2>3. p[i] \in Seq(Chars)
    BY <2>1, <2>2
  <2> QED
    BY <2>3
<1>2. /\ piece \in Seq(Signs) /\ l \in Nat /\ Len(piece) = l + 4
      /\ piece[1] = Comma /\ piece[2] = Space /\ piece[3] = "'" /\ piece[l + 4] = "'"
      /\ \A j \in 1 .. l : piece[3 + j] = p[n][j]
  <2>1. /\ piece \in Seq(Signs) /\ Len(p[n]) \in Nat /\ Len(piece) = Lead(n) + Len(p[n]) + 1
        /\ piece[Lead(n)] = "'" /\ piece[Len(piece)] = "'"
        /\ n # 1 => piece[1] = Comma /\ piece[2] = Space
        /\ \A j \in 1 .. Len(p[n]) : piece[Lead(n) + j] = p[n][j]
    <3>1. p \in Seq(Seq(Chars)) /\ n \in DOMAIN p /\ piece = Separated(p)[n]
      BY <1>1 DEF NextPiece
    <3> HIDE DEF l, m, w
    <3> QED
      BY <3>1, PieceShape
  <2>2. Lead(n) = 3
    BY <1>1 DEF Lead
  <2>3. Lead(n) + Len(p[n]) + 1 = Len(p[n]) + 4
    BY <2>1, <2>2
  <2> QED
    BY <1>1, <2>1, <2>2, <2>3
<1>3. /\ w \in Seq(Signs) /\ Len(w) = m + Len(piece) /\ m \in Nat
      /\ \A x \in 1 .. m : w[x] = t[x]
      /\ \A y \in 1 .. Len(piece) : w[m + y] = piece[y]
      /\ \A x \in 1 .. m + Len(piece) :
             x \in 1 .. m \/ (x - m \in 1 .. Len(piece) /\ w[x] = piece[x - m])
  <2>1. t \in Seq(Signs) /\ piece \in Seq(Signs)
    BY <1>2 DEF NextPiece
  <2> QED
    BY <2>1, ConcatIs
<1>0. m \in Nat /\ l \in Nat /\ Len(piece) = l + 4
  BY <1>2, <1>3
<1> HIDE DEF w
<1>4. /\ m = e[n - 1]
      /\ \A i \in 1 .. n - 1 : e[i] \in Nat /\ Len(p[i]) + 2 <= e[i] /\ e[i] <= e[n - 1]
      /\ \A i, k \in 1 .. n - 1 : i < k => e[i] + 4 + Len(p[k]) <= e[k]
      /\ \A i \in 1 .. n - 1 : \A j \in 1 .. Len(p[i]) : t[e[i] - Len(p[i]) - 1 + j] = p[i][j]
      /\ \A i \in 1 .. n - 1 : t[e[i]] = "'"
      /\ \A i \in 1 .. n - 1 : i < n - 1 =>
             t[e[i] + 1] = Comma /\ t[e[i] + 2] = Space /\ t[e[i] + 3] = "'"
      /\ \A x \in 1 .. m : t[x] = ":" =>
             \E i \in 1 .. n - 1 : x - (e[i] - Len(p[i]) - 1) \in 1 .. Len(p[i])
  <2>1. Laid(p, n - 1, t, e)
    BY DEF NextPiece
  <2> QED
    BY <2>1 DEF Laid
<1>5. e[n] = m + l + 4 /\ e[n] \in Nat
  <2>1. e[n] = m + Len(piece)
    BY DEF NextPiece
  <2> HIDE DEF l, m
  <2> QED
    BY <1>0, <2>1
<1>6. \A i \in 1 .. n : i # n => i \in 1 .. n - 1
  BY <1>1
<1>7. Len(w) = e[n]
  <2> HIDE DEF l, m
  <2> QED
    BY <1>2, <1>3, <1>5
<1>8. \A i \in 1 .. n - 1 : e[i] + l + 4 <= e[n] /\ e[i] <= m
  <2> SUFFICES ASSUME NEW i \in 1 .. n - 1
               PROVE  e[i] + l + 4 <= e[n] /\ e[i] <= m
    OBVIOUS
  <2>1. e[i] \in Nat /\ e[i] <= m
    BY <1>4
  <2> DEFINE a == e[i]
             b == e[n]
  <2>2. a \in Nat /\ a <= m /\ b = m + l + 4
    BY <1>5, <2>1
  <2> HIDE DEF l, m, a, b
  <2>3. a + l + 4 <= b /\ a <= m
    BY <1>0, <2>2
  <2> QED
    BY <2>3 DEF a, b
<1>9. \A i \in 1 .. n : e[i] \in Nat /\ Len(p[i]) + 2 <= e[i] /\ e[i] <= e[n]
  <2> SUFFICES ASSUME NEW i \in 1 .. n
               PROVE  e[i] \in Nat /\ Len(p[i]) + 2 <= e[i] /\ e[i] <= e[n]
    OBVIOUS
  <2>1. CASE i = n
    <3>1. l + 2 <= e[n]
      <4> HIDE DEF l, m
      <4> QED
        BY <1>2, <1>3, <1>5
    <3> QED
      BY <1>5, <2>1, <3>1
  <2>2. CASE i # n
    <3>1. i \in 1 .. n - 1
      BY <1>6, <2>2
    <3>2. e[i] \in Nat /\ Len(p[i]) + 2 <= e[i] /\ e[i] + l + 4 <= e[n]
      BY <1>4, <1>8, <3>1
    <3> HIDE DEF l, m
    <3>3. e[i] <= e[n]
      BY <1>2, <1>5, <3>2
    <3> QED
      BY <3>2, <3>3
  <2> QED
    BY <2>1, <2>2
<1>10. \A i, k \in 1 .. n : i < k => e[i] + 4 + Len(p[k]) <= e[k]
  <2> SUFFICES ASSUME NEW i \in 1 .. n, NEW k \in 1 .. n, i < k
               PROVE  e[i] + 4 + Len(p[k]) <= e[k]
    OBVIOUS
  <2>1. i \in 1 .. n - 1
    BY <1>1
  <2>2. CASE k = n
    <3>1. e[i] + l + 4 <= e[n] /\ e[i] \in Nat
      BY <1>4, <1>8, <2>1
    <3>2. e[i] + 4 + l <= e[n]
      <4> HIDE DEF l
      <4> QED
        BY <1>2, <3>1
    <3> QED
      BY <2>2, <3>2
  <2>3. CASE k # n
    <3>1. k \in 1 .. n - 1
      BY <1>6, <2>3
    <3> QED
      BY <1>4, <2>1, <3>1
  <2> QED
    BY <2>2, <2>3
<1>11. \A i \in 1 .. n : \A j \in 1 .. Len(p[i]) : w[e[i] - Len(p[i]) - 1 + j] = p[i][j]
  <2> SUFFICES ASSUME NEW i \in 1 .. n, NEW j \in 1 .. Len(p[i])
               PROVE  w[e[i] - Len(p[i]) - 1 + j] = p[i][j]
    OBVIOUS
  <2>1. CASE i = n
    <3>1. j \in 1 .. l /\ w[m + (3 + j)] = p[n][j] /\ e[n] - l - 1 + j = m + (3 + j)
      <4>1. j \in 1 .. l
        BY <2>1
      <4>0. j \in Int /\ 1 <= j /\ j <= l
        BY <1>2, <4>1
      <4> HIDE DEF l, m
      <4>2. 3 + j \in 1 .. Len(piece) /\ e[n] - l - 1 + j = m + (3 + j)
        BY <1>0, <1>5, <4>0
      <4>3. w[m + (3 + j)] = piece[3 + j]
        BY <1>3, <4>2
      <4> QED
        BY <1>2, <4>1, <4>2, <4>3
    <3> QED
      BY <2>1, <3>1
  <2>2. CASE i # n
    <3>1. i \in 1 .. n - 1
      BY <1>6, <2>2
    <3>2. e[i] \in Nat /\ Len(p[i]) + 2 <= e[i] /\ e[i] <= m /\ t[e[i] - Len(p[i]) - 1 + j] = p[i][j]
      BY <1>4, <1>8, <3>1
    <3>3. Len(p[i]) \in Nat
      BY <1>1, <1>t
    <3> DEFINE x == e[i] - Len(p[i]) - 1 + j
    <3>4. x \in 1 .. m
      <4>1. j \in Int /\ 1 <= j /\ j <= Len(p[i])
        BY <3>3
      <4>2. e[i] \in Nat /\ Len(p[i]) + 2 <= e[i] /\ e[i] <= m
        BY <3>2
      <4> HIDE DEF m
      <4> QED
        BY <1>0, <3>3, <4>1, <4>2
    <3> HIDE DEF x
    <3>5. w[x] = t[x]
      BY <1>3, <3>4
    <3> QED
      BY <3>2, <3>5 DEF x
  <2> QED
    BY <2>1, <2>2
<1>12. \A i \in 1 .. n : w[e[i]] = "'"
  <2> SUFFICES ASSUME NEW i \in 1 .. n
               PROVE  w[e[i]] = "'"
    OBVIOUS
  <2>1. CASE i = n
    <3>1. e[n] = m + (l + 4) /\ l + 4 \in 1 .. Len(piece)
      <4> HIDE DEF l, m
      <4> QED
        BY <1>2, <1>3, <1>5
    <3> QED
      BY <1>2, <1>3, <2>1, <3>1
  <2>2. CASE i # n
    <3>1. i \in 1 .. n - 1
      BY <1>6, <2>2
    <3>2. e[i] \in Nat /\ Len(p[i]) + 2 <= e[i] /\ e[i] <= m /\ t[e[i]] = "'"
      BY <1>4, <1>8, <3>1
    <3>3. Len(p[i]) \in Nat
      BY <1>1, <1>t
    <3>4. e[i] \in 1 .. m
      <4> HIDE DEF m
      <4> QED
        BY <1>3, <3>2, <3>3
    <3> QED
      BY <1>3, <3>2, <3>4
  <2> QED
    BY <2>1, <2>2
<1>13. \A i \in 1 .. n : i < n => w[e[i] + 1] = Comma /\ w[e[i] + 2] = Space /\ w[e[i] + 3] = "'"
  <2> SUFFICES ASSUME NEW i \in 1 .. n, i < n
               PROVE  w[e[i] + 1] = Comma /\ w[e[i] + 2] = Space /\ w[e[i] + 3] = "'"
    OBVIOUS
  <2>1. CASE i = n - 1
    <3>1. e[i] = m
      BY <1>4, <2>1
    <3>2. 1 \in 1 .. Len(piece) /\ 2 \in 1 .. Len(piece) /\ 3 \in 1 .. Len(piece)
      <4> HIDE DEF l
      <4> QED
        BY <1>2
    <3> QED
      BY <1>2, <1>3, <3>1, <3>2
  <2>2. CASE i # n - 1
    <3>1. i \in 1 .. n - 1 /\ i < n - 1
      BY <1>1, <2>2
    <3>2. t[e[i] + 1] = Comma /\ t[e[i] + 2] = Space /\ t[e[i] + 3] = "'"
      BY <1>4, <3>1
    <3>3. e[i] \in Nat /\ e[i] + 4 + Len(p[n - 1]) <= m
      BY <1>1, <1>4, <3>1
    <3>4. Len(p[n - 1]) \in Nat
      <4>1. n - 1 \in 1 .. n
        BY <1>1
      <4> QED
        BY <1>t, <4>1
    <3>5. e[i] + 1 \in 1 .. m /\ e[i] + 2 \in 1 .. m /\ e[i] + 3 \in 1 .. m
      <4> DEFINE a == e[i]
                 b == Len(p[n - 1])
      <4>1. a \in Nat /\ b \in Nat /\ a + 4 + b <= m
        BY <3>3, <3>4
      <4> HIDE DEF a, b, m
      <4>2. a + 1 \in 1 .. m /\ a + 2 \in 1 .. m /\ a + 3 \in 1 .. m
        BY <1>0, <4>1
      <4> QED
        BY <4>2 DEF a
    <3> QED
      BY <1>3, <3>2, <3>5
  <2> QED
    BY <2>1, <2>2
<1>14. ASSUME NEW x \in 1 .. Len(w), w[x] = ":"
       PROVE  \E i \in 1 .. n : x - (e[i] - Len(p[i]) - 1) \in 1 .. Len(p[i])
  <2>1. CASE x \in 1 .. m
    <3>1. t[x] = ":"
      BY <1>3, <1>14, <2>1
    <3>2. PICK i \in 1 .. n - 1 : x - (e[i] - Len(p[i]) - 1) \in 1 .. Len(p[i])
      BY <1>4, <2>1, <3>1
    <3>3. i \in 1 .. n
      BY <1>1
    <3> QED
      BY <3>2, <3>3
  <2>2. CASE x \notin 1 .. m
    <3> DEFINE y == x - m
    <3>1. y \in 1 .. Len(piece) /\ piece[y] = ":"
      BY <1>3, <1>14, <2>2
    <3>2. x \in Int
      BY <1>7, <1>5
    <3>3. y # 1 /\ y # 2 /\ y # 3 /\ y # l + 4
      <4> HIDE DEF y, l
      <4> QED
        BY <1>2, <3>1, OtherSigns
    <3>4. x - (e[n] - l - 1) \in 1 .. l
      <4>1. y \in 1 .. l + 4
        BY <1>2, <3>1
      <4>2. y \in Int /\ y - 3 \in 1 .. l
        <5> HIDE DEF y, l
        <5> QED
          BY <1>2, <3>3, <4>1
      <4> HIDE DEF l, m
      <4>3. x - (e[n] - l - 1) = y - 3
        BY <1>0, <1>5, <3>2
      <4> QED
        BY <4>2, <4>3
    <3>5. n \in 1 .. n
      BY <1>1
    <3> QED
      BY <3>4, <3>5
  <2> QED
    BY <2>1, <2>2
<1>15. Laid(p, n, w, e)
  BY <1>7, <1>9, <1>10, <1>11, <1>12, <1>13, <1>14 DEF Laid
<1> QED
  BY <1>15 DEF w

LEMMA LaidOut ==
    ASSUME NEW p \in Seq(Seq(Chars)), Len(p) # 0
    PROVE  \E e : Laid(p, Len(p), FlattenSeq(Separated(p)), e) /\ FlattenSeq(Separated(p)) \in Seq(Signs)
<1> DEFINE sep == Separated(p)
<1>1. DOMAIN p = 1 .. Len(p) /\ Len(p) \in Nat
  BY DomainOf
<1>2. Len(sep) = Len(p)
  BY <1>1 DEF Separated
<1>3. \A n \in 1 .. Len(p) : sep[n] \in Seq(Signs)
  BY <1>1, PieceIs
<1>4. PICK g : Joins(g, sep, Len(p)) /\ FlattenSeq(sep) = g[Len(p)]
  <2> HIDE DEF sep
  <2> QED
    BY <1>1, <1>2, FlattenIs
<1>5. \A n \in 1 .. Len(p) : g[n] = IF n = 1 THEN sep[n] ELSE g[n - 1] \o sep[n]
  BY <1>4 DEF Joins
<1> DEFINE e == [n \in 1 .. Len(p) |-> Len(g[n])]
           Q == {n \in 1 .. Len(p) : g[n] \in Seq(Signs) /\ Laid(p, n, g[n], e)}
<1>6. \A n \in 1 .. Len(p) : e[n] = Len(g[n])
  OBVIOUS
<1> HIDE DEF e
<1>7. 1 \in Q
  <2>1. 1 \in 1 .. Len(p) /\ 1 \in DOMAIN p
    BY <1>1
  <2>2. g[1] = sep[1] /\ e[1] = Len(g[1]) /\ g[1] \in Seq(Signs)
    BY <1>3, <1>5, <1>6, <2>1
  <2>3. Laid(p, 1, g[1], e)
    BY <2>1, <2>2, LaidFirst
  <2> QED
    BY <2>1, <2>2, <2>3
<1>8. ASSUME NEW n \in 2 .. Len(p), n - 1 \in Q
      PROVE  n \in Q
  <2>1. n \in 1 .. Len(p) /\ n # 1
    BY <1>1
  <2>2. g[n] = g[n - 1] \o sep[n] /\ sep[n] \in Seq(Signs) /\ g[n - 1] \in Seq(Signs)
        /\ Laid(p, n - 1, g[n - 1], e)
    BY <1>3, <1>5, <1>8, <2>1
  <2>3. g[n] \in Seq(Signs) /\ Len(g[n]) = Len(g[n - 1]) + Len(sep[n])
    BY <2>2, ConcatIs
  <2>4. NextPiece(p, n, g[n - 1], e, sep[n])
    BY <1>6, <2>1, <2>2, <2>3 DEF NextPiece
  <2>5. Laid(p, n, g[n - 1] \o sep[n], e)
    BY <2>4, LaidNext
  <2> QED
    BY <2>1, <2>2, <2>3, <2>5
<1> HIDE DEF Q
<1>9. \A n \in 1 .. Len(p) : n \in Q
  BY <1>1, <1>7, <1>8, UpTo
<1>10. Len(p) \in Q
  BY <1>1, <1>9
<1> QED
  BY <1>4, <1>10 DEF Q

\* Where the parameters stand in the whole text: o[i] characters before the i-th.
Shaped(p, t, o) ==
    /\ Len(t) = o[Len(p)] + Len(p[Len(p)]) + 2 /\ t[Len(t)] = "]"
    /\ \A i \in 1 .. Len(p) : o[i] \in Nat /\ Len(p[i]) \in Nat
    /\ \A i, k \in 1 .. Len(p) : i < k => o[i] + Len(p[i]) + 4 <= o[k]
    /\ \A i \in 1 .. Len(p) : \A j \in 1 .. Len(p[i]) : t[o[i] + j] = p[i][j]
    /\ \A i \in 1 .. Len(p) : t[o[i] + Len(p[i]) + 1] = "'"
    /\ \A i \in 1 .. Len(p) : i < Len(p) =>
           /\ t[o[i] + Len(p[i]) + 2] = Comma /\ t[o[i] + Len(p[i]) + 3] = Space
           /\ t[o[i] + Len(p[i]) + 4] = "'"
    /\ \A x \in 1 .. Len(t) : t[x] = ":" => \E i \in 1 .. Len(p) : x - o[i] \in 1 .. Len(p[i])

Bracketed(p, u, t, e) ==
    /\ Laid(p, Len(p), u, e) /\ Len(p) \in Nat \ {0} /\ \A i \in 1 .. Len(p) : Len(p[i]) \in Nat
    /\ Len(u) \in Nat /\ Len(t) = Len(u) + 2 /\ t[1] = "[" /\ t[Len(t)] = "]"
    /\ \A x \in 1 .. Len(u) : t[x + 1] = u[x]

\* The text between the brackets, one character further on.
LEMMA ShapedIs ==
    ASSUME NEW p, NEW u, NEW t, NEW e, Bracketed(p, u, t, e)
    PROVE  \E o : Shaped(p, t, o)
<1> DEFINE n == Len(p)
           o == [i \in 1 .. n |-> e[i] - Len(p[i])]
<1>1. /\ Len(u) = e[n]
      /\ \A i \in 1 .. n : e[i] \in Nat /\ Len(p[i]) + 2 <= e[i] /\ e[i] <= e[n]
      /\ \A i, k \in 1 .. n : i < k => e[i] + 4 + Len(p[k]) <= e[k]
      /\ \A i \in 1 .. n : \A j \in 1 .. Len(p[i]) : u[e[i] - Len(p[i]) - 1 + j] = p[i][j]
      /\ \A i \in 1 .. n : u[e[i]] = "'"
      /\ \A i \in 1 .. n : i < n => u[e[i] + 1] = Comma /\ u[e[i] + 2] = Space /\ u[e[i] + 3] = "'"
      /\ \A x \in 1 .. Len(u) : u[x] = ":" =>
             \E i \in 1 .. n : x - (e[i] - Len(p[i]) - 1) \in 1 .. Len(p[i])
  BY DEF Laid, Bracketed
<1>2. /\ n \in 1 .. n /\ n \in Nat /\ \A i \in 1 .. n : Len(p[i]) \in Nat
      /\ Len(u) \in Nat /\ Len(t) = Len(u) + 2 /\ t[1] = "[" /\ t[Len(t)] = "]"
      /\ \A x \in 1 .. Len(u) : t[x + 1] = u[x]
  BY DEF Bracketed
<1>3. \A i \in 1 .. n : o[i] = e[i] - Len(p[i])
  OBVIOUS
<1> HIDE DEF n, o
<1>4. ASSUME NEW i \in 1 .. n
      PROVE  /\ o[i] \in Nat /\ Len(p[i]) \in Nat /\ e[i] \in Nat /\ 2 <= o[i]
             /\ o[i] + Len(p[i]) = e[i] /\ e[i] <= Len(u)
  <2> DEFINE a == e[i]
             b == Len(p[i])
             c == o[i]
  <2>1. a \in Nat /\ b \in Nat /\ b + 2 <= a /\ a <= Len(u) /\ c = a - b
    BY <1>1, <1>2, <1>3
  <2> HIDE DEF a, b, c
  <2>2. c \in Nat /\ b \in Nat /\ a \in Nat /\ 2 <= c /\ c + b = a /\ a <= Len(u)
    BY <2>1
  <2> QED
    BY <2>2 DEF a, b, c
<1>5. Len(t) = o[n] + Len(p[n]) + 2 /\ t[Len(t)] = "]"
  <2>1. o[n] + Len(p[n]) = e[n] /\ Len(u) = e[n]
    BY <1>1, <1>2, <1>4
  <2> QED
    BY <1>2, <2>1
<1>6. ASSUME NEW i \in 1 .. n, NEW k \in 1 .. n, i < k
      PROVE  o[i] + Len(p[i]) + 4 <= o[k]
  <2> DEFINE a == e[i]
             b == Len(p[k])
             c == o[k]
             d == e[k]
  <2>1. a + 4 + b <= d /\ c + b = d /\ a \in Nat /\ b \in Nat /\ c \in Nat /\ d \in Nat
    BY <1>1, <1>4, <1>6
  <2>2. o[i] + Len(p[i]) = a
    BY <1>4
  <2> HIDE DEF a, b, c, d
  <2>3. a + 4 <= c
    BY <2>1
  <2> QED
    BY <2>2, <2>3 DEF c
<1>7. ASSUME NEW i \in 1 .. n, NEW j \in 1 .. Len(p[i])
      PROVE  t[o[i] + j] = p[i][j]
  <2> DEFINE a == e[i]
             b == Len(p[i])
             c == o[i]
             x == a - b - 1 + j
  <2>1. u[x] = p[i][j]
    BY <1>1
  <2>2. a \in Nat /\ b \in Nat /\ 2 <= c /\ c \in Nat /\ c + b = a /\ a <= Len(u) /\ j \in 1 .. b
    BY <1>4
  <2>3. x \in 1 .. Len(u) /\ x + 1 = c + j
    <3> HIDE DEF a, b, c
    <3>1. j \in Int /\ 1 <= j /\ j <= b
      BY <2>2
    <3> QED
      BY <1>2, <2>2, <3>1
  <2> HIDE DEF x, c
  <2>4. t[x + 1] = u[x]
    BY <1>2, <2>3
  <2>5. t[c + j] = p[i][j]
    BY <2>1, <2>3, <2>4
  <2> QED
    BY <2>5 DEF c
<1>8. ASSUME NEW i \in 1 .. n
      PROVE  t[o[i] + Len(p[i]) + 1] = "'"
  <2> DEFINE a == e[i]
  <2>1. u[a] = "'" /\ a \in Nat /\ a <= Len(u) /\ o[i] + Len(p[i]) = a /\ 2 <= o[i] /\ o[i] \in Nat
        /\ Len(p[i]) \in Nat
    BY <1>1, <1>4
  <2>2. a \in 1 .. Len(u)
    BY <1>2, <2>1
  <2> HIDE DEF a
  <2>3. t[a + 1] = "'"
    BY <1>2, <2>1, <2>2
  <2> QED
    BY <2>1, <2>3
<1>9. ASSUME NEW i \in 1 .. n, i < n
      PROVE  /\ t[o[i] + Len(p[i]) + 2] = Comma /\ t[o[i] + Len(p[i]) + 3] = Space
             /\ t[o[i] + Len(p[i]) + 4] = "'"
  <2> DEFINE a == e[i]
             b == Len(p[n])
             m == Len(u)
  <2>1. u[a + 1] = Comma /\ u[a + 2] = Space /\ u[a + 3] = "'"
    BY <1>1, <1>9
  <2>2. a \in Nat /\ m \in Nat /\ b \in Nat /\ a + 4 + b <= m /\ o[i] + Len(p[i]) = a
    BY <1>1, <1>2, <1>4, <1>9
  <2>3. a + 1 \in 1 .. m /\ a + 2 \in 1 .. m /\ a + 3 \in 1 .. m
        /\ (a + 1) + 1 = a + 2 /\ (a + 2) + 1 = a + 3 /\ (a + 3) + 1 = a + 4
    <3> HIDE DEF a, b, m
    <3> QED
      BY <2>2
  <2>4. t[(a + 1) + 1] = Comma /\ t[(a + 2) + 1] = Space /\ t[(a + 3) + 1] = "'"
    BY <1>2, <2>1, <2>3
  <2> QED
    BY <2>2, <2>3, <2>4
<1>10. ASSUME NEW x \in 1 .. Len(t), t[x] = ":"
       PROVE  \E i \in 1 .. n : x - o[i] \in 1 .. Len(p[i])
  <2>1. x # 1 /\ x # Len(t)
    BY <1>2, <1>10, OtherSigns
  <2> DEFINE y == x - 1
  <2>2. y \in 1 .. Len(u) /\ y + 1 = x /\ x \in Int
    BY <1>2, <2>1
  <2> HIDE DEF y
  <2>3. u[y] = ":"
    BY <1>2, <1>10, <2>2
  <2>4. PICK i \in 1 .. n : y - (e[i] - Len(p[i]) - 1) \in 1 .. Len(p[i])
    BY <1>1, <2>2, <2>3
  <2> DEFINE a == e[i]
             b == Len(p[i])
             c == o[i]
  <2>5. a \in Nat /\ b \in Nat /\ c = a - b /\ y - (a - b - 1) \in 1 .. b
        /\ y + 1 = x /\ x \in Int /\ y \in Int
    BY <1>3, <1>4, <2>2, <2>4
  <2> HIDE DEF a, b, c
  <2>6. y - (a - b - 1) = x - c
    BY <2>5
  <2>7. x - c \in 1 .. b
    BY <2>5, <2>6
  <2> QED
    BY <2>7 DEF b, c
<1>11. Shaped(p, t, o)
  BY <1>4, <1>5, <1>6, <1>7, <1>8, <1>9, <1>10 DEF Shaped, n
<1> QED
  BY <1>11

\* How many characters of the printed text stand before each parameter.
Offset(p) == CHOOSE o : Shaped(p, Printed(p), o)

LEMMA PrintedShape ==
    ASSUME NEW p \in Inputs, Len(p) # 0
    PROVE  Shaped(p, Printed(p), Offset(p))
<1> DEFINE u == FlattenSeq(Separated(p))
           open == <<"[">>
           close == <<"]">>
<1>1. p \in Seq(Seq(Chars))
  BY InputAssumption
<1>2. Len(p) \in Nat \ {0} /\ DOMAIN p = 1 .. Len(p)
  BY <1>1, DomainOf
<1>3. \A i \in 1 .. Len(p) : Len(p[i]) \in Nat
  <2>1. \A i \in 1 .. Len(p) : p[i] \in Seq(Chars)
    BY <1>1, <1>2
  <2> QED
    BY <2>1
<1>4. PICK e : Laid(p, Len(p), u, e) /\ u \in Seq(Signs)
  BY <1>1, LaidOut
<1> HIDE DEF u
<1>5. open \in Seq(Signs) /\ Len(open) = 1 /\ open[1] = "["
  BY OneSign DEF Signs
<1>6. close \in Seq(Signs) /\ Len(close) = 1 /\ close[1] = "]"
  <2>1. "]" \in Signs
    BY InputAssumption DEF Signs
  <2> QED
    BY <2>1, OneSign
<1>7. Printed(p) = (open \o u) \o close
  BY DEF Printed, u
<1> HIDE DEF open, close
<1> DEFINE v == open \o u
           t == v \o close
<1>8. /\ v \in Seq(Signs) /\ Len(v) = Len(open) + Len(u) /\ Len(u) \in Nat
      /\ \A x \in 1 .. Len(open) : v[x] = open[x]
      /\ \A x \in 1 .. Len(u) : v[Len(open) + x] = u[x]
  <2>1. open \in Seq(Signs) /\ u \in Seq(Signs)
    BY <1>4, <1>5
  <2> QED
    BY <2>1, ConcatIs
<1> HIDE DEF v
<1>9. Len(v) = Len(u) + 1 /\ v[1] = "[" /\ \A x \in 1 .. Len(u) : v[x + 1] = u[x]
  <2>1. \A x \in 1 .. Len(u) : Len(open) + x = x + 1
    BY <1>5, <1>8
  <2>2. 1 \in 1 .. Len(open)
    BY <1>5
  <2> QED
    BY <1>5, <1>8, <2>1, <2>2
<1>10. /\ t \in Seq(Signs) /\ Len(t) = Len(v) + Len(close)
       /\ \A x \in 1 .. Len(v) : t[x] = v[x]
       /\ \A x \in 1 .. Len(close) : t[Len(v) + x] = close[x]
  <2>1. v \in Seq(Signs) /\ close \in Seq(Signs)
    BY <1>6, <1>8
  <2> QED
    BY <2>1, ConcatIs
<1> HIDE DEF t
<1>11. Len(t) = Len(u) + 2 /\ t[1] = "[" /\ t[Len(t)] = "]"
  <2>1. 1 \in 1 .. Len(v) /\ 1 \in 1 .. Len(close) /\ Len(t) = Len(v) + 1
    BY <1>6, <1>8, <1>9, <1>10
  <2>2. t[Len(v) + 1] = "]" /\ t[1] = "["
    BY <1>6, <1>9, <1>10, <2>1
  <2>3. Len(t) = Len(u) + 2
    BY <1>8, <1>9, <2>1
  <2> QED
    BY <2>1, <2>2, <2>3
<1>12. \A x \in 1 .. Len(u) : t[x + 1] = u[x]
  <2>1. \A x \in 1 .. Len(u) : x + 1 \in 1 .. Len(v)
    BY <1>8, <1>9
  <2> QED
    BY <1>9, <1>10, <2>1
<1>13. Bracketed(p, u, t, e)
  BY <1>2, <1>3, <1>4, <1>8, <1>11, <1>12 DEF Bracketed
<1>14. Printed(p) = t
  BY <1>7 DEF t, v
<1>15. \E o : Shaped(p, Printed(p), o)
  BY <1>13, <1>14, ShapedIs
<1> QED
  BY <1>15 DEF Offset

-----------------------------------------------------------------------------
(* The ranks of the members of a finite set of numbers.                    *)

LEMMA RankIs ==
    ASSUME NEW I \in SUBSET Nat, IsFiniteSet(I)
    PROVE  /\ Cardinality(I) \in Nat
           /\ \A i \in I : Rank(i, I) \in 1 .. Cardinality(I)
           /\ \A i, k \in I : i < k <=> Rank(i, I) < Rank(k, I)
           /\ \A r \in 1 .. Cardinality(I) : Nth(r, I) \in I /\ Rank(Nth(r, I), I) = r
<1> DEFINE N == Cardinality(I)
           U(i) == {j \in I : j <= i}
           f == [i \in I |-> Rank(i, I)]
<1>1. N \in Nat
  BY FS_CardinalityType
<1> HIDE DEF N
<1>2. ASSUME NEW i \in I
      PROVE  /\ IsFiniteSet(U(i)) /\ Rank(i, I) = Cardinality(U(i)) /\ Rank(i, I) \in 1 .. N
             /\ i \in U(i)
  <2>1. U(i) \in SUBSET I /\ i \in U(i)
    OBVIOUS
  <2>2. IsFiniteSet(U(i)) /\ Cardinality(U(i)) <= N
    BY <2>1, FS_Subset DEF N
  <2>3. Cardinality(U(i)) \in Nat /\ Cardinality(U(i)) # 0
    BY <2>1, <2>2, FS_CardinalityType, FS_EmptySet
  <2>4. Rank(i, I) = Cardinality(U(i))
    BY DEF Rank
  <2> QED
    BY <1>1, <2>1, <2>2, <2>3, <2>4
<1>t. \A i \in I : Rank(i, I) \in 1 .. N /\ Rank(i, I) \in Int /\ i \in Int
  <2>1. \A i \in I : Rank(i, I) \in 1 .. N
    BY <1>2
  <2>2. \A i \in I : i \in Int
    OBVIOUS
  <2> HIDE DEF U, f
  <2> QED
    BY <1>1, <2>1, <2>2
<1>3. ASSUME NEW i \in I, NEW k \in I, i < k
      PROVE  Rank(i, I) < Rank(k, I)
  <2>1. U(i) \in SUBSET (U(k) \ {k})
    <3>1. i \in Int /\ k \in Int
      BY <1>t
    <3> SUFFICES ASSUME NEW j \in I, j <= i
                 PROVE  j <= k /\ j # k
      OBVIOUS
    <3>2. j \in Int
      BY <1>t
    <3> QED
      BY <1>3, <3>1, <3>2
  <2>2. k \in U(k) /\ IsFiniteSet(U(k)) /\ Rank(k, I) = Cardinality(U(k)) /\ Rank(k, I) \in Nat
    BY <1>1, <1>2
  <2>3. IsFiniteSet(U(k) \ {k}) /\ Cardinality(U(k) \ {k}) = Cardinality(U(k)) - 1
    BY <2>2, FS_RemoveElement
  <2>4. Cardinality(U(i)) <= Cardinality(U(k) \ {k})
    BY <2>1, <2>3, FS_Subset
  <2>5. Rank(i, I) <= Rank(k, I) - 1 /\ Rank(i, I) \in Nat
    BY <1>1, <1>2, <2>2, <2>3, <2>4
  <2> QED
    BY <2>2, <2>5
<1>4. ASSUME NEW i \in I, NEW k \in I, Rank(i, I) < Rank(k, I)
      PROVE  i < k
  <2>1. i \in Int /\ k \in Int /\ Rank(i, I) \in Int /\ Rank(k, I) \in Int
    BY <1>t
  <2>2. i # k
    BY <1>4, <2>1
  <2>3. ~(k < i)
    BY <1>3, <1>4, <2>1
  <2> QED
    BY <2>1, <2>2, <2>3
<1>5. f \in Injection(I, 1 .. N)
  <2>1. f \in [I -> 1 .. N]
    BY <1>2
  <2>2. ASSUME NEW i \in I, NEW k \in I, f[i] = f[k]
        PROVE  i = k
    <3>1. Rank(i, I) = Rank(k, I) /\ Rank(i, I) \in Int /\ i \in Int /\ k \in Int
      BY <1>t, <2>2
    <3>2. ~(i < k) /\ ~(k < i)
      BY <1>3, <3>1
    <3> QED
      BY <3>1, <3>2
  <2> QED
    BY <2>1, <2>2 DEF Injection, IsInjective
<1>6. IsFiniteSet(1 .. N) /\ Cardinality(1 .. N) = N
  BY <1>1, FS_Interval
<1>7. f \in Surjection(I, 1 .. N)
  BY <1>5, <1>6, FS_Injection DEF N
<1>8. ASSUME NEW r \in 1 .. N
      PROVE  Nth(r, I) \in I /\ Rank(Nth(r, I), I) = r
  <2>1. \E i \in I : Rank(i, I) = r
    BY <1>7 DEF Surjection
  <2> QED
    BY <2>1 DEF Nth
<1> QED
  BY <1>1, <1>2, <1>3, <1>4, <1>8 DEF N

-----------------------------------------------------------------------------
(* The colons of the text are those of the parameters.                     *)

LEMMA OneColon ==
    ASSUME NEW s \in Seq(Chars), NEW j \in 1 .. Len(s), s[j] = ":"
    PROVE  /\ Has(":", s) /\ Place(":", s) \in 1 .. Len(s) /\ s[Place(":", s)] = ":"
           /\ Colons(s) <= 1 => j = Place(":", s)
<1> DEFINE P == Places(":", s)
           f == Place(":", s)
<1>1. f \in 1 .. Len(s) /\ s[f] = ":" /\ f # 0
  <2>1. f = 0 \/ f \in 1 .. Len(s)
    BY PlaceIs
  <2>2. f # 0 /\ s[f] = ":"
    BY PlaceIs
  <2> QED
    BY <2>1, <2>2
<1>2. IsFiniteSet(P) /\ Colons(s) = Cardinality(P) /\ Cardinality(P) \in Nat
  BY OccurrencesIs DEF Colons, Occurrences
<1>3. j \in P /\ f \in P
  BY <1>1 DEF Places
<1> HIDE DEF P, f
<1>4. ASSUME j # f, Cardinality(P) <= 1
      PROVE  FALSE
  <2>1. IsFiniteSet(P \ {f}) /\ Cardinality(P \ {f}) = Cardinality(P) - 1
    BY <1>2, <1>3, FS_RemoveElement
  <2>2. Cardinality(P \ {f}) # 0 /\ Cardinality(P \ {f}) \in Nat
    <3>1. P \ {f} # {}
      BY <1>3, <1>4
    <3> QED
      BY <2>1, <3>1, FS_EmptySet, FS_CardinalityType
  <2> QED
    BY <1>2, <1>4, <2>1, <2>2
<1> QED
  BY <1>1, <1>2, <1>4 DEF Has, f

LEMMA TwoColons ==
    ASSUME NEW s \in Seq(Chars), ~(Colons(s) <= 1)
    PROVE  \E j \in 1 .. Len(s) : s[j] = ":" /\ j # Place(":", s)
<1> DEFINE P == Places(":", s)
           f == Place(":", s)
<1>1. IsFiniteSet(P) /\ Colons(s) = Cardinality(P) /\ Cardinality(P) \in Nat
  BY OccurrencesIs DEF Colons, Occurrences
<1>2. SUFFICES ASSUME \A j \in P : j = f
               PROVE  FALSE
  BY DEF Places
<1>3. Cardinality({f}) = 1 /\ IsFiniteSet({f}) /\ P \in SUBSET {f}
  BY <1>2, FS_Singleton
<1>4. Cardinality(P) <= 1
  BY <1>3, FS_Subset
<1> QED
  BY <1>1, <1>4

\* Where the i-th parameter has its colon.
ColonAt(p, i) == Offset(p)[i] + Place(":", p[i])

LEMMA InText ==
    ASSUME NEW p \in Inputs, NEW i \in 1 .. Len(p)
    PROVE  /\ Offset(p)[i] \in Nat /\ Len(p[i]) \in Nat /\ Len(Printed(p)) \in Nat
           /\ Offset(p)[i] + Len(p[i]) + 2 <= Len(Printed(p))
           /\ Len(p) \in Nat /\ Len(p) # 0 /\ p[i] \in Seq(Chars) /\ Shaped(p, Printed(p), Offset(p))
           /\ i < Len(p) => Offset(p)[i] + Len(p[i]) + 6 <= Len(Printed(p))
           /\ i = Len(p) => Len(Printed(p)) = Offset(p)[i] + Len(p[i]) + 2
<1>1. p \in Seq(Seq(Chars)) /\ Len(p) \in Nat /\ Len(p) # 0 /\ i \in DOMAIN p /\ i \in Int /\ i <= Len(p)
  <2>1. p \in Seq(Seq(Chars))
    BY InputAssumption
  <2>2. Len(p) \in Nat /\ DOMAIN p = 1 .. Len(p)
    BY <2>1, DomainOf
  <2> QED
    BY <2>1, <2>2
<1>2. p[i] \in Seq(Chars)
  BY <1>1
<1>3. Shaped(p, Printed(p), Offset(p))
  BY <1>1, PrintedShape
<1> DEFINE o == Offset(p)[i]
           m == Len(p[i])
           on == Offset(p)[Len(p)]
           mn == Len(p[Len(p)])
           L == Len(Printed(p))
<1>4. o \in Nat /\ m \in Nat /\ on \in Nat /\ mn \in Nat /\ L = on + mn + 2
      /\ (i < Len(p) => o + m + 4 <= on) /\ (i = Len(p) => o = on /\ m = mn)
  <2>1. Len(p) \in 1 .. Len(p)
    BY <1>1
  <2>2. /\ L = on + mn + 2
        /\ \A k \in 1 .. Len(p) : Offset(p)[k] \in Nat /\ Len(p[k]) \in Nat
        /\ \A j, k \in 1 .. Len(p) : j < k => Offset(p)[j] + Len(p[j]) + 4 <= Offset(p)[k]
    BY <1>3 DEF Shaped
  <2>3. o \in Nat /\ m \in Nat /\ on \in Nat /\ mn \in Nat
    BY <2>1, <2>2
  <2>4. i < Len(p) => o + m + 4 <= on
    BY <2>1, <2>2
  <2> QED
    BY <2>2, <2>3, <2>4
<1>5. i < Len(p) \/ i = Len(p)
  BY <1>1
<1> HIDE DEF o, m, on, mn, L
<1>6. L \in Nat /\ o + m + 2 <= L /\ (i < Len(p) => o + m + 6 <= L) /\ (i = Len(p) => L = o + m + 2)
  BY <1>4, <1>5
<1> QED
  BY <1>1, <1>2, <1>3, <1>4, <1>6 DEF o, m, L

LEMMA PairedIs ==
    ASSUME NEW p \in Inputs
    PROVE  /\ Paired(p) \in SUBSET Nat /\ IsFiniteSet(Paired(p))
           /\ \A i \in Paired(p) : /\ i \in 1 .. Len(p) /\ Place(":", p[i]) \in 1 .. Len(p[i])
                                   /\ p[i][Place(":", p[i])] = ":"
<1>1. p \in Seq(Seq(Chars)) /\ DOMAIN p = 1 .. Len(p) /\ Len(p) \in Nat
  <2>1. p \in Seq(Seq(Chars))
    BY InputAssumption
  <2> QED
    BY <2>1, DomainOf
<1>2. Paired(p) \in SUBSET (1 .. Len(p))
  BY <1>1 DEF Paired
<1>3. IsFiniteSet(Paired(p))
  <2>1. IsFiniteSet(1 .. Len(p))
    BY <1>1, FS_Interval
  <2> QED
    BY <1>2, <2>1, FS_Subset
<1>4. ASSUME NEW i \in Paired(p)
      PROVE  /\ i \in 1 .. Len(p) /\ Place(":", p[i]) \in 1 .. Len(p[i])
             /\ p[i][Place(":", p[i])] = ":"
  <2>1. p[i] \in Seq(Chars) /\ Place(":", p[i]) # 0
    BY <1>1 DEF Paired, Has
  <2> QED
    BY <1>2, <2>1, PlaceIs
<1> QED
  BY <1>2, <1>3, <1>4

\* Without parameters there are the brackets only.
LEMMA EmptyPrinted ==
    ASSUME NEW p \in Inputs, Len(p) = 0
    PROVE  \A x \in 1 .. Len(Printed(p)) : Printed(p)[x] # ":"
<1> DEFINE open == <<"[">>
           t == FlattenSeq(Separated(p))
           close == <<"]">>
<1>1. Separated(p) = <<>>
  <2>1. p \in Seq(Seq(Chars))
    BY InputAssumption
  <2>2. DOMAIN p = 1 .. Len(p)
    BY <2>1, DomainOf
  <2> QED
    BY <2>2 DEF Separated
<1>2. t = <<>>
  BY <1>1 DEF FlattenSeq
<1>3. t \in Seq(Signs) /\ Plain(t)
  BY <1>2 DEF Plain
<1>4. open \in Seq(Signs) /\ Plain(open)
  <2>1. open \in Seq(Signs) /\ Len(open) = 1 /\ open[1] = "["
    BY OneSign DEF Signs
  <2> HIDE DEF open
  <2>2. DOMAIN open = 1 .. 1
    BY <2>1, DomainOf
  <2> QED
    BY <2>1, <2>2, OtherSigns DEF Plain
<1>5. close \in Seq(Signs) /\ Plain(close)
  <2>1. "]" \in Signs
    BY InputAssumption DEF Signs
  <2>2. close \in Seq(Signs) /\ Len(close) = 1 /\ close[1] = "]"
    BY <2>1, OneSign
  <2> HIDE DEF close
  <2>3. DOMAIN close = 1 .. 1
    BY <2>2, DomainOf
  <2> QED
    BY <2>2, <2>3, OtherSigns DEF Plain
<1>6. Printed(p) = (open \o t) \o close
  BY DEF Printed
<1> HIDE DEF open, t, close
<1> DEFINE u == open \o t
           w == u \o close
<1>7. u \in Seq(Signs) /\ Plain(u)
  BY <1>3, <1>4, ConcatIs, PlainJoin
<1> HIDE DEF u
<1>8. w \in Seq(Signs) /\ Plain(w)
  BY <1>5, <1>7, ConcatIs, PlainJoin
<1> HIDE DEF w
<1>9. \A x \in 1 .. Len(w) : w[x] # ":"
  BY <1>8, DomainOf DEF Plain
<1> QED
  BY <1>6, <1>9 DEF w, u

LEMMA ColonsAt ==
    ASSUME NEW p \in Inputs
    PROVE  /\ \A i \in Paired(p) : ColonAt(p, i) \in Places(":", Printed(p))
           /\ \A i, k \in Paired(p) : i < k <=> ColonAt(p, i) < ColonAt(p, k)
           /\ Regular(p) => \A x \in Places(":", Printed(p)) : \E i \in Paired(p) : x = ColonAt(p, i)
           /\ ~Regular(p) => \E x \in Places(":", Printed(p)) : \A i \in Paired(p) : x # ColonAt(p, i)
<1> DEFINE t == Printed(p)
           o == Offset(p)
<1>1. t \in Seq(Signs) /\ DOMAIN t = 1 .. Len(t)
  <2>1. t \in Seq(Signs)
    BY PrintedIs
  <2> HIDE DEF t
  <2> QED
    BY <2>1, DomainOf
<1>0. \A x : x \in Places(":", t) <=> x \in 1 .. Len(t) /\ t[x] = ":"
  BY <1>1 DEF Places
<1>2. ASSUME NEW i \in 1 .. Len(p), NEW j \in 1 .. Len(p[i]), p[i][j] = ":"
      PROVE  o[i] + j \in Places(":", t)
  <2> DEFINE a == o[i]
             m == Len(p[i])
             L == Len(t)
  <2>1. a \in Nat /\ m \in Nat /\ L \in Nat /\ a + m + 2 <= L /\ Shaped(p, t, o)
    BY InText
  <2>2. t[a + j] = p[i][j]
    BY <2>1 DEF Shaped
  <2>3. a + j \in 1 .. L
    <3>1. j \in 1 .. m
      OBVIOUS
    <3> HIDE DEF a, m, L
    <3> QED
      BY <2>1, <3>1
  <2> QED
    BY <1>0, <1>2, <2>2, <2>3
<1>3. ASSUME NEW i \in Paired(p)
      PROVE  ColonAt(p, i) \in Places(":", t)
  BY <1>2, PairedIs DEF ColonAt
<1>4. ASSUME NEW i \in 1 .. Len(p), NEW k \in 1 .. Len(p), NEW x \in 1 .. Len(p[i]),
             NEW y \in 1 .. Len(p[k]), i < k
      PROVE  o[i] + x < o[k] + y
  <2> DEFINE a == o[i]
             b == o[k]
             m == Len(p[i])
             l == Len(p[k])
  <2>1. a \in Nat /\ b \in Nat /\ m \in Nat /\ l \in Nat /\ Shaped(p, t, o)
    BY InText
  <2>2. a + m + 4 <= b
    BY <1>4, <2>1 DEF Shaped
  <2>3. x \in 1 .. m /\ y \in 1 .. l
    OBVIOUS
  <2> HIDE DEF a, b, m, l
  <2>4. a + x < b + y
    BY <2>1, <2>2, <2>3
  <2> QED
    BY <2>4 DEF a, b
<1> HIDE DEF o
<1>5. ASSUME NEW i \in Paired(p), NEW k \in Paired(p), i < k
      PROVE  ColonAt(p, i) < ColonAt(p, k)
  BY <1>4, <1>5, PairedIs DEF ColonAt, o
<1>6. ASSUME NEW i \in Paired(p), NEW k \in Paired(p), ColonAt(p, i) < ColonAt(p, k)
      PROVE  i < k
  <2>1. ColonAt(p, i) \in Int /\ ColonAt(p, k) \in Int
    <3>1. Places(":", t) \in SUBSET Int
      BY <1>0
    <3> QED
      BY <1>3, <3>1
  <2>2. i \in Int /\ k \in Int
    BY PairedIs
  <2>3. ~(k < i)
    BY <1>5, <1>6, <2>1
  <2>4. i # k
    BY <1>6, <2>1
  <2> QED
    BY <2>2, <2>3, <2>4
<1>7. ASSUME NEW x \in Places(":", t)
      PROVE  \E i \in 1 .. Len(p) : \E j \in 1 .. Len(p[i]) : x = o[i] + j /\ p[i][j] = ":"
  <2>1. x \in 1 .. Len(t) /\ t[x] = ":"
    BY <1>0
  <2>2. p \in Seq(Seq(Chars))
    BY InputAssumption
  <2>3. Len(p) # 0
    BY <2>1, EmptyPrinted
  <2>4. PICK i \in 1 .. Len(p) : x - o[i] \in 1 .. Len(p[i])
    <3>1. Shaped(p, t, o)
      BY <2>3, PrintedShape DEF o
    <3> QED
      BY <2>1, <3>1 DEF Shaped
  <2> DEFINE j == x - o[i]
  <2>5. o[i] \in Nat /\ x \in Int /\ Shaped(p, t, o)
    BY <2>1, InText DEF o
  <2>6. j \in 1 .. Len(p[i]) /\ x = o[i] + j
    BY <2>4, <2>5
  <2> HIDE DEF j
  <2>7. t[o[i] + j] = p[i][j]
    BY <2>5, <2>6 DEF Shaped
  <2> QED
    BY <2>1, <2>6, <2>7
<1>8. ASSUME Regular(p), NEW x \in Places(":", t)
      PROVE  \E i \in Paired(p) : x = ColonAt(p, i)
  <2>0. PICK i \in 1 .. Len(p) : \E j \in 1 .. Len(p[i]) : x = o[i] + j /\ p[i][j] = ":"
    BY <1>7
  <2>1. PICK j \in 1 .. Len(p[i]) : x = o[i] + j /\ p[i][j] = ":"
    BY <2>0
  <2>2. p[i] \in Seq(Chars) /\ i \in DOMAIN p
    <3>1. p \in Seq(Seq(Chars))
      BY InputAssumption
    <3> QED
      BY <3>1, DomainOf
  <2>3. Has(":", p[i]) /\ j = Place(":", p[i])
    BY <1>8, <2>1, <2>2, OneColon DEF Regular
  <2> QED
    BY <2>1, <2>2, <2>3 DEF Paired, ColonAt, o
<1>9. ASSUME ~Regular(p)
      PROVE  \E x \in Places(":", t) : \A i \in Paired(p) : x # ColonAt(p, i)
  <2>1. PICK i \in DOMAIN p : ~(Colons(p[i]) <= 1)
    BY <1>9 DEF Regular
  <2>2. p[i] \in Seq(Chars) /\ i \in 1 .. Len(p)
    <3>1. p \in Seq(Seq(Chars))
      BY InputAssumption
    <3> QED
      BY <3>1, DomainOf
  <2>3. PICK j \in 1 .. Len(p[i]) : p[i][j] = ":" /\ j # Place(":", p[i])
    BY <2>1, <2>2, TwoColons
  <2> DEFINE x == o[i] + j
  <2>4. x \in Places(":", t)
    BY <1>2, <2>2, <2>3 DEF o
  <2>5. ASSUME NEW k \in Paired(p), x = ColonAt(p, k)
        PROVE  FALSE
    <3> DEFINE y == Place(":", p[k])
    <3>1. k \in 1 .. Len(p) /\ y \in 1 .. Len(p[k]) /\ o[i] + j = o[k] + y
      BY <2>5, PairedIs DEF ColonAt, o
    <3>2. o[i] \in Nat /\ o[k] \in Nat /\ Len(p[i]) \in Nat /\ Len(p[k]) \in Nat
      BY <2>2, <3>1, InText DEF o
    <3>3. i \in Int /\ k \in Int /\ j \in Int /\ y \in Int
      BY <2>2, <2>3, <3>1, <3>2
    <3>4. ~(o[i] + j < o[k] + y) /\ ~(o[k] + y < o[i] + j)
      <4> HIDE DEF y
      <4> QED
        BY <3>1, <3>2, <3>3
    <3>5. ~(i < k) /\ ~(k < i)
      BY <1>4, <2>2, <2>3, <3>1, <3>4 DEF o
    <3>6. i = k
      BY <3>3, <3>5
    <3>7. j = y
      <4>1. o[i] + j = o[i] + y
        BY <3>1, <3>6
      <4> HIDE DEF y
      <4> QED
        BY <3>2, <3>3, <4>1
    <3> QED
      BY <2>3, <3>6, <3>7
  <2> QED
    BY <2>4, <2>5
<1> QED
  BY <1>3, <1>5, <1>6, <1>8, <1>9

\* There are as many colons as parameters that have one, or more.
LEMMA ColonsCounted ==
    ASSUME NEW p \in Inputs
    PROVE  /\ GetParamsNum(Printed(p)) \in Nat
           /\ Regular(p) <=> Cardinality(Paired(p)) = GetParamsNum(Printed(p))
<1> DEFINE I == Paired(p)
           C == Places(":", Printed(p))
           f == [i \in I |-> ColonAt(p, i)]
<1>1. IsFiniteSet(C) /\ Cardinality(C) = GetParamsNum(Printed(p)) /\ Cardinality(C) \in Nat
  <2>1. Printed(p) \in Seq(Signs)
    BY PrintedIs
  <2> QED
    BY <2>1, OccurrencesIs DEF GetParamsNum, Occurrences
<1>2. /\ \A i \in I : ColonAt(p, i) \in C
      /\ \A i, k \in I : i < k <=> ColonAt(p, i) < ColonAt(p, k)
      /\ Regular(p) => \A x \in C : \E i \in I : x = ColonAt(p, i)
      /\ ~Regular(p) => \E x \in C : \A i \in I : x # ColonAt(p, i)
  BY ColonsAt
<1>3. I \in SUBSET Nat
  BY PairedIs
<1>4. C \in SUBSET Int
  <2>1. Printed(p) \in Seq(Signs)
    BY PrintedIs
  <2>2. DOMAIN Printed(p) = 1 .. Len(Printed(p))
    BY <2>1, DomainOf
  <2> QED
    BY <2>2 DEF Places
<1> HIDE DEF I, C
<1>5. f \in Injection(I, C)
  <2>1. f \in [I -> C]
    BY <1>2
  <2>2. ASSUME NEW i \in I, NEW k \in I, f[i] = f[k]
        PROVE  i = k
    <3>1. ColonAt(p, i) = ColonAt(p, k) /\ ColonAt(p, i) \in Int /\ ColonAt(p, k) \in Int
      BY <1>2, <1>4, <2>2
    <3>2. i \in Int /\ k \in Int
      BY <1>3
    <3>3. ~(i < k) /\ ~(k < i)
      BY <1>2, <3>1
    <3> QED
      BY <3>2, <3>3
  <2> QED
    BY <2>1, <2>2 DEF Injection, IsInjective
<1>6. Cardinality(I) = Cardinality(C) <=> f \in Surjection(I, C)
  BY <1>1, <1>5, FS_Injection
<1>7. f \in Surjection(I, C) <=> \A x \in C : \E i \in I : x = ColonAt(p, i)
  <2>1. f \in [I -> C] /\ \A i \in I : f[i] = ColonAt(p, i)
    BY <1>2
  <2> QED
    BY <2>1 DEF Surjection
<1> QED
  BY <1>1, <1>2, <1>6, <1>7 DEF I, C

-----------------------------------------------------------------------------
(* What a round takes for the value v from the text t that begins with it. *)

Slice(t, i, m) == IF m = 1 \/ i = 0 THEN t ELSE SubSeq(t, 1, i - 1)

\* Round r of m.
Taken(t, r, m) ==
    LET value == Slice(t, Place(IF r = m THEN "]" ELSE Comma, t) - 1, m)
    IN IF r = m THEN SubStrLastVal(value) ELSE value

Begins(t, v) ==
    /\ t \in Seq(Signs) /\ v \in Seq(Chars) /\ Len(v) + 2 <= Len(t)
    /\ \A j \in 1 .. Len(v) : t[j] = v[j]
    /\ t[Len(v) + 1] = "'" /\ t[Len(t)] = "]"
Final(t, v) == Begins(t, v) /\ Len(t) = Len(v) + 2
Inner(t, v) == Begins(t, v) /\ Len(v) + 6 <= Len(t) /\ t[Len(v) + 2] = Comma

LEMMA NoQuote == Comma # "'" /\ "]" # "'"
  BY InputAssumption

LEMMA PrefixIs ==
    ASSUME NEW S, NEW t \in Seq(S), NEW n \in 0 .. Len(t)
    PROVE  /\ SubSeq(t, 1, n) \in Seq(S) /\ Len(SubSeq(t, 1, n)) = n
           /\ \A j \in 1 .. n : SubSeq(t, 1, n)[j] = t[j]
  OBVIOUS

LEMMA SameSeq ==
    ASSUME NEW S, NEW s \in Seq(S), NEW R, NEW u \in Seq(R), Len(s) = Len(u),
           \A j \in 1 .. Len(s) : s[j] = u[j]
    PROVE  s = u
  OBVIOUS

\* The value itself stands at the beginning.
LEMMA BeginsIs ==
    ASSUME NEW t, NEW v, Begins(t, v)
    PROVE  /\ Len(v) \in Nat /\ Len(t) \in Nat /\ Len(v) + 2 <= Len(t)
           /\ SubSeq(t, 1, Len(v)) = v
           /\ \A n \in 0 .. Len(t) : Len(SubSeq(t, 1, n)) = n
<1>1. t \in Seq(Signs) /\ v \in Seq(Chars) /\ Len(v) + 2 <= Len(t) /\ \A j \in 1 .. Len(v) : t[j] = v[j]
  BY DEF Begins
<1>2. Len(v) \in Nat /\ Len(t) \in Nat
  BY <1>1
<1>3. Len(v) \in 0 .. Len(t)
  BY <1>1, <1>2
<1> DEFINE u == SubSeq(t, 1, Len(v))
<1>4. u \in Seq(Signs) /\ Len(u) = Len(v) /\ \A j \in 1 .. Len(v) : u[j] = t[j]
  BY <1>1, <1>3, PrefixIs
<1>5. u = v
  <2> HIDE DEF u
  <2> QED
    BY <1>1, <1>4, SameSeq
<1>6. \A n \in 0 .. Len(t) : Len(SubSeq(t, 1, n)) = n
  BY <1>1, PrefixIs
<1> QED
  BY <1>1, <1>2, <1>5, <1>6

\* Where the first c of the text is.
LEMMA FirstStop ==
    ASSUME NEW t, NEW v, Begins(t, v), NEW c, c # "'"
    PROVE  /\ Has(c, v) => Place(c, t) = Place(c, v) /\ Place(c, v) \in 1 .. Len(v)
           /\ ~Has(c, v) /\ t[Len(v) + 2] = c => Place(c, t) = Len(v) + 2
           /\ ~Has(c, v) /\ t[Len(v) + 2] # c => Place(c, t) = 0 \/ Len(v) + 3 <= Place(c, t)
<1> DEFINE m == Len(v)
           P == Place(c, t)
           Q == Place(c, v)
<1>1. t \in Seq(Signs) /\ v \in Seq(Chars) /\ m + 2 <= Len(t)
      /\ t[m + 1] = "'" /\ \A j \in 1 .. m : t[j] = v[j]
  BY DEF Begins
<1>2. m \in Nat /\ Len(t) \in Nat /\ (P = 0 \/ P \in 1 .. Len(t)) /\ (P # 0 => t[P] = c)
      /\ (P = 0 => \A j \in 1 .. Len(t) : t[j] # c) /\ \A j \in 1 .. Len(t) : j < P => t[j] # c
  <2>1. m \in Nat /\ Len(t) \in Nat
    BY <1>1
  <2>2. \/ P = 0 /\ \A j \in 1 .. Len(t) : t[j] # c
        \/ P \in 1 .. Len(t) /\ t[P] = c /\ \A j \in 1 .. Len(t) : j < P => t[j] # c
    BY <1>1, PlaceIs
  <2> HIDE DEF P
  <2> QED
    BY <2>1, <2>2
<1>3. \/ Q = 0 /\ \A j \in 1 .. m : v[j] # c
      \/ Q \in 1 .. m /\ v[Q] = c /\ \A j \in 1 .. m : j < Q => v[j] # c
  BY <1>1, PlaceIs
<1>4. Has(c, v) <=> Q # 0
  BY DEF Has
<1> HIDE DEF m, P, Q
<1>5. ASSUME Q # 0
      PROVE  P = Q /\ Q \in 1 .. m
  <2>1. Q \in 1 .. m /\ v[Q] = c /\ \A j \in 1 .. m : j < Q => v[j] # c
    BY <1>3, <1>5
  <2>2. t[Q] = c /\ Q \in 1 .. Len(t)
    BY <1>1, <1>2, <2>1
  <2>3. P # 0 /\ ~(Q < P)
    BY <1>2, <2>2
  <2>4. P \in Int /\ 1 <= P /\ P <= Q /\ Q \in Int /\ Q <= m
    BY <1>2, <2>1, <2>3
  <2>5. P \in 1 .. m
    BY <1>2, <2>4
  <2>6. v[P] = c
    BY <1>1, <1>2, <2>3, <2>5
  <2>7. ~(P < Q)
    BY <2>1, <2>5, <2>6
  <2> QED
    BY <2>1, <2>4, <2>7
<1>6. ASSUME Q = 0, P # 0
      PROVE  P \in Int /\ m + 2 <= P
  <2>1. \A j \in 1 .. m : t[j] # c
    BY <1>1, <1>2, <1>3, <1>6
  <2>2. P \in 1 .. Len(t) /\ t[P] = c
    BY <1>2, <1>6
  <2>3. P # m + 1
    BY <1>1, <2>2
  <2>4. P \notin 1 .. m /\ P \in Int /\ 1 <= P
    BY <1>2, <2>1, <2>2
  <2> QED
    BY <1>2, <2>3, <2>4
<1>7. m + 2 \in 1 .. Len(t)
  BY <1>1, <1>2
<1>8. ASSUME Q = 0, t[m + 2] = c
      PROVE  P = m + 2
  <2>1. P # 0 /\ ~(m + 2 < P)
    BY <1>2, <1>7, <1>8
  <2> QED
    BY <1>2, <1>6, <1>8, <2>1
<1>9. ASSUME Q = 0, t[m + 2] # c, P # 0
      PROVE  m + 3 <= P
  <2>1. P # m + 2
    BY <1>2, <1>9
  <2> QED
    BY <1>2, <1>6, <1>9, <2>1
<1> QED
  BY <1>4, <1>5, <1>8, <1>9 DEF m, P, Q

\* Two characters are cut from a text that is not cut before.
LEMMA WholeTaken ==
    ASSUME NEW t, NEW v
    PROVE  /\ Final(t, v) => (SubStrLastVal(t) = v <=> 2 <= Len(v))
           /\ Inner(t, v) => SubStrLastVal(t) # v
<1> SUFFICES ASSUME Begins(t, v)
             PROVE  /\ Final(t, v) => (SubStrLastVal(t) = v <=> 2 <= Len(v))
                    /\ Inner(t, v) => SubStrLastVal(t) # v
  BY DEF Final, Inner
<1> DEFINE m == Len(v)
           n == Len(t)
           w == SubStrLastVal(t)
<1>1. m \in Nat /\ n \in Nat /\ m + 2 <= n /\ SubSeq(t, 1, m) = v /\ \A k \in 0 .. n : Len(SubSeq(t, 1, k)) = k
  BY BeginsIs
<1>2. Place("]", t) # 0
  <2>1. t \in Seq(Signs) /\ t[n] = "]"
    BY DEF Begins
  <2>2. n \in 1 .. n
    BY <1>1
  <2> QED
    BY <2>1, <2>2, PlaceIs
<1>3. w = IF n - 2 < 2 THEN t ELSE SubSeq(t, 1, n - 2)
  BY <1>2 DEF SubStrLastVal
<1> HIDE DEF m, n, w
<1>4. n = Len(t) /\ m = Len(v)
  BY DEF m, n
<1>5. ASSUME n = m + 2
      PROVE  w = v <=> 2 <= m
  <2>1. CASE 2 <= m
    <3>1. ~(n - 2 < 2) /\ n - 2 = m
      BY <1>1, <1>5, <2>1
    <3> QED
      BY <1>1, <1>3, <2>1, <3>1
  <2>2. CASE ~(2 <= m)
    <3>1. n - 2 < 2 /\ n # m
      BY <1>1, <1>5, <2>2
    <3> QED
      BY <1>3, <1>4, <2>2, <3>1
  <2> QED
    BY <2>1, <2>2
<1>6. ASSUME m + 6 <= n
      PROVE  w # v
  <2>1. ~(n - 2 < 2) /\ n - 2 \in 0 .. n /\ n - 2 # m
    BY <1>1, <1>6
  <2>2. w = SubSeq(t, 1, n - 2) /\ Len(SubSeq(t, 1, n - 2)) = n - 2
    BY <1>1, <1>3, <2>1
  <2> QED
    BY <1>4, <2>1, <2>2
<1> QED
  BY <1>4, <1>5, <1>6 DEF Final, Inner, w

\* Nothing is cut from a value that was cut at the bracket already.
LEMMA CutTaken ==
    ASSUME NEW t \in Seq(Signs), NEW n \in 0 .. Len(t), \A j \in 1 .. n : t[j] # "]"
    PROVE  SubStrLastVal(SubSeq(t, 1, n)) = SubSeq(t, 1, n)
<1> DEFINE u == SubSeq(t, 1, n)
<1>1. u \in Seq(Signs) /\ Len(u) = n /\ \A j \in 1 .. n : u[j] = t[j]
  BY PrefixIs
<1> HIDE DEF u
<1>2. Place("]", u) = 0
  <2>1. \A j \in 1 .. Len(u) : u[j] # "]"
    BY <1>1
  <2> QED
    BY <1>1, <2>1, PlaceIs
<1>3. SubStrLastVal(u) = u
  BY <1>2 DEF SubStrLastVal
<1> QED
  BY <1>3 DEF u

LEMMA MiddleTaken ==
    ASSUME NEW t, NEW v, Inner(t, v), NEW r, NEW m, r # m, m # 1
    PROVE  Taken(t, r, m) = v <=> ~Has(Comma, v)
<1> DEFINE l == Len(v)
           n == Len(t)
           P == Place(Comma, t)
           w == Taken(t, r, m)
<1>1. Begins(t, v) /\ t[l + 2] = Comma /\ l + 6 <= n
  BY DEF Inner
<1>2. l \in Nat /\ n \in Nat /\ SubSeq(t, 1, l) = v /\ \A k \in 0 .. n : Len(SubSeq(t, 1, k)) = k
  BY <1>1, BeginsIs
<1>3. /\ Has(Comma, v) => P = Place(Comma, v) /\ Place(Comma, v) \in 1 .. l
      /\ ~Has(Comma, v) => P = l + 2
  BY <1>1, NoQuote, FirstStop
<1>4. w = IF P - 1 = 0 THEN t ELSE SubSeq(t, 1, (P - 1) - 1)
  BY DEF Taken, Slice
<1> HIDE DEF l, n, P, w
<1>5. l = Len(v) /\ n = Len(t)
  BY DEF l, n
<1>6. CASE Has(Comma, v)
  <2>1. P \in 1 .. l
    BY <1>3, <1>6
  <2>2. CASE P = 1
    <3>1. w = t /\ n # l
      BY <1>1, <1>2, <1>4, <2>2
    <3> QED
      BY <1>5, <1>6, <3>1 DEF w
  <2>3. CASE P # 1
    <3>1. P - 1 # 0 /\ (P - 1) - 1 \in 0 .. n /\ (P - 1) - 1 # l
      BY <1>1, <1>2, <2>1, <2>3
    <3>2. Len(w) = (P - 1) - 1
      BY <1>2, <1>4, <3>1
    <3> QED
      BY <1>5, <1>6, <3>1, <3>2 DEF w
  <2> QED
    BY <2>2, <2>3
<1>7. CASE ~Has(Comma, v)
  <2>1. P - 1 # 0 /\ (P - 1) - 1 = l
    BY <1>2, <1>3, <1>7
  <2> QED
    BY <1>2, <1>4, <1>7, <2>1 DEF w
<1> QED
  BY <1>6, <1>7

\* The last of several values.
LEMMA LastTaken ==
    ASSUME NEW t, NEW v, NEW m, m # 1
    PROVE  /\ Final(t, v) =>
                  (Taken(t, m, m) = v <=> IF Place("]", v) = 1 THEN 2 <= Len(v) ELSE ~Has("]", v))
           /\ Inner(t, v) => Taken(t, m, m) # v
<1> SUFFICES ASSUME Begins(t, v)
             PROVE  /\ Final(t, v) =>
                           (Taken(t, m, m) = v <=>
                                IF Place("]", v) = 1 THEN 2 <= Len(v) ELSE ~Has("]", v))
                    /\ Inner(t, v) => Taken(t, m, m) # v
  BY DEF Final, Inner
<1> DEFINE l == Len(v)
           n == Len(t)
           P == Place("]", t)
           Q == Place("]", v)
           w == Taken(t, m, m)
<1>1. t \in Seq(Signs) /\ t[n] = "]"
  BY DEF Begins
<1>2. /\ l \in Nat /\ n \in Nat /\ l + 2 <= n /\ SubSeq(t, 1, l) = v
      /\ \A k \in 0 .. n : Len(SubSeq(t, 1, k)) = k
  BY BeginsIs
<1>3. /\ Has("]", v) => P = Q /\ Q \in 1 .. l
      /\ ~Has("]", v) /\ t[l + 2] = "]" => P = l + 2
      /\ ~Has("]", v) /\ t[l + 2] # "]" => P = 0 \/ l + 3 <= P
  BY NoQuote, FirstStop
<1>4. w = SubStrLastVal(IF P - 1 = 0 THEN t ELSE SubSeq(t, 1, (P - 1) - 1))
  BY DEF Taken, Slice
<1>5. P \in 1 .. n /\ \A j \in 1 .. n : j < P => t[j] # "]"
  <2>1. n \in 1 .. n
    BY <1>2
  <2> QED
    BY <1>1, <2>1, PlaceIs
<1>6. /\ Final(t, v) => (SubStrLastVal(t) = v <=> 2 <= l)
      /\ Inner(t, v) => SubStrLastVal(t) # v
  BY WholeTaken
<1>7. ~Has("]", v) <=> Q = 0
  BY DEF Has
<1>8. (Final(t, v) => t[l + 2] = "]") /\ (Inner(t, v) => t[l + 2] # "]")
  <2>1. Final(t, v) => n = l + 2
    BY DEF Final
  <2>2. Inner(t, v) => t[l + 2] = Comma
    BY DEF Inner
  <2> QED
    BY <1>1, <2>1, <2>2, OtherSigns
<1> HIDE DEF l, n, P, Q, w
<1>9. l = Len(v) /\ n = Len(t)
  BY DEF l, n
<1>10. ASSUME P # 1
       PROVE  w = SubSeq(t, 1, P - 2) /\ Len(w) = P - 2
  <2>1. P - 1 # 0 /\ (P - 1) - 1 = P - 2 /\ P - 2 \in 0 .. n
    BY <1>2, <1>5, <1>10
  <2>2. w = SubStrLastVal(SubSeq(t, 1, P - 2))
    BY <1>4, <2>1
  <2>3. \A j \in 1 .. P - 2 : j \in 1 .. n /\ j < P
    BY <1>2, <1>5
  <2>4. \A j \in 1 .. P - 2 : t[j] # "]"
    BY <1>5, <2>3
  <2>5. SubStrLastVal(SubSeq(t, 1, P - 2)) = SubSeq(t, 1, P - 2)
    BY <1>1, <1>9, <2>1, <2>4, CutTaken
  <2> QED
    BY <1>2, <2>1, <2>2, <2>5
<1>11. CASE P = 1
  <2>1. w = SubStrLastVal(t)
    BY <1>4, <1>11
  <2>2. Q = 1
    <3>1. Has("]", v)
      <4>1. P # l + 2 /\ P # 0 /\ ~(l + 3 <= P)
        BY <1>2, <1>11
      <4> QED
        BY <1>3, <4>1
    <3> QED
      BY <1>3, <1>11, <3>1
  <2> QED
    BY <1>6, <2>1, <2>2 DEF w, l, Q
<1>12. CASE P # 1 /\ Has("]", v)
  <2>1. P = Q /\ Q # 1 /\ Q \in 1 .. l
    BY <1>3, <1>12
  <2>2. Len(w) # l
    <3>1. P - 2 # l
      BY <1>2, <2>1
    <3> QED
      BY <1>10, <1>12, <3>1
  <2>3. w # v
    BY <1>9, <2>2
  <2> QED
    BY <1>12, <2>1, <2>3 DEF w, Q
<1>13. CASE P # 1 /\ ~Has("]", v)
  <2>1. Q = 0 /\ Q # 1
    BY <1>7, <1>13
  <2>2. Final(t, v) => w = v
    <3>1. SUFFICES ASSUME Final(t, v)
                   PROVE  w = v
      OBVIOUS
    <3>2. P = l + 2
      BY <1>3, <1>8, <1>13, <3>1
    <3>3. P - 2 = l
      BY <1>2, <3>2
    <3> QED
      BY <1>2, <1>10, <1>13, <3>3
  <2>3. Inner(t, v) => w # v
    <3>1. SUFFICES ASSUME Inner(t, v)
                   PROVE  w # v
      OBVIOUS
    <3>2. l + 3 <= P
      BY <1>3, <1>5, <1>8, <1>13, <3>1
    <3>3. P - 2 # l
      BY <1>2, <1>5, <3>2
    <3> QED
      BY <1>9, <1>10, <1>13, <3>3
  <2> QED
    BY <1>13, <2>1, <2>2, <2>3 DEF w, Q
<1> QED
  BY <1>11, <1>12, <1>13

LEMMA OnlyTaken ==
    ASSUME NEW t, NEW v
    PROVE  /\ Final(t, v) => (Taken(t, 1, 1) = v <=> 2 <= Len(v))
           /\ Inner(t, v) => Taken(t, 1, 1) # v
<1>1. Taken(t, 1, 1) = SubStrLastVal(t)
  BY DEF Taken, Slice
<1> QED
  BY <1>1, WholeTaken

\* The text after the colon of the i-th parameter.
After(p, i) == From(Printed(p), ColonAt(p, i) + 1)

LEMMA TailBegins ==
    ASSUME NEW p \in Inputs, NEW i \in Paired(p)
    PROVE  IF i = Len(p) THEN Final(After(p, i), Value(p[i])) ELSE Inner(After(p, i), Value(p[i]))
<1> DEFINE T == Printed(p)
           o == Offset(p)[i]
           m == Len(p[i])
           f == Place(":", p[i])
           x == ColonAt(p, i)
           t == After(p, i)
           v == Value(p[i])
           L == Len(T)
<1>1. i \in 1 .. Len(p) /\ f \in 1 .. m
  BY PairedIs
<1>2. /\ o \in Nat /\ m \in Nat /\ L \in Nat /\ o + m + 2 <= L
      /\ p[i] \in Seq(Chars) /\ (i < Len(p) => o + m + 6 <= L) /\ (i = Len(p) => L = o + m + 2)
      /\ Shaped(p, T, Offset(p)) /\ Len(p) \in Nat
  BY <1>1, InText
<1>3. /\ \A j \in 1 .. m : T[o + j] = p[i][j]
      /\ T[o + m + 1] = "'" /\ T[L] = "]" /\ (i < Len(p) => T[o + m + 2] = Comma)
  BY <1>1, <1>2 DEF Shaped
<1>4. T \in Seq(Signs)
  BY PrintedIs
<1>5. x = o + f
  BY DEF ColonAt
<1>6. v = From(p[i], f + 1)
  BY DEF Value
<1>7. t = From(T, x + 1)
  BY DEF After
<1> HIDE DEF f, t, v, x, m, o, T
<1>8. x \in Nat /\ x + 1 \in 1 .. L + 1 /\ f + 1 \in 1 .. m + 1 /\ f \in Nat
  <2> HIDE DEF L
  <2> QED
    BY <1>1, <1>2, <1>5
<1>9. v \in Seq(Chars) /\ Len(v) = m - f /\ \A j \in 1 .. m - f : v[j] = p[i][j + f]
  <2>1. /\ v \in Seq(Chars) /\ Len(v) = m - (f + 1) + 1
        /\ \A j \in 1 .. m - (f + 1) + 1 : v[j] = p[i][j + (f + 1) - 1]
    BY <1>2, <1>6, <1>8, FromIs DEF m
  <2>2. m - (f + 1) + 1 = m - f
    BY <1>2, <1>8
  <2>3. \A j \in 1 .. m - f : j + (f + 1) - 1 = j + f
    BY <1>2, <1>8
  <2> QED
    BY <2>1, <2>2, <2>3
<1>10. t \in Seq(Signs) /\ Len(t) = L - x /\ \A j \in 1 .. L - x : t[j] = T[j + x]
  <2>1. /\ t \in Seq(Signs) /\ Len(t) = L - (x + 1) + 1
        /\ \A j \in 1 .. L - (x + 1) + 1 : t[j] = T[j + (x + 1) - 1]
    BY <1>4, <1>7, <1>8, FromIs
  <2>2. L - (x + 1) + 1 = L - x
    BY <1>2, <1>8
  <2>3. \A j \in 1 .. L - x : j + (x + 1) - 1 = j + x
    <3> HIDE DEF L
    <3> QED
      BY <1>2, <1>8
  <2> QED
    BY <2>1, <2>2, <2>3
<1> DEFINE l == m - f
           n == L - x
<1> HIDE DEF L
<1>11. l \in Nat /\ n \in Nat /\ l + 2 <= n /\ l + x = o + m /\ n + x = L
  BY <1>1, <1>2, <1>5, <1>8
<1>12. \A j \in 1 .. l : t[j] = v[j]
  <2> SUFFICES ASSUME NEW j \in 1 .. l
               PROVE  t[j] = v[j]
    OBVIOUS
  <2>1. j \in 1 .. n /\ j + f \in 1 .. m /\ o + (j + f) = j + x
    BY <1>1, <1>2, <1>5, <1>8, <1>11
  <2> HIDE DEF l, n
  <2>2. t[j] = T[j + x]
    BY <1>10, <2>1 DEF n
  <2>3. T[o + (j + f)] = p[i][j + f]
    BY <1>3, <2>1
  <2>4. v[j] = p[i][j + f]
    BY <1>9 DEF l
  <2> QED
    BY <2>1, <2>2, <2>3, <2>4
<1>13. t[l + 1] = "'" /\ t[n] = "]" /\ (i < Len(p) => t[l + 2] = Comma)
  <2>1. /\ l + 1 \in 1 .. n /\ l + 2 \in 1 .. n /\ n \in 1 .. n
        /\ (l + 1) + x = o + m + 1 /\ (l + 2) + x = o + m + 2 /\ n + x = L
    <3> HIDE DEF l, n
    <3> QED
      BY <1>2, <1>8, <1>11
  <2> HIDE DEF l
  <2>2. t[l + 1] = T[(l + 1) + x] /\ t[l + 2] = T[(l + 2) + x] /\ t[n] = T[n + x]
    BY <1>10, <2>1
  <2> QED
    BY <1>3, <2>1, <2>2
<1>14. Len(v) = l /\ Len(t) = n
  BY <1>9, <1>10
<1> HIDE DEF l, n
<1>15. Begins(t, v)
  BY <1>9, <1>10, <1>11, <1>12, <1>13, <1>14 DEF Begins
<1>16. CASE i = Len(p)
  <2>1. L = o + m + 2
    BY <1>2, <1>16
  <2>2. n = l + 2
    BY <1>2, <1>8, <1>11, <2>1
  <2>3. Final(t, v)
    BY <1>14, <1>15, <2>2 DEF Final
  <2> QED
    BY <1>16, <2>3 DEF t, v
<1>17. CASE i # Len(p)
  <2>1. i < Len(p)
    BY <1>1, <1>2, <1>17
  <2>2. l + 6 <= n /\ t[l + 2] = Comma
    BY <1>2, <1>8, <1>11, <1>13, <2>1
  <2>3. Inner(t, v)
    BY <1>14, <1>15, <2>2 DEF Inner
  <2> QED
    BY <1>17, <2>3 DEF t, v
<1> QED
  BY <1>16, <1>17

\* What GetParamsArr takes for the i-th parameter.
Got(p, i) == Taken(After(p, i), Rank(i, Paired(p)), Cardinality(Paired(p)))

LEMMA NthRank ==
    ASSUME NEW I \in SUBSET Nat, IsFiniteSet(I), NEW i \in I
    PROVE  Nth(Rank(i, I), I) = i
<1> DEFINE k == Nth(Rank(i, I), I)
<1>1. /\ Rank(i, I) \in 1 .. Cardinality(I)
      /\ k \in I /\ Rank(k, I) = Rank(i, I) /\ (i < k <=> Rank(i, I) < Rank(k, I))
      /\ (k < i <=> Rank(k, I) < Rank(i, I)) /\ Cardinality(I) \in Nat
  <2>1. /\ Cardinality(I) \in Nat
        /\ \A j \in I : Rank(j, I) \in 1 .. Cardinality(I)
        /\ \A j, l \in I : j < l <=> Rank(j, I) < Rank(l, I)
        /\ \A r \in 1 .. Cardinality(I) : Nth(r, I) \in I /\ Rank(Nth(r, I), I) = r
    BY RankIs
  <2> QED
    BY <2>1
<1> HIDE DEF k
<1>2. k \in Int /\ i \in Int /\ Rank(i, I) \in Int
  BY <1>1
<1>3. ~(i < k) /\ ~(k < i)
  BY <1>1, <1>2
<1>4. k = i
  BY <1>2, <1>3
<1> QED
  BY <1>4 DEF k

\* The condition on the value of the last of m parameters that have one.
Whole(v, m) == IF m = 1 \/ Place("]", v) = 1 THEN 2 <= Len(v) ELSE ~Has("]", v)

\* A parameter comes through if no comma ends it or, for the last of those with
\* a colon, if it is the last of all and the end of the text is where it ends.
LEMMA GotIff ==
    ASSUME NEW p \in Inputs, NEW i \in Paired(p)
    PROVE  Got(p, i) = Value(p[i]) <=>
               IF Rank(i, Paired(p)) = Cardinality(Paired(p))
               THEN i = Len(p) /\ Whole(Value(p[i]), Cardinality(Paired(p)))
               ELSE ~Has(Comma, Value(p[i]))
<1> DEFINE I == Paired(p)
           N == Cardinality(I)
           r == Rank(i, I)
           v == Value(p[i])
           t == After(p, i)
<1>1. IF i = Len(p) THEN Final(t, v) ELSE Inner(t, v)
  BY TailBegins
<1>2. /\ N \in Nat /\ \A k \in I : Rank(k, I) \in 1 .. N
      /\ \A j, k \in I : j < k <=> Rank(j, I) < Rank(k, I)
      /\ \A k \in 1 .. N : Nth(k, I) \in I /\ Rank(Nth(k, I), I) = k
  BY PairedIs, RankIs
<1>3. I \in SUBSET Nat /\ \A k \in I : k \in 1 .. Len(p)
  BY PairedIs
<1>0. i \in I
  OBVIOUS
<1>4. Got(p, i) = Taken(t, r, N)
  BY DEF Got
<1> HIDE DEF I, N, r, v, t
<1>r. r = Rank(i, I) /\ r \in 1 .. N /\ r \in Int
  BY <1>0, <1>2 DEF r
<1>5. CASE r = N
  <2>1. CASE N = 1
    <3>1. /\ Final(t, v) => (Got(p, i) = v <=> 2 <= Len(v))
          /\ Inner(t, v) => Got(p, i) # v
      BY <1>4, <1>5, <2>1, OnlyTaken
    <3>2. Whole(v, N) <=> 2 <= Len(v)
      BY <2>1 DEF Whole
    <3>3. Got(p, i) = v <=> i = Len(p) /\ Whole(v, N)
      BY <1>1, <3>1, <3>2
    <3> QED
      BY <1>5, <3>3 DEF r, N, v, I
  <2>2. CASE N # 1
    <3>1. /\ Final(t, v) => (Got(p, i) = v <=> IF Place("]", v) = 1 THEN 2 <= Len(v) ELSE ~Has("]", v))
          /\ Inner(t, v) => Got(p, i) # v
      BY <1>4, <1>5, <2>2, LastTaken
    <3>2. Whole(v, N) <=> IF Place("]", v) = 1 THEN 2 <= Len(v) ELSE ~Has("]", v)
      BY <2>2 DEF Whole
    <3>3. Got(p, i) = v <=> i = Len(p) /\ Whole(v, N)
      BY <1>1, <3>1, <3>2
    <3> QED
      BY <1>5, <3>3 DEF r, N, v, I
  <2> QED
    BY <2>1, <2>2
<1>6. CASE r # N
  <2>1. N # 1 /\ N \in 1 .. N /\ r < N
    BY <1>2, <1>6, <1>r
  <2> DEFINE k == Nth(N, I)
  <2>2. k \in I /\ Rank(k, I) = N
    BY <1>2, <2>1
  <2> HIDE DEF k
  <2>3. i < k
    BY <1>0, <1>2, <1>r, <2>1, <2>2
  <2>4. i # Len(p)
    BY <1>0, <1>3, <2>2, <2>3
  <2>5. Got(p, i) = v <=> ~Has(Comma, v)
    BY <1>1, <1>4, <1>6, <2>1, <2>4, MiddleTaken
  <2> QED
    BY <1>6, <2>5 DEF r, N, v, I
<1> QED
  BY <1>5, <1>6

LEMMA MeantIs ==
    ASSUME NEW p \in Inputs
    PROVE  /\ Cardinality(Paired(p)) \in Nat /\ Len(Meant(p)) = Cardinality(Paired(p))
           /\ \A a : a \in Seq(Seq(Signs)) /\ Len(a) = Cardinality(Paired(p)) =>
                  (a = Meant(p) <=>
                       \A i \in Paired(p) : a[Rank(i, Paired(p))] = Value(p[i]))
           /\ \A r \in 1 .. Cardinality(Paired(p)) : Meant(p)[r] = Value(p[Nth(r, Paired(p))])
<1> DEFINE I == Paired(p)
           N == Cardinality(I)
           w == Meant(p)
<1>0. I \in SUBSET Nat /\ IsFiniteSet(I)
  BY PairedIs
<1>1. /\ N \in Nat /\ \A k \in I : Rank(k, I) \in 1 .. N
      /\ \A k \in 1 .. N : Nth(k, I) \in I /\ Rank(Nth(k, I), I) = k
  BY <1>0, RankIs
<1>2. w = [r \in 1 .. N |-> Value(p[Nth(r, I)])]
  BY DEF Meant
<1> HIDE DEF I, N, w
<1>3. Len(w) = N /\ \A r \in 1 .. N : w[r] = Value(p[Nth(r, I)])
  BY <1>1, <1>2
<1>4. ASSUME NEW a \in Seq(Seq(Signs)), Len(a) = N, a = w, NEW i \in I
      PROVE  a[Rank(i, I)] = Value(p[i])
  <2>1. Nth(Rank(i, I), I) = i
    BY <1>0, NthRank
  <2>2. Rank(i, I) \in 1 .. N
    BY <1>1
  <2>3. w[Rank(i, I)] = Value(p[Nth(Rank(i, I), I)])
    BY <1>3, <2>2
  <2> QED
    BY <1>4, <2>1, <2>3
<1>5. ASSUME NEW a \in Seq(Seq(Signs)), Len(a) = N, \A i \in I : a[Rank(i, I)] = Value(p[i])
      PROVE  a = w
  <2>1. DOMAIN a = 1 .. N
    BY <1>5, DomainOf
  <2>2. a = [r \in 1 .. N |-> a[r]]
    BY <1>5, <2>1
  <2>3. \A r \in 1 .. N : a[r] = Value(p[Nth(r, I)])
    BY <1>1, <1>5
  <2> QED
    BY <1>2, <2>2, <2>3
<1>6. \A a : a \in Seq(Seq(Signs)) /\ Len(a) = N => (a = w <=> \A i \in I : a[Rank(i, I)] = Value(p[i]))
  BY <1>4, <1>5
<1> QED
  BY <1>1, <1>3, <1>6 DEF I, N, w

\* What was taken is what was meant if and only if the parameters are clean.
LEMMA TakenIff ==
    ASSUME NEW p \in Inputs, Regular(p), Fits(p), Paired(p) # {}
    PROVE  (\A i \in Paired(p) : Got(p, i) = Value(p[i])) <=> Clean(p)
<1> DEFINE I == Paired(p)
           N == Cardinality(I)
           n == Len(p)
           w == Meant(p)
           k == Nth(N, I)
           Good(i) == Got(p, i) = Value(p[i])
<1>0. I \in SUBSET Nat /\ IsFiniteSet(I) /\ I # {} /\ \A i \in I : i \in 1 .. n
  BY PairedIs
<1>1. /\ N \in Nat /\ \A i \in I : Rank(i, I) \in 1 .. N
      /\ \A i, j \in I : i < j <=> Rank(i, I) < Rank(j, I)
      /\ \A r \in 1 .. N : Nth(r, I) \in I /\ Rank(Nth(r, I), I) = r
  BY <1>0, RankIs
<1>2. /\ Len(w) = N /\ \A r \in 1 .. N : w[r] = Value(p[Nth(r, I)])
  BY MeantIs
<1>3. \A i \in I : Good(i) <=>
          IF Rank(i, I) = N THEN i = n /\ Whole(Value(p[i]), N) ELSE ~Has(Comma, Value(p[i]))
  BY GotIff
<1>4. p \in Seq(Seq(Chars)) /\ DOMAIN p = 1 .. n /\ n \in Nat
  <2>1. p \in Seq(Seq(Chars))
    BY InputAssumption
  <2> QED
    BY <2>1, DomainOf
<1>5. n \in I <=> n # 0 /\ Has(":", p[n])
  BY <1>4 DEF Paired
<1>6. p # <<>> <=> n # 0
  BY <1>4
<1>7. Clean(p) <=>
          /\ p # <<>> /\ Has(":", p[n])
          /\ \A r \in 1 .. N - 1 : ~Has(Comma, w[r])
          /\ IF N = 1 \/ Place("]", w[N]) = 1 THEN Len(w[N]) >= 2 ELSE ~Has("]", w[N])
  <2>1. Clean(p) <=>
          /\ p # <<>> /\ Has(":", p[n])
          /\ \A r \in 1 .. Len(w) - 1 : ~Has(Comma, w[r])
          /\ IF Len(w) = 1 \/ Place("]", w[Len(w)]) = 1 THEN Len(w[Len(w)]) >= 2 ELSE ~Has("]", w[Len(w)])
    BY DEF Clean, LastWhole, Regular
  <2> HIDE DEF N, w
  <2> QED
    BY <1>2, <2>1
<1> HIDE DEF I, N, n, w, k, Good
<1>8. k \in I /\ Rank(k, I) = N /\ N \in 1 .. N /\ N \in Int /\ w[N] = Value(p[k])
  <2>1. N \in 1 .. N
    <3>1. PICK i \in I : TRUE
      BY <1>0
    <3>2. Rank(i, I) \in 1 .. N
      BY <1>1
    <3> QED
      BY <1>1, <3>2
  <2> QED
    BY <1>1, <1>2, <2>1 DEF k
<1>9. (Len(w[N]) >= 2) = (2 <= Len(w[N]))
  OBVIOUS
<1>10. Clean(p) <=> n \in I /\ (\A r \in 1 .. N - 1 : ~Has(Comma, w[r])) /\ Whole(w[N], N)
  BY <1>5, <1>6, <1>7, <1>9 DEF Whole
<1>11. n \in I <=> k = n
  <2>1. ASSUME n \in I
        PROVE  k = n
    <3>1. k \in Int /\ n \in Int /\ k <= n
      BY <1>0, <1>4, <1>8
    <3>2. ~(k < n)
      <4>1. Rank(n, I) \in 1 .. N
        BY <1>1, <2>1
      <4>2. ~(N < Rank(n, I))
        BY <1>8, <4>1
      <4> QED
        BY <1>1, <1>8, <2>1, <4>2
    <3> QED
      BY <3>1, <3>2
  <2> QED
    BY <1>8, <2>1
<1>12. ASSUME \A i \in I : Good(i)
       PROVE  Clean(p)
  <2>1. k = n /\ Whole(w[N], N)
    BY <1>3, <1>8, <1>12
  <2>2. ASSUME NEW r \in 1 .. N - 1
        PROVE  ~Has(Comma, w[r])
    <3> DEFINE i == Nth(r, I)
    <3>1. r \in 1 .. N /\ r # N
      BY <1>8
    <3>2. i \in I /\ Rank(i, I) = r /\ w[r] = Value(p[i])
      BY <1>1, <1>2, <3>1
    <3> HIDE DEF i
    <3> QED
      BY <1>3, <1>12, <3>1, <3>2
  <2> QED
    BY <1>10, <1>11, <2>1, <2>2
<1>13. ASSUME Clean(p), NEW i \in I
       PROVE  Good(i)
  <2>1. k = n /\ Whole(w[N], N) /\ \A r \in 1 .. N - 1 : ~Has(Comma, w[r])
    BY <1>10, <1>11, <1>13
  <2>2. Rank(i, I) \in 1 .. N /\ Nth(Rank(i, I), I) = i
    BY <1>0, <1>1, NthRank
  <2>3. w[Rank(i, I)] = Value(p[i])
    BY <1>2, <2>2
  <2>4. CASE Rank(i, I) = N
    <3>1. i = k
      BY <2>2, <2>4 DEF k
    <3> QED
      BY <1>3, <1>8, <2>1, <2>4, <3>1
  <2>5. CASE Rank(i, I) # N
    <3>1. Rank(i, I) \in 1 .. N - 1
      BY <1>8, <2>2, <2>5
    <3>2. ~Has(Comma, Value(p[i]))
      BY <2>1, <2>3, <3>1
    <3> QED
      BY <1>3, <2>5, <3>2
  <2> QED
    BY <2>4, <2>5
<1>14. (\A i \in I : Good(i)) <=> Clean(p)
  BY <1>12, <1>13
<1> QED
  BY <1>14 DEF I, Good

-----------------------------------------------------------------------------
(* The values that GetParamsArr takes, one by one.                         *)

LEMMA FromFrom ==
    ASSUME NEW S, NEW t \in Seq(S), NEW i \in 1 .. Len(t) + 1, NEW k \in 1 .. Len(t) - i + 2
    PROVE  From(From(t, i), k) = From(t, i + k - 1)
<1> DEFINE L == Len(t)
           u == From(t, i)
           v == From(u, k)
           w == From(t, i + k - 1)
<1>1. L \in Nat /\ i \in 1 .. L + 1 /\ k \in 1 .. L - i + 2
  OBVIOUS
<1>2. u \in Seq(S) /\ Len(u) = L - i + 1 /\ \A j \in 1 .. L - i + 1 : u[j] = t[j + i - 1]
  BY FromIs
<1>3. i + k - 1 \in 1 .. L + 1 /\ i \in Int /\ k \in Int
  <2> HIDE DEF L
  <2> QED
    BY <1>1
<1>4. /\ w \in Seq(S) /\ Len(w) = L - (i + k - 1) + 1
      /\ \A j \in 1 .. L - (i + k - 1) + 1 : w[j] = t[j + (i + k - 1) - 1]
  <2> DEFINE m == i + k - 1
  <2>1. m \in 1 .. Len(t) + 1
    BY <1>3
  <2> HIDE DEF m
  <2>2. /\ From(t, m) \in Seq(S) /\ Len(From(t, m)) = Len(t) - m + 1
        /\ \A j \in 1 .. Len(t) - m + 1 : From(t, m)[j] = t[j + m - 1]
    BY <2>1, FromIs
  <2> QED
    BY <2>2 DEF m
<1> HIDE DEF L, u
<1>5. k \in 1 .. Len(u) + 1
  BY <1>1, <1>2
<1>6. /\ v \in Seq(S) /\ Len(v) = Len(u) - k + 1
      /\ \A j \in 1 .. Len(u) - k + 1 : v[j] = u[j + k - 1]
  BY <1>2, <1>5, FromIs
<1> HIDE DEF v, w
<1>7. Len(v) = Len(w)
  BY <1>1, <1>2, <1>3, <1>4, <1>6
<1>8. ASSUME NEW j \in 1 .. Len(v)
      PROVE  v[j] = w[j]
  <2>1. j \in Int /\ j \in 1 .. Len(u) - k + 1 /\ j \in 1 .. L - (i + k - 1) + 1
    BY <1>1, <1>2, <1>3, <1>4, <1>6, <1>7
  <2>2. j + k - 1 \in 1 .. L - i + 1 /\ (j + k - 1) + i - 1 = j + (i + k - 1) - 1
    BY <1>1, <1>2, <1>3, <2>1
  <2>3. v[j] = u[j + k - 1] /\ w[j] = t[j + (i + k - 1) - 1]
    BY <1>4, <1>6, <2>1
  <2>4. u[j + k - 1] = t[(j + k - 1) + i - 1]
    BY <1>2, <2>2
  <2> QED
    BY <2>2, <2>3, <2>4
<1>9. v = w
  BY <1>4, <1>6, <1>7, <1>8, SameSeq
<1> QED
  BY <1>9 DEF v, w, u

\* Of the parameters that have a colon, the first c have it before the s-th
\* character of the text.
Reached(p, c, s) ==
    /\ s \in 1 .. Len(Printed(p)) + 1
    /\ \A i \in Paired(p) : Rank(i, Paired(p)) <= c <=> ColonAt(p, i) < s

\* The next one is the one of the next rank, and a place s beyond its colon but
\* not beyond another one is reached with it.
LEMMA ReachedNext ==
    ASSUME NEW p \in Inputs, NEW c \in Nat, NEW s, Reached(p, c, s),
           NEW i \in Paired(p), s <= ColonAt(p, i),
           \A k \in Paired(p) : ~(s <= ColonAt(p, k) /\ ColonAt(p, k) < ColonAt(p, i)),
           NEW u \in 1 .. Len(Printed(p)) + 1, ColonAt(p, i) < u,
           \A k \in Paired(p) : ~(ColonAt(p, i) < ColonAt(p, k) /\ ColonAt(p, k) < u)
    PROVE  Rank(i, Paired(p)) = c + 1 /\ Reached(p, c + 1, u)
<1> DEFINE I == Paired(p)
           N == Cardinality(I)
           R(k) == Rank(k, I)
           A(k) == ColonAt(p, k)
<1>1. /\ N \in Nat /\ \A k \in I : R(k) \in 1 .. N
      /\ \A j, k \in I : j < k <=> R(j) < R(k)
      /\ \A r \in 1 .. N : \E k \in I : R(k) = r
  <2>1. /\ N \in Nat /\ \A k \in I : R(k) \in 1 .. N
        /\ \A j, k \in I : j < k <=> R(j) < R(k)
        /\ \A r \in 1 .. N : Nth(r, I) \in I /\ R(Nth(r, I)) = r
    BY PairedIs, RankIs
  <2> HIDE DEF I, N, R
  <2> QED
    BY <2>1
<1>2. \A j, k \in I : j < k <=> A(j) < A(k)
  BY ColonsAt
<1>3. \A k \in I : R(k) <= c <=> A(k) < s
  BY DEF Reached
<1>4. s \in Int /\ u \in Int /\ \A k \in I : A(k) \in Int /\ R(k) \in Int
  <2>1. \A k \in I : A(k) \in Places(":", Printed(p))
    BY ColonsAt
  <2>2. Printed(p) \in Seq(Signs)
    BY PrintedIs
  <2>3. Places(":", Printed(p)) \in SUBSET Int /\ Len(Printed(p)) \in Nat
    BY <2>2, DomainOf DEF Places
  <2>4. s \in Int /\ u \in Int
    BY <2>3 DEF Reached
  <2>5. \A k \in I : A(k) \in Int
    BY <2>1, <2>3
  <2>6. \A k \in I : R(k) \in Int
    BY <1>1
  <2> HIDE DEF I, R, A
  <2> QED
    BY <2>4, <2>5, <2>6
<1>5. /\ i \in I /\ s <= A(i) /\ A(i) < u /\ \A k \in I : ~(s <= A(k) /\ A(k) < A(i))
      /\ \A k \in I : ~(A(i) < A(k) /\ A(k) < u)
  OBVIOUS
<1> HIDE DEF I, N, R, A
<1>6. R(i) \in Int /\ c < R(i) /\ R(i) \in 1 .. N
  BY <1>1, <1>3, <1>4, <1>5
<1>7. PICK k \in I : R(k) = c + 1
  <2>1. c + 1 \in 1 .. N
    BY <1>1, <1>6
  <2> QED
    BY <1>1, <2>1
<1>8. ~(A(k) < s) /\ A(k) \in Int /\ A(i) \in Int
  BY <1>3, <1>4, <1>5, <1>7
<1>9. ~(A(k) < A(i))
  BY <1>4, <1>5, <1>8
<1>10. ~(R(k) < R(i))
  BY <1>1, <1>2, <1>5, <1>9
<1>11. R(i) = c + 1
  BY <1>6, <1>7, <1>10
<1>12. ASSUME NEW l \in I
       PROVE  R(l) <= c + 1 <=> A(l) < u
  <2>1. R(l) \in Int /\ A(l) \in Int
    BY <1>4
  <2>2. R(i) < R(l) <=> A(i) < A(l)
    BY <1>1, <1>2, <1>5
  <2>3. R(l) <= c + 1 <=> ~(A(i) < A(l))
    BY <1>6, <1>11, <2>1, <2>2
  <2>4. ~(A(i) < A(l)) <=> A(l) < u
    BY <1>4, <1>5, <1>8, <2>1
  <2> QED
    BY <2>3, <2>4
<1> QED
  BY <1>11, <1>12 DEF Reached, I, R, A

\* There are as many slots as colons in the text of the job.
Counted ==
    at \in {"scan", "run"} =>
        sent \in Inputs /\ num = GetParamsNum(Text(sent)) /\ num # 0

\* What GetParamsArr has still to go through is the rest of that text, from a
\* place that as many of its colons are before as slots are filled.
Positioned ==
    at = "scan" /\ Regular(sent) /\ Fits(sent) =>
        \E s : Reached(sent, Len(arr), s) /\ text = From(Printed(sent), s)

\* Each slot that is filled has what comes after the colon of its rank.
Kept ==
    at \in {"scan", "run"} /\ Regular(sent) /\ Fits(sent) =>
        \A i \in Paired(sent) :
            Rank(i, Paired(sent)) <= Len(arr) => arr[Rank(i, Paired(sent))] = Got(sent, i)

\* IInv, and what was taken so far; DecodedIff follows of it when all is taken.
JInv == IInv /\ Counted /\ Positioned /\ Kept

LEMMA DecodeKept ==
    ASSUME IInv, NEW p \in Inputs, Decode(p)
    PROVE  Counted' /\ Positioned' /\ Kept'
<1> DEFINE t == Printed(p)
<1>1. /\ at' = "scan" /\ sent' = p /\ text' = Text(p) /\ arr' = <<>>
      /\ num' = GetParamsNum(Text(p)) /\ GetParamsNum(Text(p)) > 0
  BY DEF Decode
<1>2. t \in Seq(Signs)
  BY PrintedIs
<1>3. Counted'
  BY <1>1, TextIs DEF Counted
<1>4. /\ \A i \in Paired(p) : ColonAt(p, i) \in 1 .. Len(t)
      /\ \A i \in Paired(p) : Rank(i, Paired(p)) \in 1 .. Cardinality(Paired(p))
      /\ Cardinality(Paired(p)) \in Nat /\ Len(t) \in Nat
  <2>1. \A i \in Paired(p) : ColonAt(p, i) \in Places(":", t)
    BY ColonsAt
  <2>2. Places(":", t) \in SUBSET (1 .. Len(t)) /\ Len(t) \in Nat
    BY <1>2, DomainOf DEF Places
  <2>3. /\ \A i \in Paired(p) : Rank(i, Paired(p)) \in 1 .. Cardinality(Paired(p))
        /\ Cardinality(Paired(p)) \in Nat
    BY PairedIs, RankIs
  <2> HIDE DEF t
  <2> QED
    BY <2>1, <2>2, <2>3
<1> HIDE DEF t
<1>5. \A i \in Paired(p) : ~(Rank(i, Paired(p)) <= 0) /\ ~(ColonAt(p, i) < 1)
  BY <1>4
<1>6. Len(<<>>) = 0
  OBVIOUS
<1>7. Reached(p, 0, 1)
  <2>1. 1 \in 1 .. Len(t) + 1
    BY <1>4
  <2> QED
    BY <1>5, <2>1 DEF Reached, t
<1>8. t = From(t, 1)
  BY <1>2 DEF From
<1>9. Positioned'
  <2>1. Reached(sent', Len(arr'), 1) /\ (Fits(sent') => text' = From(Printed(sent'), 1))
    BY <1>1, <1>6, <1>7, <1>8 DEF t, Fits
  <2> QED
    BY <2>1 DEF Positioned
<1>10. Kept'
  BY <1>1, <1>5, <1>6 DEF Kept
<1> QED
  BY <1>3, <1>9, <1>10

\* The round that reads the parameter whose colon comes first.
LEMMA Round ==
    ASSUME JInv, at = "scan", MoreValues, Regular(sent), Fits(sent),
           NEW tail, tail = From(text, Place(":", text) + 1), num > 1 => Place(Stop, tail) # 0,
           NEW rest, rest = IF num > 1 THEN From(tail, Place(Stop, tail)) ELSE tail
    PROVE  \E i \in Paired(sent) :
               /\ Rank(i, Paired(sent)) = Len(arr) + 1 /\ tail = After(sent, i)
               /\ \E u : Reached(sent, Len(arr) + 1, u) /\ rest = From(Printed(sent), u)
<1> DEFINE p == sent
           T == Printed(p)
           L == Len(T)
           P == Place(":", text)
           Q == Place(Stop, tail)
           C == Places(":", T)
           n == Len(text)
<1>1. /\ p \in Inputs /\ text \in Seq(Signs) /\ Len(arr) \in Nat /\ P # 0
  BY DEF JInv, Counted, IInv, Texts, MoreValues
<1>2. PICK s : Reached(p, Len(arr), s) /\ text = From(T, s)
  BY DEF JInv, Positioned
<1>3. T \in Seq(Signs) /\ L \in Nat /\ \A x : x \in C <=> x \in 1 .. L /\ T[x] = ":"
  <2>1. T \in Seq(Signs)
    BY <1>1, PrintedIs
  <2> HIDE DEF T
  <2>2. DOMAIN T = 1 .. L /\ L \in Nat
    BY <2>1, DomainOf
  <2> QED
    BY <2>1, <2>2 DEF Places
<1>4. s \in 1 .. L + 1 /\ s \in Int
  <2>1. s \in 1 .. L + 1
    BY <1>2 DEF Reached
  <2> HIDE DEF L
  <2> QED
    BY <1>3, <2>1
<1>5. n = L - s + 1 /\ \A j \in 1 .. L - s + 1 : text[j] = T[j + s - 1]
  <2> HIDE DEF T
  <2> QED
    BY <1>2, <1>3, <1>4, FromIs
<1>6. P \in 1 .. n /\ text[P] = ":" /\ (\A j \in 1 .. n : j < P => text[j] # ":") /\ n \in Nat
  <2>1. n \in Nat
    BY <1>1
  <2> QED
    BY <1>1, <2>1, PlaceIs
<1>a. tail = From(text, P + 1)
  OBVIOUS
<1> HIDE DEF L, P, n, T, C
<1> DEFINE x == s + P - 1
<1>7. x \in 1 .. L /\ s <= x /\ x \in Int /\ P \in Int /\ P + s - 1 = x
  BY <1>3, <1>4, <1>5, <1>6
<1>8. x \in C
  <2>1. T[P + s - 1] = ":"
    BY <1>5, <1>6
  <2> QED
    BY <1>3, <1>7, <2>1
<1>9. ASSUME NEW y \in C, s <= y, y < x
      PROVE  FALSE
  <2> DEFINE j == y - s + 1
  <2>1. y \in 1 .. L /\ y \in Int /\ T[y] = ":"
    BY <1>3
  <2>2. j \in 1 .. n /\ j < P /\ j + s - 1 = y
    BY <1>3, <1>4, <1>5, <1>6, <1>7, <1>9, <2>1
  <2> HIDE DEF j
  <2>3. text[j] = T[j + s - 1]
    BY <1>5, <2>2
  <2> QED
    BY <1>6, <2>1, <2>2, <2>3
<1>10. tail = From(T, x + 1)
  <2>1. s \in 1 .. Len(T) + 1 /\ P + 1 \in 1 .. Len(T) - s + 2
    <3>1. P + 1 \in 1 .. L - s + 2
      BY <1>4, <1>5, <1>6, <1>3
    <3> QED
      BY <1>4, <3>1 DEF L
  <2>2. From(From(T, s), P + 1) = From(T, s + (P + 1) - 1)
    BY <1>3, <2>1, FromFrom
  <2>3. s + (P + 1) - 1 = x + 1
    BY <1>4, <1>6
  <2> QED
    BY <1>2, <1>a, <2>2, <2>3
<1> HIDE DEF x
<1>11. PICK i \in Paired(p) : x = ColonAt(p, i)
  BY <1>1, <1>8, ColonsAt DEF C, T
<1>12. tail = After(p, i)
  BY <1>10, <1>11 DEF After, T
<1>13. tail \in Seq(Signs) /\ Len(tail) = L - x /\ (\A j \in 1 .. L - x : tail[j] = T[j + x]) /\ L - x \in Nat
  <2>1. x + 1 \in 1 .. Len(T) + 1
    <3>1. x + 1 \in 1 .. L + 1
      BY <1>3, <1>7
    <3> QED
      BY <3>1 DEF L
  <2> DEFINE y == x + 1
  <2>2. /\ tail \in Seq(Signs) /\ Len(tail) = L - (x + 1) + 1
        /\ \A j \in 1 .. L - (x + 1) + 1 : tail[j] = T[j + (x + 1) - 1]
    <3> HIDE DEF y
    <3>1. /\ From(T, y) \in Seq(Signs) /\ Len(From(T, y)) = Len(T) - y + 1
          /\ \A j \in 1 .. Len(T) - y + 1 : From(T, y)[j] = T[j + y - 1]
      <4>1. y \in 1 .. Len(T) + 1
        BY <2>1 DEF y
      <4> QED
        BY <1>3, <4>1, FromIs
    <3> QED
      BY <1>10, <3>1 DEF L, y
  <2>3. L - (x + 1) + 1 = L - x /\ \A j \in 1 .. L - x : j + (x + 1) - 1 = j + x
    BY <1>3, <1>7
  <2>4. L - x \in Nat
    BY <1>3, <1>7
  <2> QED
    BY <2>2, <2>3, <2>4
<1>14. num > 1 => /\ Q \in 1 .. L - x
                  /\ \A j \in 1 .. L - x : j < Q => tail[j] # ":"
  <2> HIDE DEF Q
  <2>1. num > 1 => Q # 0 /\ \A j \in 1 .. Len(tail) : j < Q => tail[j] # ":"
    BY StopFound DEF JInv, Q
  <2>2. Q # 0 => Q \in 1 .. Len(tail)
    BY <1>13, PlaceIs DEF Q
  <2> QED
    BY <1>13, <2>1, <2>2
<1> HIDE DEF Q
<1> DEFINE u == IF num > 1 THEN x + Q ELSE x + 1
<1>15. u \in 1 .. L + 1 /\ x < u /\ rest = From(T, u)
  <2>1. CASE num > 1
    <3>1. Q \in 1 .. L - x /\ Q \in Int
      BY <1>13, <1>14, <2>1
    <3>2. x + 1 \in 1 .. L + 1 /\ Q \in 1 .. L - (x + 1) + 2 /\ (x + 1) + Q - 1 = x + Q
      BY <1>3, <1>7, <3>1
    <3>3. From(From(T, x + 1), Q) = From(T, (x + 1) + Q - 1)
      <4> DEFINE y == x + 1
      <4>1. y \in 1 .. Len(T) + 1 /\ Q \in 1 .. Len(T) - y + 2
        BY <3>2 DEF L
      <4> HIDE DEF y
      <4>2. From(From(T, y), Q) = From(T, y + Q - 1)
        BY <1>3, <4>1, FromFrom
      <4> QED
        BY <4>2 DEF y
    <3>4. rest = From(tail, Q) /\ u = x + Q
      BY <2>1 DEF Q
    <3>5. u \in 1 .. L + 1 /\ x < u
      BY <1>3, <1>7, <3>1, <3>4
    <3> QED
      BY <1>10, <3>2, <3>3, <3>4, <3>5
  <2>2. CASE ~(num > 1)
    <3>1. rest = tail /\ u = x + 1
      BY <2>2
    <3>2. u \in 1 .. L + 1 /\ x < u
      BY <1>3, <1>7, <3>1
    <3> QED
      BY <1>10, <3>1, <3>2
  <2> QED
    BY <2>1, <2>2
<1>16. ASSUME NEW y \in C, x < y, y < u
       PROVE  FALSE
  <2>1. y \in 1 .. L /\ y \in Int /\ T[y] = ":"
    BY <1>3
  <2>2. CASE num > 1
    <3> DEFINE j == y - x
    <3>1. Q \in 1 .. L - x /\ u = x + Q /\ Q \in Int
      BY <1>13, <1>14, <2>2
    <3>2. j \in 1 .. L - x /\ j < Q /\ j + x = y
      BY <1>3, <1>7, <1>16, <2>1, <3>1
    <3> HIDE DEF j
    <3>3. tail[j] = T[j + x] /\ tail[j] # ":"
      BY <1>13, <1>14, <2>2, <3>2
    <3> QED
      BY <2>1, <3>2, <3>3
  <2>3. CASE ~(num > 1)
    <3>1. u = x + 1
      BY <2>3
    <3> QED
      BY <1>7, <1>16, <2>1, <3>1
  <2> QED
    BY <2>2, <2>3
<1> HIDE DEF u
<1>17. \A k \in Paired(p) : ColonAt(p, k) \in C
  BY <1>1, ColonsAt DEF C, T
<1>18. /\ s <= ColonAt(p, i) /\ ColonAt(p, i) < u /\ u \in 1 .. Len(Printed(p)) + 1
       /\ \A k \in Paired(p) : ~(s <= ColonAt(p, k) /\ ColonAt(p, k) < ColonAt(p, i))
       /\ \A k \in Paired(p) : ~(ColonAt(p, i) < ColonAt(p, k) /\ ColonAt(p, k) < u)
  BY <1>7, <1>9, <1>11, <1>15, <1>16, <1>17 DEF L, T
<1>19. Rank(i, Paired(p)) = Len(arr) + 1 /\ Reached(p, Len(arr) + 1, u)
  BY <1>1, <1>2, <1>18, ReachedNext
<1> QED
  BY <1>12, <1>15, <1>19 DEF T

LEMMA NextValueKept ==
    ASSUME JInv, NextValue
    PROVE  Counted' /\ Positioned' /\ Kept'
<1> DEFINE tail == From(text, Place(":", text) + 1)
           Q == Place(Stop, tail)
           value == Cut(tail, Q - 1)
           last == IF IsLast THEN SubStrLastVal(value) ELSE value
           rest == IF num > 1 THEN From(tail, Q) ELSE tail
           I == Paired(sent)
           N == Cardinality(I)
<1>1. /\ at = "scan" /\ MoreValues /\ at' = at /\ sent' = sent /\ num' = num
      /\ IF num > 1 /\ Q - 1 < 0
         THEN text' = text /\ arr' = arr
         ELSE /\ arr' = Append(arr, last)
              /\ text' = IF num > 1 THEN From(tail, (Q - 1) + 1) ELSE tail
  BY DEF NextValue
<1>2. Counted'
  BY <1>1 DEF JInv, Counted
<1>3. ASSUME ~(Regular(sent) /\ Fits(sent))
      PROVE  Positioned' /\ Kept'
  BY <1>1, <1>3 DEF Positioned, Kept
<1>4. ASSUME text' = text, arr' = arr
      PROVE  Positioned' /\ Kept'
  BY <1>1, <1>4 DEF JInv, Positioned, Kept
<1>5. /\ sent \in Inputs /\ text \in Seq(Signs) /\ arr \in Seq(Seq(Signs)) /\ Len(arr) \in Nat
      /\ num \in Nat /\ (Fits(sent) => num = GetParamsNum(Printed(sent)))
  BY <1>1 DEF JInv, Counted, IInv, Texts, TypeOK, Fits
<1>6. Q \in Nat
  <2>1. tail \in Seq(Signs)
    BY <1>1, <1>5, TailIs DEF MoreValues
  <2>2. Len(tail) \in Nat /\ (Q = 0 \/ Q \in 1 .. Len(tail))
    <3> HIDE DEF tail
    <3> QED
      BY <2>1, PlaceIs
  <2> QED
    BY <2>2
<1>7. ASSUME Regular(sent), Fits(sent), ~(num > 1 /\ Q - 1 < 0)
      PROVE  Positioned' /\ Kept'
  <2>1. num > 1 => Q # 0
    BY <1>6, <1>7
  <2>2. arr' = Append(arr, last) /\ text' = rest
    <3>1. (Q - 1) + 1 = Q
      BY <1>6
    <3> QED
      BY <1>1, <1>7, <3>1
  <2>3. PICK i \in I :
            /\ Rank(i, I) = Len(arr) + 1 /\ tail = After(sent, i)
            /\ \E u : Reached(sent, Len(arr) + 1, u) /\ rest = From(Printed(sent), u)
    <3> HIDE DEF tail
    <3>1. tail = From(text, Place(":", text) + 1)
      BY DEF tail
    <3> QED
      BY <1>1, <1>7, <2>1, <3>1, Round
  <2>4. N = num
    BY <1>5, <1>7, ColonsCounted
  <2>5. last = Got(sent, i)
    <3>1. IsLast <=> Rank(i, I) = N
      <4>1. IsLast <=> Len(arr) = num - 1
        BY DEF IsLast
      <4> HIDE DEF I, N
      <4> QED
        BY <1>5, <2>3, <2>4, <4>1
    <3>2. Stop = IF Rank(i, I) = N THEN "]" ELSE Comma
      BY <3>1 DEF Stop
    <3>3. value = Slice(tail, Q - 1, N)
      <4> HIDE DEF tail, Q, N
      <4> QED
        BY <2>4 DEF Cut, Slice
    <3>4. Got(sent, i) = Taken(tail, Rank(i, I), N)
      BY <2>3 DEF Got
    <3> HIDE DEF tail, I, N
    <3>5. Taken(tail, Rank(i, I), N) =
              IF Rank(i, I) = N THEN SubStrLastVal(Slice(tail, Q - 1, N)) ELSE Slice(tail, Q - 1, N)
      BY <3>2 DEF Taken
    <3> QED
      BY <3>1, <3>3, <3>4, <3>5
  <2> HIDE DEF last, rest, tail, Q, value, N
  <2>6. /\ Len(arr') = Len(arr) + 1 /\ arr'[Len(arr) + 1] = last
        /\ \A r \in 1 .. Len(arr) : arr'[r] = arr[r]
    BY <1>5, <2>2
  <2>7. Positioned'
    <3>1. \E u : Reached(sent', Len(arr'), u) /\ text' = From(Printed(sent'), u)
      BY <1>1, <2>2, <2>3, <2>6
    <3> QED
      BY <3>1 DEF Positioned
  <2>8. ASSUME NEW k \in I, Rank(k, I) <= Len(arr) + 1
        PROVE  arr'[Rank(k, I)] = Got(sent, k)
    <3>1. Rank(k, I) \in 1 .. N /\ N \in Nat
      BY <1>5, PairedIs, RankIs DEF N
    <3>2. CASE Rank(k, I) = Len(arr) + 1
      <4>1. Nth(Rank(k, I), I) = k /\ Nth(Rank(i, I), I) = i
        BY <1>5, PairedIs, NthRank
      <4>2. k = i
        BY <2>3, <3>2, <4>1
      <4> QED
        BY <2>5, <2>6, <3>2, <4>2
    <3>3. CASE Rank(k, I) # Len(arr) + 1
      <4> DEFINE r == Rank(k, I)
      <4>1. r \in 1 .. N /\ N \in Nat /\ r <= Len(arr) + 1 /\ r # Len(arr) + 1
        BY <2>8, <3>1, <3>3
      <4> HIDE DEF r
      <4>2. r \in 1 .. Len(arr) /\ r <= Len(arr)
        BY <1>5, <4>1
      <4>3. arr[r] = Got(sent, k)
        BY <1>1, <1>7, <4>2 DEF JInv, Kept, r
      <4>4. arr'[r] = arr[r]
        BY <2>6, <4>2
      <4> QED
        BY <4>3, <4>4 DEF r
    <3> QED
      BY <3>2, <3>3
  <2>9. Kept'
    BY <1>1, <2>6, <2>8 DEF Kept
  <2> QED
    BY <2>7, <2>9
<1> QED
  BY <1>1, <1>2, <1>3, <1>4, <1>7

LEMMA StepJInv == JInv /\ [Next]_vars => JInv'
<1> SUFFICES ASSUME JInv, [Next]_vars
             PROVE  JInv'
  OBVIOUS
<1>0. IInv /\ IInv'
  BY StepIInv DEF JInv
<1>1. CASE UNCHANGED vars
  <2>1. at' = at /\ sent' = sent /\ text' = text /\ num' = num /\ arr' = arr
    BY <1>1 DEF vars
  <2>2. Counted' /\ Positioned' /\ Kept'
    BY <2>1 DEF JInv, Counted, Positioned, Kept
  <2> QED
    BY <1>0, <2>2 DEF JInv
<1>2. ASSUME at' \in {"idle", "free"}
      PROVE  JInv'
  <2>1. Counted' /\ Positioned' /\ Kept'
    BY <1>2 DEF Counted, Positioned, Kept
  <2> QED
    BY <1>0, <2>1 DEF JInv
<1>3. CASE Next
  <2>0. ASSUME NEW p \in Inputs, PrintUnset(p)
        PROVE  JInv'
    BY <1>2, <2>0 DEF PrintUnset
  <2>1. ASSUME NEW p \in Inputs, Decode(p)
        PROVE  JInv'
    <3>1. Counted' /\ Positioned' /\ Kept'
      BY <1>0, <2>1, DecodeKept
    <3> QED
      BY <1>0, <3>1 DEF JInv
  <2>2. ASSUME NEW p \in Inputs, DecodeNothing(p)
        PROVE  JInv'
    BY <1>2, <2>2 DEF DecodeNothing
  <2>3. CASE NextValue
    <3>1. Counted' /\ Positioned' /\ Kept'
      BY <2>3, NextValueKept
    <3> QED
      BY <1>0, <3>1 DEF JInv
  <2>4. CASE Decoded
    <3>1. at = "scan" /\ at' = "run" /\ sent' = sent /\ num' = num /\ arr' = arr
      BY <2>4 DEF Decoded, job
    <3>2. Counted' /\ Positioned' /\ Kept'
      BY <3>1 DEF JInv, Counted, Positioned, Kept
    <3> QED
      BY <1>0, <3>2 DEF JInv
  <2>5. CASE Do
    BY <1>2, <2>5 DEF Do
  <2>6. CASE Free
    BY <1>2, <2>6 DEF Free
  <2>7. CASE FreeFails
    BY <1>2, <2>7 DEF FreeFails
  <2> QED
    BY <1>3, <2>0, <2>1, <2>2, <2>3, <2>4, <2>5, <2>6, <2>7 DEF Next
<1> QED
  BY <1>1, <1>3

LEMMA SpecJInv == Spec => []JInv
<1>1. Init => JInv
  <2> SUFFICES ASSUME Init
               PROVE  JInv
    OBVIOUS
  <2>1. IInv
    BY InitIInv
  <2>2. Counted /\ Positioned /\ Kept
    BY DEF Init, Counted, Positioned, Kept
  <2> QED
    BY <2>1, <2>2 DEF JInv
<1>2. JInv /\ [Next]_vars => JInv'
  BY StepJInv
<1> QED
  BY <1>1, <1>2, PTL DEF Spec

LEMMA JInvDecodedIff == JInv => (Fits(sent) => DecodedIff)
<1> SUFFICES ASSUME JInv, Fits(sent), at = "run"
             PROVE  arr = Meant(sent) /\ Len(arr) = num <=> Clean(sent)
  BY DEF DecodedIff
<1> DEFINE I == Paired(sent)
           N == Cardinality(I)
<1>1. /\ sent \in Inputs /\ arr \in Seq(Seq(Signs)) /\ num = GetParamsNum(Printed(sent))
      /\ num # 0 /\ num \in Nat /\ held = "live"
  BY DEF JInv, Counted, IInv, Texts, TypeOK, Fits
<1>2. Regular(sent) <=> N = num
  BY <1>1, ColonsCounted
<1>3. CASE ~Regular(sent)
  <2>1. Len(Meant(sent)) = N /\ N # num
    BY <1>1, <1>2, <1>3, MeantIs
  <2>2. ~Clean(sent)
    BY <1>3 DEF Clean, Regular
  <2> QED
    BY <2>1, <2>2
<1>4. CASE Regular(sent)
  <2>1. Len(arr) = num /\ N = num
    BY <1>1, <1>2, <1>4 DEF JInv, IInv, Filled
  <2>2. arr = Meant(sent) <=> \A i \in I : arr[Rank(i, I)] = Value(sent[i])
    BY <1>1, <2>1, MeantIs
  <2>3. ASSUME NEW i \in I
        PROVE  arr[Rank(i, I)] = Got(sent, i)
    <3>1. Rank(i, I) \in 1 .. N /\ N \in Nat
      BY <1>1, PairedIs, RankIs
    <3>2. Rank(i, I) <= Len(arr)
      <4> HIDE DEF I, N
      <4> QED
        BY <2>1, <3>1
    <3> QED
      BY <1>4, <3>2 DEF JInv, Kept
  <2>4. I # {}
    <3>1. N # 0
      BY <1>1, <2>1
    <3> QED
      BY <3>1, FS_EmptySet
  <2>5. (\A i \in I : Got(sent, i) = Value(sent[i])) <=> Clean(sent)
    BY <1>1, <1>4, <2>4, TakenIff
  <2> QED
    BY <2>1, <2>2, <2>3, <2>5
<1> QED
  BY <1>3, <1>4

\* Whatever jobs came before: if the text of a job's parameters fits its buffer,
\* a function is called with the values that the client sent, all of them and
\* nothing else, if and only if the parameters are clean.
THEOREM ParamsDecodedIff == Spec => [](Fits(sent) => DecodedIff)
<1>1. JInv => (Fits(sent) => DecodedIff)
  BY JInvDecodedIff
<1> QED
  BY <1>1, SpecJInv, PTL
=============================================================================
