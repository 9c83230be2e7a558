-------------------------- MODULE HashTableProofs --------------------------
(***************************************************************************)
(* Theorems about the client's hash table, for any names, any hash, any    *)
(* sizes of the table and any number of insertions.                        *)
(***************************************************************************)
EXTENDS HashTable, FiniteSetTheorems, SequenceTheorems, TLAPS

-----------------------------------------------------------------------------
(* Orders.                                                                 *)

\* A set of natural numbers has a least one.
LEMMA LeastNat ==
    ASSUME NEW T \in SUBSET Nat, T # {}
    PROVE  Min(T) \in T /\ \A y \in T : Min(T) <= y
<1> DEFINE R == OpToRel(<, Nat)
<1>1. \E x \in T : \A y \in T : <<y, x>> \notin R
  BY NatLessThanWellFounded, WFMin
<1>2. \A x, y \in Nat : y < x => <<y, x>> \in R
  BY DEF OpToRel
<1> HIDE DEF R
<1>3. PICK x \in T : \A y \in T : <<y, x>> \notin R
  BY <1>1
<1>4. \A y \in T : x <= y
  <2> TAKE y \in T
  <2>1. x \in Nat /\ y \in Nat /\ ~(y < x)
    BY <1>2, <1>3
  <2> QED
    BY <2>1
<1> QED
  BY <1>4 DEF Min

\* R puts the elements of S in a strict order.
Orders(R, S) ==
    /\ \A x \in S : <<x, x>> \notin R
    /\ \A x, y \in S : x # y => <<x, y>> \in R \/ <<y, x>> \in R
    /\ \A x, y, z \in S : <<x, y>> \in R /\ <<y, z>> \in R => <<x, z>> \in R

\* A finite set with a strict order can be laid out as a sequence, the last
\* element of the order first: the place of an element is one more than the
\* number of those behind it.
LEMMA Sorting ==
    ASSUME NEW S, IsFiniteSet(S), NEW R, Orders(R, S)
    PROVE  \E s \in [1 .. Cardinality(S) -> S] :
               \A p, q \in DOMAIN s : p < q => <<s[q], s[p]>> \in R
<1> DEFINE Behind(n) == {m \in S : <<n, m>> \in R}
           N == Cardinality(S)
           f == [n \in S |-> Cardinality(Behind(n)) + 1]
<1>1. N \in Nat
  BY FS_CardinalityType
<1>2. ASSUME NEW n \in S
      PROVE  IsFiniteSet(Behind(n)) /\ Cardinality(Behind(n)) \in 0 .. N - 1
  <2>1. n \in S /\ n \notin Behind(n)
    BY DEF Orders
  <2>2. IsFiniteSet(Behind(n)) /\ Cardinality(Behind(n)) <= N
    BY FS_Subset
  <2>3. Cardinality(Behind(n)) # N
    BY <2>1, FS_Subset
  <2>4. Cardinality(Behind(n)) \in Nat
    BY <2>2, FS_CardinalityType
  <2> QED
    BY <1>1, <2>2, <2>3, <2>4
<1>3. ASSUME NEW n \in S, NEW m \in S, <<n, m>> \in R
      PROVE  Cardinality(Behind(m)) < Cardinality(Behind(n))
  <2>1. Behind(m) \in SUBSET Behind(n) /\ m \in Behind(n) /\ m \notin Behind(m)
    BY <1>3 DEF Orders
  <2>2. Cardinality(Behind(m)) <= Cardinality(Behind(n)) /\ Cardinality(Behind(m)) # Cardinality(Behind(n))
    BY <1>2, <2>1, FS_Subset
  <2>3. Cardinality(Behind(m)) \in Int /\ Cardinality(Behind(n)) \in Int
    BY <1>2
  <2> HIDE DEF Behind
  <2> QED
    BY <2>2, <2>3
<1> HIDE DEF Behind
<1>4. f \in [S -> 1 .. N] /\ \A n \in S : f[n] = Cardinality(Behind(n)) + 1
  <2>1. \A n \in S : Cardinality(Behind(n)) + 1 \in 1 .. N
    BY <1>1, <1>2
  <2> QED
    BY <2>1
<1> HIDE DEF f
<1>5. \A n, m \in S : <<n, m>> \in R => f[m] < f[n]
  BY <1>2, <1>3, <1>4
<1>6. \A n, m \in S : f[m] < f[n] => <<n, m>> \in R
  <2> TAKE n, m \in S
  <2>1. f[m] \in Int /\ f[n] \in Int
    BY <1>4
  <2>2. HAVE f[m] < f[n]
  <2>3. m # n
    BY <2>1, <2>2
  <2>4. ~(<<m, n>> \in R)
    BY <1>5, <2>1, <2>2
  <2> QED
    BY <2>3, <2>4 DEF Orders
<1>7. f \in Injection(S, 1 .. N)
  <2>1. ASSUME NEW n \in S, NEW m \in S, n # m
        PROVE  f[n] # f[m]
    <3>1. f[m] < f[n] \/ f[n] < f[m]
      BY <1>5, <2>1 DEF Orders
    <3>2. f[m] \in Int /\ f[n] \in Int
      BY <1>4
    <3> QED
      BY <3>1, <3>2
  <2> QED
    BY <1>4, <2>1 DEF Injection, IsInjective
<1>8. f \in Surjection(S, 1 .. N)
  <2>1. IsFiniteSet(1 .. N) /\ Cardinality(1 .. N) = N
    BY <1>1, FS_Interval
  <2> QED
    BY <1>7, <2>1, FS_Injection
<1> DEFINE s == [i \in 1 .. N |-> CHOOSE n \in S : f[n] = i]
<1>9. \A i \in 1 .. N : s[i] \in S /\ f[s[i]] = i
  BY <1>8 DEF Surjection
<1>10. s \in [1 .. N -> S]
  BY <1>9
<1> HIDE DEF s
<1>11. \A p, q \in DOMAIN s : p < q => <<s[q], s[p]>> \in R
  BY <1>6, <1>9, <1>10
<1> QED
  BY <1>10, <1>11

\* Such a sequence has every element once.
LEMMA SortedHasAll ==
    ASSUME NEW S, IsFiniteSet(S), NEW R, Orders(R, S), NEW s \in [1 .. Cardinality(S) -> S],
           \A p, q \in DOMAIN s : p < q => <<s[q], s[p]>> \in R
    PROVE  s \in Seq(S) /\ ToSet(s) = S /\ IsInjective(s)
<1> DEFINE N == Cardinality(S)
<1>1. N \in Nat
  BY FS_CardinalityType
<1>2. ASSUME NEW p \in 1 .. N, NEW q \in 1 .. N, s[p] = s[q]
      PROVE  p = q
  <2>1. ~(p < q) /\ ~(q < p)
    BY <1>2 DEF Orders
  <2> QED
    BY <1>1, <2>1
<1>3. s \in Injection(1 .. N, S)
  BY <1>2 DEF Injection, IsInjective
<1>4. s \in Surjection(1 .. N, S)
  <2>1. IsFiniteSet(1 .. N) /\ Cardinality(1 .. N) = N
    BY <1>1, FS_Interval
  <2> QED
    BY <1>3, <2>1, FS_Injection
<1>5. s \in Seq(S)
  BY <1>1
<1> QED
  BY <1>3, <1>4, <1>5 DEF Injection, Surjection, ToSet

-----------------------------------------------------------------------------
(* Chains.                                                                 *)

\* A hash has a bucket, whatever the size.
LEMMA IndexInRange ==
    ASSUME NEW h \in Nat, NEW i \in DOMAIN TableSize
    PROVE  h % TableSize[i] \in Buckets(i) /\ TableSize[i] \in Nat \ {0, 1}
<1>1. TableSize[i] \in Nat \ {0, 1}
  BY TableAssumption
<1>2. h % TableSize[i] \in Nat /\ h % TableSize[i] < TableSize[i]
  BY <1>1
<1> QED
  BY <1>1, <1>2 DEF Buckets

\* The chains hold each of the nodes L once, in the bucket of its hash.
Placed(chains, nodes, i, L) ==
    /\ chains \in [Buckets(i) -> Seq(L)]
    /\ \A b \in Buckets(i) :
           /\ ToSet(chains[b]) = {n \in L : nodes[n].h % TableSize[i] = b}
           /\ IsInjective(chains[b])

Hashed(nodes, L) == \A n \in L : nodes[n].h \in Nat

\* Every node has one place.
LEMMA PlacedSomewhere ==
    ASSUME NEW chains, NEW nodes, NEW i \in DOMAIN TableSize, NEW L,
           Hashed(nodes, L), Placed(chains, nodes, i, L), NEW n \in L
    PROVE  \E b \in Buckets(i) : \E p \in 1 .. Len(chains[b]) : chains[b][p] = n
<1> DEFINE b == nodes[n].h % TableSize[i]
<1>1. b \in Buckets(i)
  BY IndexInRange DEF Hashed
<1>2. n \in ToSet(chains[b]) /\ chains[b] \in Seq(L)
  BY <1>1 DEF Placed
<1> QED
  BY <1>1, <1>2 DEF ToSet

LEMMA PlacedOnce ==
    ASSUME NEW chains, NEW nodes, NEW i \in DOMAIN TableSize, NEW L, Placed(chains, nodes, i, L)
    PROVE  \A b, c \in Buckets(i) : \A p \in 1 .. Len(chains[b]), q \in 1 .. Len(chains[c]) :
               chains[b][p] = chains[c][q] => b = c /\ p = q
<1> SUFFICES ASSUME NEW b \in Buckets(i), NEW c \in Buckets(i),
                    NEW p \in 1 .. Len(chains[b]), NEW q \in 1 .. Len(chains[c]),
                    chains[b][p] = chains[c][q]
             PROVE  b = c /\ p = q
  OBVIOUS
<1>1. /\ chains[b] \in Seq(L) /\ chains[c] \in Seq(L)
      /\ chains[b][p] \in ToSet(chains[b]) /\ chains[c][q] \in ToSet(chains[c])
  BY DEF Placed, ToSet
<1>2. b = c
  BY <1>1 DEF Placed
<1>3. IsInjective(chains[b]) /\ p \in DOMAIN chains[b] /\ q \in DOMAIN chains[b]
  BY <1>1, <1>2 DEF Placed
<1> QED
  BY <1>2, <1>3 DEF IsInjective

\* The chains hold these nodes and no others.
LEMMA PlacedLinked ==
    ASSUME NEW chains, NEW nodes, NEW i \in DOMAIN TableSize, NEW L,
           Hashed(nodes, L), Placed(chains, nodes, i, L)
    PROVE  Linked(chains) = L
<1>1. ASSUME NEW n \in L
      PROVE  n \in Linked(chains)
  <2> DEFINE b == nodes[n].h % TableSize[i]
  <2>1. b \in Buckets(i)
    BY IndexInRange DEF Hashed
  <2> QED
    BY <2>1 DEF Placed, Linked
<1>2. ASSUME NEW n \in Linked(chains)
      PROVE  n \in L
  BY DEF Placed, Linked
<1> QED
  BY <1>1, <1>2

\* The walk of hash_resize goes through the nodes in a strict order.
Walk(chains, L) == {e \in L \X L : Precedes(chains, e[1], e[2])}

LEMMA WalkOrders ==
    ASSUME NEW chains, NEW nodes, NEW i \in DOMAIN TableSize, NEW L,
           Hashed(nodes, L), Placed(chains, nodes, i, L)
    PROVE  Orders(Walk(chains, L), L)
<1> DEFINE At(b, p, n) == b \in Buckets(i) /\ p \in 1 .. Len(chains[b]) /\ chains[b][p] = n
           Before(b, p, c, q) == b < c \/ (b = c /\ p < q)
<1>1. \A n \in L : \E b, p : At(b, p, n)
  BY PlacedSomewhere
<1>2. \A n, b, p, c, q : At(b, p, n) /\ At(c, q, n) => b = c /\ p = q
  <2>1. ASSUME NEW n, NEW b, NEW p, NEW c, NEW q, At(b, p, n), At(c, q, n)
        PROVE  b = c /\ p = q
    <3>1. /\ b \in Buckets(i) /\ p \in 1 .. Len(chains[b]) /\ c \in Buckets(i) /\ q \in 1 .. Len(chains[c])
          /\ chains[b][p] = chains[c][q]
      BY <2>1
    <3>2. \A d, e \in Buckets(i) : \A r \in 1 .. Len(chains[d]), s \in 1 .. Len(chains[e]) :
              chains[d][r] = chains[e][s] => d = e /\ r = s
      BY PlacedOnce
    <3> QED
      BY <3>1, <3>2
  <2> HIDE DEF At
  <2> QED
    BY <2>1
<1>3. \A n, b, p : At(b, p, n) => b \in Int /\ p \in Int
  BY DEF Buckets
<1>4. \A m, n \in L : <<m, n>> \in Walk(chains, L) <=>
          \E b, p, c, q : At(b, p, m) /\ At(c, q, n) /\ Before(b, p, c, q)
  <2> TAKE m, n \in L
  <2>1. DOMAIN chains = Buckets(i) /\ \A b \in Buckets(i) : DOMAIN chains[b] = 1 .. Len(chains[b])
    BY DEF Placed
  <2>2. Precedes(chains, m, n) <=> \E b, p, c, q : At(b, p, m) /\ At(c, q, n) /\ Before(b, p, c, q)
    BY <2>1 DEF Precedes
  <2> QED
    BY <2>2 DEF Walk
<1> HIDE DEF At
<1>5. ASSUME NEW n \in L
      PROVE  <<n, n>> \notin Walk(chains, L)
  BY <1>2, <1>3, <1>4
<1>6. ASSUME NEW m \in L, NEW n \in L, m # n
      PROVE  <<m, n>> \in Walk(chains, L) \/ <<n, m>> \in Walk(chains, L)
  <2>1. PICK b, p : At(b, p, m)
    BY <1>1
  <2>2. PICK c, q : At(c, q, n)
    BY <1>1
  <2>3. b # c \/ p # q
    BY <1>6, <2>1, <2>2 DEF At
  <2>4. Before(b, p, c, q) \/ Before(c, q, b, p)
    BY <1>3, <2>1, <2>2, <2>3
  <2> QED
    BY <1>4, <2>1, <2>2, <2>4
<1>7. ASSUME NEW m \in L, NEW n \in L, NEW o \in L,
             <<m, n>> \in Walk(chains, L), <<n, o>> \in Walk(chains, L)
      PROVE  <<m, o>> \in Walk(chains, L)
  <2>1. PICK b, p, c, q : At(b, p, m) /\ At(c, q, n) /\ Before(b, p, c, q)
    BY <1>4, <1>7
  <2>2. PICK d, r, e, t : At(d, r, n) /\ At(e, t, o) /\ Before(d, r, e, t)
    BY <1>4, <1>7
  <2>3. c = d /\ q = r
    BY <1>2, <2>1, <2>2
  <2>4. Before(b, p, e, t)
    BY <1>3, <2>1, <2>2, <2>3
  <2> QED
    BY <1>4, <2>1, <2>2, <2>4
<1> QED
  BY <1>5, <1>6, <1>7 DEF Orders

\* A chain rebuilt from some of the nodes holds each of them once.
LEMMA PushedAll ==
    ASSUME NEW chains, NEW nodes, NEW i \in DOMAIN TableSize, NEW L, IsFiniteSet(L),
           Hashed(nodes, L), Placed(chains, nodes, i, L), NEW ns \in SUBSET L
    PROVE  /\ Pushed(chains, ns) \in Seq(ns) /\ ToSet(Pushed(chains, ns)) = ns
           /\ IsInjective(Pushed(chains, ns))
<1> DEFINE R == Walk(chains, L)
           Sorts(s) == \A p, q \in DOMAIN s : p < q => <<s[q], s[p]>> \in R
<1>1. IsFiniteSet(ns) /\ Orders(R, ns)
  BY WalkOrders, FS_Subset DEF Orders
<1>2. \A m, n \in ns : <<m, n>> \in R <=> Precedes(chains, m, n)
  BY DEF Walk
<1> HIDE DEF R
<1>3. \A s \in [1 .. Cardinality(ns) -> ns] :
          Sorts(s) <=> \A p, q \in DOMAIN s : p < q => Precedes(chains, s[q], s[p])
  BY <1>2
<1>4. \E s \in [1 .. Cardinality(ns) -> ns] : Sorts(s)
  BY <1>1, Sorting
<1>5. Pushed(chains, ns) \in [1 .. Cardinality(ns) -> ns] /\ Sorts(Pushed(chains, ns))
  BY <1>3, <1>4 DEF Pushed
<1> QED
  BY <1>1, <1>5, SortedHasAll

\* After hash_resize the nodes are where lookups will look for them.
LEMMA RebuiltPlaced ==
    ASSUME NEW chains, NEW nodes, NEW i \in DOMAIN TableSize, NEW L, IsFiniteSet(L),
           Hashed(nodes, L), Placed(chains, nodes, i, L), NEW j \in DOMAIN TableSize
    PROVE  Placed(Rebuilt(chains, nodes, j), nodes, j, L)
<1> DEFINE Goes(b) == {n \in L : nodes[n].h % TableSize[j] = b}
           new == Rebuilt(chains, nodes, j)
<1>1. DOMAIN new = Buckets(j) /\ \A b \in Buckets(j) : new[b] = Pushed(chains, Goes(b))
  BY PlacedLinked DEF Rebuilt, NewIndex
<1>2. ASSUME NEW b \in Buckets(j)
      PROVE  new[b] \in Seq(Goes(b)) /\ ToSet(new[b]) = Goes(b) /\ IsInjective(new[b])
  <2>1. Goes(b) \in SUBSET L
    OBVIOUS
  <2> HIDE DEF Goes, new
  <2>2. /\ Pushed(chains, Goes(b)) \in Seq(Goes(b)) /\ ToSet(Pushed(chains, Goes(b))) = Goes(b)
        /\ IsInjective(Pushed(chains, Goes(b)))
    BY <2>1, PushedAll
  <2> QED
    BY <1>1, <2>2
<1> HIDE DEF new
<1>3. \A b \in Buckets(j) : new[b] \in Seq(L)
  <2> TAKE b \in Buckets(j)
  <2>1. Goes(b) \subseteq L /\ new[b] \in Seq(Goes(b))
    BY <1>2
  <2> HIDE DEF Goes
  <2> QED
    BY <2>1
<1>4. new \in [Buckets(j) -> Seq(L)]
  <2>1. new = [b \in Buckets(j) |-> Pushed(chains, Goes(b))]
    BY PlacedLinked DEF Rebuilt, NewIndex, new
  <2> QED
    BY <1>3, <2>1
<1> QED
  BY <1>2, <1>4 DEF Placed, new
-----------------------------------------------------------------------------
(* Taking a node out of a sequence and putting one in.                     *)

Increasing(s) == \A p, q \in DOMAIN s : p < q => s[p] < s[q]
Decreasing(s) == \A p, q \in DOMAIN s : p < q => s[q] < s[p]

LEMMA PlaceOfIs ==
    ASSUME NEW s, NEW n \in ToSet(s)
    PROVE  PlaceOf(s, n) \in DOMAIN s /\ s[PlaceOf(s, n)] = n
<1>1. \E p \in DOMAIN s : s[p] = n
  BY DEF ToSet
<1> QED
  BY <1>1 DEF PlaceOf

\* What comes after the node moves up.
LEMMA WithoutShape ==
    ASSUME NEW T, NEW s \in Seq(T), NEW n \in ToSet(s)
    PROVE  /\ Len(s) \in Nat \ {0} /\ Len(Without(s, n)) = Len(s) - 1
           /\ Without(s, n) \in Seq(T)
           /\ \A p \in 1 .. Len(s) - 1 :
                  Without(s, n)[p] = IF p < PlaceOf(s, n) THEN s[p] ELSE s[p + 1]
<1> DEFINE a == PlaceOf(s, n)
<1>1. a \in 1 .. Len(s) /\ s[a] = n /\ Len(s) \in Nat
  BY PlaceOfIs
<1>2. Without(s, n) = SubSeq(s, 1, a - 1) \o SubSeq(s, a + 1, Len(s))
  BY DEF Without, RemoveAt
<1> HIDE DEF a
<1> DEFINE u == SubSeq(s, 1, a - 1)
           v == SubSeq(s, a + 1, Len(s))
<1>3. u \in Seq(T) /\ Len(u) = a - 1 /\ \A p \in 1 .. a - 1 : u[p] = s[p]
  BY <1>1
<1>4. v \in Seq(T) /\ Len(v) = Len(s) - a /\ \A p \in 1 .. Len(s) - a : v[p] = s[p + a]
  BY <1>1
<1> HIDE DEF u, v
<1>5. u \o v \in Seq(T) /\ Len(u \o v) = Len(s) - 1
  <2>1. u \in Seq(T) /\ v \in Seq(T)
    BY <1>3, <1>4
  <2>2. u \o v \in Seq(T) /\ Len(u \o v) = Len(u) + Len(v)
    BY <2>1
  <2>3. Len(u) + Len(v) = Len(s) - 1
    BY <1>1, <1>3, <1>4
  <2> QED
    BY <2>2, <2>3
<1>6. ASSUME NEW p \in 1 .. Len(s) - 1
      PROVE  (u \o v)[p] = IF p < a THEN s[p] ELSE s[p + 1]
  <2>1. CASE p < a
    BY <1>1, <1>3, <1>4, <2>1
  <2>2. CASE ~(p < a)
    <3>1. p - (a - 1) \in 1 .. Len(s) - a /\ p > Len(u) /\ p <= Len(u) + Len(v)
      BY <1>1, <1>3, <1>4, <2>2
    <3>2. (u \o v)[p] = v[p - (a - 1)]
      BY <1>1, <1>3, <1>4, <3>1
    <3>3. p - (a - 1) + a = p + 1
      BY <1>1
    <3> QED
      BY <1>4, <2>2, <3>1, <3>2, <3>3
  <2> QED
    BY <2>1, <2>2
<1>7. Without(s, n) = u \o v
  BY <1>2 DEF u, v
<1>8. Len(s) \in Nat \ {0}
  BY <1>1
<1> QED
  BY <1>5, <1>6, <1>7, <1>8 DEF a

\* The rest keeps its order: a place of it is a place in s, later ones later.
LEMMA WithoutEmbeds ==
    ASSUME NEW T, NEW s \in Seq(T), NEW n \in ToSet(s), NEW p \in DOMAIN Without(s, n),
           NEW q \in DOMAIN Without(s, n), p < q
    PROVE  \E a, b \in DOMAIN s :
               a < b /\ Without(s, n)[p] = s[a] /\ Without(s, n)[q] = s[b]
<1> DEFINE c == PlaceOf(s, n)
           a == IF p < c THEN p ELSE p + 1
           b == IF q < c THEN q ELSE q + 1
<1>1. c \in 1 .. Len(s) /\ Len(s) \in Nat
  BY PlaceOfIs
<1>2. p \in 1 .. Len(s) - 1 /\ q \in 1 .. Len(s) - 1
  BY WithoutShape
<1>3. a \in 1 .. Len(s) /\ b \in 1 .. Len(s) /\ a < b
  BY <1>1, <1>2
<1>4. Without(s, n)[p] = s[a] /\ Without(s, n)[q] = s[b]
  BY <1>2, WithoutShape
<1> QED
  BY <1>3, <1>4

LEMMA WithoutSet ==
    ASSUME NEW T, NEW s \in Seq(T), IsInjective(s), NEW n \in ToSet(s)
    PROVE  /\ Without(s, n) \in Seq(T \ {n}) /\ ToSet(Without(s, n)) = ToSet(s) \ {n}
           /\ IsInjective(Without(s, n))
<1> DEFINE w == Without(s, n)
           c == PlaceOf(s, n)
<1>1. c \in 1 .. Len(s) /\ s[c] = n /\ Len(s) \in Nat
  BY PlaceOfIs
<1>2. /\ w \in Seq(T) /\ Len(w) = Len(s) - 1
      /\ \A p \in 1 .. Len(s) - 1 : w[p] = IF p < c THEN s[p] ELSE s[p + 1]
  BY WithoutShape
<1>3. \A p, q \in 1 .. Len(s) : s[p] = s[q] => p = q
  BY DEF IsInjective
<1> HIDE DEF w, c
<1>4. \A p \in 1 .. Len(s) - 1 : w[p] \in ToSet(s) \ {n}
  <2> TAKE p \in 1 .. Len(s) - 1
  <2>1. CASE p < c
    BY <1>1, <1>2, <1>3, <2>1 DEF ToSet
  <2>2. CASE ~(p < c)
    <3>1. p + 1 \in 1 .. Len(s) /\ p + 1 # c /\ w[p] = s[p + 1]
      BY <1>1, <1>2, <2>2
    <3> QED
      BY <1>1, <1>3, <3>1 DEF ToSet
  <2> QED
    BY <2>1, <2>2
<1>5. ASSUME NEW m \in ToSet(s) \ {n}
      PROVE  m \in ToSet(w)
  <2>1. PICK p \in 1 .. Len(s) : s[p] = m
    BY DEF ToSet
  <2>2. p # c
    BY <1>1, <2>1
  <2>3. CASE p < c
    <3>1. p \in 1 .. Len(s) - 1 /\ w[p] = m
      BY <1>1, <1>2, <2>1, <2>3
    <3> QED
      BY <1>2, <3>1 DEF ToSet
  <2>4. CASE p > c
    <3>1. p - 1 \in 1 .. Len(s) - 1 /\ ~(p - 1 < c) /\ p - 1 + 1 = p
      BY <1>1, <2>1, <2>4
    <3>2. w[p - 1] = m
      BY <1>2, <2>1, <3>1
    <3> QED
      BY <1>2, <3>1, <3>2 DEF ToSet
  <2> QED
    BY <1>1, <2>2, <2>3, <2>4
<1>6. ASSUME NEW p \in 1 .. Len(s) - 1, NEW q \in 1 .. Len(s) - 1, w[p] = w[q]
      PROVE  p = q
  <2> DEFINE a == IF p < c THEN p ELSE p + 1
             b == IF q < c THEN q ELSE q + 1
  <2>1. a \in 1 .. Len(s) /\ b \in 1 .. Len(s) /\ s[a] = s[b] /\ (a = b => p = q)
    BY <1>1, <1>2, <1>6
  <2> QED
    BY <1>3, <2>1
<1>7. ToSet(w) = ToSet(s) \ {n} /\ IsInjective(w)
  <2>1. DOMAIN w = 1 .. Len(s) - 1
    BY <1>2
  <2>2. IsInjective(w)
    BY <1>6, <2>1 DEF IsInjective
  <2>3. \A m \in ToSet(w) : m \in ToSet(s) \ {n}
    BY <1>4, <2>1 DEF ToSet
  <2> QED
    BY <1>5, <2>2, <2>3
<1>8. w \in Seq(T \ {n})
  <2>1. \A p \in 1 .. Len(w) : w[p] \in T \ {n}
    BY <1>2, <1>4
  <2> QED
    BY <1>2, <2>1
<1> QED
  BY <1>7, <1>8 DEF w

LEMMA WithoutOrdered ==
    ASSUME NEW s \in Seq(Int), NEW n
    PROVE  /\ Increasing(s) => Increasing(Without(s, n))
           /\ Decreasing(s) => Decreasing(Without(s, n))
<1>1. CASE n \notin ToSet(s)
  BY <1>1 DEF Without
<1>2. CASE n \in ToSet(s)
  BY <1>2, WithoutEmbeds DEF Increasing, Decreasing
<1> QED
  BY <1>1, <1>2

\* A node in front of a chain, one at the end of the list.
LEMMA FirstSet ==
    ASSUME NEW T, NEW s \in Seq(T), IsInjective(s), NEW n, n \notin ToSet(s)
    PROVE  /\ LinkedFirst(s, n) \in Seq(T \cup {n}) /\ ToSet(LinkedFirst(s, n)) = ToSet(s) \cup {n}
           /\ IsInjective(LinkedFirst(s, n))
<1> DEFINE w == LinkedFirst(s, n)
<1>1. /\ w \in Seq(T \cup {n}) /\ Len(w) = Len(s) + 1 /\ w[1] = n
      /\ \A p \in 2 .. Len(s) + 1 : w[p] = s[p - 1]
  BY DEF LinkedFirst
<1>2. \A p \in 1 .. Len(s) : p + 1 \in 2 .. Len(s) + 1 /\ w[p + 1] = s[p] /\ s[p] # n
  BY <1>1 DEF ToSet
<1> HIDE DEF w
<1>3. DOMAIN w = {1} \cup 2 .. Len(s) + 1
  BY <1>1
<1>4. \A p \in 2 .. Len(s) + 1 : p - 1 \in 1 .. Len(s) /\ w[p] = s[p - 1] /\ w[p] # n
  BY <1>1 DEF ToSet
<1>5. ToSet(w) = ToSet(s) \cup {n}
  <2>1. ASSUME NEW m \in ToSet(w)
        PROVE  m \in ToSet(s) \cup {n}
    <3>1. PICK p \in DOMAIN w : w[p] = m
      BY DEF ToSet
    <3>2. CASE p = 1
      BY <1>1, <3>1, <3>2
    <3>3. CASE p \in 2 .. Len(s) + 1
      BY <1>4, <3>1, <3>3 DEF ToSet
    <3> QED
      BY <1>3, <3>1, <3>2, <3>3
  <2>2. ASSUME NEW m \in ToSet(s)
        PROVE  m \in ToSet(w)
    <3>1. PICK p \in 1 .. Len(s) : s[p] = m
      BY DEF ToSet
    <3> QED
      BY <1>2, <1>3, <3>1 DEF ToSet
  <2>3. n \in ToSet(w)
    BY <1>1, <1>3 DEF ToSet
  <2> QED
    BY <2>1, <2>2, <2>3
<1>6. ASSUME NEW p \in DOMAIN w, NEW q \in DOMAIN w, w[p] = w[q]
      PROVE  p = q
  <2>1. CASE p = 1 \/ q = 1
    BY <1>1, <1>3, <1>4, <1>6, <2>1
  <2>2. CASE p # 1 /\ q # 1
    <3>1. p - 1 \in DOMAIN s /\ q - 1 \in DOMAIN s /\ s[p - 1] = s[q - 1] /\ p \in Int /\ q \in Int
      BY <1>3, <1>4, <1>6, <2>2
    <3> QED
      BY <3>1 DEF IsInjective
  <2> QED
    BY <2>1, <2>2
<1> QED
  BY <1>1, <1>5, <1>6 DEF w, IsInjective
LEMMA AppendedIncreasing ==
    ASSUME NEW s \in Seq(Int), Increasing(s), NEW n \in Int, \A p \in DOMAIN s : s[p] < n
    PROVE  Increasing(Append(s, n)) /\ ToSet(Append(s, n)) = ToSet(s) \cup {n}
<1> DEFINE w == Append(s, n)
<1>1. /\ DOMAIN w = (1 .. Len(s)) \cup {Len(s) + 1} /\ w[Len(s) + 1] = n
      /\ \A p \in 1 .. Len(s) : w[p] = s[p]
  OBVIOUS
<1> HIDE DEF w
<1>2. Increasing(w)
  <2> SUFFICES ASSUME NEW p \in DOMAIN w, NEW q \in DOMAIN w, p < q
               PROVE  w[p] < w[q]
    BY DEF Increasing
  <2>1. p \in 1 .. Len(s)
    BY <1>1
  <2>2. CASE q \in 1 .. Len(s)
    BY <1>1, <2>1, <2>2 DEF Increasing
  <2>3. CASE q = Len(s) + 1
    BY <1>1, <2>1, <2>3
  <2> QED
    BY <1>1, <2>2, <2>3
<1>3. ToSet(w) = ToSet(s) \cup {n}
  <2>1. ASSUME NEW m \in ToSet(w)
        PROVE  m \in ToSet(s) \cup {n}
    BY <1>1 DEF ToSet
  <2>2. ASSUME NEW m \in ToSet(s)
        PROVE  m \in ToSet(w)
    <3>1. PICK p \in 1 .. Len(s) : s[p] = m
      BY DEF ToSet
    <3> QED
      BY <1>1, <3>1 DEF ToSet
  <2>3. n \in ToSet(w)
    BY <1>1 DEF ToSet
  <2> QED
    BY <2>1, <2>2, <2>3
<1> QED
  BY <1>2, <1>3 DEF w

LEMMA FirstDecreasing ==
    ASSUME NEW s \in Seq(Int), Decreasing(s), NEW n \in Int, \A p \in DOMAIN s : s[p] < n
    PROVE  Decreasing(LinkedFirst(s, n))
<1> DEFINE w == LinkedFirst(s, n)
<1>1. /\ DOMAIN w = {1} \cup 2 .. Len(s) + 1 /\ w[1] = n
      /\ \A p \in 2 .. Len(s) + 1 : p - 1 \in 1 .. Len(s) /\ w[p] = s[p - 1]
  BY DEF LinkedFirst
<1> HIDE DEF w
<1>2. ASSUME NEW p \in DOMAIN w, NEW q \in DOMAIN w, p < q
      PROVE  w[q] < w[p]
  <2>1. q \in 2 .. Len(s) + 1 /\ p \in Int
    BY <1>1, <1>2
  <2>2. CASE p = 1
    BY <1>1, <2>1, <2>2
  <2>3. CASE p \in 2 .. Len(s) + 1
    <3>1. p - 1 \in 1 .. Len(s) /\ q - 1 \in 1 .. Len(s) /\ p - 1 < q - 1
      BY <1>1, <1>2, <2>1, <2>3
    <3>2. s[q - 1] < s[p - 1]
      BY <3>1 DEF Decreasing
    <3>3. w[p] = s[p - 1] /\ w[q] = s[q - 1]
      BY <1>1, <2>1, <2>3
    <3> QED
      BY <3>2, <3>3
  <2> QED
    BY <1>1, <2>2, <2>3
<1> QED
  BY <1>2 DEF Decreasing, w

\* Strictly increasing numbers up to m are at most m.
LEMMA IncreasingBound ==
    ASSUME NEW m \in Nat, NEW s \in Seq(1 .. m), Increasing(s)
    PROVE  Len(s) <= m /\ IsInjective(s)
<1>1. ASSUME NEW p \in DOMAIN s, NEW q \in DOMAIN s, s[p] = s[q]
      PROVE  p = q
  <2>1. s[p] \in Int /\ s[q] \in Int /\ p \in Int /\ q \in Int
    OBVIOUS
  <2>2. ~(p < q) /\ ~(q < p)
    BY <1>1, <2>1 DEF Increasing
  <2> QED
    BY <2>1, <2>2
<1>2. s \in Injection(1 .. Len(s), 1 .. m)
  BY <1>1 DEF Injection, IsInjective
<1>3. Cardinality(1 .. Len(s)) = Len(s) /\ IsFiniteSet(1 .. m) /\ Cardinality(1 .. m) = m
  <2>1. \A k \in Nat : Cardinality(1 .. k) = k /\ IsFiniteSet(1 .. k)
    BY FS_Interval
  <2>2. Len(s) \in Nat
    OBVIOUS
  <2> QED
    BY <2>1, <2>2
<1>4. Cardinality(1 .. Len(s)) <= Cardinality(1 .. m)
  BY <1>2, <1>3, FS_Injection
<1> QED
  BY <1>1, <1>3, <1>4 DEF IsInjective

-----------------------------------------------------------------------------
(* Insertion into the chains and removal from them.                        *)

LEMMA LinkedPlaced ==
    ASSUME NEW chains, NEW nodes, NEW i \in DOMAIN TableSize, NEW L, Placed(chains, nodes, i, L),
           NEW n, n \notin L, NEW more, \A m \in L : more[m] = nodes[m],
           NEW b \in Buckets(i), more[n].h % TableSize[i] = b
    PROVE  Placed([chains EXCEPT ![b] = LinkedFirst(chains[b], n)], more, i, L \cup {n})
<1> DEFINE new == [chains EXCEPT ![b] = LinkedFirst(chains[b], n)]
           Goes(c) == {m \in L \cup {n} : more[m].h % TableSize[i] = c}
           Was(c) == {m \in L : nodes[m].h % TableSize[i] = c}
<1>1. /\ DOMAIN new = Buckets(i) /\ new[b] = LinkedFirst(chains[b], n)
      /\ \A c \in Buckets(i) \ {b} : new[c] = chains[c]
  BY DEF Placed
<1> HIDE DEF new
<1>2. ASSUME NEW c \in Buckets(i)
      PROVE  chains[c] \in Seq(L) /\ ToSet(chains[c]) = Was(c) /\ IsInjective(chains[c])
  BY DEF Placed
<1>3. Goes(b) = Was(b) \cup {n}
  OBVIOUS
<1>4. \A c \in Buckets(i) \ {b} : Goes(c) = Was(c)
  OBVIOUS
<1>5. n \notin Was(b)
  OBVIOUS
<1> HIDE DEF Goes, Was
<1>6. ASSUME NEW c \in Buckets(i)
      PROVE  new[c] \in Seq(L \cup {n}) /\ ToSet(new[c]) = Goes(c) /\ IsInjective(new[c])
  <2>1. CASE c = b
    <3> DEFINE s == chains[b]
    <3>1. s \in Seq(L) /\ IsInjective(s) /\ n \notin ToSet(s)
      BY <1>2, <1>5
    <3> HIDE DEF s
    <3>2. /\ LinkedFirst(s, n) \in Seq(L \cup {n}) /\ ToSet(LinkedFirst(s, n)) = ToSet(s) \cup {n}
          /\ IsInjective(LinkedFirst(s, n))
      BY <3>1, FirstSet
    <3> QED
      BY <1>1, <1>2, <1>3, <2>1, <3>2 DEF s
  <2>2. CASE c # b
    <3>1. new[c] = chains[c] /\ Goes(c) = Was(c) /\ chains[c] \in Seq(L)
      BY <1>1, <1>2, <1>4, <2>2
    <3>2. chains[c] \in Seq(L \cup {n})
      BY <3>1
    <3> QED
      BY <1>2, <3>1, <3>2
  <2> QED
    BY <2>1, <2>2
<1> QED
  BY <1>1, <1>6 DEF Placed, Goes, new

LEMMA UnlinkedPlaced ==
    ASSUME NEW chains, NEW nodes, NEW i \in DOMAIN TableSize, NEW L, Placed(chains, nodes, i, L),
           NEW b \in Buckets(i), NEW n \in ToSet(chains[b]),
           NEW rest, \A m \in L \ {n} : rest[m] = nodes[m]
    PROVE  Placed([chains EXCEPT ![b] = Unlinked(chains[b], n)], rest, i, L \ {n})
<1> DEFINE new == [chains EXCEPT ![b] = Unlinked(chains[b], n)]
           Goes(c) == {m \in L \ {n} : rest[m].h % TableSize[i] = c}
           Was(c) == {m \in L : nodes[m].h % TableSize[i] = c}
<1>1. /\ DOMAIN new = Buckets(i) /\ new[b] = Without(chains[b], n)
      /\ \A c \in Buckets(i) \ {b} : new[c] = chains[c]
  BY DEF Placed, Unlinked
<1> HIDE DEF new
<1>2. ASSUME NEW c \in Buckets(i)
      PROVE  chains[c] \in Seq(L) /\ ToSet(chains[c]) = Was(c) /\ IsInjective(chains[c])
  BY DEF Placed
<1>3. Goes(b) = Was(b) \ {n}
  OBVIOUS
<1>4. n \in Was(b)
  BY <1>2
<1>5. \A c \in Buckets(i) \ {b} : Goes(c) = Was(c) /\ n \notin Was(c)
  BY <1>4
<1> HIDE DEF Goes, Was
<1>6. ASSUME NEW c \in Buckets(i)
      PROVE  new[c] \in Seq(L \ {n}) /\ ToSet(new[c]) = Goes(c) /\ IsInjective(new[c])
  <2>1. CASE c = b
    <3>1. /\ Without(chains[b], n) \in Seq(L \ {n}) /\ ToSet(Without(chains[b], n)) = ToSet(chains[b]) \ {n}
          /\ IsInjective(Without(chains[b], n))
      BY <1>2, WithoutSet
    <3> QED
      BY <1>1, <1>2, <1>3, <2>1, <3>1
  <2>2. CASE c # b
    <3>1. new[c] = chains[c] /\ Goes(c) = Was(c) /\ n \notin Was(c)
      BY <1>1, <1>5, <2>2
    <3>2. chains[c] \in Seq(L) /\ \A p \in 1 .. Len(chains[c]) : chains[c][p] \in L \ {n}
      BY <1>2, <3>1 DEF ToSet
    <3>3. chains[c] \in Seq(L \ {n})
      BY <3>2
    <3> QED
      BY <1>2, <3>1, <3>3
  <2> QED
    BY <2>1, <2>2
<1> QED
  BY <1>1, <1>6 DEF Placed, Goes, new
-----------------------------------------------------------------------------
(* The table as it stands.                                                 *)

Node == [key : Keys \cup {<<>>}, value : NewValue .. MaxInserts, h : Nat]

LEMMA LivePlaced ==
    ASSUME TypeOK, WellLinked, proc # "gone"
    PROVE  /\ Placed(bucket, node, size, Live) /\ Hashed(node, Live) /\ IsFiniteSet(Live)
           /\ size \in DOMAIN TableSize
<1>1. /\ bucket \in [Buckets(size) -> Seq(Nodes)] /\ node \in Seq(Node) /\ size \in DOMAIN TableSize
  BY DEF TypeOK, Node
<1>2. \A b \in Buckets(size) :
          /\ ToSet(bucket[b]) = {n \in Live : node[n].h % TableSize[size] = b}
          /\ IsInjective(bucket[b])
  BY <1>1 DEF WellLinked
<1>3. ASSUME NEW b \in Buckets(size)
      PROVE  bucket[b] \in Seq(Live)
  <2>1. bucket[b] \in Seq(Nodes)
    BY <1>1
  <2>2. \A p \in 1 .. Len(bucket[b]) : bucket[b][p] \in Live
    BY <1>2, <2>1 DEF ToSet
  <2> QED
    BY <2>1, <2>2
<1>4. Placed(bucket, node, size, Live)
  BY <1>1, <1>2, <1>3 DEF Placed
<1>5. Hashed(node, Live)
  <2>1. \A n \in Nodes : node[n] \in Node
    BY <1>1 DEF Nodes
  <2>2. \A n \in Nodes : node[n].h \in Nat
    BY <2>1 DEF Node
  <2> QED
    BY <2>2 DEF Hashed, Live
<1>6. IsFiniteSet(Live)
  <2>1. IsFiniteSet(Nodes)
    BY <1>1, FS_Interval DEF Nodes
  <2>2. Live \in SUBSET Nodes
    BY DEF Live
  <2> QED
    BY <2>1, <2>2, FS_Subset
<1> QED
  BY <1>1, <1>4, <1>5, <1>6

\* The list holds each node that was not freed once.
LEMMA ListOfLive ==
    ASSUME TypeOK, WellLinked, proc # "gone"
    PROVE  /\ list \in Seq(Live) /\ list \in Seq(Int) /\ ToSet(list) = Live
           /\ Increasing(list) /\ IsInjective(list)
           /\ used = Len(list) /\ Len(list) <= Len(node) /\ Len(node) \in 0 .. MaxInserts
<1>1. /\ list \in Seq(Nodes) /\ ToSet(list) = Live /\ used = Len(list)
      /\ Increasing(list) /\ Len(node) \in 0 .. MaxInserts
  BY DEF TypeOK, WellLinked, Increasing
<1>2. \A p \in 1 .. Len(list) : list[p] \in Live
  BY <1>1 DEF ToSet
<1>3. list \in Seq(Live) /\ list \in Seq(Int)
  BY <1>1, <1>2 DEF Nodes
<1>4. Len(list) <= Len(node) /\ IsInjective(list)
  BY <1>1, IncreasingBound DEF Nodes
<1> QED
  BY <1>1, <1>3, <1>4

\* A string is a prefix of itself: an entry stored under the key is found.
LEMMA SamePrefix ==
    ASSUME NEW k \in Keys
    PROVE  IsPrefix(k, k)
<1>1. k \in Seq(STRING)
  BY TableAssumption
<1> QED
  BY <1>1 DEF IsPrefix

LEMMA PlaceInRange ==
    ASSUME TypeOK, NEW k \in Keys
    PROVE  Place(k) \in Buckets(size) /\ Hash[k] \in Nat
<1>1. Hash[k] \in Nat /\ size \in DOMAIN TableSize
  BY TableAssumption DEF TypeOK
<1> QED
  BY <1>1, IndexInRange DEF Place

\* A lookup comes to the node it takes in the bucket of the name, and to one
\* whenever the bucket has one that matches.
LEMMA FoundOrNot ==
    ASSUME TypeOK, NEW k \in Keys
    PROVE  \/ /\ Found(k) = NoNode
              /\ \A n \in ToSet(bucket[Place(k)]) : ~Compared(n, k)
           \/ /\ Found(k) \in ToSet(bucket[Place(k)]) /\ Compared(Found(k), k)
              /\ \E p \in DOMAIN bucket[Place(k)] :
                     /\ bucket[Place(k)][p] = Found(k)
                     /\ \A q \in DOMAIN bucket[Place(k)] : Compared(bucket[Place(k)][q], k) => p <= q
<1> DEFINE chain == bucket[Place(k)]
           matching == {p \in DOMAIN chain : Compared(chain[p], k)}
<1>1. chain \in Seq(Nodes)
  BY PlaceInRange DEF TypeOK
<1>2. Found(k) = IF matching = {} THEN NoNode ELSE chain[Min(matching)]
  BY DEF Found
<1>3. CASE matching = {}
  BY <1>2, <1>3 DEF ToSet
<1>4. CASE matching # {}
  <2>1. matching \in SUBSET Nat
    BY <1>1
  <2>2. Min(matching) \in matching /\ \A q \in matching : Min(matching) <= q
    BY <1>4, <2>1, LeastNat
  <2> QED
    BY <1>2, <1>4, <2>2 DEF ToSet
<1> QED
  BY <1>3, <1>4

\* No lookup takes a freed node, and none misses an entry stored under the
\* name where the hash of the name leads.
LEMMA FoundLive ==
    ASSUME TypeOK, WellLinked, proc # "gone", NEW k \in Keys
    PROVE  \/ /\ Found(k) = NoNode
              /\ \A n \in Live : node[n].key = k => node[n].h # Hash[k]
           \/ /\ Found(k) \in Live /\ Found(k) # NoNode
              /\ Found(k) \in ToSet(bucket[Place(k)]) /\ Compared(Found(k), k)
<1>1. /\ Place(k) \in Buckets(size)
      /\ ToSet(bucket[Place(k)]) = {n \in Live : node[n].h % TableSize[size] = Place(k)}
  BY LivePlaced, PlaceInRange DEF Placed
<1>2. CASE Found(k) \in ToSet(bucket[Place(k)]) /\ Compared(Found(k), k)
  BY <1>1, <1>2 DEF Live, Nodes, NoNode
<1>3. CASE Found(k) = NoNode /\ \A n \in ToSet(bucket[Place(k)]) : ~Compared(n, k)
  <2>1. ASSUME NEW n \in Live, node[n].key = k, node[n].h = Hash[k]
        PROVE  FALSE
    <3>1. n \in ToSet(bucket[Place(k)])
      BY <1>1, <2>1 DEF Place
    <3> QED
      BY <1>3, <2>1, <3>1, SamePrefix DEF Compared
  <2> QED
    BY <1>3, <2>1
<1> QED
  BY <1>2, <1>3, FoundOrNot
-----------------------------------------------------------------------------
(* Insertion.                                                              *)

LEMMA AddedNode ==
    ASSUME TypeOK, NEW k \in Keys, NEW h \in Nat, Add(k, h)
    PROVE  /\ Len(node) \in Nat /\ Len(node) + 1 <= MaxInserts /\ freed' = freed
           /\ node' \in Seq(Node) /\ Len(node') = Len(node) + 1
           /\ node'[Len(node) + 1] = [key |-> k, value |-> Len(node) + 1, h |-> h]
           /\ \A m \in Nodes : node'[m] = node[m] /\ m \in Int /\ m < Len(node) + 1
           /\ Nodes' = Nodes \cup {Len(node) + 1} /\ Live' = Live \cup {Len(node) + 1}
           /\ Len(node) + 1 \notin Nodes
<1> DEFINE n == Len(node) + 1
           new == [key |-> k, value |-> n, h |-> h]
<1>1. node \in Seq(Node) /\ Len(node) \in Nat /\ freed \subseteq Nodes
  BY DEF TypeOK, Node
<1>2. n <= MaxInserts /\ node' = Append(node, new) /\ freed' = freed
  BY <1>1, TableAssumption DEF Add
<1>3. new \in Node
  <2>1. n \in NewValue .. MaxInserts
    BY <1>1, <1>2, TableAssumption DEF NewValue
  <2> QED
    BY <2>1 DEF Node
<1> HIDE DEF new
<1>4. /\ node' \in Seq(Node) /\ Len(node') = Len(node) + 1 /\ node'[n] = new
      /\ \A m \in Nodes : node'[m] = node[m]
  BY <1>1, <1>2, <1>3 DEF Nodes
<1>5. Nodes' = Nodes \cup {n} /\ n \notin Nodes /\ \A m \in Nodes : m \in Int /\ m < n
  BY <1>1, <1>4 DEF Nodes
<1>6. Live' = Live \cup {n}
  BY <1>1, <1>2, <1>5 DEF Live
<1> QED
  BY <1>1, <1>2, <1>4, <1>5, <1>6 DEF new

LEMMA AddedPlaced ==
    ASSUME TypeOK, WellLinked, proc # "gone", NEW k \in Keys, NEW h \in Nat, Add(k, h)
    PROVE  Placed(bucket', node', size', Live') /\ size' \in DOMAIN TableSize
<1> DEFINE n == Len(node) + 1
           b == h % TableSize[size]
           chains == [bucket EXCEPT ![b] = LinkedFirst(bucket[b], n)]
           fits == Larger(used + 1)
<1>1. /\ Placed(bucket, node, size, Live) /\ Hashed(node, Live) /\ IsFiniteSet(Live)
      /\ size \in DOMAIN TableSize
  BY LivePlaced
<1>2. Live' = Live \cup {n} /\ n \notin Live /\ \A m \in Live : node'[m] = node[m]
  BY AddedNode DEF Live
<1>3. node'[n].h = h
  <2>1. node'[n] = [key |-> k, value |-> n, h |-> h]
    BY AddedNode
  <2> QED
    BY <2>1
<1>4. b \in Buckets(size)
  BY <1>1, IndexInRange
<1>5. Placed(chains, node', size, Live')
  BY <1>1, <1>2, <1>3, <1>4, LinkedPlaced
<1>6. Hashed(node', Live')
  BY <1>1, <1>2, <1>3 DEF Hashed
<1>7. IsFiniteSet(Live')
  BY <1>1, <1>2, FS_AddElement
<1>8. IF used + 1 >= Limit /\ fits # {}
        THEN size' = Min(fits) /\ bucket' = Rebuilt(chains, node', size')
        ELSE size' = size /\ bucket' = chains
  BY DEF Add
<1> HIDE DEF chains
<1>9. fits # {} => Min(fits) \in DOMAIN TableSize
  <2>1. size \in Nat \ {0} /\ TableSize \in Seq(Nat \ {0, 1}) /\ size \in 1 .. Len(TableSize)
    BY <1>1, TableAssumption
  <2>2. fits \in SUBSET (1 .. Len(TableSize)) /\ fits \in SUBSET Nat
    BY <2>1 DEF Larger
  <2>3. fits # {} => Min(fits) \in fits
    BY <2>2, LeastNat
  <2> QED
    BY <2>1, <2>2, <2>3
<1> HIDE DEF fits
<1>10. CASE used + 1 >= Limit /\ fits # {}
  <2>1. size' \in DOMAIN TableSize
    BY <1>8, <1>9, <1>10
  <2>2. Placed(Rebuilt(chains, node', size'), node', size', Live')
    BY <1>1, <1>5, <1>6, <1>7, <2>1, RebuiltPlaced
  <2> QED
    BY <1>8, <1>10, <2>1, <2>2
<1>11. CASE ~(used + 1 >= Limit /\ fits # {})
  BY <1>1, <1>5, <1>8, <1>11
<1> QED
  BY <1>10, <1>11

LEMMA AddedList ==
    ASSUME TypeOK, WellLinked, proc # "gone", NEW k \in Keys, NEW h \in Nat, Add(k, h)
    PROVE  /\ list' \in Seq(Nodes') /\ used' = Len(list') /\ ToSet(list') = Live'
           /\ Increasing(list') /\ used' \in 0 .. MaxInserts
<1> DEFINE n == Len(node) + 1
<1>1. list' = Append(list, n) /\ used' = used + 1
  BY DEF Add, Listed
<1>2. /\ list \in Seq(Live) /\ list \in Seq(Int) /\ ToSet(list) = Live /\ Increasing(list)
      /\ used = Len(list) /\ Len(list) <= Len(node) /\ Len(node) \in 0 .. MaxInserts
  BY ListOfLive
<1>3. \A p \in DOMAIN list : list[p] < n
  <2>1. \A m \in Live : m < n
    BY AddedNode DEF Live
  <2> QED
    BY <1>2, <2>1
<1>4. /\ n <= MaxInserts /\ n \in Int /\ Live' = Live \cup {n} /\ Nodes' = Nodes \cup {n}
      /\ Live \subseteq Nodes
  <2>1. /\ Len(node) \in Nat /\ n <= MaxInserts /\ Live' = Live \cup {n} /\ Nodes' = Nodes \cup {n}
    BY AddedNode
  <2> QED
    BY <2>1 DEF Live
<1> HIDE DEF n
<1>5. Increasing(list') /\ ToSet(list') = Live'
  BY <1>1, <1>2, <1>3, <1>4, AppendedIncreasing
<1>6. list' \in Seq(Nodes')
  <2>1. list \in Seq(Nodes') /\ n \in Nodes'
    BY <1>2, <1>4
  <2> QED
    BY <1>1, <2>1
<1>7. used' = Len(list') /\ used' \in 0 .. MaxInserts
  <2>1. Len(list') = Len(list) + 1
    BY <1>1, <1>2
  <2>2. MaxInserts \in Nat /\ Len(node) + 1 <= MaxInserts /\ Len(node) \in Nat
    BY <1>2, <1>4, TableAssumption DEF n
  <2>3. Len(list) \in Nat /\ Len(list) + 1 <= MaxInserts
    BY <1>2, <2>2
  <2> QED
    BY <1>1, <1>2, <2>1, <2>2, <2>3
<1> QED
  BY <1>5, <1>6, <1>7
-----------------------------------------------------------------------------
(* Removal and replacement.                                                *)

LEMMA ChangedSeq ==
    ASSUME NEW T, NEW s \in Seq(T), NEW p \in 1 .. Len(s), NEW x \in T
    PROVE  /\ [s EXCEPT ![p] = x] \in Seq(T) /\ Len([s EXCEPT ![p] = x]) = Len(s)
           /\ [s EXCEPT ![p] = x][p] = x
           /\ \A q \in 1 .. Len(s) : q # p => [s EXCEPT ![p] = x][q] = s[q]
  OBVIOUS

LEMMA FreedIsNode == Freed \in Node
<1>1. NewValue \in NewValue .. MaxInserts
  BY TableAssumption DEF NewValue
<1> QED
  BY <1>1 DEF Freed, Node

LEMMA MissedDelete ==
    ASSUME TypeOK, WellLinked, proc # "gone", NEW k \in Keys, Delete(k), Found(k) = NoNode
    PROVE  UNCHANGED <<table, heap>>
<1>1. Place(k) \in Buckets(size) /\ bucket \in [Buckets(size) -> Seq(Nodes)]
  BY PlaceInRange DEF TypeOK
<1>2. NoNode \notin ToSet(bucket[Place(k)]) /\ NoNode \notin ToSet(list)
  <2>1. NoNode \notin Nodes
    BY DEF NoNode, Nodes
  <2>2. bucket[Place(k)] \in Seq(Nodes) /\ list \in Seq(Nodes)
    BY <1>1 DEF TypeOK
  <2> QED
    BY <2>1, <2>2 DEF ToSet
<1>3. bucket' = [bucket EXCEPT ![Place(k)] = bucket[Place(k)]]
  BY <1>2 DEF Delete, Unlinked, Without
<1>4. bucket' = bucket
  BY <1>1, <1>3
<1>5. list' = list
  BY <1>2 DEF Delete, Unlisted, Without
<1> QED
  BY <1>4, <1>5 DEF Delete, Uncounted, table, heap

LEMMA DeletedNode ==
    ASSUME TypeOK, WellLinked, proc # "gone", NEW k \in Keys, Delete(k), Found(k) # NoNode
    PROVE  /\ node' \in Seq(Node) /\ Len(node') = Len(node) /\ Nodes' = Nodes
           /\ \A n \in Nodes \ {Found(k)} : node'[n] = node[n]
           /\ freed' = freed \cup {Found(k)} /\ freed' \subseteq Nodes /\ Live' = Live \ {Found(k)}
           /\ Found(k) \in Live
<1> DEFINE m == Found(k)
<1>1. m \in Live
  BY FoundLive
<1>2. node \in Seq(Node) /\ freed \subseteq Nodes /\ m \in 1 .. Len(node)
  BY <1>1 DEF TypeOK, Node, Live, Nodes
<1>3. node' = [node EXCEPT ![m] = Freed] /\ freed' = freed \cup {m}
  BY DEF Delete
<1> HIDE DEF m
<1>4. /\ node' \in Seq(Node) /\ Len(node') = Len(node)
      /\ \A n \in 1 .. Len(node) : n # m => node'[n] = node[n]
  BY <1>2, <1>3, FreedIsNode, ChangedSeq
<1>5. Nodes' = Nodes
  BY <1>4 DEF Nodes
<1>6. Live' = Live \ {m}
  BY <1>3, <1>5 DEF Live
<1> QED
  BY <1>1, <1>2, <1>3, <1>4, <1>5, <1>6 DEF m, Nodes

LEMMA DeletedPlaced ==
    ASSUME TypeOK, WellLinked, proc # "gone", NEW k \in Keys, Delete(k), Found(k) # NoNode
    PROVE  Placed(bucket', node', size', Live')
<1> DEFINE m == Found(k)
           b == Place(k)
<1>1. Placed(bucket, node, size, Live) /\ size \in DOMAIN TableSize /\ b \in Buckets(size)
  BY LivePlaced, PlaceInRange
<1>2. m \in ToSet(bucket[b])
  BY FoundLive
<1>3. Live' = Live \ {m} /\ \A n \in Live \ {m} : node'[n] = node[n]
  BY DeletedNode DEF Live
<1>4. bucket' = [bucket EXCEPT ![b] = Unlinked(bucket[b], m)] /\ size' = size
  BY DEF Delete
<1> HIDE DEF m, b
<1>5. Placed([bucket EXCEPT ![b] = Unlinked(bucket[b], m)], node', size, Live \ {m})
  BY <1>1, <1>2, <1>3, UnlinkedPlaced
<1> QED
  BY <1>3, <1>4, <1>5

LEMMA DeletedList ==
    ASSUME TypeOK, WellLinked, proc # "gone", NEW k \in Keys, Delete(k), Found(k) # NoNode
    PROVE  /\ list' \in Seq(Nodes') /\ used' = Len(list') /\ ToSet(list') = Live'
           /\ Increasing(list') /\ used' \in 0 .. MaxInserts
<1> DEFINE m == Found(k)
<1>1. list' = Without(list, m) /\ used' = used - 1
  BY DEF Delete, Unlisted, Uncounted
<1>2. /\ list \in Seq(Live) /\ list \in Seq(Int) /\ ToSet(list) = Live /\ Increasing(list)
      /\ used = Len(list) /\ Len(list) <= Len(node) /\ Len(node) \in 0 .. MaxInserts
      /\ IsInjective(list)
  BY ListOfLive
<1>3. m \in Live /\ Live' = Live \ {m} /\ Nodes' = Nodes
  BY DeletedNode
<1> HIDE DEF m
<1>4. list' \in Seq(Live \ {m}) /\ ToSet(list') = Live'
  BY <1>1, <1>2, <1>3, WithoutSet
<1>5. Increasing(list')
  BY <1>1, <1>2, WithoutOrdered
<1>6. Len(list') = Len(list) - 1 /\ Len(list) \in Nat \ {0}
  BY <1>1, <1>2, <1>3, WithoutShape
<1>7. list' \in Seq(Nodes')
  <2>1. Live \ {m} \subseteq Nodes'
    BY <1>3 DEF Live
  <2> QED
    BY <1>4, <2>1
<1>8. used' = Len(list') /\ used' \in 0 .. MaxInserts
  BY <1>1, <1>2, <1>6, TableAssumption
<1> QED
  BY <1>4, <1>5, <1>7, <1>8

LEMMA ReplacedNode ==
    ASSUME TypeOK, WellLinked, proc # "gone", NEW k \in Keys, Replace(k)
    PROVE  /\ node' \in Seq(Node) /\ Len(node') = Len(node) /\ Nodes' = Nodes /\ Live' = Live
           /\ \A n \in Nodes : node'[n].h = node[n].h /\ node'[n].key = node[n].key
           /\ \A n \in Nodes \ {Found(k)} : node'[n] = node[n]
           /\ Found(k) # NoNode => node'[Found(k)].value = NewValue
<1> DEFINE m == Found(k)
<1>1. node \in Seq(Node) /\ freed' = freed /\ \A n \in 1 .. Len(node) : node[n] \in Node
  <2>1. node \in Seq(Node)
    BY DEF TypeOK, Node
  <2>2. freed' = freed
    BY DEF Replace
  <2> QED
    BY <2>1, <2>2
<1>2. node' = IF m = NoNode THEN node ELSE [node EXCEPT ![m].value = NewValue]
  BY DEF Replace
<1>3. m = NoNode \/ m \in 1 .. Len(node)
  BY FoundLive DEF Live, Nodes
<1> HIDE DEF m
<1>4. CASE m = NoNode
  BY <1>1, <1>2, <1>4 DEF Nodes, Live, m
<1>5. CASE m # NoNode
  <2> DEFINE new == [node[m] EXCEPT !.value = NewValue]
  <2>1. m \in 1 .. Len(node) /\ node[m] \in Node
    BY <1>1, <1>3, <1>5
  <2>2. NewValue \in NewValue .. MaxInserts
    BY TableAssumption DEF NewValue
  <2>3. new \in Node /\ new.h = node[m].h /\ new.key = node[m].key /\ new.value = NewValue
    BY <2>1, <2>2 DEF Node
  <2>4. node' = [node EXCEPT ![m] = new]
    BY <1>2, <1>5
  <2> HIDE DEF new
  <2>5. /\ node' \in Seq(Node) /\ Len(node') = Len(node) /\ node'[m] = new
        /\ \A n \in 1 .. Len(node) : n # m => node'[n] = node[n]
    BY <1>1, <2>1, <2>3, <2>4, ChangedSeq
  <2>6. Nodes' = Nodes /\ Live' = Live
    BY <1>1, <2>5 DEF Nodes, Live
  <2>7. \A n \in Nodes : node'[n].h = node[n].h /\ node'[n].key = node[n].key
    BY <2>3, <2>5 DEF Nodes
  <2> QED
    BY <2>3, <2>5, <2>6, <2>7 DEF m, Nodes
<1> QED
  BY <1>4, <1>5
-----------------------------------------------------------------------------
(* TypeOK and WellLinked are inductive together.                           *)

Answers == [key : Keys \cup {<<>>}, value : None .. MaxInserts]

LEMMA NoAnswerTyped == NoAnswer \in Answers
<1>1. None \in None .. MaxInserts
  BY TableAssumption DEF None
<1> QED
  BY <1>1 DEF NoAnswer, Answers

LEMMA AnswerTyped ==
    ASSUME TypeOK, NEW k \in Keys, NEW n \in {NoNode} \cup Nodes, Answer(k, n)
    PROVE  answer' \in Answers
<1> DEFINE v == IF n = NoNode THEN None ELSE node[n].value
<1>1. answer' = [key |-> k, value |-> v]
  BY DEF Answer
<1>2. v \in None .. MaxInserts
  <2>1. CASE n = NoNode
    BY <2>1, TableAssumption DEF None
  <2>2. CASE n # NoNode
    <3>1. node \in Seq(Node) /\ n \in 1 .. Len(node)
      BY <2>2 DEF TypeOK, Node, Nodes
    <3>2. node[n] \in Node
      BY <3>1
    <3>3. node[n].value \in NewValue .. MaxInserts
      BY <3>2 DEF Node
    <3> QED
      BY <2>2, <3>3, TableAssumption DEF NewValue, None
  <2> QED
    BY <2>1, <2>2
<1> HIDE DEF v
<1> QED
  BY <1>1, <1>2 DEF Answers

\* What is left to show of a step that changes the table.
Rest ==
    /\ answer \in Answers /\ position \in {NoNode} \cup Nodes /\ visited \subseteq Nodes
    /\ proc \in {"run", "ub"} /\ rebuilt \in BOOLEAN

LEMMA LinkedAgain ==
    ASSUME node' \in Seq(Node), Len(node') <= MaxInserts, freed' \subseteq Nodes',
           size' \in DOMAIN TableSize, Placed(bucket', node', size', Live'),
           list' \in Seq(Nodes'), used' = Len(list'), used' \in 0 .. MaxInserts,
           ToSet(list') = Live', Increasing(list'), Rest'
    PROVE  TypeOK' /\ WellLinked'
<1>1. bucket' \in [Buckets(size') -> Seq(Nodes')]
  <2>1. bucket' \in [Buckets(size') -> Seq(Live')] /\ Live' \subseteq Nodes'
    BY DEF Placed, Live
  <2>2. \A b \in Buckets(size') : bucket'[b] \in Seq(Nodes')
    BY <2>1
  <2> QED
    BY <2>1, <2>2
<1>2. TypeOK'
  BY <1>1 DEF TypeOK, Rest, Node, Answers
<1>3. \A b \in DOMAIN bucket' :
          /\ ToSet(bucket'[b]) = {n \in Live' : node'[n].h % TableSize[size'] = b}
          /\ IsInjective(bucket'[b])
  BY DEF Placed
<1>4. proc' # "gone"
  BY DEF Rest
<1> QED
  BY <1>2, <1>3, <1>4 DEF WellLinked, Increasing

LEMMA Untouched ==
    ASSUME WellLinked, proc # "gone", UNCHANGED <<table, heap>>, proc' # "gone"
    PROVE  WellLinked'
<1>1. size' = size /\ used' = used /\ bucket' = bucket /\ list' = list /\ node' = node /\ freed' = freed
  BY DEF table, heap
<1> QED
  BY <1>1 DEF WellLinked, Live, Nodes

LEMMA TypedAgain ==
    ASSUME TypeOK, UNCHANGED <<table, heap>>, Rest'
    PROVE  TypeOK'
<1>1. size' = size /\ used' = used /\ bucket' = bucket /\ list' = list /\ node' = node /\ freed' = freed
  BY DEF table, heap
<1> QED
  BY <1>1 DEF TypeOK, Rest, Answers, Nodes

LEMMA AddSound ==
    ASSUME TypeOK, WellLinked, proc = "run", NEW k \in Keys, NEW h \in Nat, Add(k, h)
    PROVE  TypeOK' /\ WellLinked'
<1>1. /\ node' \in Seq(Node) /\ Len(node') <= MaxInserts /\ freed' = freed
      /\ Nodes' = Nodes \cup {Len(node) + 1}
  BY AddedNode
<1>2. Placed(bucket', node', size', Live') /\ size' \in DOMAIN TableSize
  BY AddedPlaced
<1>3. /\ list' \in Seq(Nodes') /\ used' = Len(list') /\ ToSet(list') = Live'
      /\ Increasing(list') /\ used' \in 0 .. MaxInserts
  BY AddedList
<1>4. freed' \subseteq Nodes'
  BY <1>1 DEF TypeOK
<1>5. Rest'
  <2>1. answer' \in Answers
    BY NoAnswerTyped DEF Add
  <2>2. position' = position /\ visited' = visited /\ proc' = proc /\ (rebuilt' = TRUE \/ rebuilt' = rebuilt)
    BY DEF Add, foreach
  <2> QED
    BY <1>1, <2>1, <2>2 DEF Rest, TypeOK
<1> QED
  BY <1>1, <1>2, <1>3, <1>4, <1>5, LinkedAgain

LEMMA LookupSound ==
    ASSUME TypeOK, WellLinked, proc = "run", NEW k \in Keys, Lookup(k)
    PROVE  TypeOK' /\ WellLinked'
<1>1. Found(k) \in {NoNode} \cup Nodes
  BY FoundLive DEF Live
<1>2. /\ UNCHANGED <<table, heap>> /\ position' = position /\ visited' = visited /\ proc' = proc
      /\ rebuilt' = rebuilt
  BY DEF Lookup, foreach
<1>3. answer' \in Answers
  BY <1>1, AnswerTyped DEF Lookup
<1>4. Nodes' = Nodes
  BY <1>2 DEF heap, Nodes
<1>5. Rest'
  BY <1>2, <1>3, <1>4 DEF Rest, TypeOK
<1> QED
  BY <1>2, <1>5, TypedAgain, Untouched

LEMMA ReplaceSound ==
    ASSUME TypeOK, WellLinked, proc = "run", NEW k \in Keys, Replace(k)
    PROVE  TypeOK' /\ WellLinked'
<1>1. Found(k) \in {NoNode} \cup Nodes
  BY FoundLive DEF Live
<1>2. /\ node' \in Seq(Node) /\ Len(node') = Len(node) /\ Nodes' = Nodes /\ Live' = Live
      /\ \A n \in Nodes : node'[n].h = node[n].h
  BY ReplacedNode
<1>3. /\ size' = size /\ used' = used /\ bucket' = bucket /\ list' = list /\ freed' = freed
      /\ position' = position /\ visited' = visited /\ proc' = proc /\ rebuilt' = rebuilt
  BY DEF Replace, table, foreach
<1>4. answer' \in Answers
  BY <1>1, AnswerTyped DEF Replace
<1>5. Rest'
  BY <1>2, <1>3, <1>4 DEF Rest, TypeOK
<1>6. Placed(bucket', node', size', Live')
  <2>1. Placed(bucket, node, size, Live)
    BY LivePlaced
  <2>2. \A n \in Live : node'[n].h = node[n].h
    BY <1>2 DEF Live
  <2> QED
    BY <1>2, <1>3, <2>1, <2>2 DEF Placed
<1>7. /\ list' \in Seq(Nodes') /\ used' = Len(list') /\ used' \in 0 .. MaxInserts
      /\ ToSet(list') = Live' /\ Increasing(list')
  BY <1>2, <1>3, ListOfLive DEF TypeOK
<1>8. size' \in DOMAIN TableSize /\ Len(node') <= MaxInserts /\ freed' \subseteq Nodes'
  BY <1>2, <1>3 DEF TypeOK
<1> QED
  BY <1>2, <1>5, <1>6, <1>7, <1>8, LinkedAgain

LEMMA DeleteSound ==
    ASSUME TypeOK, WellLinked, proc = "run", NEW k \in Keys, Delete(k)
    PROVE  TypeOK' /\ WellLinked'
<1>1. Found(k) \in {NoNode} \cup Nodes
  BY FoundLive DEF Live
<1>2. answer' \in Answers
  BY <1>1, AnswerTyped DEF Delete
<1>3. size' = size /\ position' = position /\ visited' = visited /\ proc' = proc /\ rebuilt' = rebuilt
  BY DEF Delete, foreach
<1>4. CASE Found(k) = NoNode
  <2>1. UNCHANGED <<table, heap>>
    BY <1>4, MissedDelete
  <2>2. Nodes' = Nodes
    BY <2>1 DEF heap, Nodes
  <2>3. Rest'
    BY <1>2, <1>3, <2>2 DEF Rest, TypeOK
  <2> QED
    BY <1>3, <2>1, <2>3, TypedAgain, Untouched
<1>5. CASE Found(k) # NoNode
  <2>1. node' \in Seq(Node) /\ Len(node') = Len(node) /\ Nodes' = Nodes /\ freed' \subseteq Nodes'
    BY <1>5, DeletedNode
  <2>2. Placed(bucket', node', size', Live')
    BY <1>5, DeletedPlaced
  <2>3. /\ list' \in Seq(Nodes') /\ used' = Len(list') /\ ToSet(list') = Live'
        /\ Increasing(list') /\ used' \in 0 .. MaxInserts
    BY <1>5, DeletedList
  <2>4. Rest'
    BY <1>2, <1>3, <2>1 DEF Rest, TypeOK
  <2>5. size' \in DOMAIN TableSize /\ Len(node') <= MaxInserts
    BY <1>3, <2>1 DEF TypeOK
  <2> QED
    BY <2>1, <2>2, <2>3, <2>4, <2>5, LinkedAgain
<1> QED
  BY <1>4, <1>5

\* hash_destroy finds every node in the chains.
LEMMA DestroySound ==
    ASSUME TypeOK, WellLinked, proc = "run", Destroy
    PROVE  TypeOK' /\ WellLinked'
<1>1. Linked(bucket) = Live
  BY LivePlaced, PlacedLinked
<1>2. /\ size' = size /\ used' = used /\ bucket' = bucket /\ list' = list /\ node' = node
      /\ position' = position /\ visited' = visited /\ rebuilt' = rebuilt
      /\ proc' = "gone" /\ freed' = freed \cup Live
  BY <1>1 DEF Destroy, table, foreach
<1>3. answer' \in Answers
  BY NoAnswerTyped DEF Destroy
<1>4. Nodes' = Nodes /\ freed' = Nodes'
  BY <1>2 DEF Nodes, Live, TypeOK
<1>5. TypeOK'
  BY <1>2, <1>3, <1>4 DEF TypeOK, Answers
<1> QED
  BY <1>2, <1>4, <1>5 DEF WellLinked

\* The node after the one at hand, if there is one.
LEMMA NextInList ==
    ASSUME TypeOK, WellLinked, proc # "gone", NEW n \in Live
    PROVE  /\ After(n) \in Nat /\ After(n) - 1 \in DOMAIN list /\ list[After(n) - 1] = n
           /\ After(n) <= Len(list) => After(n) \in DOMAIN list /\ list[After(n)] \in Live
<1>1. list \in Seq(Live) /\ n \in ToSet(list)
  BY ListOfLive
<1>2. PlaceOf(list, n) \in 1 .. Len(list) /\ list[PlaceOf(list, n)] = n
  BY <1>1, PlaceOfIs
<1> QED
  BY <1>1, <1>2 DEF After

LEMMA ForeachSound ==
    ASSUME TypeOK, WellLinked, proc = "run", Begin \/ Advance \/ Break
    PROVE  TypeOK' /\ WellLinked'
<1>1. UNCHANGED <<table, heap>> /\ rebuilt' = rebuilt /\ proc' \in {"run", "ub"}
  BY DEF Begin, Advance, Break, table, heap
<1>2. answer' \in Answers
  BY NoAnswerTyped DEF Begin, Advance, Break
<1>3. Nodes' = Nodes
  BY <1>1 DEF heap, Nodes
<1>4. position' \in {NoNode} \cup Nodes /\ visited' \subseteq Nodes
  <2>1. CASE Begin
    BY <2>1 DEF Begin, TypeOK
  <2>2. CASE Advance
    <3>1. CASE position \in freed \/ After(position) > Len(list)
      BY <2>2, <3>1 DEF Advance, foreach, TypeOK
    <3>2. CASE position \notin freed /\ ~(After(position) > Len(list))
      <4>1. position \in Live
        BY <2>2, <3>2 DEF Advance, Live, TypeOK
      <4>2. list[After(position)] \in Live
        <5>1. Len(list) \in Nat /\ After(position) \in Nat
          BY <4>1, NextInList DEF TypeOK
        <5>2. After(position) <= Len(list)
          BY <3>2, <5>1
        <5> QED
          BY <4>1, <5>2, NextInList
      <4>3. position' = list[After(position)] /\ visited' = visited \cup {position'}
        BY <2>2, <3>2 DEF Advance
      <4> QED
        BY <4>2, <4>3 DEF Live, TypeOK
    <3> QED
      BY <3>1, <3>2
  <2>3. CASE Break
    BY <2>3 DEF Break
  <2> QED
    BY <2>1, <2>2, <2>3
<1>5. Rest'
  BY <1>1, <1>2, <1>3, <1>4 DEF Rest, TypeOK
<1> QED
  BY <1>1, <1>5, TypedAgain, Untouched
LEMMA InitSound == Init => TypeOK /\ WellLinked
<1> SUFFICES ASSUME Init
             PROVE  TypeOK /\ WellLinked
  OBVIOUS
<1>1. Allocated \in DOMAIN TableSize
  <2>1. TableSize \in Seq(Nat \ {0, 1}) /\ Len(TableSize) \in DOMAIN TableSize
    BY TableAssumption
  <2>2. CASE Enough(Requested) = {}
    BY <2>1, <2>2 DEF Allocated
  <2>3. CASE Enough(Requested) # {}
    <3>1. Enough(Requested) \in SUBSET (DOMAIN TableSize) /\ DOMAIN TableSize \subseteq Nat
      BY <2>1 DEF Enough
    <3>2. Min(Enough(Requested)) \in Enough(Requested)
      BY <2>3, <3>1, LeastNat
    <3> QED
      BY <2>3, <3>1, <3>2 DEF Allocated
  <2> QED
    BY <2>2, <2>3
<1>2. /\ <<>> \in Seq(Nodes) /\ <<>> \in Seq(Node) /\ Len(<<>>) = 0 /\ DOMAIN <<>> = {}
      /\ ToSet(<<>>) = {}
  BY DEF ToSet
<1>3. Nodes = {} /\ Live = {}
  BY <1>2 DEF Init, Nodes, Live
<1>4. size = Allocated /\ bucket = [b \in Buckets(size) |-> <<>>]
  BY DEF Init
<1>5. TypeOK
  <2>1. bucket \in [Buckets(size) -> Seq(Nodes)]
    BY <1>2, <1>4
  <2>2. answer \in Answers
    BY NoAnswerTyped DEF Init
  <2>3. used \in 0 .. MaxInserts /\ Len(node) <= MaxInserts
    BY <1>2, TableAssumption DEF Init
  <2>4. node \in Seq(Node) /\ list \in Seq(Nodes) /\ freed \subseteq Nodes /\ size \in DOMAIN TableSize
    BY <1>1, <1>2, <1>4 DEF Init
  <2>5. position \in {NoNode} \cup Nodes /\ visited \subseteq Nodes /\ proc = "run" /\ rebuilt \in BOOLEAN
    BY DEF Init
  <2> QED
    BY <2>1, <2>2, <2>3, <2>4, <2>5 DEF TypeOK, Node, Answers
<1>6. WellLinked
  <2>1. used = Len(list) /\ ToSet(list) = Live /\ DOMAIN list = {} /\ proc = "run"
    BY <1>2, <1>3 DEF Init
  <2>2. \A b \in DOMAIN bucket : bucket[b] = <<>>
    BY <1>4
  <2>3. \A b \in DOMAIN bucket : ToSet(bucket[b]) = {} /\ IsInjective(bucket[b])
    BY <1>2, <2>2 DEF IsInjective
  <2> QED
    BY <1>3, <2>1, <2>3 DEF WellLinked
<1> QED
  BY <1>5, <1>6

LEMMA GarbageIsNat == \A h \in Garbage : h \in Nat
  BY TableAssumption

LEMMA StepSound == TypeOK /\ WellLinked /\ [Next]_vars => TypeOK' /\ WellLinked'
<1> SUFFICES ASSUME TypeOK, WellLinked, [Next]_vars
             PROVE  TypeOK' /\ WellLinked'
  OBVIOUS
<1>1. ASSUME NEW k \in Keys, proc = "run", Insert(k)
      PROVE  TypeOK' /\ WellLinked'
  <2>1. Hash[k] \in Nat
    BY TableAssumption
  <2> QED
    BY <1>1, <2>1, AddSound DEF Insert
<1>2. ASSUME NEW k \in ByKey, proc = "run", InsertByKey(k)
      PROVE  TypeOK' /\ WellLinked'
  <2>1. k \in Keys
    BY TableAssumption
  <2>2. PICK h \in Garbage : Add(k, h)
    BY <1>2 DEF InsertByKey
  <2> QED
    BY <1>2, <2>1, <2>2, AddSound, GarbageIsNat
<1>3. ASSUME NEW k \in Keys, proc = "run", Lookup(k)
      PROVE  TypeOK' /\ WellLinked'
  BY <1>3, LookupSound
<1>4. ASSUME NEW k \in Keys, proc = "run", Replace(k)
      PROVE  TypeOK' /\ WellLinked'
  BY <1>4, ReplaceSound
<1>5. ASSUME NEW k \in Keys, proc = "run", Delete(k)
      PROVE  TypeOK' /\ WellLinked'
  BY <1>5, DeleteSound
<1>6. ASSUME proc = "run", Destroy
      PROVE  TypeOK' /\ WellLinked'
  BY <1>6, DestroySound
<1>7. ASSUME proc = "run", Begin \/ Advance \/ Break
      PROVE  TypeOK' /\ WellLinked'
  BY <1>7, ForeachSound
<1>8. CASE UNCHANGED vars
  BY <1>8 DEF vars, table, heap, foreach, TypeOK, WellLinked, Live, Nodes
<1> QED
  BY <1>1, <1>2, <1>3, <1>4, <1>5, <1>6, <1>7, <1>8 DEF Next

\* Every variable keeps its shape.
THEOREM HashTableTyped == Spec => []TypeOK
<1>1. Init => TypeOK /\ WellLinked
  BY InitSound
<1>2. TypeOK /\ WellLinked /\ [Next]_vars => (TypeOK /\ WellLinked)'
  BY StepSound
<1> QED
  BY <1>1, <1>2, PTL DEF Spec

\* Through every insertion, removal and rebuilding, and whatever the handler
\* of hash_foreach does meanwhile, each node that was not freed is in the list
\* once, in the order of insertion, and once in the chain of its hash; and
\* hash_destroy frees them all.
THEOREM HashTableWellLinked == Spec => []WellLinked
<1>1. Init => TypeOK /\ WellLinked
  BY InitSound
<1>2. TypeOK /\ WellLinked /\ [Next]_vars => (TypeOK /\ WellLinked)'
  BY StepSound
<1> QED
  BY <1>1, <1>2, PTL DEF Spec
-----------------------------------------------------------------------------
(* Lookups before the first rebuilding.                                    *)

\* Nodes are put in front, so the newer come first.
NewestFirst == ~rebuilt => \A b \in Buckets(size) : Decreasing(bucket[b])

LEMMA ChainOfInts ==
    ASSUME TypeOK, NEW b \in Buckets(size)
    PROVE  bucket[b] \in Seq(Int) /\ bucket[b] \in Seq(Nodes)
<1>1. bucket[b] \in Seq(Nodes)
  BY DEF TypeOK
<1>2. \A p \in 1 .. Len(bucket[b]) : bucket[b][p] \in Int
  BY <1>1 DEF Nodes
<1> QED
  BY <1>1, <1>2

LEMMA FirstIsNewest ==
    ASSUME TypeOK, NewestFirst
    PROVE  NewestFound
<1> SUFFICES ASSUME ~rebuilt, NEW k \in Keys, NEW n \in ToSet(bucket[Place(k)]), Compared(n, k)
             PROVE  n <= Found(k)
  BY DEF NewestFound
<1> DEFINE chain == bucket[Place(k)]
<1>1. chain \in Seq(Int) /\ Decreasing(chain)
  BY PlaceInRange, ChainOfInts DEF NewestFirst
<1>2. PICK p \in DOMAIN chain : chain[p] = n
  BY DEF ToSet
<1>3. PICK q \in DOMAIN chain :
          chain[q] = Found(k) /\ \A r \in DOMAIN chain : Compared(chain[r], k) => q <= r
  BY FoundOrNot
<1>4. q <= p /\ p \in Int /\ q \in Int /\ chain[p] \in Int /\ chain[q] \in Int
  BY <1>1, <1>2, <1>3
<1>5. CASE p = q
  BY <1>2, <1>3, <1>4, <1>5
<1>6. CASE q < p
  <2>1. chain[p] < chain[q]
    BY <1>1, <1>6 DEF Decreasing
  <2> QED
    BY <1>2, <1>3, <1>4, <2>1
<1> QED
  BY <1>4, <1>5, <1>6

LEMMA NewestAdd ==
    ASSUME TypeOK, NewestFirst, NEW k \in Keys, NEW h \in Nat, Add(k, h)
    PROVE  NewestFirst'
<1> SUFFICES ASSUME ~rebuilt', NEW b \in Buckets(size')
             PROVE  Decreasing(bucket'[b])
  BY DEF NewestFirst
<1> DEFINE n == Len(node) + 1
           c == h % TableSize[size]
<1>1. /\ size' = size /\ rebuilt' = rebuilt
      /\ bucket' = [bucket EXCEPT ![c] = LinkedFirst(bucket[c], n)]
  BY DEF Add
<1>2. b \in Buckets(size) /\ bucket[b] \in Seq(Int) /\ bucket[b] \in Seq(Nodes) /\ Decreasing(bucket[b])
  BY <1>1, ChainOfInts DEF NewestFirst
<1>3. \A m \in Nodes : m < n
  BY AddedNode
<1>4. n \in Int /\ DOMAIN bucket = Buckets(size)
  BY DEF TypeOK
<1> HIDE DEF n, c
<1>5. CASE b = c
  <2>1. bucket'[b] = LinkedFirst(bucket[b], n)
    BY <1>1, <1>2, <1>4, <1>5
  <2>2. \A p \in DOMAIN bucket[b] : bucket[b][p] < n
    BY <1>2, <1>3
  <2> QED
    BY <1>2, <1>4, <2>1, <2>2, FirstDecreasing
<1>6. CASE b # c
  BY <1>1, <1>2, <1>4, <1>6
<1> QED
  BY <1>5, <1>6

LEMMA NewestDelete ==
    ASSUME TypeOK, NewestFirst, NEW k \in Keys, Delete(k)
    PROVE  NewestFirst'
<1> SUFFICES ASSUME ~rebuilt', NEW b \in Buckets(size')
             PROVE  Decreasing(bucket'[b])
  BY DEF NewestFirst
<1> DEFINE n == Found(k)
           c == Place(k)
<1>1. size' = size /\ rebuilt' = rebuilt /\ bucket' = [bucket EXCEPT ![c] = Without(bucket[c], n)]
  BY DEF Delete, Unlinked
<1>2. b \in Buckets(size) /\ bucket[b] \in Seq(Int) /\ Decreasing(bucket[b])
  BY <1>1, ChainOfInts DEF NewestFirst
<1>3. DOMAIN bucket = Buckets(size)
  BY DEF TypeOK
<1> HIDE DEF n, c
<1>4. bucket'[b] = IF b = c THEN Without(bucket[b], n) ELSE bucket[b]
  BY <1>1, <1>2, <1>3
<1> QED
  BY <1>2, <1>4, WithoutOrdered

LEMMA NewestStep == TypeOK /\ NewestFirst /\ [Next]_vars => NewestFirst'
<1> SUFFICES ASSUME TypeOK, NewestFirst, [Next]_vars
             PROVE  NewestFirst'
  OBVIOUS
<1>1. ASSUME UNCHANGED <<size, bucket, rebuilt>>
      PROVE  NewestFirst'
  BY <1>1 DEF NewestFirst
<1>2. ASSUME NEW k \in Keys, Insert(k)
      PROVE  NewestFirst'
  <2>1. Hash[k] \in Nat
    BY TableAssumption
  <2> QED
    BY <1>2, <2>1, NewestAdd DEF Insert
<1>3. ASSUME NEW k \in ByKey, InsertByKey(k)
      PROVE  NewestFirst'
  <2>1. k \in Keys
    BY TableAssumption
  <2>2. PICK h \in Garbage : Add(k, h)
    BY <1>3 DEF InsertByKey
  <2> QED
    BY <2>1, <2>2, NewestAdd, GarbageIsNat
<1>4. ASSUME NEW k \in Keys, Lookup(k) \/ Replace(k)
      PROVE  NewestFirst'
  BY <1>1, <1>4 DEF Lookup, Replace, table
<1>5. ASSUME NEW k \in Keys, Delete(k)
      PROVE  NewestFirst'
  BY <1>5, NewestDelete
<1>6. ASSUME Destroy \/ Begin \/ Advance \/ Break
      PROVE  NewestFirst'
  BY <1>1, <1>6 DEF Destroy, Begin, Advance, Break, table
<1>7. CASE UNCHANGED vars
  BY <1>1, <1>7 DEF vars, table
<1> QED
  BY <1>2, <1>3, <1>4, <1>5, <1>6, <1>7 DEF Next

\* Until the first rebuilding a lookup takes the newest entry it could find.
THEOREM HashTableNewestFound == Spec => []NewestFound
<1>1. Init => NewestFirst
  <2> SUFFICES ASSUME Init, NEW b \in Buckets(size)
               PROVE  Decreasing(bucket[b])
    BY DEF NewestFirst
  <2>1. bucket[b] = <<>>
    BY DEF Init
  <2> QED
    BY <2>1 DEF Decreasing
<1>2. TypeOK /\ NewestFirst /\ [Next]_vars => NewestFirst'
  BY NewestStep
<1>3. TypeOK /\ NewestFirst => NewestFound
  BY FirstIsNewest
<1> QED
  BY <1>1, <1>2, <1>3, HashTableTyped, PTL DEF Spec

-----------------------------------------------------------------------------
(* hash_foreach.                                                           *)

\* From one node of the list to the next no node lies between them.
LEMMA NextIsNext ==
    ASSUME TypeOK, WellLinked, proc # "gone", NEW n \in Live, After(n) <= Len(list), NEW m \in Live
    PROVE  m <= list[After(n)] <=> m <= n \/ m = list[After(n)]
<1> DEFINE a == After(n)
<1>1. a \in Nat /\ a - 1 \in DOMAIN list /\ list[a - 1] = n /\ a \in DOMAIN list
  BY NextInList
<1>2. list \in Seq(Int) /\ ToSet(list) = Live /\ Increasing(list)
  BY ListOfLive
<1>3. PICK p \in DOMAIN list : list[p] = m
  BY <1>2 DEF ToSet
<1> HIDE DEF a
<1>4. p < a - 1 \/ p = a - 1 \/ p = a \/ a < p
  BY <1>1, <1>2, <1>3
<1>5. list[a - 1] < list[a] /\ list[a] \in Int /\ list[p] \in Int /\ n \in Int
  BY <1>1, <1>2 DEF Increasing
<1>6. CASE p < a - 1
  <2>1. list[p] < list[a - 1]
    BY <1>1, <1>2, <1>6 DEF Increasing
  <2> QED
    BY <1>1, <1>3, <1>5, <2>1 DEF a
<1>7. CASE p = a - 1
  BY <1>1, <1>3, <1>5, <1>7 DEF a
<1>8. CASE p = a
  BY <1>1, <1>3, <1>5, <1>8 DEF a
<1>9. CASE a < p
  <2>1. list[a] < list[p]
    BY <1>1, <1>2, <1>9 DEF Increasing
  <2> QED
    BY <1>1, <1>3, <1>5, <2>1 DEF a
<1> QED
  BY <1>4, <1>6, <1>7, <1>8, <1>9

LEMMA VisitsBegin ==
    ASSUME TypeOK, WellLinked, proc = "run", Begin
    PROVE  VisitsAll'
<1>1. position' = list[1] /\ visited' = {list[1]} /\ list # <<>> /\ node' = node /\ freed' = freed
  BY DEF Begin, heap
<1>2. list \in Seq(Int) /\ ToSet(list) = Live /\ Increasing(list) /\ 1 \in DOMAIN list
  BY <1>1, ListOfLive
<1>3. ASSUME NEW n \in Live
      PROVE  n = list[1] \/ (list[1] < n /\ n \in Int /\ list[1] \in Int)
  <2>1. PICK p \in DOMAIN list : list[p] = n
    BY <1>2 DEF ToSet
  <2> QED
    BY <1>2, <2>1 DEF Increasing
<1>4. Live' = Live
  BY <1>1 DEF Live, Nodes
<1>5. list[1] \in Int
  BY <1>2
<1> QED
  BY <1>1, <1>3, <1>4, <1>5 DEF VisitsAll

LEMMA VisitsAdvance ==
    ASSUME TypeOK, WellLinked, VisitsAll, proc = "run", Advance
    PROVE  VisitsAll'
<1>1. node' = node /\ freed' = freed /\ Live' = Live
  BY DEF Advance, heap, Live, Nodes
<1>2. CASE position \in freed
  BY <1>1, <1>2 DEF Advance, VisitsAll
<1>3. CASE position \notin freed /\ After(position) > Len(list)
  <2>1. position' = NoNode
    BY <1>3 DEF Advance
  <2>2. NoNode \notin Live
    BY DEF Live, Nodes, NoNode
  <2> QED
    BY <1>1, <2>1, <2>2 DEF VisitsAll
<1>4. CASE position \notin freed /\ ~(After(position) > Len(list))
  <2>1. position \in Live
    BY <1>4 DEF Advance, Live, TypeOK
  <2>2. position' = list[After(position)] /\ visited' = visited \cup {list[After(position)]}
    BY <1>4 DEF Advance
  <2>3. After(position) <= Len(list)
    <3>1. After(position) \in Nat /\ Len(list) \in Nat
      BY <2>1, NextInList DEF TypeOK
    <3> QED
      BY <1>4, <3>1
  <2>4. \A n \in Live : n \in visited <=> n <= position
    BY <2>1 DEF VisitsAll
  <2>5. \A n \in Live : n <= list[After(position)] <=> n <= position \/ n = list[After(position)]
    BY <2>1, <2>3, NextIsNext
  <2> QED
    BY <1>1, <2>2, <2>4, <2>5 DEF VisitsAll
<1> QED
  BY <1>2, <1>3, <1>4

\* A new node comes after the one at hand and was not visited.
LEMMA VisitsAdd ==
    ASSUME TypeOK, VisitsAll, proc = "run", NEW k \in Keys, NEW h \in Nat, Add(k, h)
    PROVE  VisitsAll'
<1> DEFINE n == Len(node) + 1
<1>1. /\ Live' = Live \cup {n} /\ n \notin Nodes /\ \A m \in Nodes : m \in Int /\ m < n
      /\ n \in Int
  <2>1. Live' = Live \cup {n} /\ n \notin Nodes /\ \A m \in Nodes : m \in Int /\ m < n
    BY AddedNode
  <2>2. n \in Int
    BY DEF TypeOK
  <2> QED
    BY <2>1, <2>2
<1>2. position' = position /\ visited' = visited /\ proc' = proc
  BY DEF Add, foreach
<1>3. position \in {NoNode} \cup Nodes /\ visited \subseteq Nodes /\ Live \subseteq Nodes
  BY DEF TypeOK, Live
<1> HIDE DEF n
<1>4. CASE position \in Live
  <2>1. n \notin visited /\ ~(n <= position)
    BY <1>1, <1>3, <1>4
  <2>2. \A m \in Live : m \in visited <=> m <= position
    BY <1>4 DEF VisitsAll
  <2> QED
    BY <1>1, <1>2, <2>1, <2>2 DEF VisitsAll
<1>5. CASE position \notin Live
  <2>1. position' \notin Live'
    BY <1>1, <1>2, <1>3, <1>5, AddedNode DEF NoNode, n
  <2> QED
    BY <2>1 DEF VisitsAll
<1> QED
  BY <1>4, <1>5

LEMMA VisitsFewer ==
    ASSUME VisitsAll, proc = "run", Live' \subseteq Live, UNCHANGED foreach
    PROVE  VisitsAll'
  BY DEF VisitsAll, foreach

LEMMA VisitsStep ==
    TypeOK /\ WellLinked /\ VisitsAll /\ [Next]_vars => VisitsAll'
<1> SUFFICES ASSUME TypeOK, WellLinked, VisitsAll, [Next]_vars
             PROVE  VisitsAll'
  OBVIOUS
<1>1. ASSUME NEW k \in Keys, proc = "run", Insert(k)
      PROVE  VisitsAll'
  <2>1. Hash[k] \in Nat
    BY TableAssumption
  <2> QED
    BY <1>1, <2>1, VisitsAdd DEF Insert
<1>2. ASSUME NEW k \in ByKey, proc = "run", InsertByKey(k)
      PROVE  VisitsAll'
  <2>1. k \in Keys
    BY TableAssumption
  <2>2. PICK h \in Garbage : Add(k, h)
    BY <1>2 DEF InsertByKey
  <2> QED
    BY <1>2, <2>1, <2>2, VisitsAdd, GarbageIsNat
<1>3. ASSUME NEW k \in Keys, proc = "run", Lookup(k)
      PROVE  VisitsAll'
  <2>1. Live' = Live /\ UNCHANGED foreach
    BY <1>3 DEF Lookup, heap, Live, Nodes
  <2> QED
    BY <1>3, <2>1, VisitsFewer
<1>4. ASSUME NEW k \in Keys, proc = "run", Replace(k)
      PROVE  VisitsAll'
  <2>1. Live' = Live /\ UNCHANGED foreach
    <3>1. Live' = Live
      BY <1>4, ReplacedNode
    <3> QED
      BY <1>4, <3>1 DEF Replace
  <2> QED
    BY <1>4, <2>1, VisitsFewer
<1>5. ASSUME NEW k \in Keys, proc = "run", Delete(k)
      PROVE  VisitsAll'
  <2>1. UNCHANGED foreach
    BY <1>5 DEF Delete
  <2>2. Live' \subseteq Live
    <3>1. CASE Found(k) = NoNode
      BY <1>5, <3>1, MissedDelete DEF heap, Live, Nodes
    <3>2. CASE Found(k) # NoNode
      <4>1. Live' = Live \ {Found(k)}
        BY <1>5, <3>2, DeletedNode
      <4> QED
        BY <4>1
    <3> QED
      BY <3>1, <3>2
  <2> QED
    BY <1>5, <2>1, <2>2, VisitsFewer
<1>6. ASSUME Destroy
      PROVE  VisitsAll'
  BY <1>6 DEF Destroy, VisitsAll
<1>7. ASSUME proc = "run", Begin
      PROVE  VisitsAll'
  BY <1>7, VisitsBegin
<1>8. ASSUME proc = "run", Advance
      PROVE  VisitsAll'
  BY <1>8, VisitsAdvance
<1>9. ASSUME Break
      PROVE  VisitsAll'
  <2>1. position' = NoNode
    BY <1>9 DEF Break
  <2>2. NoNode \notin Live'
    BY DEF Live, Nodes, NoNode
  <2> QED
    BY <2>1, <2>2 DEF VisitsAll
<1>10. CASE UNCHANGED vars
  BY <1>10 DEF vars, heap, foreach, VisitsAll, Live, Nodes
<1> QED
  BY <1>1, <1>2, <1>3, <1>4, <1>5, <1>6, <1>7, <1>8, <1>9, <1>10 DEF Next

\* Whatever the handler of hash_foreach inserts, removes or causes to be
\* rebuilt, it has been called for exactly the nodes up to the one at hand.
THEOREM HashTableVisitsAll == Spec => []VisitsAll
<1>1. Init => VisitsAll
  <2>1. Init => position = NoNode
    BY DEF Init
  <2>2. NoNode \notin Live
    BY DEF Live, Nodes, NoNode
  <2> QED
    BY <2>1, <2>2 DEF VisitsAll
<1>2. TypeOK /\ WellLinked /\ VisitsAll /\ [Next]_vars => VisitsAll'
  BY VisitsStep
<1> QED
  BY <1>1, <1>2, HashTableTyped, HashTableWellLinked, PTL DEF Spec
-----------------------------------------------------------------------------
(* The table is a bag of entries.                                          *)

LEMMA EntriesAre ==
    ASSUME proc # "gone"
    PROVE  Entries = [n \in Live |-> Entry(n)]
  BY DEF Entries

LEMMA EntriesAreNext ==
    ASSUME proc' # "gone"
    PROVE  Entries' = [n \in Live' |-> Entry(n)']
  BY DEF Entries

LEMMA AddIsInsert ==
    ASSUME TypeOK, proc = "run", NEW k \in Keys, NEW h \in Nat, Add(k, h)
    PROVE  \E v \in NewValue .. MaxInserts, s \in BOOLEAN : Table!Insert(k, v, s)
<1> PICK n : n = Len(node) + 1
  OBVIOUS
<1> DEFINE s == (h = Hash[k])
           e == [key |-> k, value |-> n, sure |-> s]
<1>1. /\ n \in 1 .. MaxInserts /\ Live' = Live \cup {n} /\ n \notin Live
      /\ \A m \in Live : node'[m] = node[m]
  <2>1. /\ Live' = Live \cup {n} /\ n \notin Nodes /\ \A m \in Nodes : node'[m] = node[m]
        /\ Len(node) \in Nat /\ n <= MaxInserts
    BY AddedNode
  <2>2. n \in 1 .. MaxInserts
    BY <2>1, TableAssumption
  <2> QED
    BY <2>1, <2>2 DEF Live
<1>2. node'[n] = [key |-> k, value |-> n, h |-> h]
  BY AddedNode
<1>3. proc' = "run" /\ answer' = NoAnswer
  BY DEF Add
<1>4. Entry(n)' = e
  <2>1. node'[n].key = k /\ node'[n].value = n /\ node'[n].h = h
    BY <1>2
  <2>2. Entry(n)' = [key |-> node'[n].key, value |-> node'[n].value, sure |-> node'[n].h = Hash[node'[n].key]]
    BY Zenon DEF Entry
  <2> QED
    BY <2>1, <2>2, Zenon
<1>5. \A m \in Live : Entry(m)' = Entry(m)
  BY <1>1 DEF Entry
<1>6. Entries = [m \in Live |-> Entry(m)] /\ Entries' = [m \in Live' |-> Entry(m)']
  BY <1>3, EntriesAre, EntriesAreNext
<1> HIDE DEF e
<1>7. Entries' = [m \in DOMAIN Entries \cup {n} |-> IF m = n THEN e ELSE Entries[m]]
  <2>1. DOMAIN Entries = Live /\ \A m \in Live : Entries[m] = Entry(m)
    BY <1>6
  <2>2. \A m \in Live \cup {n} : Entry(m)' = IF m = n THEN e ELSE Entries[m]
    BY <1>4, <1>5, <2>1
  <2> QED
    BY <1>1, <1>6, <2>1, <2>2
<1>8. n \in (1 .. MaxInserts) \ DOMAIN Entries
  BY <1>1, <1>6
<1>9. Table!Insert(k, n, s)
  BY <1>3, <1>7, <1>8 DEF Table!Insert, e, NoAnswer, Table!NoAnswer, None
<1>10. n \in NewValue .. MaxInserts /\ s \in BOOLEAN
  BY <1>1, TableAssumption DEF NewValue
<1> QED
  BY <1>9, <1>10
LEMMA OnePrefix == \A s, t : Table!IsPrefix(s, t) <=> IsPrefix(s, t)
  BY DEF IsPrefix, Table!IsPrefix

\* A call that finds a node answers with an entry whose key matches.
LEMMA HitIsMatch ==
    ASSUME TypeOK, WellLinked, proc = "run", NEW k \in Keys, Answer(k, Found(k)), Found(k) # NoNode
    PROVE  Found(k) \in Table!Matching(k) /\ Table!Answer(k, Entries[Found(k)].value)
<1>1. Found(k) \in Live /\ Compared(Found(k), k)
  BY FoundLive
<1>2. Entries = [m \in Live |-> Entry(m)]
  BY EntriesAre
<1> DEFINE m == Found(k)
<1>3. answer' = [key |-> k, value |-> node[m].value]
  BY DEF Answer
<1> HIDE DEF m
<1>4. DOMAIN Entries = Live /\ Entries[m].key = node[m].key /\ Entries[m].value = node[m].value
  <2>1. Entries[m] = Entry(m) /\ DOMAIN Entries = Live
    BY <1>1, <1>2 DEF m
  <2> QED
    BY <2>1 DEF Entry
<1> QED
  BY <1>1, <1>3, <1>4, OnePrefix DEF m, Compared, Table!Matching, Table!Answer

\* One that finds none was given a key under which no entry was stored with
\* the hash of the key.
LEMMA MissMay ==
    ASSUME TypeOK, WellLinked, proc = "run", NEW k \in Keys, Answer(k, Found(k)), Found(k) = NoNode
    PROVE  Table!MayMiss(k) /\ Table!Answer(k, -1)
<1>1. \A n \in Live : node[n].key = k => node[n].h # Hash[k]
  <2>1. ~(Found(k) # NoNode)
    OBVIOUS
  <2> QED
    BY <2>1, FoundLive
<1>2. Entries = [m \in Live |-> Entry(m)]
  BY EntriesAre
<1>3. ASSUME NEW n \in Live, Entries[n].key = k
      PROVE  ~Entries[n].sure
  <2> DEFINE b == (node[n].h = Hash[node[n].key])
  <2>1. Entries[n] = Entry(n)
    BY <1>2
  <2>2. Entry(n) = [key |-> node[n].key, value |-> node[n].value, sure |-> b]
    BY Zenon DEF Entry
  <2>3. b => node[n].h = Hash[node[n].key]
    OBVIOUS
  <2> HIDE DEF b
  <2>4. Entries[n].key = node[n].key /\ Entries[n].sure = b
    BY <2>1, <2>2
  <2> QED
    BY <1>1, <1>3, <2>3, <2>4, Zenon
<1>4. Table!MayMiss(k)
  <2>1. DOMAIN Entries = Live
    BY <1>2
  <2> QED
    BY <1>3, <2>1 DEF Table!MayMiss
<1> QED
  BY <1>4 DEF Answer, Table!Answer, None

LEMMA EntriesSame ==
    ASSUME proc # "gone", proc' # "gone", Live' = Live, \A n \in Live : node'[n] = node[n]
    PROVE  Entries' = Entries
<1>1. Entries = [n \in Live |-> Entry(n)] /\ Entries' = [n \in Live' |-> Entry(n)']
  BY EntriesAre, EntriesAreNext
<1>2. \A n \in Live : Entry(n)' = Entry(n)
  BY DEF Entry
<1> QED
  BY <1>1, <1>2

LEMMA LookupIsLookup ==
    ASSUME TypeOK, WellLinked, proc = "run", NEW k \in Keys, Lookup(k)
    PROVE  Table!Lookup(k)
<1>1. Answer(k, Found(k)) /\ node' = node /\ freed' = freed /\ proc' = proc
  BY DEF Lookup, heap
<1>2. Entries' = Entries
  BY <1>1, EntriesSame DEF Live, Nodes
<1>3. CASE Found(k) = NoNode
  BY <1>1, <1>2, <1>3, MissMay DEF Table!Lookup, Table!Miss
<1>4. CASE Found(k) # NoNode
  BY <1>1, <1>2, <1>4, HitIsMatch DEF Table!Lookup
<1> QED
  BY <1>3, <1>4

LEMMA ReplaceIsReplace ==
    ASSUME TypeOK, WellLinked, proc = "run", NEW k \in Keys, Replace(k)
    PROVE  Table!Replace(k, NewValue)
<1>1. Answer(k, Found(k)) /\ freed' = freed /\ proc' = proc
  BY DEF Replace
<1>2. CASE Found(k) = NoNode
  <2>1. node' = node
    BY <1>2 DEF Replace
  <2>2. Entries' = Entries
    BY <1>1, <2>1, EntriesSame DEF Live, Nodes
  <2> QED
    BY <1>1, <1>2, <2>2, MissMay DEF Table!Replace, Table!Miss
<1>3. CASE Found(k) # NoNode
  <2> PICK m : m = Found(k)
    OBVIOUS
  <2>1. m \in Live /\ Live \subseteq Nodes
    BY <1>3, FoundLive DEF Live
  <2>2. /\ Live' = Live /\ node'[m].key = node[m].key /\ node'[m].h = node[m].h
        /\ node'[m].value = NewValue /\ \A n \in Live \ {m} : node'[n] = node[n]
    BY <1>3, <2>1, ReplacedNode
  <2>3. Entries = [n \in Live |-> Entry(n)] /\ Entries' = [n \in Live |-> Entry(n)']
    BY <1>1, <2>2, EntriesAre, EntriesAreNext
  <2>4. \A n \in Live \ {m} : Entry(n)' = Entry(n)
    BY <2>2 DEF Entry
  <2>5. Entry(m)' = [Entry(m) EXCEPT !.value = NewValue]
    <3>1. Entry(m) = [key |-> node[m].key, value |-> node[m].value, sure |-> node[m].h = Hash[node[m].key]]
      BY Zenon DEF Entry
    <3>2. Entry(m)' = [key |-> node'[m].key, value |-> node'[m].value,
                       sure |-> node'[m].h = Hash[node'[m].key]]
      BY Zenon DEF Entry
    <3>3. Entry(m)' = [key |-> node[m].key, value |-> NewValue, sure |-> node[m].h = Hash[node[m].key]]
      BY <2>2, <3>2, Zenon
    <3> DEFINE b == (node[m].h = Hash[node[m].key])
    <3>4. Entry(m) = [key |-> node[m].key, value |-> node[m].value, sure |-> b]
      BY <3>1, Zenon
    <3>5. Entry(m)' = [key |-> node[m].key, value |-> NewValue, sure |-> b]
      BY <3>3, Zenon
    <3> HIDE DEF b
    <3> QED
      BY <3>4, <3>5
  <2>6. Entries' = [Entries EXCEPT ![m] = [Entries[m] EXCEPT !.value = NewValue]]
    BY <2>1, <2>3, <2>4, <2>5
  <2>7. Entries' = [Entries EXCEPT ![m].value = NewValue]
    BY <2>6
  <2>8. m \in Table!Matching(k) /\ Table!Answer(k, Entries[m].value)
    BY <1>1, <1>3, HitIsMatch
  <2> QED
    BY <2>7, <2>8 DEF Table!Replace
<1> QED
  BY <1>2, <1>3

LEMMA DeleteIsDelete ==
    ASSUME TypeOK, WellLinked, proc = "run", NEW k \in Keys, Delete(k)
    PROVE  Table!Delete(k)
<1>1. Answer(k, Found(k)) /\ proc' = proc
  BY DEF Delete
<1>2. CASE Found(k) = NoNode
  <2>1. node' = node /\ freed' = freed
    BY <1>2, MissedDelete DEF heap
  <2>2. Entries' = Entries
    BY <1>1, <2>1, EntriesSame DEF Live, Nodes
  <2> QED
    BY <1>1, <1>2, <2>2, MissMay DEF Table!Delete, Table!Miss
<1>3. CASE Found(k) # NoNode
  <2> PICK m : m = Found(k)
    OBVIOUS
  <2>1. Live' = Live \ {m} /\ \A n \in Live \ {m} : node'[n] = node[n]
    BY <1>3, DeletedNode DEF Live
  <2>2. Entries = [n \in Live |-> Entry(n)] /\ Entries' = [n \in Live' |-> Entry(n)']
    BY <1>1, EntriesAre, EntriesAreNext
  <2>3. \A n \in Live \ {m} : Entry(n)' = Entry(n)
    BY <2>1 DEF Entry
  <2>4. Entries' = [n \in DOMAIN Entries \ {m} |-> Entries[n]]
    BY <2>1, <2>2, <2>3
  <2>5. m \in Table!Matching(k) /\ Table!Answer(k, Entries[m].value)
    BY <1>1, <1>3, HitIsMatch
  <2> QED
    BY <2>4, <2>5 DEF Table!Delete
<1> QED
  BY <1>2, <1>3

LEMMA EmptyIsNone == [n \in {} |-> Entry(n)] = <<>>
<1>1. DOMAIN <<>> = {}
  OBVIOUS
<1> QED
  BY <1>1

LEMMA DestroyIsDestroy ==
    ASSUME Destroy
    PROVE  Table!Destroy
<1>1. Entries' = [n \in {} |-> Entry(n)']
  BY DEF Destroy, Entries
<1>2. Entries' = <<>>
  BY <1>1
<1> QED
  BY <1>2 DEF Destroy, Table!Destroy, NoAnswer, Table!NoAnswer, None

LEMMA ForeachIsOther ==
    ASSUME proc = "run", Begin \/ Advance \/ Break
    PROVE  Table!Other
<1>1. node' = node /\ freed' = freed /\ answer' = NoAnswer /\ proc' \in {"run", "ub"}
  BY DEF Begin, Advance, Break, heap
<1>2. Entries' = Entries
  BY <1>1, EntriesSame DEF Live, Nodes
<1> QED
  BY <1>1, <1>2 DEF Table!Other, NoAnswer, Table!NoAnswer, None

LEMMA InitIsInit == Init => Table!Init
<1> SUFFICES ASSUME Init
             PROVE  Table!Init
  OBVIOUS
<1>1. Live = {} /\ proc = "run"
  BY DEF Init, Live, Nodes
<1>2. Entries = <<>>
  BY <1>1, EntriesAre, EmptyIsNone
<1> QED
  BY <1>2 DEF Init, Table!Init, NoAnswer, Table!NoAnswer, None

LEMMA StepIsStep ==
    TypeOK /\ WellLinked /\ [Next]_vars => [Table!Next]_<<Entries, answer>>
<1> SUFFICES ASSUME TypeOK, WellLinked, [Next]_vars
             PROVE  Table!Next \/ UNCHANGED <<Entries, answer>>
  OBVIOUS
<1>1. ASSUME NEW k \in Keys, proc = "run", Insert(k)
      PROVE  Table!Next
  <2>1. Hash[k] \in Nat
    BY TableAssumption
  <2>2. \E v \in NewValue .. MaxInserts, s \in BOOLEAN : Table!Insert(k, v, s)
    BY <1>1, <2>1, AddIsInsert DEF Insert
  <2> QED
    BY <2>2 DEF Table!Next
<1>2. ASSUME NEW k \in ByKey, proc = "run", InsertByKey(k)
      PROVE  Table!Next
  <2>1. k \in Keys
    BY TableAssumption
  <2>2. PICK h \in Garbage : Add(k, h)
    BY <1>2 DEF InsertByKey
  <2>3. \E v \in NewValue .. MaxInserts, s \in BOOLEAN : Table!Insert(k, v, s)
    BY <1>2, <2>1, <2>2, AddIsInsert, GarbageIsNat
  <2> QED
    BY <2>1, <2>3 DEF Table!Next
<1>3. ASSUME NEW k \in Keys, proc = "run", Lookup(k)
      PROVE  Table!Next
  BY <1>3, LookupIsLookup DEF Table!Next
<1>4. ASSUME NEW k \in Keys, proc = "run", Replace(k)
      PROVE  Table!Next
  <2>1. NewValue \in NewValue .. MaxInserts
    BY TableAssumption DEF NewValue
  <2> QED
    BY <1>4, <2>1, ReplaceIsReplace DEF Table!Next
<1>5. ASSUME NEW k \in Keys, proc = "run", Delete(k)
      PROVE  Table!Next
  BY <1>5, DeleteIsDelete DEF Table!Next
<1>6. ASSUME Destroy
      PROVE  Table!Next
  BY <1>6, DestroyIsDestroy DEF Table!Next
<1>7. ASSUME proc = "run", Begin \/ Advance \/ Break
      PROVE  Table!Next
  BY <1>7, ForeachIsOther DEF Table!Next
<1>8. CASE UNCHANGED vars
  <2>1. Entries' = Entries
    BY <1>8 DEF vars, heap, Entries, Entry, Live, Nodes
  <2> QED
    BY <1>8, <2>1 DEF vars
<1> QED
  BY <1>1, <1>2, <1>3, <1>4, <1>5, <1>6, <1>7, <1>8 DEF Next

\* Every call answers as a bag of entries does whose keys match as prefixes:
\* neither collisions nor rebuilding nor a handler's calls ever show.
THEOREM HashTableIsNameTable == Spec => ImplementsNameTable
<1>1. Init => Table!Init
  BY InitIsInit
<1>2. TypeOK /\ WellLinked /\ [Next]_vars => [Table!Next]_<<Entries, answer>>
  BY StepIsStep
<1>3. Table!vars = <<Entries, answer>>
  BY DEF Table!vars
<1> QED
  BY <1>1, <1>2, HashTableTyped, HashTableWellLinked, PTL
     DEF Spec, ImplementsNameTable, Table!Spec, Table!vars
=============================================================================
