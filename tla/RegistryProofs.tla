---------------------------- MODULE RegistryProofs ----------------------------
(***************************************************************************)
(* Theorems about the slots and keys of the function registry, and about   *)
(* who uses a Func when: what holds when no call overlaps a DelFunction,   *)
(* when one thread registers and deletes, and when the application is      *)
(* disciplined, in which case the registry implements a set of names.      *)
(***************************************************************************)
EXTENDS FuncMapProofs

-----------------------------------------------------------------------------
(* The invariants.                                                         *)

\* No call overlaps one of DelFunction: the application sees to it, or only
\* one thread calls.
Alone == \E c : Callers \subseteq {c}
Lone == Disciplined \/ Alone
Exclusive ==
    \A t, u \in Threads : t # u /\ at[t] \in Deleting => at[u] \notin Adding \cup Deleting

\* The first n keys are slots in use.
Dense(ks, s, n) ==
    \A i \in 0 .. n - 1 : Entry(ks, i) \in DOMAIN s /\ s[Entry(ks, i)] \notin {Null, Junk}
DenseFor(t) ==
    /\ at[t] = "shrink" => Dense(newKeys[t], slots, length - 1)
    /\ at[t] = "copy" => Dense(newKeys[t], slots, length)
    /\ at[t] \in {"free", "publish"} =>
           DOMAIN newSlots[t] = 0 .. size - 1 /\ Dense(newKeys[t], newSlots[t], length)
AllDense == Dense(keys, slots, length) /\ \A t \in Threads : DenseFor(t)

\* They are all the slots in use, each once.
Indexes(ks, s, n) ==
    /\ Dense(ks, s, n)
    /\ \A i, j \in 0 .. n - 1 : Entry(ks, i) = Entry(ks, j) => i = j
    /\ \A k \in DOMAIN s : s[k] # Null => \E i \in 0 .. n - 1 : Entry(ks, i) = k

\* Until a slot is overwritten or the registry grows, each slot in use holds a
\* Func that belongs there and is not freed, except the one that a DelFunction
\* has freed and not yet taken out of the table.
Clean == ~clashed /\ size = InitSize
Belongs(k) ==
    slots[k] \in 1 .. Len(fn) /\ fn[slots[k]].key = k /\ Slot(fn[slots[k]].name) = k
Rooted == \A k \in 0 .. size - 1 : slots[k] # Null => Belongs(k)
Kept(k) == slots[k] \notin freed \/ \E t \in Threads : at[t] = "publish" /\ func[t] = slots[k]
KeptAll == \A k \in 0 .. size - 1 : slots[k] # Null => Kept(k)
Waits(t) ==
    at[t] \in {"grow", "insert"} => func[t] \notin freed /\ \A k \in 0 .. size - 1 : slots[k] # func[t]

\* The table without the Func that t deletes.
Without(t) == [slots EXCEPT ![fn[func[t]].key] = Null]
Doomed(t) ==
    at[t] \in Deleting \ {"uncount"} =>
        /\ func[t] \in 1 .. Len(fn) /\ fn[func[t]].key \in 0 .. size - 1
        /\ slots[fn[func[t]].key] = func[t]
CleanFor(t) ==
    /\ Waits(t) /\ Doomed(t)
    /\ at[t] = "shrink" => Indexes(newKeys[t], Without(t), length - 1)
    /\ at[t] \in {"copy", "free", "publish"} => Indexes(newKeys[t], Without(t), length)
    /\ at[t] \in {"free", "publish"} => newSlots[t] = Without(t)
    /\ t \in Dispatchers /\ at[t] \in {"compare", "run"} =>
           func[t] \in 1 .. Len(fn) /\ Slot(handle[t]) = Slot(fn[func[t]].name)
Half == \E t \in Threads : at[t] \in {"copy", "free", "publish"}
AllClean ==
    /\ Rooted /\ KeptAll
    /\ ~Half => Indexes(keys, slots, length)
    /\ \A t \in Threads : CleanFor(t)

CallersOnly == \A t \in Threads : at[t] \in Adding \cup Deleting => t \in Callers
TableInv == ub = "none" => CallersOnly /\ Exclusive /\ AllDense
SlotsInv ==
    /\ freed \subseteq 1 .. Len(fn) /\ size >= InitSize
    /\ ub = "none" /\ Clean => AllClean

\* What one caller can count on: it inserts only where there is room, until a
\* DelFunction has taken a smaller chunk for the keys.
RoomFor(t) == at[t] \in {"grow", "insert"} => length < Len(fn) /\ (at[t] = "insert" => length < size)
RoomInv ==
    /\ length <= size /\ length <= Len(fn)
    /\ room >= MinRoom /\ (freed = {} => room >= size)
Roomy == ub = "none" => RoomInv /\ \A t \in Callers : RoomFor(t)

\* A disciplined application whose names have slots of their own, and no more
\* of them than the smallest chunk of keys has room for.
Apart == \A m, n \in Names : Hash[m] % InitSize = Hash[n] % InitSize => m = n
Few == IsFiniteSet(Names) /\ Cardinality(Names) <= MinRoom
Served(t) ==
    /\ at[t] # "grow"
    /\ at[t] \in Deleting => \A u \in Threads \ {t} : at[u] = "idle"
    /\ at[t] = "publish" => func[t] \in freed
    /\ at[t] \in {"compare", "run"} =>
           t \in Dispatchers /\ Live(func[t]) /\ fn[func[t]].name = handle[t]
OneEach ==
    \A f, g \in 1 .. Len(fn) :
        f \notin freed /\ g \notin freed /\ fn[f].name = fn[g].name => f = g
Safe ==
    /\ ub = "none" /\ Clean /\ OneEach /\ room >= MinRoom
    /\ shared <=> \A t \in Threads : at[t] # "publish"
    /\ \A t \in Threads : Served(t)

-----------------------------------------------------------------------------
(* What the type invariant says, as the proofs cite it.                    *)

LEMMA Shape ==
    ASSUME Typing
    PROVE  /\ size \in Nat \ {0} /\ length \in Nat /\ room \in Nat
           /\ slots \in [0 .. size - 1 -> Pointers] /\ keys \in Seq(Nat \cup {Junk})
           /\ fn \in Seq([name : Names, key : Nat]) /\ Len(fn) \in Nat
           /\ at \in [Threads -> Locations] /\ func \in [Threads -> Pointers]
<1>1. FmapOK /\ HeapOK /\ LocalOK /\ at \in [Threads -> Locations]
  BY DEF Typing, TypeOK
<1>2. /\ size \in Nat \ {0} /\ length \in Nat /\ room \in Nat
      /\ slots \in [0 .. size - 1 -> Pointers] /\ keys \in Seq(Nat \cup {Junk})
  BY <1>1 DEF FmapOK
<1>3. fn \in Seq([name : Names, key : Nat]) /\ Len(fn) \in Nat
  BY <1>1, LenFn DEF HeapOK
<1>4. func \in [Threads -> Pointers]
  BY <1>1 DEF LocalOK
<1> QED
  BY <1>1, <1>2, <1>3, <1>4

\* A Func has a name and a key.
LEMMA FuncParts ==
    ASSUME Typing, NEW f \in 1 .. Len(fn)
    PROVE  fn[f] \in [name : Names, key : Nat] /\ fn[f].name \in Names /\ fn[f].key \in Nat
<1>1. fn \in Seq([name : Names, key : Nat])
  BY Shape
<1>2. fn[f] \in [name : Names, key : Nat]
  BY <1>1, ElementOfSeq
<1> QED
  BY <1>2

\* Every step is one of a thread that makes or dispatches calls.
Step(t) == (t \in Callers /\ Caller(t)) \/ (t \in Dispatchers /\ Dispatcher(t))

\* The other threads' variables.
Others(t) ==
    \A u \in Threads \ {t} :
        /\ at'[u] = at[u] /\ func'[u] = func[u]
        /\ newKeys'[u] = newKeys[u] /\ newSlots'[u] = newSlots[u]
        /\ u \in Dispatchers => handle'[u] = handle[u]

LEMMA OneMoves ==
    ASSUME Typing, NEW t \in Threads, Step(t)
    PROVE  Others(t)
<1>1. /\ at \in [Threads -> Locations] /\ func \in [Threads -> Pointers]
      /\ DOMAIN newKeys = Threads /\ DOMAIN newSlots = Threads /\ DOMAIN handle = Dispatchers
  BY DEF Typing, TypeOK, LocalOK
<1>2. at' = at \/ \E l : at' = [at EXCEPT ![t] = l]
  BY DEF Step, Caller, Dispatcher, AddFunction, DelFunction, Lookup, GetFunc, Grow, Insert, Count,
         DelScan, DelShrink, DelCopy, DelFree, DelPublish, Uncount, Compare, Run, Return, Go
<1>3. func' = func \/ \E f : func' = [func EXCEPT ![t] = f]
  BY DEF Step, Caller, Dispatcher, AddFunction, DelFunction, Lookup, GetFunc, Grow, Insert, Count,
         DelScan, DelShrink, DelCopy, DelFree, DelPublish, Uncount, Compare, Run, Return, local
<1>4. newKeys' = newKeys \/ \E s : newKeys' = [newKeys EXCEPT ![t] = s]
  BY DEF Step, Caller, Dispatcher, AddFunction, DelFunction, Lookup, Grow, Insert, Count,
         DelScan, DelShrink, DelCopy, DelFree, DelPublish, Uncount, Compare, Run, Return, local
<1>5. newSlots' = newSlots \/ \E s : newSlots' = [newSlots EXCEPT ![t] = s]
  BY DEF Step, Caller, Dispatcher, AddFunction, DelFunction, Lookup, Grow, Insert, Count,
         DelScan, DelShrink, DelCopy, DelFree, DelPublish, Uncount, Compare, Run, Return, local
<1>6. handle' = handle \/ \E n : handle' = [handle EXCEPT ![t] = n]
  BY DEF Step, Caller, Dispatcher, AddFunction, DelFunction, Lookup, Grow, Insert, Count,
         DelScan, DelShrink, DelCopy, DelFree, DelPublish, Uncount, Compare, Run, Return, local
<1> QED
  BY <1>1, <1>2, <1>3, <1>4, <1>5, <1>6 DEF Others

\* How calls begin and go on.
LEMMA Edges ==
    ASSUME Typing, NEW t \in Threads, Step(t)
    PROVE  /\ at'[t] \in Adding \cup Deleting => t \in Callers
           /\ at'[t] \in Adding => at[t] \in Adding \/ MayBegin(t)
           /\ at'[t] \in Deleting =>
                  at[t] \in Deleting \/ (Disciplined => \A u \in Threads : at[u] = "idle")
<1> DEFINE Edge == /\ at'[t] \in Adding => at[t] \in Adding \/ MayBegin(t)
                   /\ at'[t] \in Deleting =>
                          at[t] \in Deleting \/ (Disciplined => \A u \in Threads : at[u] = "idle")
<1>1. at \in [Threads -> Locations]
  BY Shape
<1>2. ASSUME NEW l, Go(t, l)
      PROVE  at'[t] = l
  BY <1>1, <1>2 DEF Go
<1>3. ASSUME Dispatcher(t)
      PROVE  at'[t] \notin Adding \cup Deleting
  <2>1. at' = at \/ Go(t, "idle") \/ Go(t, "compare") \/ Go(t, "run")
    BY <1>3 DEF Dispatcher, Lookup, GetFunc, Compare, Run, Return
  <2>2. at' = at => at[t] \in {"compare", "run"} \/ at[t] = "idle"
    BY <1>3 DEF Dispatcher, Lookup, MayBegin, Compare, Run
  <2> QED
    BY <1>2, <2>1, <2>2 DEF Adding, Deleting
<1>4. ASSUME Caller(t)
      PROVE  Edge
  <2>1. CASE \E n \in Names : AddFunction(t, n)
    <3>1. MayBegin(t) /\ (Go(t, "grow") \/ Go(t, "insert"))
      BY <2>1 DEF AddFunction
    <3> QED
      BY <1>2, <3>1 DEF Deleting
  <2>2. CASE \E n \in Names : DelFunction(t, n)
    <3>1. /\ Disciplined => \A u \in Threads : at[u] = "idle"
          /\ Go(t, "idle") \/ Go(t, "scan")
      BY <2>2 DEF DelFunction, GetFunc
    <3> QED
      BY <1>2, <3>1 DEF Adding
  <2>3. CASE Grow(t) \/ Insert(t)
    <3>1. at[t] \in Adding /\ (Go(t, "insert") \/ Go(t, "count"))
      BY <2>3 DEF Grow, Insert, Adding
    <3> QED
      BY <1>2, <3>1 DEF Adding, Deleting
  <2>4. CASE Count(t) \/ Uncount(t)
    <3>1. Go(t, "idle")
      BY <2>4 DEF Count, Uncount, Return
    <3> QED
      BY <1>2, <3>1 DEF Adding, Deleting
  <2>5. CASE DelScan(t) \/ DelShrink(t) \/ DelCopy(t) \/ DelFree(t) \/ DelPublish(t)
    <3>1. at[t] \in Deleting
      BY <2>5 DEF DelScan, DelShrink, DelCopy, DelFree, DelPublish, Deleting
    <3>2. at' = at \/ \E l \in Deleting : Go(t, l)
      BY <2>5 DEF DelScan, DelShrink, DelCopy, DelFree, DelPublish, Deleting
    <3> QED
      BY <1>2, <3>1, <3>2 DEF Adding, Deleting
  <2> QED
    BY <1>4, <2>1, <2>2, <2>3, <2>4, <2>5 DEF Caller
<1> HIDE DEF Edge
<1>5. at'[t] \in Adding \cup Deleting => t \in Callers
  BY <1>3 DEF Step
<1>6. Edge
  BY <1>3, <1>4 DEF Step, Edge
<1> QED
  BY <1>5, <1>6 DEF Edge

\* No call overlaps a DelFunction.
LEMMA ExclusiveNext ==
    ASSUME Typing, Lone, CallersOnly, Exclusive, NEW t \in Threads, Step(t)
    PROVE  CallersOnly' /\ Exclusive'
<1>1. \A u \in Threads \ {t} : at'[u] = at[u]
  BY OneMoves DEF Others
<1>2. CallersOnly'
  BY <1>1, Edges DEF CallersOnly
<1>3. CASE Alone
  <2>1. \A u, v \in Callers : u = v
    BY <1>3 DEF Alone
  <2> QED
    BY <1>2, <2>1 DEF CallersOnly, Exclusive
<1>4. CASE Disciplined
  <2>1. at'[t] \in Adding => at[t] \in Adding \/ \A u \in Threads : at[u] \notin Deleting
    BY <1>4, Edges DEF MayBegin
  <2>2. at'[t] \in Deleting => at[t] \in Deleting \/ \A u \in Threads : at[u] = "idle"
    BY <1>4, Edges
  <2>3. "idle" \notin Adding \cup Deleting
    BY DEF Adding, Deleting
  <2>4. ASSUME NEW u \in Threads \ {t}, at'[t] \in Deleting
        PROVE  at'[u] \notin Adding \cup Deleting
    BY <1>1, <2>2, <2>3, <2>4 DEF Exclusive
  <2>5. ASSUME NEW u \in Threads \ {t}, at'[u] \in Deleting
        PROVE  at'[t] \notin Adding \cup Deleting
    <3>1. at[u] \in Deleting /\ at[t] \notin Adding \cup Deleting
      BY <1>1, <2>5 DEF Exclusive
    <3>2. at[u] # "idle"
      BY <2>3, <3>1
    <3> QED
      BY <2>1, <2>2, <3>1, <3>2
  <2>6. ASSUME NEW u \in Threads \ {t}, NEW v \in Threads \ {t}, u # v, at'[u] \in Deleting
        PROVE  at'[v] \notin Adding \cup Deleting
    BY <1>1, <2>6 DEF Exclusive
  <2>7. ASSUME NEW u \in Threads, NEW v \in Threads, u # v, at'[u] \in Deleting
        PROVE  at'[v] \notin Adding \cup Deleting
    <3>1. CASE u = t
      BY <2>4, <2>7, <3>1
    <3>2. CASE v = t
      BY <2>5, <2>7, <3>2
    <3> QED
      BY <2>6, <2>7, <3>1, <3>2
  <2> QED
    BY <1>2, <2>7 DEF Exclusive
<1> QED
  BY <1>2, <1>3, <1>4 DEF Lone

-----------------------------------------------------------------------------
(* The keys.                                                               *)

\* A sequence with one more element.
LEMMA Longer ==
    ASSUME NEW S, NEW s \in Seq(S), NEW k \in S
    PROVE  Len(s \o <<k>>) = Len(s) + 1 /\ (s \o <<k>>)[Len(s) + 1] = k
           /\ \A i \in 1 .. Len(s) : (s \o <<k>>)[i] = s[i]
OBVIOUS

\* The entry that AddFunc writes and those it leaves.
Appended(ks, s, n, k) ==
    Len(ks) = n + 1 /\ ks[n + 1] = k /\ \A i \in 1 .. n : ks[i] = Entry(s, i - 1)

LEMMA EntryAdded ==
    ASSUME NEW s, NEW n \in Nat, NEW k, NEW ks, Appended(ks, s, n, k)
    PROVE  Entry(ks, n) = k /\ \A i \in 0 .. n - 1 : Entry(ks, i) = Entry(s, i)
<1>1. Entry(ks, n) = k
  BY DEF Entry, Appended
<1>2. ASSUME NEW i \in 0 .. n - 1
      PROVE  Entry(ks, i) = Entry(s, i)
  <2>1. i < Len(ks) /\ i + 1 \in 1 .. n /\ (i + 1) - 1 = i
    BY DEF Appended
  <2>2. Entry(ks, i) = ks[i + 1]
    BY <2>1 DEF Entry
  <2> QED
    BY <2>1, <2>2 DEF Appended
<1> QED
  BY <1>1, <1>2

\* What DelFunc copies: the entries before the one it leaves out, and then
\* those behind it.
LeavesOut(ks, s, n, p) ==
    Len(ks) = n /\ \A i \in 1 .. n : ks[i] = Entry(s, IF i - 1 < p THEN i - 1 ELSE i)

LEMMA EntryCopied ==
    ASSUME NEW n \in Nat, NEW p, NEW s, NEW ks, LeavesOut(ks, s, n, p)
    PROVE  \A i \in 0 .. n - 1 : Entry(ks, i) = Entry(s, IF i < p THEN i ELSE i + 1)
<1>2. SUFFICES ASSUME NEW i \in 0 .. n - 1
               PROVE  Entry(ks, i) = Entry(s, IF i < p THEN i ELSE i + 1)
  OBVIOUS
<1>3. i < Len(ks) /\ i + 1 \in 1 .. n /\ (i + 1) - 1 = i
  BY DEF LeavesOut
<1>4. Entry(ks, i) = ks[i + 1]
  BY <1>3 DEF Entry
<1>5. ks[i + 1] = Entry(s, IF i < p THEN i ELSE i + 1)
  BY <1>3 DEF LeavesOut
<1> QED
  BY <1>4, <1>5

\* A table with one more entry.
LEMMA DenseAdded ==
    ASSUME NEW n \in Nat, NEW ks, NEW ms, NEW s, NEW r, Dense(ks, s, n),
           Entry(ms, n) \in DOMAIN r, r[Entry(ms, n)] \notin {Null, Junk},
           \A i \in 0 .. n - 1 : Entry(ms, i) = Entry(ks, i),
           \A k \in DOMAIN s : k \in DOMAIN r /\ (s[k] \notin {Null, Junk} => r[k] \notin {Null, Junk})
    PROVE  Dense(ms, r, n + 1)
<1>1. \A i \in 0 .. (n + 1) - 1 : i \in 0 .. n - 1 \/ i = n
  OBVIOUS
<1>2. \A i \in 0 .. n - 1 : Entry(ms, i) \in DOMAIN r /\ r[Entry(ms, i)] \notin {Null, Junk}
  BY DEF Dense
<1> QED
  BY <1>1, <1>2 DEF Dense

\* And one with one entry less, whichever it is.
LEMMA DenseRemoved ==
    ASSUME NEW n \in Nat, NEW p, NEW ks, NEW ms, NEW s, Dense(ks, s, n),
           \A i \in 0 .. n - 1 : Entry(ms, i) = Entry(ks, IF i < p THEN i ELSE i + 1)
    PROVE  Dense(ms, s, n - 1)
<1> SUFFICES ASSUME NEW i \in 0 .. (n - 1) - 1
             PROVE  Entry(ms, i) \in DOMAIN s /\ s[Entry(ms, i)] \notin {Null, Junk}
  BY DEF Dense
<1>1. i \in 0 .. n - 1 /\ i + 1 \in 0 .. n - 1
  OBVIOUS
<1>2. \E j \in 0 .. n - 1 : Entry(ms, i) = Entry(ks, j)
  BY <1>1
<1> QED
  BY <1>2 DEF Dense

\* Fewer keys are dense if more are.
LEMMA DenseFewer ==
    ASSUME NEW n \in Nat, NEW ks, NEW s, Dense(ks, s, n)
    PROVE  Dense(ks, s, n - 1)
<1>1. \A i \in 0 .. (n - 1) - 1 : i \in 0 .. n - 1
  OBVIOUS
<1> QED
  BY <1>1 DEF Dense

-----------------------------------------------------------------------------
(* Every key is a slot in use.                                             *)

\* A step that leaves the table alone.
LEMMA DenseSame ==
    ASSUME AllDense, NEW t \in Threads, Others(t), UNCHANGED fmap, DenseFor(t)'
    PROVE  AllDense'
<1>1. UNCHANGED <<size, length, slots, keys>>
  BY DEF fmap
<1>2. ASSUME NEW u \in Threads \ {t}
      PROVE  DenseFor(u)'
  BY <1>1, <1>2 DEF AllDense, DenseFor, Others, Dense
<1>3. Dense(keys, slots, length)'
  BY <1>1 DEF AllDense, Dense
<1> QED
  BY <1>2, <1>3 DEF AllDense

\* A step that changes the table while nobody else is in DelFunction.
LEMMA DenseAlone ==
    ASSUME NEW t \in Threads, Exclusive', at'[t] \in Adding \cup Deleting,
           Dense(keys, slots, length)', DenseFor(t)'
    PROVE  AllDense'
<1>1. \A u \in Threads \ {t} : at'[u] \notin Deleting
  BY DEF Exclusive
<1>2. \A u \in Threads \ {t} : DenseFor(u)'
  BY <1>1 DEF DenseFor, Deleting
<1> QED
  BY <1>2 DEF AllDense

LEMMA GrowDense ==
    ASSUME Typing, AllDense, NEW t \in Threads, Grow(t), Exclusive'
    PROVE  AllDense'
<1>1. size \in Nat \ {0} /\ slots \in [0 .. size - 1 -> Pointers]
  BY Shape
<1>2. at'[t] = "insert"
  BY Shape DEF Grow, Go
<1>3. UNCHANGED <<keys, length>>
  BY DEF Grow
<1>4. \A k \in DOMAIN slots : k \in DOMAIN slots' /\ slots'[k] = slots[k]
  <2>1. CASE UNCHANGED slots
    BY <2>1
  <2>2. CASE slots' = Enlarged
    BY <1>1, <2>2 DEF Enlarged, SlotAt
  <2> QED
    BY <2>1, <2>2 DEF Grow
<1>5. Dense(keys, slots, length)'
  BY <1>3, <1>4 DEF AllDense, Dense
<1>6. DenseFor(t)'
  BY <1>2 DEF DenseFor
<1>7. at'[t] \in Adding
  BY <1>2 DEF Adding
<1> QED
  BY <1>5, <1>6, <1>7, DenseAlone

\* What AddFunc writes under the lock.
LEMMA InsertFacts ==
    ASSUME Typing, NEW t \in Threads, Insert(t),
           NEW f, NEW k, f = func[t], k = Slot(fn[f].name)
    PROVE  /\ at[t] = "insert" /\ at'[t] = "count" /\ UNCHANGED <<size, freed, func, handle>>
           /\ f \in 1 .. Len(fn) /\ k \in 0 .. size - 1 /\ size' = size
           /\ Len(fn') = Len(fn) /\ \A g \in 1 .. Len(fn) : fn'[g].name = fn[g].name
           /\ fn'[f].key = k /\ \A g \in 1 .. Len(fn) \ {f} : fn'[g] = fn[g]
           /\ slots' = [slots EXCEPT ![k] = f] /\ length' = length + 1
           /\ Entry(keys', length) = k /\ \A i \in 0 .. length - 1 : Entry(keys', i) = Entry(keys, i)
           /\ clashed' = (clashed \/ slots[k] \notin {Null, Junk})
<1>1. at[t] = "insert" /\ at'[t] = "count"
  BY Shape DEF Insert, Go
<1>2. UNCHANGED <<size, freed, func, handle>>
  BY DEF Insert, local
<1>3. f \in 1 .. Len(fn)
  BY <1>1 DEF Typing, FuncKnown, Adding
<1>4. k \in 0 .. size - 1
  BY <1>3, FuncParts, SlotInRange, Shape
<1>5. /\ fn' = [fn EXCEPT ![f].key = k] /\ slots' = [slots EXCEPT ![k] = f] /\ length' = length + 1
      /\ keys' = [i \in 1 .. length |-> Entry(keys, i - 1)] \o <<k>>
      /\ clashed' = (clashed \/ slots[k] \notin {Null, Junk})
  BY DEF Insert, KeyAdded
<1>6. /\ Len(fn') = Len(fn) /\ fn'[f].key = k /\ \A g \in 1 .. Len(fn) \ {f} : fn'[g] = fn[g]
      /\ fn'[f].name = fn[f].name
  <2> DEFINE g == [fn[f] EXCEPT !.key = k]
  <2>1. fn \in Seq([name : Names, key : Nat]) /\ fn[f] \in [name : Names, key : Nat]
    BY <1>3, Shape, FuncParts
  <2>2. g.key = k /\ g.name = fn[f].name
    BY <2>1
  <2>3. fn' = [fn EXCEPT ![f] = g]
    BY <1>5
  <2> HIDE DEF g
  <2>4. Len(fn') = Len(fn) /\ fn'[f] = g /\ \A h \in 1 .. Len(fn) \ {f} : fn'[h] = fn[h]
    BY <1>3, <2>1, <2>3
  <2> QED
    BY <2>2, <2>4
<1>7. Entry(keys', length) = k /\ \A i \in 0 .. length - 1 : Entry(keys', i) = Entry(keys, i)
  <2> DEFINE old == [i \in 1 .. length |-> Entry(keys, i - 1)]
  <2>1. length \in Nat /\ keys \in Seq(Nat \cup {Junk}) /\ k \in Nat
    BY <1>4, Shape
  <2>2. ASSUME NEW i \in 1 .. length
        PROVE  Entry(keys, i - 1) \in Nat \cup {Junk}
    <3>1. i - 1 \in Nat
      BY <2>1
    <3> QED
      BY <2>1, <3>1, EntryIsKey
  <2>3. old \in Seq(Nat \cup {Junk}) /\ Len(old) = length /\ \A i \in 1 .. length : old[i] = Entry(keys, i - 1)
    BY <2>1, <2>2
  <2>4. keys' = old \o <<k>> /\ k \in Nat \cup {Junk}
    BY <1>5, <2>1
  <2> HIDE DEF old
  <2>5. Appended(keys', keys, length, k)
    BY <2>3, <2>4, Longer DEF Appended
  <2> QED
    BY <2>1, <2>5, EntryAdded
<1>8. \A g \in 1 .. Len(fn) : fn'[g].name = fn[g].name
  BY <1>6
<1> QED
  BY <1>1, <1>2, <1>3, <1>4, <1>5, <1>6, <1>7, <1>8

LEMMA InsertDense ==
    ASSUME Typing, AllDense, NEW t \in Threads, Insert(t), Exclusive'
    PROVE  AllDense'
<1> DEFINE f == func[t]
           k == Slot(fn[f].name)
<1>0. length \in Nat /\ slots \in [0 .. size - 1 -> Pointers] /\ DOMAIN slots = 0 .. size - 1
  BY Shape
<1>1. /\ at'[t] = "count" /\ k \in 0 .. size - 1 /\ f \in 1 .. Len(fn)
      /\ slots' = [slots EXCEPT ![k] = f] /\ length' = length + 1
      /\ Entry(keys', length) = k /\ \A i \in 0 .. length - 1 : Entry(keys', i) = Entry(keys, i)
  BY InsertFacts
<1> HIDE DEF f, k
<1>2. f \notin {Null, Junk}
  BY <1>1, Shape DEF Null, Junk
<1>3. \A j \in DOMAIN slots : j \in DOMAIN slots' /\ (slots[j] \notin {Null, Junk} => slots'[j] \notin {Null, Junk})
  BY <1>0, <1>1, <1>2
<1>4. Entry(keys', length) \in DOMAIN slots' /\ slots'[Entry(keys', length)] \notin {Null, Junk}
  BY <1>0, <1>1, <1>2
<1>5. Dense(keys, slots, length)
  BY DEF AllDense
<1>6. Dense(keys', slots', length + 1)
  BY <1>0, <1>1, <1>3, <1>4, <1>5, DenseAdded
<1>7. Dense(keys, slots, length)'
  BY <1>1, <1>6
<1>8. DenseFor(t)' /\ at'[t] \in Adding
  BY <1>1 DEF DenseFor, Adding
<1> QED
  BY <1>7, <1>8, DenseAlone

\* The entries DelFunc copies.
LEMMA ScanFacts ==
    ASSUME Typing, NEW t \in Threads, DelScan(t), Live(func[t]),
           NEW p, p = LastKey(fn[func[t]].key)
    PROVE  /\ at'[t] = "shrink" /\ UNCHANGED <<func, fmap, heap>>
           /\ \A i \in 0 .. length - 1 : Entry(newKeys'[t], i) = Entry(keys, IF i < p THEN i ELSE i + 1)
<1>1. at'[t] = "shrink" /\ UNCHANGED <<func, fmap, heap>>
  BY Shape DEF DelScan, Go
<1> DEFINE ks == [i \in 1 .. length |-> Entry(keys, IF i - 1 < p THEN i - 1 ELSE i)]
<1>2. newKeys'[t] = ks
  <2>1. newKeys \in [Threads -> Seq(Nat \cup {Junk})]
    BY DEF Typing, TypeOK, LocalOK
  <2>2. newKeys' = [newKeys EXCEPT ![t] = ks]
    BY DEF DelScan
  <2> HIDE DEF ks
  <2> QED
    BY <2>1, <2>2
<1>3. length \in Nat
  BY Shape
<1>5. LeavesOut(ks, keys, length, p)
  BY <1>3 DEF LeavesOut
<1> HIDE DEF ks
<1>4. \A i \in 0 .. length - 1 : Entry(ks, i) = Entry(keys, IF i < p THEN i ELSE i + 1)
  BY <1>3, <1>5, EntryCopied
<1> QED
  BY <1>1, <1>2, <1>4

LEMMA ScanDense ==
    ASSUME Typing, AllDense, NEW t \in Threads, DelScan(t), Others(t)
    PROVE  AllDense'
<1>1. CASE ~Live(func[t])
  <2>1. at' = at /\ UNCHANGED fmap /\ at[t] = "scan"
    BY <1>1 DEF DelScan
  <2>2. DenseFor(t)'
    BY <2>1 DEF DenseFor
  <2> QED
    BY <2>1, <2>2, DenseSame
<1>2. CASE Live(func[t])
  <2> DEFINE p == LastKey(fn[func[t]].key)
  <2>1. /\ at'[t] = "shrink" /\ UNCHANGED fmap
        /\ \A i \in 0 .. length - 1 : Entry(newKeys'[t], i) = Entry(keys, IF i < p THEN i ELSE i + 1)
    BY <1>2, ScanFacts
  <2> HIDE DEF p
  <2>2. Dense(keys, slots, length) /\ length \in Nat
    BY Shape DEF AllDense
  <2>3. Dense(newKeys'[t], slots, length - 1)
    BY <2>1, <2>2, DenseRemoved
  <2>4. DenseFor(t)'
    BY <2>1, <2>3 DEF DenseFor, fmap
  <2> QED
    BY <2>1, <2>4, DenseSame
<1> QED
  BY <1>1, <1>2

LEMMA ShrinkDense ==
    ASSUME Typing, AllDense, NEW t \in Threads, DelShrink(t), Exclusive'
    PROVE  AllDense'
<1>1. at[t] = "shrink" /\ at'[t] = "copy" /\ UNCHANGED <<size, slots, keys, newKeys>> /\ length \in Nat
  BY Shape DEF DelShrink, Go, local
<1>2. Dense(keys, slots, length) /\ Dense(newKeys[t], slots, length - 1)
  BY <1>1 DEF AllDense, DenseFor
<1>3. Dense(keys, slots, length - 1)
  BY <1>1, <1>2, DenseFewer
<1>4. Dense(keys, slots, length') /\ Dense(newKeys[t], slots, length')
  <2>1. CASE length = 0
    <3>1. length' = 0
      BY <2>1 DEF DelShrink
    <3> QED
      BY <3>1 DEF Dense
  <2>2. CASE length # 0
    BY <1>2, <1>3, <2>2 DEF DelShrink
  <2> QED
    BY <2>1, <2>2
<1>5. Dense(keys, slots, length)' /\ DenseFor(t)'
  BY <1>1, <1>4 DEF DenseFor, Dense
<1>6. at'[t] \in Deleting
  BY <1>1 DEF Deleting
<1> QED
  BY <1>5, <1>6, DenseAlone

LEMMA CopyDense ==
    ASSUME Typing, AllDense, NEW t \in Threads, DelCopy(t), Others(t)
    PROVE  AllDense'
<1>0. slots \in [0 .. size - 1 -> Pointers] /\ length \in Nat
  BY Shape
<1>1. at[t] = "copy" /\ at'[t] = "free" /\ UNCHANGED <<fmap, newKeys>>
  BY Shape DEF DelCopy, Go
<1>2. newSlots'[t] = CopyKept(t)
  BY DEF DelCopy, Typing, TypeOK, LocalOK
<1>3. Dense(newKeys[t], slots, length)
  BY <1>1 DEF AllDense, DenseFor
<1>4. DOMAIN CopyKept(t) = 0 .. size - 1
  BY DEF CopyKept
<1>5. \A i \in 0 .. length - 1 :
          LET k == Entry(newKeys[t], i) IN k \in 0 .. size - 1 /\ CopyKept(t)[k] = slots[k]
  BY <1>0, <1>3 DEF CopyKept, KeptSlots, Dense
<1>6. Dense(newKeys[t], CopyKept(t), length)
  BY <1>3, <1>4, <1>5 DEF Dense
<1>7. DenseFor(t)'
  BY <1>1, <1>2, <1>4, <1>6 DEF DenseFor, fmap
<1> QED
  BY <1>1, <1>7, DenseSame

LEMMA FreeDense ==
    ASSUME Typing, AllDense, NEW t \in Threads, DelFree(t), Others(t), Exclusive'
    PROVE  AllDense'
<1>1. at[t] = "free" /\ at'[t] = "publish" /\ UNCHANGED <<size, length, slots, keys, newKeys, newSlots>>
  BY Shape DEF DelFree, Go, local
<1>2. DenseFor(t)
  BY DEF AllDense
<1>3. DenseFor(t)'
  BY <1>1, <1>2 DEF DenseFor, Dense
<1>4. Dense(keys, slots, length)'
  BY <1>1 DEF AllDense, Dense
<1>5. at'[t] \in Deleting
  BY <1>1 DEF Deleting
<1> QED
  BY <1>3, <1>4, <1>5, DenseAlone

\* The table DelFunc puts in place.
LEMMA PublishFacts ==
    ASSUME Typing, AllDense, NEW t \in Threads, DelPublish(t)
    PROVE  /\ at[t] = "publish" /\ at'[t] = "uncount" /\ UNCHANGED <<size, length, heap, func, handle, clashed>>
           /\ keys' = newKeys[t] /\ slots' = newSlots[t]
<1>1. at[t] = "publish" /\ at'[t] = "uncount" /\ UNCHANGED <<size, length, heap, func, handle, clashed>>
  BY Shape DEF DelPublish, Go, local
<1>2. DOMAIN newSlots[t] = 0 .. size - 1
  BY <1>1 DEF AllDense, DenseFor
<1>3. slots' = [k \in 0 .. size - 1 |-> newSlots[t][k]]
  BY <1>2 DEF DelPublish
<1>4. newSlots[t] \in [DOMAIN newSlots[t] -> Pointers]
  BY DEF Typing, TypeOK, LocalOK
<1>5. slots' = newSlots[t]
  BY <1>2, <1>3, <1>4
<1>6. keys' = newKeys[t]
  BY DEF DelPublish
<1> QED
  BY <1>1, <1>5, <1>6

LEMMA PublishDense ==
    ASSUME Typing, AllDense, NEW t \in Threads, DelPublish(t), Exclusive'
    PROVE  AllDense'
<1>1. /\ at[t] = "publish" /\ at'[t] = "uncount" /\ length' = length
      /\ keys' = newKeys[t] /\ slots' = newSlots[t]
  BY PublishFacts
<1>2. Dense(newKeys[t], newSlots[t], length)
  BY <1>1 DEF AllDense, DenseFor
<1>3. Dense(keys, slots, length)'
  BY <1>1, <1>2
<1>4. DenseFor(t)' /\ at'[t] \in Deleting
  BY <1>1 DEF DenseFor, Deleting
<1> QED
  BY <1>3, <1>4, DenseAlone

\* The steps that change neither the table nor a copy of it.
LEMMA QuietDense ==
    ASSUME Typing, AllDense, NEW t \in Threads, Others(t),
           \/ \E n \in Names : AddFunction(t, n) \/ DelFunction(t, n) \/ Lookup(t, n)
           \/ Count(t) \/ Uncount(t) \/ Compare(t) \/ Run(t)
    PROVE  AllDense'
<1>1. UNCHANGED fmap
  BY DEF AddFunction, DelFunction, Lookup, Count, Uncount, Compare, Run
<1>2. at'[t] \notin {"shrink", "copy", "free", "publish"}
  <2>1. \/ \E l \in {"grow", "insert", "idle", "scan", "compare", "run"} : Go(t, l)
        \/ at' = at /\ at[t] \in {"compare", "run"}
    BY DEF AddFunction, DelFunction, Lookup, GetFunc, Count, Uncount, Compare, Run, Return
  <2> QED
    BY <2>1, Shape DEF Go
<1>3. DenseFor(t)'
  BY <1>2 DEF DenseFor
<1> QED
  BY <1>1, <1>3, DenseSame

LEMMA DenseNext ==
    ASSUME Typing, AllDense, NEW t \in Threads, Step(t), Exclusive'
    PROVE  AllDense'
<1>1. Others(t)
  BY OneMoves
<1> QED
  BY <1>1, GrowDense, InsertDense, ScanDense, ShrinkDense, CopyDense, FreeDense, PublishDense, QuietDense
     DEF Step, Caller, Dispatcher

LEMMA InitTable == Init => TableInv
<1> SUFFICES ASSUME Init PROVE CallersOnly /\ Exclusive /\ AllDense
  BY DEF TableInv
<1>1. \A t \in Threads : at[t] = "idle"
  BY DEF Init
<1>2. CallersOnly /\ Exclusive /\ \A t \in Threads : DenseFor(t)
  BY <1>1 DEF CallersOnly, Exclusive, DenseFor, Adding, Deleting
<1>3. Dense(keys, slots, length)
  BY DEF Init, Dense
<1> QED
  BY <1>2, <1>3 DEF AllDense

LEMMA NextTable == ASSUME Lone PROVE Typing /\ TableInv /\ [Next]_vars => TableInv'
<1> SUFFICES ASSUME Typing, TableInv, [Next]_vars PROVE TableInv'
  OBVIOUS
<1>1. CASE Next
  <2>1. CallersOnly /\ Exclusive /\ AllDense
    BY <1>1 DEF Next, TableInv
  <2>2. PICK t \in Threads : Step(t)
    BY <1>1 DEF Next, Step, Threads
  <2>3. CallersOnly' /\ Exclusive'
    BY <2>1, <2>2, ExclusiveNext
  <2>4. AllDense'
    BY <2>1, <2>2, <2>3, DenseNext
  <2> QED
    BY <2>3, <2>4 DEF TableInv
<1>2. CASE UNCHANGED vars
  BY <1>2 DEF vars, fmap, heap, local, TableInv, CallersOnly, Exclusive, AllDense, DenseFor, Dense
<1> QED
  BY <1>1, <1>2

\* Work of worker/worker.c goes through fmap->keys and announces the name of
\* functions[keys[i]] for each of them: when no call overlaps a DelFunction,
\* every key it meets is a slot in use, however the registry has grown, however
\* names clash and however many functions were deleted in whatever order.
THEOREM KeysAlwaysDense == ASSUME Lone PROVE Spec => []KeysDense
<1>1. Typing /\ TableInv => KeysDense
  <2> SUFFICES ASSUME Typing, TableInv, Quiet, NEW i \in 0 .. length - 1
               PROVE  Entry(keys, i) \in 0 .. size - 1 /\ slots[Entry(keys, i)] \notin {Null, Junk}
    BY DEF KeysDense
  <2>1. Dense(keys, slots, length)
    BY DEF TableInv, Quiet, AllDense
  <2>2. DOMAIN slots = 0 .. size - 1
    BY Shape
  <2> QED
    BY <2>1, <2>2 DEF Dense
<1>2. Typing /\ TableInv /\ [Next]_vars => TableInv'
  BY NextTable
<1> QED
  BY <1>1, <1>2, InitTable, AlwaysTyping, PTL DEF Spec

-----------------------------------------------------------------------------
(* Until a slot is overwritten or the registry grows: each slot holds the  *)
(* Func that belongs there.                                                *)

\* One more slot in use.
LEMMA IndexesInsert ==
    ASSUME NEW n \in Nat, NEW ks, NEW ms, NEW s, NEW k \in DOMAIN s, NEW f, f \notin {Null, Junk},
           Indexes(ks, s, n), s[k] = Null, Entry(ms, n) = k,
           \A i \in 0 .. n - 1 : Entry(ms, i) = Entry(ks, i)
    PROVE  Indexes(ms, [s EXCEPT ![k] = f], n + 1)
<1> DEFINE r == [s EXCEPT ![k] = f]
<1>1. DOMAIN r = DOMAIN s /\ r[k] = f /\ \A j \in DOMAIN s \ {k} : r[j] = s[j]
  OBVIOUS
<1> HIDE DEF r
<1>2. \A i \in 0 .. (n + 1) - 1 : i \in 0 .. n - 1 \/ i = n
  OBVIOUS
<1>3. \A i \in 0 .. n - 1 : Entry(ks, i) \in DOMAIN s /\ s[Entry(ks, i)] \notin {Null, Junk}
  BY DEF Indexes, Dense
<1>4. \A i \in 0 .. n - 1 : Entry(ms, i) \in DOMAIN s \ {k} /\ r[Entry(ms, i)] \notin {Null, Junk}
  BY <1>1, <1>3
<1>5. Dense(ms, r, n + 1)
  <2> SUFFICES ASSUME NEW i \in 0 .. (n + 1) - 1
               PROVE  Entry(ms, i) \in DOMAIN r /\ r[Entry(ms, i)] \notin {Null, Junk}
    BY DEF Dense
  <2>1. CASE i = n
    BY <1>1, <2>1
  <2>2. CASE i \in 0 .. n - 1
    BY <1>1, <1>4, <2>2
  <2> QED
    BY <1>2, <2>1, <2>2
<1>6. ASSUME NEW i \in 0 .. (n + 1) - 1, NEW j \in 0 .. (n + 1) - 1, Entry(ms, i) = Entry(ms, j)
      PROVE  i = j
  <2>1. \A h \in 0 .. n - 1 : Entry(ms, h) # Entry(ms, n)
    BY <1>4
  <2>2. CASE i \in 0 .. n - 1 /\ j \in 0 .. n - 1
    BY <1>6, <2>2 DEF Indexes
  <2> QED
    BY <1>2, <1>6, <2>1, <2>2
<1>7. ASSUME NEW j \in DOMAIN r, r[j] # Null
      PROVE  \E i \in 0 .. (n + 1) - 1 : Entry(ms, i) = j
  <2>1. CASE j = k
    BY <2>1
  <2>2. CASE j # k
    <3>1. j \in DOMAIN s /\ s[j] # Null
      BY <1>1, <1>7, <2>2
    <3>2. PICK i \in 0 .. n - 1 : Entry(ks, i) = j
      BY <3>1 DEF Indexes
    <3>3. Entry(ms, i) = j /\ i \in 0 .. (n + 1) - 1
      BY <3>2
    <3> QED
      BY <3>3
  <2> QED
    BY <2>1, <2>2
<1> QED
  BY <1>5, <1>6, <1>7 DEF Indexes, r

\* One less.
Omits(ms, ks, n, p) ==
    \A i \in 0 .. n - 1 : Entry(ms, i) = Entry(ks, IF i < p THEN i ELSE i + 1)

LEMMA IndexesRemove ==
    ASSUME NEW n \in Nat, NEW ks, NEW ms, NEW s, NEW p \in 0 .. n - 1, NEW k, k = Entry(ks, p),
           Indexes(ks, s, n), Omits(ms, ks, n, p)
    PROVE  Indexes(ms, [s EXCEPT ![k] = Null], n - 1)
<1> DEFINE r == [s EXCEPT ![k] = Null]
           m == n - 1
           old(i) == IF i < p THEN i ELSE i + 1
<1>1. DOMAIN r = DOMAIN s /\ (k \in DOMAIN s => r[k] = Null) /\ \A j \in DOMAIN s \ {k} : r[j] = s[j]
  OBVIOUS
<1> HIDE DEF r
<1>2. \A i \in 0 .. m - 1 : old(i) \in 0 .. n - 1 /\ old(i) # p /\ i \in 0 .. n - 1
  OBVIOUS
<1>3. \A i, j \in 0 .. m - 1 : old(i) = old(j) => i = j
  OBVIOUS
<1>4. \A j \in 0 .. n - 1 : j # p => \E i \in 0 .. m - 1 : old(i) = j
  <2> SUFFICES ASSUME NEW j \in 0 .. n - 1, j # p PROVE \E i \in 0 .. m - 1 : old(i) = j
    OBVIOUS
  <2>1. CASE j < p
    <3>1. j \in 0 .. m - 1 /\ old(j) = j
      BY <2>1
    <3> QED
      BY <3>1
  <2>2. CASE j > p
    <3>1. j - 1 \in 0 .. m - 1 /\ old(j - 1) = j
      BY <2>2
    <3> QED
      BY <3>1
  <2> QED
    BY <2>1, <2>2
<1>5. \A i \in 0 .. n - 1 : Entry(ms, i) = Entry(ks, old(i))
  BY DEF Omits
<1> HIDE DEF old, m
<1>6. \A i \in 0 .. m - 1 : Entry(ms, i) = Entry(ks, old(i)) /\ old(i) \in 0 .. n - 1 /\ Entry(ks, old(i)) # k
  BY <1>2, <1>5 DEF Indexes
<1>7. Dense(ms, r, m)
  <2>1. \A i \in 0 .. n - 1 : Entry(ks, i) \in DOMAIN s /\ s[Entry(ks, i)] \notin {Null, Junk}
    BY DEF Indexes, Dense
  <2>2. \A i \in 0 .. m - 1 : Entry(ms, i) \in DOMAIN r /\ r[Entry(ms, i)] \notin {Null, Junk}
    BY <1>1, <1>6, <2>1
  <2> QED
    BY <2>2 DEF Dense
<1>8. \A i, j \in 0 .. m - 1 : Entry(ms, i) = Entry(ms, j) => i = j
  BY <1>3, <1>6 DEF Indexes
<1>9. ASSUME NEW j \in DOMAIN r, r[j] # Null
      PROVE  \E i \in 0 .. m - 1 : Entry(ms, i) = j
  <2>1. j \in DOMAIN s /\ j # k /\ s[j] # Null
    BY <1>1, <1>9
  <2>2. PICK i \in 0 .. n - 1 : Entry(ks, i) = j
    BY <2>1 DEF Indexes
  <2>3. PICK h \in 0 .. m - 1 : old(h) = i
    BY <1>4, <2>1, <2>2
  <2> QED
    BY <1>6, <2>2, <2>3
<1>10. Indexes(ms, r, m)
  BY <1>7, <1>8, <1>9 DEF Indexes
<1> QED
  BY <1>10 DEF r, m

\* The Func that DelFunc finds its key's last entry for: there is one entry.
LEMMA LastKeyFound ==
    ASSUME Typing, Indexes(keys, slots, length), NEW k \in 0 .. size - 1, slots[k] # Null
    PROVE  LastKey(k) \in 0 .. length - 1 /\ Entry(keys, LastKey(k)) = k
<1> DEFINE Same == {i \in 0 .. length - 1 : Entry(keys, i) = k}
<1>1. DOMAIN slots = 0 .. size - 1 /\ length \in Nat
  BY Shape
<1>2. PICK i \in 0 .. length - 1 : Entry(keys, i) = k
  BY <1>1 DEF Indexes
<1>3. i \in Same /\ \A j \in Same : j = i
  BY <1>2 DEF Indexes
<1>4. \A j \in Same : j <= i
  BY <1>1, <1>2, <1>3
<1>5. LastKey(k) = CHOOSE h \in Same : \A j \in Same : j <= h
  BY <1>3 DEF LastKey
<1> HIDE DEF Same
<1>6. LastKey(k) \in Same
  BY <1>3, <1>4, <1>5
<1> QED
  BY <1>6 DEF Same

\* What a slot in use says of its Func.
LEMMA InUse ==
    ASSUME Typing, Rooted, NEW k \in 0 .. size - 1, slots[k] # Null
    PROVE  Belongs(k) /\ slots[k] \notin {Null, Junk}
<1>1. Belongs(k)
  BY DEF Rooted
<1>2. Len(fn) \in Nat
  BY Shape
<1> QED
  BY <1>1, <1>2 DEF Belongs, Null, Junk

\* The Funcs keep their names.
NamesKept == Len(fn) <= Len(fn') /\ \A f \in 1 .. Len(fn) : fn'[f].name = fn[f].name
FuncsKept == Len(fn) <= Len(fn') /\ \A f \in 1 .. Len(fn) : fn'[f] = fn[f]

\* What is true of another thread outlives a change of the table if that
\* thread is not in DelFunction.
LEMMA OtherClean ==
    ASSUME Typing, Typing', NEW t \in Threads, Others(t), NEW u \in Threads \ {t},
           CleanFor(u), at[u] \notin Deleting, size' = size, NamesKept, Waits(u)'
    PROVE  CleanFor(u)'
<1>1. at'[u] = at[u] /\ func'[u] = func[u] /\ (u \in Dispatchers => handle'[u] = handle[u])
  BY DEF Others
<1>2. Doomed(u)' /\ at'[u] \notin {"shrink", "copy", "free", "publish"}
  BY <1>1 DEF Doomed, Deleting
<1>3. u \in Dispatchers /\ at'[u] \in {"compare", "run"} =>
          func'[u] \in 1 .. Len(fn') /\ Slot(handle[u])' = Slot(fn[func[u]].name)'
  <2> SUFFICES ASSUME u \in Dispatchers, at'[u] \in {"compare", "run"}
               PROVE  func'[u] \in 1 .. Len(fn') /\ Slot(handle[u])' = Slot(fn[func[u]].name)'
    OBVIOUS
  <2>1. func[u] \in 1 .. Len(fn) /\ Slot(handle[u]) = Slot(fn[func[u]].name)
    BY <1>1 DEF CleanFor
  <2>2. fn'[func[u]].name = fn[func[u]].name
    BY <2>1 DEF NamesKept
  <2>3. func[u] \in 1 .. Len(fn')
    <3>1. Len(fn) \in Nat /\ Len(fn') \in Nat /\ Len(fn) <= Len(fn')
      BY Shape, LenFn DEF Typing, TypeOK, NamesKept
    <3> QED
      BY <2>1, <3>1
  <2> QED
    BY <1>1, <2>1, <2>2, <2>3 DEF Slot
<1> QED
  BY <1>2, <1>3 DEF CleanFor

\* A step that leaves the table and the Funcs in it alone.
LEMMA CleanFrame ==
    ASSUME Typing, Typing', AllClean, NEW t \in Threads, Others(t),
           UNCHANGED <<size, length, slots, keys, freed>>, FuncsKept,
           at[t] # "publish", Half => Half', CleanFor(t)'
    PROVE  AllClean'
<1>1. Len(fn) \in Nat /\ Len(fn') \in Nat /\ Len(fn) <= Len(fn')
  BY Shape, LenFn DEF Typing, TypeOK, FuncsKept
<1>2. \A f \in 1 .. Len(fn) : f \in 1 .. Len(fn') /\ fn'[f] = fn[f]
  BY <1>1 DEF FuncsKept
<1>3. Rooted'
  BY <1>2 DEF AllClean, Rooted, Belongs, Slot
<1>4. KeptAll'
  BY DEF AllClean, KeptAll, Kept, Others
<1>5. ~Half' => Indexes(keys, slots, length)'
  BY DEF AllClean, Indexes, Dense
<1>6. ASSUME NEW u \in Threads \ {t}
      PROVE  CleanFor(u)'
  <2>1. at'[u] = at[u] /\ func'[u] = func[u] /\ newKeys'[u] = newKeys[u] /\ newSlots'[u] = newSlots[u]
        /\ (u \in Dispatchers => handle'[u] = handle[u])
    BY DEF Others
  <2>2. CleanFor(u)
    BY DEF AllClean
  <2>3. Waits(u)'
    BY <2>1, <2>2 DEF CleanFor, Waits
  <2>4. CASE at[u] \notin Deleting
    BY <1>2, <2>2, <2>3, <2>4, OtherClean DEF NamesKept, FuncsKept
  <2>5. CASE at[u] \in Deleting
    <3>1. at[u] \notin {"compare", "run"}
      BY <2>5 DEF Deleting
    <3>2. CASE at[u] = "uncount"
      BY <2>1, <2>3, <3>2 DEF CleanFor, Doomed
    <3>3. CASE at[u] # "uncount"
      <4>1. func[u] \in 1 .. Len(fn) /\ fn[func[u]].key \in 0 .. size - 1 /\ slots[fn[func[u]].key] = func[u]
        BY <2>2, <2>5, <3>3 DEF CleanFor, Doomed
      <4>2. fn'[func[u]] = fn[func[u]] /\ func[u] \in 1 .. Len(fn')
        BY <1>2, <4>1
      <4>3. Doomed(u)'
        BY <2>1, <4>1, <4>2 DEF Doomed
      <4>4. Without(u)' = Without(u)
        BY <2>1, <4>2 DEF Without
      <4> HIDE DEF Without
      <4>5. /\ at'[u] = "shrink" => Indexes(newKeys'[u], Without(u), length - 1)
            /\ at'[u] \in {"copy", "free", "publish"} => Indexes(newKeys'[u], Without(u), length)
            /\ at'[u] \in {"free", "publish"} => newSlots'[u] = Without(u)
        BY <2>1, <2>2 DEF CleanFor
      <4> QED
        BY <2>1, <2>3, <3>1, <4>3, <4>4, <4>5 DEF CleanFor, Indexes, Dense
    <3> QED
      BY <3>2, <3>3
  <2> QED
    BY <2>4, <2>5
<1> QED
  BY <1>3, <1>4, <1>5, <1>6 DEF AllClean

\* Half a deletion is only one thread's.
LEMMA HalfSame ==
    ASSUME NEW t \in Threads, Others(t),
           at[t] \in {"copy", "free", "publish"} => at'[t] \in {"copy", "free", "publish"}
    PROVE  Half => Half'
BY DEF Half, Others

LEMMA AddFunctionClean ==
    ASSUME Typing, Typing', AllClean, freed \subseteq 1 .. Len(fn),
           NEW t \in Threads, NEW n \in Names, AddFunction(t, n), Others(t)
    PROVE  AllClean'
<1>1. fn \in Seq([name : Names, key : Nat]) /\ Len(fn) \in Nat /\ slots \in [0 .. size - 1 -> Pointers]
      /\ at \in [Threads -> Locations] /\ func \in [Threads -> Pointers]
  BY Shape
<1>2. Len(fn') = Len(fn) + 1 /\ \A f \in 1 .. Len(fn) : fn'[f] = fn[f]
  <2>1. fn' = Append(fn, [name |-> n, key |-> 0])
    BY DEF AddFunction
  <2> QED
    BY <1>1, <2>1
<1>3. FuncsKept
  BY <1>1, <1>2 DEF FuncsKept
<1>4. at[t] = "idle" /\ at'[t] \in {"grow", "insert"} /\ func'[t] = Len(fn) + 1
  BY <1>1 DEF AddFunction, MayBegin, Go
<1>5. UNCHANGED <<size, length, slots, keys, freed>>
  BY DEF AddFunction, fmap
<1>6. Waits(t)'
  <2>1. Len(fn) + 1 \notin freed
    BY <1>1
  <2>2. \A k \in 0 .. size - 1 : slots[k] # Len(fn) + 1
    BY <1>1 DEF AllClean, Rooted, Belongs, Null
  <2> QED
    BY <1>4, <1>5, <2>1, <2>2 DEF Waits
<1>7. CleanFor(t)'
  BY <1>4, <1>6 DEF CleanFor, Doomed, Deleting
<1> QED
  BY <1>3, <1>4, <1>5, <1>7, HalfSame, CleanFrame

\* What GetFunc returns hashes to the name asked for.
LEMMA GetFuncClean ==
    ASSUME Typing, Rooted, NEW t \in Threads, NEW n \in Names, NEW found, GetFunc(t, n, found),
           at'[t] # "idle", found # "idle"
    PROVE  /\ at'[t] = found /\ length # 0 /\ Slot(n) \in 0 .. size - 1
           /\ func'[t] = slots[Slot(n)] /\ func'[t] # Null /\ Belongs(Slot(n))
<1> DEFINE f == IF length = 0 THEN Null ELSE slots[Slot(n)]
<1>1. func'[t] = f /\ at'[t] = IF f = Null THEN "idle" ELSE found
  BY Shape DEF GetFunc, Go
<1>2. f # Null /\ at'[t] = found
  BY <1>1
<1>3. Slot(n) \in 0 .. size - 1
  BY Shape, SlotInRange
<1>4. length # 0 /\ f = slots[Slot(n)]
  BY <1>2
<1>5. Belongs(Slot(n))
  BY <1>2, <1>3, <1>4 DEF Rooted
<1> QED
  BY <1>1, <1>2, <1>3, <1>4, <1>5

LEMMA DelFunctionClean ==
    ASSUME Typing, Typing', AllClean, NEW t \in Threads, NEW n \in Names, DelFunction(t, n), Others(t)
    PROVE  AllClean'
<1>1. at[t] = "idle" /\ UNCHANGED <<size, length, slots, keys, freed, fn>>
  BY DEF DelFunction, MayBegin, fmap, heap
<1>2. at'[t] \in {"idle", "scan"} /\ GetFunc(t, n, "scan")
  BY Shape DEF DelFunction, GetFunc, Go
<1>3. Len(fn) \in Nat
  BY Shape
<1>4. FuncsKept
  BY <1>1, <1>3 DEF FuncsKept
<1>5. CleanFor(t)'
  <2>1. CASE at'[t] = "idle"
    BY <2>1 DEF CleanFor, Waits, Doomed, Deleting
  <2>2. CASE at'[t] # "idle"
    <3>1. at'[t] = "scan" /\ Slot(n) \in 0 .. size - 1 /\ func'[t] = slots[Slot(n)] /\ Belongs(Slot(n))
      BY <1>2, <2>2, GetFuncClean DEF AllClean
    <3>2. func'[t] \in 1 .. Len(fn) /\ fn[func'[t]].key = Slot(n)
      BY <3>1 DEF Belongs
    <3>3. Doomed(t)'
      BY <1>1, <3>1, <3>2 DEF Doomed
    <3> QED
      BY <3>1, <3>3 DEF CleanFor, Waits
  <2> QED
    BY <2>1, <2>2
<1> QED
  BY <1>1, <1>4, <1>5, HalfSame, CleanFrame

LEMMA LookupClean ==
    ASSUME Typing, Typing', AllClean, NEW t \in Dispatchers, t \in Threads, NEW n \in Names, Lookup(t, n), Others(t)
    PROVE  AllClean'
<1>1. at[t] = "idle" /\ UNCHANGED <<size, length, slots, keys, freed, fn>>
  BY DEF Lookup, MayBegin, fmap, heap
<1>2. at'[t] \in {"idle", "compare"} /\ GetFunc(t, n, "compare")
  BY Shape DEF Lookup, GetFunc, Go
<1>3. handle'[t] = n
  BY DEF Lookup, Typing, TypeOK, LocalOK
<1>4. Len(fn) \in Nat
  BY Shape
<1>5. FuncsKept
  BY <1>1, <1>4 DEF FuncsKept
<1>6. CleanFor(t)'
  <2>1. CASE at'[t] = "idle"
    BY <2>1 DEF CleanFor, Waits, Doomed, Deleting
  <2>2. CASE at'[t] # "idle"
    <3>1. at'[t] = "compare" /\ func'[t] = slots[Slot(n)] /\ Belongs(Slot(n))
      BY <1>2, <2>2, GetFuncClean DEF AllClean
    <3>2. func'[t] \in 1 .. Len(fn) /\ Slot(fn[func'[t]].name) = Slot(n)
      BY <3>1 DEF Belongs
    <3>3. func'[t] \in 1 .. Len(fn') /\ Slot(handle[t])' = Slot(fn[func[t]].name)'
      BY <1>1, <1>3, <3>2 DEF Slot
    <3>4. Waits(t)' /\ Doomed(t)'
      BY <3>1 DEF Waits, Doomed, Deleting
    <3> QED
      BY <3>1, <3>3, <3>4 DEF CleanFor
  <2> QED
    BY <2>1, <2>2
<1> QED
  BY <1>1, <1>5, <1>6, HalfSame, CleanFrame

\* Returning, and going on with a job's function.
LEMMA ReturnClean ==
    ASSUME Typing, Typing', AllClean, NEW t \in Threads, Others(t),
           UNCHANGED <<fmap, heap>>, at[t] \notin {"copy", "free", "publish"},
           at'[t] = "idle" \/ (at[t] = "compare" /\ at'[t] = "run" /\ UNCHANGED local)
    PROVE  AllClean'
<1>1. UNCHANGED <<size, length, slots, keys, freed, fn>>
  BY DEF fmap, heap
<1>2. Len(fn) \in Nat
  BY Shape
<1>3. FuncsKept
  BY <1>1, <1>2 DEF FuncsKept
<1>4. CleanFor(t)'
  <2>1. Waits(t)' /\ Doomed(t)'
    BY DEF Waits, Doomed, Deleting
  <2>2. CleanFor(t)
    BY DEF AllClean
  <2> QED
    BY <1>1, <2>1, <2>2 DEF CleanFor, Slot, local
<1> QED
  BY <1>1, <1>3, <1>4, HalfSame, CleanFrame

LEMMA DelScanClean ==
    ASSUME Typing, Typing', AllClean, Exclusive, NEW t \in Threads, DelScan(t), Others(t), ub' = "none"
    PROVE  AllClean'
<1>1. at[t] = "scan" /\ Live(func[t])
  BY DEF DelScan
<1> DEFINE k == fn[func[t]].key
           p == LastKey(k)
<1>2. /\ at'[t] = "shrink" /\ UNCHANGED <<func, fmap, heap>>
      /\ \A i \in 0 .. length - 1 : Entry(newKeys'[t], i) = Entry(keys, IF i < p THEN i ELSE i + 1)
  BY <1>1, ScanFacts
<1>3. func[t] \in 1 .. Len(fn) /\ k \in 0 .. size - 1 /\ slots[k] = func[t]
  BY <1>1 DEF AllClean, CleanFor, Doomed, Deleting
<1>4. Without(t)' = Without(t) /\ Without(t) = [slots EXCEPT ![k] = Null]
  BY <1>2 DEF Without, fmap, heap
<1>5. Doomed(t)'
  BY <1>2, <1>3 DEF Doomed, fmap, heap
<1> HIDE DEF k, p
<1>6. Indexes(keys, slots, length)
  <2>1. \A u \in Threads : at[u] \notin {"copy", "free", "publish"}
    BY <1>1 DEF Exclusive, Deleting
  <2> QED
    BY <2>1 DEF AllClean, Half
<1>7. slots[k] # Null
  BY <1>3 DEF Null
<1>8. p \in 0 .. length - 1 /\ Entry(keys, p) = k /\ length \in Nat
  BY <1>3, <1>6, <1>7, LastKeyFound, Shape DEF p
<1>9. Indexes(newKeys'[t], Without(t), length - 1)
  <2>1. Omits(newKeys'[t], keys, length, p)
    BY <1>2 DEF Omits
  <2>2. Indexes(newKeys'[t], [slots EXCEPT ![k] = Null], length - 1)
    BY <1>6, <1>8, <2>1, IndexesRemove
  <2> QED
    BY <1>4, <2>2
<1>10. (at[t] = "shrink" => Indexes(newKeys[t], Without(t), length - 1))'
  BY <1>2, <1>4, <1>9 DEF fmap, Indexes, Dense
<1>11. CleanFor(t)'
  BY <1>2, <1>5, <1>10 DEF CleanFor, Waits
<1>12. UNCHANGED <<size, length, slots, keys, freed>> /\ FuncsKept
  BY <1>2, Shape DEF fmap, heap, FuncsKept
<1> QED
  BY <1>1, <1>11, <1>12, HalfSame, CleanFrame

LEMMA DelCopyClean ==
    ASSUME Typing, Typing', AllClean, NEW t \in Threads, DelCopy(t), Others(t)
    PROVE  AllClean'
<1>1. at[t] = "copy" /\ at'[t] = "free" /\ UNCHANGED <<fmap, heap, newKeys, func>>
  BY Shape DEF DelCopy, Go
<1>2. newSlots'[t] = CopyKept(t)
  BY DEF DelCopy, Typing, TypeOK, LocalOK
<1> DEFINE k == fn[func[t]].key
<1>3. Indexes(newKeys[t], Without(t), length) /\ Doomed(t) /\ k \in 0 .. size - 1
  BY <1>1 DEF AllClean, CleanFor, Doomed, Deleting
<1>4. slots \in [0 .. size - 1 -> Pointers] /\ Without(t) = [slots EXCEPT ![k] = Null]
  BY Shape DEF Without
<1> HIDE DEF k
<1>5. /\ DOMAIN Without(t) = 0 .. size - 1 /\ Without(t)[k] = Null
      /\ \A j \in (0 .. size - 1) \ {k} : Without(t)[j] = slots[j]
  BY <1>3, <1>4
<1>6. \A j \in 0 .. size - 1 : j \in KeptSlots(t) <=> Without(t)[j] # Null
  BY <1>3, <1>5 DEF Indexes, Dense, KeptSlots
<1>7. \A j \in 0 .. size - 1 : CopyKept(t)[j] = Without(t)[j]
  <2> SUFFICES ASSUME NEW j \in 0 .. size - 1 PROVE CopyKept(t)[j] = Without(t)[j]
    OBVIOUS
  <2>1. CopyKept(t)[j] = IF j \in KeptSlots(t) THEN slots[j] ELSE Null
    BY DEF CopyKept
  <2> QED
    BY <1>5, <1>6, <2>1
<1>8. CopyKept(t) = Without(t)
  <2>1. CopyKept(t) = [j \in 0 .. size - 1 |-> CopyKept(t)[j]]
    BY DEF CopyKept
  <2>2. Without(t) = [j \in 0 .. size - 1 |-> Without(t)[j]]
    BY <1>4, <1>5
  <2> QED
    BY <1>7, <2>1, <2>2
<1>9. Without(t)' = Without(t)
  BY <1>1 DEF Without, fmap, heap
<1>10. Doomed(t)'
  BY <1>1, <1>3 DEF Doomed, Deleting, fmap, heap
<1>11. (Indexes(newKeys[t], Without(t), length) /\ newSlots[t] = Without(t))'
  BY <1>1, <1>2, <1>3, <1>8, <1>9 DEF Indexes, Dense, fmap
<1>12. CleanFor(t)'
  BY <1>1, <1>10, <1>11 DEF CleanFor, Waits
<1>13. UNCHANGED <<size, length, slots, keys, freed>> /\ FuncsKept
  BY <1>1, Shape DEF fmap, heap, FuncsKept
<1> QED
  BY <1>1, <1>12, <1>13, HalfSame, CleanFrame

LEMMA GrowClean ==
    ASSUME Typing, Typing', AllClean, size >= InitSize, NEW t \in Threads, Grow(t), Others(t), Clean'
    PROVE  AllClean'
<1>1. at[t] = "grow" /\ at'[t] = "insert" /\ UNCHANGED <<length, keys, fn, freed, func>>
  BY Shape DEF Grow, Go, heap, local
<1>2. UNCHANGED <<size, slots>>
  <2>1. size \in Nat /\ InitSize \in Nat \ {0} /\ size' = InitSize
    BY Shape, RegistryAssumption DEF Clean
  <2>2. size' # 2 * size
    BY <2>1
  <2> QED
    BY <2>2 DEF Grow
<1>3. FuncsKept
  BY <1>1, Shape DEF FuncsKept
<1>4. CleanFor(t)'
  <2>1. Waits(t)
    BY DEF AllClean, CleanFor
  <2>2. Waits(t)'
    BY <1>1, <1>2, <2>1 DEF Waits
  <2> QED
    BY <1>1, <2>2 DEF CleanFor, Doomed, Deleting
<1> QED
  BY <1>1, <1>2, <1>3, <1>4, HalfSame, CleanFrame

LEMMA InsertClean ==
    ASSUME Typing, Typing', AllClean, Exclusive, CallersOnly, OwnFunc,
           NEW t \in Threads, Insert(t), Others(t), ~clashed'
    PROVE  AllClean'
<1> DEFINE f == func[t]
           k == Slot(fn[f].name)
<1>0. length \in Nat /\ slots \in [0 .. size - 1 -> Pointers] /\ DOMAIN slots = 0 .. size - 1 /\ Len(fn) \in Nat
  BY Shape
<1>1. /\ at[t] = "insert" /\ at'[t] = "count" /\ UNCHANGED <<size, freed, func, handle>>
      /\ f \in 1 .. Len(fn) /\ k \in 0 .. size - 1 /\ size' = size
      /\ Len(fn') = Len(fn) /\ \A g \in 1 .. Len(fn) : fn'[g].name = fn[g].name
      /\ fn'[f].key = k /\ \A g \in 1 .. Len(fn) \ {f} : fn'[g] = fn[g]
      /\ slots' = [slots EXCEPT ![k] = f] /\ length' = length + 1
      /\ Entry(keys', length) = k /\ \A i \in 0 .. length - 1 : Entry(keys', i) = Entry(keys, i)
      /\ clashed' = (clashed \/ slots[k] \notin {Null, Junk})
  BY InsertFacts
<1>2. Slot(fn'[f].name) = k
  BY <1>1
<1> HIDE DEF k
<1>3. \A u \in Threads : at[u] \notin Deleting
  BY <1>1 DEF Exclusive, Adding, Deleting
<1>4. slots[k] = Null
  BY <1>1, InUse DEF AllClean
<1>5. f \notin freed /\ \A j \in 0 .. size - 1 : slots[j] # f
  BY <1>1 DEF AllClean, CleanFor, Waits
<1>6. slots'[k] = f /\ \A j \in (0 .. size - 1) \ {k} : slots'[j] = slots[j]
  BY <1>0, <1>1
<1>7. Rooted'
  <2> SUFFICES ASSUME NEW j \in 0 .. size - 1, slots'[j] # Null
               PROVE  /\ slots'[j] \in 1 .. Len(fn') /\ fn'[slots'[j]].key = j
                      /\ Slot(fn'[slots'[j]].name) = j
    BY <1>1 DEF Rooted, Belongs, Slot
  <2>1. CASE j = k
    BY <1>1, <1>2, <1>6, <2>1
  <2>2. CASE j # k
    <3>1. slots'[j] = slots[j] /\ Belongs(j) /\ slots[j] # f
      BY <1>5, <1>6, <2>2 DEF AllClean, Rooted
    <3>2. fn'[slots[j]] = fn[slots[j]]
      BY <1>1, <3>1 DEF Belongs
    <3> QED
      BY <1>1, <3>1, <3>2 DEF Belongs, Slot
  <2> QED
    BY <2>1, <2>2
<1>8. KeptAll'
  <2> SUFFICES ASSUME NEW j \in 0 .. size - 1, slots'[j] # Null
               PROVE  slots'[j] \notin freed
    BY <1>1 DEF KeptAll, Kept
  <2>1. CASE j = k
    BY <1>5, <1>6, <2>1
  <2>2. CASE j # k
    BY <1>3, <1>6, <2>2 DEF AllClean, KeptAll, Kept, Deleting
  <2> QED
    BY <2>1, <2>2
<1>9. Indexes(keys', slots', length')
  <2>1. Indexes(keys, slots, length)
    BY <1>3 DEF AllClean, Half, Deleting
  <2>2. f \notin {Null, Junk} /\ k \in DOMAIN slots
    BY <1>0, <1>1 DEF Null, Junk
  <2> HIDE DEF f
  <2>3. Indexes(keys', [slots EXCEPT ![k] = f], length + 1)
    BY <1>0, <1>1, <1>4, <2>1, <2>2, IndexesInsert
  <2> QED
    BY <1>1, <2>3
<1>10. CleanFor(t)'
  BY <1>1 DEF CleanFor, Waits, Doomed, Deleting
<1>11. ASSUME NEW u \in Threads \ {t}
       PROVE  CleanFor(u)'
  <2>1. CleanFor(u) /\ at'[u] = at[u] /\ func'[u] = func[u]
    BY DEF AllClean, Others
  <2>2. Waits(u)'
    <3> SUFFICES ASSUME at[u] \in {"grow", "insert"}
                 PROVE  func[u] \notin freed /\ \A j \in 0 .. size - 1 : slots'[j] # func[u]
      BY <1>1, <2>1 DEF Waits
    <3>1. t \in Callers /\ u \in Callers
      BY <1>1 DEF CallersOnly, Adding
    <3>2. func[u] # f
      BY <1>1, <3>1 DEF OwnFunc, Pending
    <3>3. func[u] \notin freed /\ \A j \in 0 .. size - 1 : slots[j] # func[u]
      BY <2>1 DEF CleanFor, Waits
    <3> QED
      BY <1>6, <3>2, <3>3
  <2>3. NamesKept
    BY <1>0, <1>1 DEF NamesKept
  <2> QED
    BY <1>1, <1>3, <2>1, <2>2, <2>3, OtherClean
<1>12. (~Half => Indexes(keys, slots, length))'
  BY <1>9 DEF Indexes, Dense
<1> QED
  BY <1>7, <1>8, <1>10, <1>11, <1>12 DEF AllClean

\* Nobody else registers or deletes while one deletes.
LEMMA DeletesAlone ==
    ASSUME Typing, Typing', AllClean, Exclusive, NEW t \in Threads, at[t] \in Deleting, Others(t),
           size' = size, fn' = fn, NEW u \in Threads \ {t}
    PROVE  at[u] \notin Adding \cup Deleting /\ at'[u] = at[u] /\ CleanFor(u)'
<1>1. at[u] \notin Adding \cup Deleting /\ at'[u] = at[u]
  BY DEF Exclusive, Others
<1>2. Waits(u)' /\ CleanFor(u)
  BY <1>1 DEF Waits, Adding, AllClean
<1>3. NamesKept
  BY Shape DEF NamesKept
<1> QED
  BY <1>1, <1>2, <1>3, OtherClean

LEMMA DelShrinkClean ==
    ASSUME Typing, Typing', AllClean, Exclusive, NEW t \in Threads, DelShrink(t), Others(t), ub' = "none"
    PROVE  AllClean'
<1>1. /\ at[t] = "shrink" /\ at'[t] = "copy" /\ length' = length - 1
      /\ UNCHANGED <<size, slots, keys, newKeys, func, fn, freed>>
  BY Shape DEF DelShrink, Go, local, heap
<1>2. at[t] \in Deleting
  BY <1>1 DEF Deleting
<1>3. \A u \in Threads \ {t} : at[u] \notin Adding \cup Deleting /\ at'[u] = at[u] /\ CleanFor(u)'
  BY <1>1, <1>2, DeletesAlone
<1>4. Rooted' /\ Half'
  BY <1>1 DEF AllClean, Rooted, Belongs, Slot, Half
<1>5. KeptAll'
  BY <1>1, <1>3 DEF AllClean, KeptAll, Kept
<1>6. CleanFor(t)'
  <2>1. Indexes(newKeys[t], Without(t), length - 1) /\ Doomed(t)
    BY <1>1 DEF AllClean, CleanFor
  <2>2. Without(t)' = Without(t) /\ Doomed(t)'
    BY <1>1, <1>2, <2>1 DEF Without, Doomed
  <2>3. Indexes(newKeys[t], Without(t), length)'
    BY <1>1, <2>1, <2>2 DEF Indexes, Dense
  <2> QED
    BY <1>1, <2>2, <2>3 DEF CleanFor, Waits
<1> QED
  BY <1>3, <1>4, <1>5, <1>6 DEF AllClean

LEMMA DelFreeClean ==
    ASSUME Typing, Typing', AllClean, Exclusive, NEW t \in Threads, DelFree(t), Others(t)
    PROVE  AllClean'
<1>1. /\ at[t] = "free" /\ at'[t] = "publish" /\ freed' = freed \cup {func[t]}
      /\ UNCHANGED <<size, length, slots, keys, newKeys, newSlots, func, fn>>
  BY Shape DEF DelFree, Go, local
<1>2. at[t] \in Deleting
  BY <1>1 DEF Deleting
<1>3. \A u \in Threads \ {t} : at[u] \notin Adding \cup Deleting /\ at'[u] = at[u] /\ CleanFor(u)'
  BY <1>1, <1>2, DeletesAlone
<1>4. Rooted' /\ Half'
  BY <1>1 DEF AllClean, Rooted, Belongs, Slot, Half
<1>5. KeptAll'
  <2> SUFFICES ASSUME NEW k \in 0 .. size - 1, slots[k] # Null, slots[k] # func[t]
               PROVE  slots[k] \notin freed
    BY <1>1 DEF KeptAll, Kept
  <2>1. Kept(k)
    BY DEF AllClean, KeptAll
  <2>2. \A u \in Threads : at[u] # "publish"
    BY <1>1, <1>3 DEF Deleting
  <2> QED
    BY <2>1, <2>2 DEF Kept
<1>6. CleanFor(t)'
  <2>1. Indexes(newKeys[t], Without(t), length) /\ Doomed(t) /\ newSlots[t] = Without(t)
    BY <1>1 DEF AllClean, CleanFor
  <2>2. Without(t)' = Without(t) /\ Doomed(t)'
    BY <1>1, <1>2, <2>1 DEF Without, Doomed
  <2>3. (Indexes(newKeys[t], Without(t), length) /\ newSlots[t] = Without(t))'
    BY <1>1, <2>1, <2>2 DEF Indexes, Dense
  <2> QED
    BY <1>1, <2>2, <2>3 DEF CleanFor, Waits
<1> QED
  BY <1>3, <1>4, <1>5, <1>6 DEF AllClean

LEMMA DelPublishClean ==
    ASSUME Typing, Typing', AllDense, AllClean, Exclusive, NEW t \in Threads, DelPublish(t), Others(t)
    PROVE  AllClean'
<1> DEFINE k == fn[func[t]].key
<1>1. /\ at[t] = "publish" /\ at'[t] = "uncount" /\ UNCHANGED <<size, length, fn, freed, func>>
      /\ keys' = newKeys[t] /\ slots' = newSlots[t]
  BY PublishFacts DEF heap
<1>2. at[t] \in Deleting \ {"uncount"}
  BY <1>1 DEF Deleting
<1>3. \A u \in Threads \ {t} : at[u] \notin Adding \cup Deleting /\ at'[u] = at[u] /\ CleanFor(u)'
  BY <1>1, <1>2, DeletesAlone
<1>4. /\ Indexes(newKeys[t], Without(t), length) /\ newSlots[t] = Without(t)
      /\ func[t] \in 1 .. Len(fn) /\ k \in 0 .. size - 1 /\ slots[k] = func[t]
  BY <1>1, <1>2 DEF AllClean, CleanFor, Doomed
<1>5. slots'[k] = Null /\ \A j \in (0 .. size - 1) \ {k} : slots'[j] = slots[j]
  <2>1. slots \in [0 .. size - 1 -> Pointers] /\ Without(t) = [slots EXCEPT ![k] = Null]
    BY Shape DEF Without
  <2> HIDE DEF k
  <2> QED
    BY <1>1, <1>4, <2>1
<1>6. \A j \in 0 .. size - 1 : slots'[j] # Null => j # k /\ slots'[j] = slots[j] /\ Belongs(j) /\ slots[j] # func[t]
  <2> SUFFICES ASSUME NEW j \in 0 .. size - 1, slots'[j] # Null
               PROVE  j # k /\ slots'[j] = slots[j] /\ Belongs(j) /\ slots[j] # func[t]
    OBVIOUS
  <2>1. j # k /\ slots'[j] = slots[j]
    BY <1>5
  <2>2. Belongs(j)
    BY <2>1 DEF AllClean, Rooted
  <2>3. slots[j] # func[t]
    BY <2>1, <2>2 DEF Belongs
  <2> QED
    BY <2>1, <2>2, <2>3
<1> HIDE DEF k
<1>7. Rooted'
  BY <1>1, <1>6 DEF Rooted, Belongs, Slot
<1>8. KeptAll'
  <2> SUFFICES ASSUME NEW j \in 0 .. size - 1, slots'[j] # Null
               PROVE  slots'[j] \notin freed
    BY <1>1 DEF KeptAll, Kept
  <2>1. Kept(j) /\ slots'[j] = slots[j] /\ slots[j] # func[t]
    BY <1>6 DEF AllClean, KeptAll
  <2>2. \A u \in Threads : at[u] = "publish" => u = t
    BY <1>3 DEF Deleting
  <2> QED
    BY <2>1, <2>2 DEF Kept
<1>9. Indexes(keys, slots, length)'
  BY <1>1, <1>4 DEF Indexes, Dense
<1>10. CleanFor(t)'
  BY <1>1 DEF CleanFor, Waits, Doomed
<1> QED
  BY <1>3, <1>7, <1>8, <1>9, <1>10 DEF AllClean

LEMMA InitSlots == Init => SlotsInv
<1> SUFFICES ASSUME Init PROVE SlotsInv
  OBVIOUS
<1>1. \A t \in Threads : at[t] = "idle"
  BY DEF Init
<1>2. \A t \in Threads : CleanFor(t)
  BY <1>1 DEF CleanFor, Waits, Doomed, Deleting
<1>3. \A k \in 0 .. size - 1 : slots[k] = Null
  BY DEF Init
<1>4. Rooted /\ KeptAll
  BY <1>3 DEF Rooted, KeptAll
<1>5. Indexes(keys, slots, length)
  <2>1. length = 0 /\ slots = [k \in 0 .. size - 1 |-> Null]
    BY DEF Init
  <2>2. \A i \in 0 .. length - 1 : FALSE
    BY <2>1
  <2>3. \A k \in DOMAIN slots : slots[k] = Null
    BY <2>1
  <2> QED
    BY <2>2, <2>3 DEF Indexes, Dense
<1>6. freed \subseteq 1 .. Len(fn) /\ size >= InitSize
  BY RegistryAssumption DEF Init
<1> QED
  BY <1>2, <1>4, <1>5, <1>6 DEF SlotsInv, AllClean

\* No Func disappears or changes its name.
LEMMA NamesNext ==
    ASSUME Typing, NEW t \in Threads, Step(t)
    PROVE  NamesKept /\ Len(fn') \in Nat
<1>1. Len(fn) \in Nat /\ fn \in Seq([name : Names, key : Nat])
  BY Shape
<1>2. CASE \E n \in Names : AddFunction(t, n)
  <2>1. PICK n \in Names : fn' = Append(fn, [name |-> n, key |-> 0])
    BY <1>2 DEF AddFunction
  <2>2. Len(fn') = Len(fn) + 1 /\ \A f \in 1 .. Len(fn) : fn'[f] = fn[f]
    BY <1>1, <2>1
  <2> QED
    BY <1>1, <2>2 DEF NamesKept
<1>3. CASE Insert(t)
  <2>1. Len(fn') = Len(fn) /\ \A g \in 1 .. Len(fn) : fn'[g].name = fn[g].name
    BY <1>3, InsertFacts
  <2> QED
    BY <1>1, <2>1 DEF NamesKept
<1>4. CASE ~Insert(t) /\ ~(\E n \in Names : AddFunction(t, n))
  <2>1. fn' = fn
    BY <1>4 DEF Step, Caller, Dispatcher, DelFunction, Lookup, Grow, Count,
                DelScan, DelShrink, DelCopy, DelFree, DelPublish, Uncount, Compare, Run, heap
  <2> QED
    BY <1>1, <2>1 DEF NamesKept
<1> QED
  BY <1>2, <1>3, <1>4

\* Only Funcs that exist are freed, and the registry does not shrink.
LEMMA FreedNext ==
    ASSUME Typing, Typing', freed \subseteq 1 .. Len(fn), size >= InitSize, NEW t \in Threads, Step(t)
    PROVE  /\ freed' \subseteq 1 .. Len(fn') /\ size' >= size /\ size' >= InitSize
           /\ clashed => clashed'
<1>1. /\ fn \in Seq([name : Names, key : Nat]) /\ Len(fn) \in Nat /\ Len(fn') \in Nat
      /\ size \in Nat \ {0} /\ InitSize \in Nat
  BY Shape, RegistryAssumption, LenFn DEF Typing, TypeOK
<1>2. Len(fn') >= Len(fn)
  BY NamesNext DEF NamesKept
<1>3. freed' \subseteq 1 .. Len(fn)
  <2>1. freed' = freed \/ (DelFree(t) /\ freed' = freed \cup {func[t]})
    BY DEF Step, Caller, Dispatcher, AddFunction, Insert, DelFunction, Lookup, Grow, Count,
           DelScan, DelShrink, DelCopy, DelFree, DelPublish, Uncount, Compare, Run, heap
  <2>2. DelFree(t) => func[t] \in 1 .. Len(fn)
    BY DEF DelFree, Typing, FuncKnown, Deleting
  <2> QED
    BY <2>1, <2>2
<1>4. freed' \subseteq 1 .. Len(fn')
  BY <1>1, <1>2, <1>3
<1>5. size' = size \/ size' = 2 * size
  BY DEF Step, Caller, Dispatcher, AddFunction, Insert, DelFunction, Lookup, Grow, Count,
         DelScan, DelShrink, DelCopy, DelFree, DelPublish, Uncount, Compare, Run, fmap
<1>6. size' >= size /\ size' >= InitSize
  BY <1>1, <1>5
<1>7. clashed => clashed'
  BY DEF Step, Caller, Dispatcher, AddFunction, Insert, DelFunction, Lookup, Grow, Count,
         DelScan, DelShrink, DelCopy, DelFree, DelPublish, Uncount, Compare, Run
<1> QED
  BY <1>4, <1>6, <1>7

LEMMA CleanNext ==
    ASSUME Typing, Typing', OwnFunc, CallersOnly, Exclusive, AllDense, AllClean,
           freed \subseteq 1 .. Len(fn), size >= InitSize,
           NEW t \in Threads, Step(t), ub' = "none", Clean'
    PROVE  AllClean'
<1>1. Others(t)
  BY OneMoves
<1>2. ~clashed'
  BY DEF Clean
<1>3. ASSUME Count(t) \/ Uncount(t)
      PROVE  AllClean'
  <2>1. at[t] \in {"count", "uncount"} /\ UNCHANGED <<fmap, heap>> /\ Go(t, "idle")
    BY <1>3 DEF Count, Uncount, Return
  <2>2. at'[t] = "idle"
    BY <2>1, Shape DEF Go
  <2> QED
    BY <1>1, <2>1, <2>2, ReturnClean
<1>4. ASSUME Compare(t) \/ Run(t)
      PROVE  AllClean'
  <2>1. /\ at[t] \in {"compare", "run"} /\ UNCHANGED <<fmap, heap>>
        /\ Go(t, "idle") \/ (at[t] = "compare" /\ Go(t, "run") /\ UNCHANGED local)
    BY <1>4 DEF Compare, Run, Return
  <2>2. at'[t] = "idle" \/ (at[t] = "compare" /\ at'[t] = "run" /\ UNCHANGED local)
    BY <2>1, Shape DEF Go
  <2> QED
    BY <1>1, <2>1, <2>2, ReturnClean
<1>5. ASSUME t \in Callers, Caller(t)
      PROVE  AllClean'
  BY <1>1, <1>2, <1>3, <1>5, AddFunctionClean, DelFunctionClean, GrowClean, InsertClean, DelScanClean,
     DelShrinkClean, DelCopyClean, DelFreeClean, DelPublishClean DEF Caller
<1>6. ASSUME t \in Dispatchers, Dispatcher(t)
      PROVE  AllClean'
  BY <1>1, <1>4, <1>6, LookupClean DEF Dispatcher
<1> QED
  BY <1>5, <1>6 DEF Step

LEMMA NextSlots == Typing /\ Typing' /\ KeptInv /\ TableInv /\ SlotsInv /\ [Next]_vars => SlotsInv'
<1> SUFFICES ASSUME Typing, Typing', KeptInv, TableInv, SlotsInv, [Next]_vars PROVE SlotsInv'
  OBVIOUS
<1>1. CASE Next
  <2>1. CallersOnly /\ Exclusive /\ AllDense /\ OwnFunc /\ ub = "none"
    BY <1>1 DEF Next, TableInv, KeptInv
  <2>2. PICK t \in Threads : Step(t)
    BY <1>1 DEF Next, Step, Threads
  <2>3. freed \subseteq 1 .. Len(fn) /\ size >= InitSize /\ (Clean => AllClean)
    BY <2>1 DEF SlotsInv
  <2>4. /\ freed' \subseteq 1 .. Len(fn') /\ size' >= size /\ size' >= InitSize
        /\ clashed => clashed'
    BY <2>2, <2>3, FreedNext
  <2>5. ASSUME ub' = "none", Clean'
        PROVE  AllClean'
    <3>1. size \in Nat /\ InitSize \in Nat /\ size' = InitSize /\ ~clashed'
      BY <2>5, Shape, RegistryAssumption DEF Clean
    <3>2. Clean
      BY <2>3, <2>4, <3>1 DEF Clean
    <3> QED
      BY <2>1, <2>2, <2>3, <2>5, <3>2, CleanNext
  <2> QED
    BY <2>4, <2>5 DEF SlotsInv
<1>2. CASE UNCHANGED vars
  BY <1>2 DEF vars, fmap, heap, local, SlotsInv, AllClean, Clean, Rooted, Belongs, Slot, KeptAll, Kept, Half,
              CleanFor, Waits, Doomed, Without, Indexes, Dense
<1> QED
  BY <1>1, <1>2

SlotsAll == Typing /\ KeptInv /\ TableInv /\ SlotsInv

LEMMA AlwaysSlots == ASSUME Lone PROVE Spec => []SlotsAll
<1>1. Init => SlotsAll
  BY InitTyping, InitKept, InitTable, InitSlots DEF SlotsAll
<1>2. SlotsAll /\ [Next]_vars => SlotsAll'
  <2> SUFFICES ASSUME Typing, KeptInv, TableInv, SlotsInv, [Next]_vars PROVE SlotsAll'
    BY DEF SlotsAll
  <2>1. Typing' /\ KeptInv' /\ TableInv'
    BY NextTyping, NextKept, NextTable
  <2>2. SlotsInv'
    BY <2>1, NextSlots
  <2> QED
    BY <2>1, <2>2 DEF SlotsAll
<1> QED
  BY <1>1, <1>2, PTL DEF Spec

\* What GetFunc of worker/function.c finds between calls of AddFunction and
\* DelFunction: until a registration overwrites a slot or the registry grows,
\* every slot in use holds a function that was not freed and whose name leads
\* to that slot, whatever was registered and deleted before, if no call
\* overlaps a DelFunction.
THEOREM SlotsAlwaysLive == ASSUME Lone PROVE Spec => []SlotsLive
<1>1. SlotsAll => SlotsLive
  <2> SUFFICES ASSUME SlotsAll, Quiet, ~clashed, size = InitSize,
                      NEW k \in 0 .. size - 1, slots[k] # Null
               PROVE  Live(slots[k]) /\ k = Slot(fn[slots[k]].name)
    BY DEF SlotsLive
  <2>1. CallersOnly /\ Rooted /\ KeptAll
    BY DEF SlotsAll, TableInv, SlotsInv, Quiet, Clean, AllClean
  <2>2. \A t \in Threads : at[t] # "publish"
    BY <2>1 DEF CallersOnly, Quiet, Deleting
  <2>3. slots[k] \notin freed
    BY <2>1, <2>2 DEF KeptAll, Kept
  <2>4. Belongs(k)
    BY <2>1 DEF Rooted
  <2> QED
    BY <2>3, <2>4 DEF Belongs, Live
<1> QED
  BY <1>1, AlwaysSlots, PTL

LEMMA NextDangling == SlotsAll /\ DanglingOnlyInRace /\ [Next]_vars => DanglingOnlyInRace'
<1> SUFFICES ASSUME SlotsAll, DanglingOnlyInRace, [Next]_vars PROVE DanglingOnlyInRace'
  OBVIOUS
<1>1. CASE Next
  <2> SUFFICES ASSUME ub' = "dangling", ~clashed', size' = InitSize
               PROVE  (\E t \in Dispatchers : func[t] \in freed /\ Slot(handle[t]) = Slot(fn[func[t]].name))'
    BY DEF DanglingOnlyInRace
  <2>1. ub = "none"
    BY <1>1 DEF Next
  <2>2. PICK t \in Threads : Step(t)
    BY <1>1 DEF Next, Step, Threads
  <2>3. /\ ~Live(func[t])
        /\ DelScan(t) \/ (t \in Dispatchers /\ at[t] \in {"compare", "run"})
        /\ UNCHANGED <<size, fn, freed, func, handle, clashed>>
    BY <2>1, <2>2 DEF Step, Caller, Dispatcher, AddFunction, Insert, DelFunction, Lookup, GetFunc, Grow, Count, Fails,
         DelScan, DelShrink, DelCopy, DelFree, DelPublish, Uncount, Compare, Run, fmap, heap, local
  <2>4. Exclusive /\ AllClean
    BY <2>1, <2>3 DEF SlotsAll, TableInv, SlotsInv, Clean
  <2>5. ~DelScan(t)
    <3> SUFFICES ASSUME DelScan(t) PROVE FALSE
      OBVIOUS
    <3>1. at[t] = "scan"
      BY DEF DelScan
    <3>2. func[t] \in 1 .. Len(fn) /\ fn[func[t]].key \in 0 .. size - 1 /\ slots[fn[func[t]].key] = func[t]
      BY <2>4, <3>1 DEF AllClean, CleanFor, Doomed, Deleting
    <3>3. func[t] # Null
      BY <3>2 DEF Null
    <3>4. \A u \in Threads : at[u] # "publish"
      BY <2>4, <3>1 DEF Exclusive, Deleting
    <3>5. func[t] \notin freed
      BY <2>4, <3>2, <3>3, <3>4 DEF AllClean, KeptAll, Kept
    <3> QED
      BY <2>3, <3>2, <3>5 DEF Live
  <2>6. t \in Dispatchers /\ func[t] \in 1 .. Len(fn) /\ Slot(handle[t]) = Slot(fn[func[t]].name)
    BY <2>3, <2>4, <2>5 DEF AllClean, CleanFor
  <2>7. func[t] \in freed
    BY <2>3, <2>6 DEF Live
  <2> QED
    BY <2>3, <2>6, <2>7 DEF Slot
<1>2. CASE UNCHANGED vars
  BY <1>2 DEF vars, fmap, heap, local, DanglingOnlyInRace, Slot
<1> QED
  BY <1>1, <1>2

\* A function is used after DelFunc of worker/function.c has freed it only by
\* a read/write thread that got it from GetFunc for a job before it was
\* deleted: not by a later DelFunction and not through another name, until a
\* registration overwrites a slot or the registry grows, and if no call of the
\* application overlaps a DelFunction.
THEOREM DanglingOnlyRaces == ASSUME Lone PROVE Spec => []DanglingOnlyInRace
<1>1. Init => DanglingOnlyInRace
  BY DEF Init, DanglingOnlyInRace
<1> QED
  BY <1>1, NextDangling, AlwaysSlots, PTL DEF Spec

-----------------------------------------------------------------------------
(* The room for the keys.                                                  *)

\* Division rounds down.
LEMMA DivFloor ==
    ASSUME NEW x \in Nat, NEW g \in Nat \ {0}
    PROVE  x \div g \in Nat /\ g * (x \div g) \in Nat /\ x < g * (x \div g) + g
<1>1. x \div g \in Nat
  OBVIOUS
<1>2. g * (x \div g) \in Nat
  BY <1>1
<1>3. x = g * (x \div g) + (x % g) /\ x % g \in 0 .. g - 1
  OBVIOUS
<1> QED
  BY <1>1, <1>2, <1>3

\* malloc returns what was asked for, and never less than its smallest chunk.
LEMMA ChunkRoom ==
    ASSUME NEW n \in Nat
    PROVE  Chunk(n) \in Nat /\ Chunk(n) >= n /\ Chunk(n) >= MinRoom
<1>1. MinRoom \in Nat /\ Granule \in Nat \ {0} /\ Chunk(n) \in Nat
  BY RegistryAssumption, ChunkIsNat
<1>2. CASE n <= MinRoom
  BY <1>1, <1>2 DEF Chunk
<1>3. CASE n > MinRoom
  <2> DEFINE x == n - MinRoom + Granule - 1
             y == Granule * (x \div Granule)
  <2>1. x \in Nat /\ x = n - MinRoom + Granule - 1
    BY <1>1, <1>3
  <2>2. Chunk(n) = MinRoom + y
    BY <1>1, <1>3 DEF Chunk
  <2> HIDE DEF x
  <2>3. y \in Nat /\ x < y + Granule
    BY <1>1, <2>1, DivFloor
  <2> HIDE DEF y
  <2> QED
    BY <1>1, <2>1, <2>2, <2>3
<1> QED
  BY <1>1, <1>2, <1>3

LEMMA InitRoomy == Init => Roomy
<1> SUFFICES ASSUME Init PROVE Roomy
  OBVIOUS
<1>1. room >= MinRoom /\ room >= size /\ size \in Nat
  BY ChunkRoom, RegistryAssumption DEF Init
<1>2. length = 0 /\ Len(fn) = 0
  BY DEF Init
<1>3. \A t \in Callers : RoomFor(t)
  BY DEF Init, RoomFor, Threads
<1> QED
  BY <1>1, <1>2, <1>3 DEF Roomy, RoomInv

\* The numbers the proofs below compute with.
LEMMA Numbers ==
    ASSUME Typing
    PROVE  size \in Nat /\ size > 0 /\ length \in Nat /\ room \in Nat /\ Len(fn) \in Nat /\ MinRoom \in Nat
BY Shape, RegistryAssumption

\* A caller's steps, if it is the only one.
LEMMA CallerRoomy ==
    ASSUME Typing, Typing', KeptInv, Roomy, NEW t \in Callers, Callers \subseteq {t}, Caller(t),
           ub = "none", ub' = "none"
    PROVE  Roomy'
<1> t \in Threads
  BY DEF Threads
<1>1. /\ length <= size /\ length <= Len(fn) /\ room >= MinRoom /\ (freed = {} => room >= size)
      /\ RoomFor(t)
  BY DEF Roomy, RoomInv
<1>2. \A u \in Callers : u = t
  OBVIOUS
<1>3. ASSUME RoomInv', RoomFor(t)'
      PROVE  Roomy'
  BY <1>2, <1>3 DEF Roomy, RoomInv
<1>4. CASE \E n \in Names : AddFunction(t, n)
  <2>1. PICK n \in Names : AddFunction(t, n)
    BY <1>4
  <2>2. fn' = Append(fn, [name |-> n, key |-> 0]) /\ UNCHANGED <<size, length, room, freed>>
    BY <2>1 DEF AddFunction, fmap
  <2>3. Len(fn') = Len(fn) + 1
    BY <2>2, Shape
  <2>4. at'[t] = IF length >= size THEN "grow" ELSE "insert"
    BY <2>1, Shape DEF AddFunction, Full, Go
  <2> QED
    BY <1>1, <1>3, <2>2, <2>3, <2>4, Numbers DEF RoomInv, RoomFor
<1>5. CASE \E n \in Names : DelFunction(t, n)
  <2>1. UNCHANGED <<size, length, room, freed, fn>> /\ (Go(t, "idle") \/ Go(t, "scan"))
    BY <1>5 DEF DelFunction, GetFunc, fmap, heap
  <2>2. at'[t] \in {"idle", "scan"}
    BY <2>1, Shape DEF Go
  <2> QED
    BY <1>1, <1>3, <2>1, <2>2 DEF RoomInv, RoomFor
<1>6. CASE Grow(t)
  <2>1. at[t] = "grow" /\ at'[t] = "insert" /\ UNCHANGED <<length, freed, fn>>
    BY <1>6, Shape DEF Grow, Go, heap
  <2>2. CASE length = 0 /\ UNCHANGED <<size, room>>
    BY <1>1, <1>3, <2>1, <2>2, Numbers DEF RoomInv, RoomFor
  <2>3. CASE size' = 2 * size /\ room' = Chunk(4 * size)
    <3>1. room' >= 4 * size /\ room' >= MinRoom /\ room' \in Nat
      <4>1. 4 * size \in Nat
        BY Numbers
      <4> QED
        BY <2>3, <4>1, ChunkRoom
    <3>2. length <= size' /\ length < size' /\ room' >= size'
      BY <1>1, <2>3, <3>1, Numbers
    <3> QED
      BY <1>1, <1>3, <2>1, <3>1, <3>2 DEF RoomInv, RoomFor
  <2> QED
    BY <1>6, <2>2, <2>3 DEF Grow
<1>7. CASE Insert(t)
  <2>1. /\ at[t] = "insert" /\ at'[t] = "count" /\ UNCHANGED <<size, freed>>
        /\ Len(fn') = Len(fn) /\ length' = length + 1
    BY <1>7, InsertFacts
  <2>2. room' = room
    BY <1>7 DEF Insert
  <2> QED
    BY <1>1, <1>3, <2>1, <2>2, Numbers DEF RoomInv, RoomFor
<1>8. CASE Count(t) \/ Uncount(t) \/ DelScan(t) \/ DelCopy(t)
  <2>1. UNCHANGED <<size, length, room, freed, fn>>
    BY <1>8 DEF Count, Uncount, DelScan, DelCopy, fmap, heap
  <2>2. at'[t] \notin {"grow", "insert"}
    BY <1>8, Shape DEF Count, Uncount, DelScan, DelCopy, Return, Go
  <2> QED
    BY <1>1, <1>3, <2>1, <2>2 DEF RoomInv, RoomFor
<1>9. CASE DelShrink(t)
  <2>1. at'[t] = "copy" /\ UNCHANGED <<size, room, freed, fn>> /\ length' = length - 1
    BY <1>9, Shape DEF DelShrink, Go, heap
  <2> QED
    BY <1>1, <1>3, <2>1, Numbers DEF RoomInv, RoomFor
<1>10. CASE DelFree(t)
  <2>1. at'[t] = "publish" /\ UNCHANGED <<size, room, length, fn>> /\ freed' # {}
    BY <1>10, Shape DEF DelFree, Go
  <2> QED
    BY <1>1, <1>3, <2>1 DEF RoomInv, RoomFor
<1>11. CASE DelPublish(t)
  <2>1. at[t] = "publish" /\ at'[t] = "uncount" /\ UNCHANGED <<size, length, fn, freed>>
    BY <1>11, Shape DEF DelPublish, Go, heap
  <2>2. freed # {}
    BY <2>1 DEF KeptInv, PublishAfterFree
  <2>3. room' >= MinRoom
    <3> DEFINE n == IF Len(newKeys[t]) = 0 THEN 0 ELSE Len(newKeys[t]) - 1
    <3>1. newKeys[t] \in Seq(Nat \cup {Junk})
      BY DEF Typing, TypeOK, LocalOK
    <3>2. n \in Nat
      BY <3>1, LenProperties
    <3>3. room' = Chunk(n)
      BY <1>11 DEF DelPublish
    <3> HIDE DEF n
    <3> QED
      BY <3>2, <3>3, ChunkRoom
  <2> QED
    BY <1>1, <1>3, <2>1, <2>2, <2>3 DEF RoomInv, RoomFor
<1> QED
  BY <1>4, <1>5, <1>6, <1>7, <1>8, <1>9, <1>10, <1>11 DEF Caller

LEMMA NextRoomy ==
    ASSUME Alone
    PROVE  Typing /\ Typing' /\ KeptInv /\ Roomy /\ [Next]_vars => Roomy'
<1> SUFFICES ASSUME Typing, Typing', KeptInv, Roomy, [Next]_vars, ub' = "none" PROVE Roomy'
  BY DEF Roomy, RoomInv
<1>1. ASSUME ub = "none", NEW t \in Callers, Caller(t)
      PROVE  Roomy'
  <2>1. Callers \subseteq {t}
    BY DEF Alone
  <2> QED
    BY <1>1, <2>1, CallerRoomy
<1>2. ASSUME ub = "none", NEW t \in Dispatchers, Dispatcher(t)
      PROVE  Roomy'
  <2>1. t \in Threads /\ Callers \subseteq Threads
    BY DEF Threads
  <2>2. UNCHANGED <<size, length, room, freed, fn>>
    BY <1>2 DEF Dispatcher, Lookup, Compare, Run, fmap, heap
  <2>3. at'[t] \notin {"grow", "insert"}
    BY <1>2, <2>1, Shape DEF Dispatcher, Lookup, GetFunc, Compare, Run, Return, Go
  <2>4. \A u \in Callers : u # t => at'[u] = at[u]
    BY <1>2, <2>1, OneMoves DEF Others, Step
  <2>5. \A u \in Callers : RoomFor(u)'
    BY <1>2, <2>2, <2>3, <2>4 DEF Roomy, RoomFor, RoomInv
  <2> QED
    BY <1>2, <2>2, <2>5 DEF Roomy, RoomInv
<1>3. CASE UNCHANGED vars
  BY <1>3 DEF vars, fmap, heap, Roomy, RoomFor, RoomInv
<1> QED
  BY <1>1, <1>2, <1>3 DEF Next

RoomAll == Typing /\ KeptInv /\ Roomy

LEMMA NextOverrun == RoomAll /\ OverrunNeedsDelete /\ [Next]_vars => OverrunNeedsDelete'
<1> SUFFICES ASSUME RoomAll, OverrunNeedsDelete, [Next]_vars PROVE OverrunNeedsDelete'
  OBVIOUS
<1>1. CASE Next
  <2> SUFFICES ASSUME ub' = "overrun"
               PROVE  Len(fn') > MinRoom /\ (freed' # {} \/ \E t \in Callers : at'[t] = "shrink")
    BY DEF OverrunNeedsDelete
  <2>1. ub = "none"
    BY <1>1 DEF Next
  <2>2. PICK t \in Threads : Step(t)
    BY <1>1 DEF Next, Step, Threads
  <2>3. t \in Callers /\ (Insert(t) \/ DelScan(t))
    BY <2>1, <2>2 DEF Step, Caller, Dispatcher, AddFunction, DelFunction, Lookup, GetFunc, Grow, Count, Fails,
         DelShrink, DelCopy, DelFree, DelPublish, Uncount, Compare, Run
  <2>4. /\ length <= Len(fn) /\ room >= MinRoom /\ (freed = {} => room >= size) /\ RoomFor(t)
        /\ Typing
    BY <2>1, <2>3 DEF RoomAll, Roomy, RoomInv
  <2>5. CASE Insert(t)
    <3>1. at[t] = "insert" /\ freed' = freed /\ Len(fn') = Len(fn)
      BY <2>4, <2>5, InsertFacts
    <3>2. length >= room
      BY <2>1, <2>5 DEF Insert
    <3>3. length < Len(fn) /\ length < size
      BY <2>4, <3>1 DEF RoomFor
    <3> QED
      BY <2>4, <3>1, <3>2, <3>3, Numbers
  <2>6. CASE DelScan(t)
    <3>1. at'[t] = "shrink" /\ fn' = fn /\ length > 0 /\ length > Chunk(length - 1)
      BY <2>1, <2>4, <2>6, Shape DEF DelScan, Fails, Go, heap
    <3>2. Chunk(length - 1) >= MinRoom /\ Chunk(length - 1) \in Nat
      <4>1. length - 1 \in Nat
        BY <2>4, <3>1, Numbers
      <4> QED
        BY <4>1, ChunkRoom
    <3> QED
      BY <2>3, <2>4, <3>1, <3>2, Numbers
  <2> QED
    BY <2>3, <2>5, <2>6
<1>2. CASE UNCHANGED vars
  BY <1>2 DEF vars, fmap, heap, OverrunNeedsDelete
<1> QED
  BY <1>1, <1>2

\* AddFunc of worker/function.c writes keys[length] and DelFunc one key more
\* than it has allocated: with one thread that registers and deletes, neither
\* leaves its chunk before a DelFunction has replaced or copied the keys, nor
\* with no more functions than malloc's smallest chunk has room for.
THEOREM OverrunOnlyAfterDelete == ASSUME Alone PROVE Spec => []OverrunNeedsDelete
<1>1. Init => RoomAll /\ OverrunNeedsDelete
  BY InitTyping, InitKept, InitRoomy DEF RoomAll, OverrunNeedsDelete, Init
<1>2. RoomAll /\ [Next]_vars => RoomAll'
  BY NextTyping, NextKept, NextRoomy DEF RoomAll
<1> QED
  BY <1>1, <1>2, NextOverrun, PTL DEF Spec

-----------------------------------------------------------------------------
(* A disciplined application.                                              *)

\* No more keys than names: each leads to a Func with a name of its own.
LEMMA KeysAreNames ==
    ASSUME Typing, Rooted, Indexes(keys, slots, length), IsFiniteSet(Names),
           NEW D \in SUBSET Names,
           \A k \in 0 .. size - 1 : slots[k] # Null => fn[slots[k]].name \in D
    PROVE  length <= Cardinality(D) /\ Cardinality(D) \in Nat /\ Cardinality(D) <= Cardinality(Names)
<1> DEFINE nameOf(i) == fn[slots[Entry(keys, i - 1)]].name
           g == [i \in 1 .. length |-> nameOf(i)]
<1>1. length \in Nat /\ DOMAIN slots = 0 .. size - 1
  BY Shape
<1>2. \A i \in 1 .. length : Entry(keys, i - 1) \in 0 .. size - 1 /\ slots[Entry(keys, i - 1)] # Null
  <2> SUFFICES ASSUME NEW i \in 1 .. length
               PROVE  Entry(keys, i - 1) \in 0 .. size - 1 /\ slots[Entry(keys, i - 1)] # Null
    OBVIOUS
  <2>1. i - 1 \in 0 .. length - 1
    BY <1>1
  <2> QED
    BY <1>1, <2>1 DEF Indexes, Dense
<1>3. \A i \in 1 .. length : nameOf(i) \in D /\ Slot(nameOf(i)) = Entry(keys, i - 1)
  BY <1>2 DEF Rooted, Belongs
<1> HIDE DEF nameOf
<1>4. ASSUME NEW i \in 1 .. length, NEW j \in 1 .. length, nameOf(i) = nameOf(j)
      PROVE  i = j
  <2>1. Entry(keys, i - 1) = Entry(keys, j - 1)
    BY <1>3, <1>4
  <2>2. i - 1 \in 0 .. length - 1 /\ j - 1 \in 0 .. length - 1
    BY <1>1
  <2>3. i - 1 = j - 1
    BY <2>1, <2>2 DEF Indexes
  <2> QED
    BY <1>1, <2>3
<1>5. g \in Injection(1 .. length, D)
  <2>1. g \in [1 .. length -> D] /\ \A i, j \in 1 .. length : g[i] = g[j] => i = j
    BY <1>3, <1>4
  <2> HIDE DEF g
  <2> QED
    BY <2>1 DEF Injection, IsInjective
<1>6. IsFiniteSet(D) /\ Cardinality(D) \in Nat /\ Cardinality(D) <= Cardinality(Names)
  BY FS_Subset, FS_CardinalityType
<1> HIDE DEF g
<1>7. Cardinality(1 .. length) <= Cardinality(D)
  BY <1>5, <1>6, FS_Injection
<1>8. Cardinality(1 .. length) = length
  BY <1>1, FS_Interval
<1> QED
  BY <1>6, <1>7, <1>8

\* There are no more names than slots at first, if each has its own.
LEMMA NamesAreSlots ==
    ASSUME Apart, IsFiniteSet(Names)
    PROVE  Cardinality(Names) <= InitSize /\ Cardinality(Names) \in Nat
<1> DEFINE g == [n \in Names |-> Hash[n] % InitSize]
<1>1. InitSize \in Nat /\ InitSize > 0
  BY RegistryAssumption
<1>2. \A n \in Names : Hash[n] % InitSize \in 0 .. InitSize - 1
  <2> SUFFICES ASSUME NEW n \in Names PROVE Hash[n] % InitSize \in 0 .. InitSize - 1
    OBVIOUS
  <2>1. Hash[n] \in Nat
    BY RegistryAssumption
  <2> QED
    BY <1>1, <2>1
<1>3. g \in [Names -> 0 .. InitSize - 1] /\ \A m, n \in Names : g[m] = g[n] => m = n
  BY <1>2 DEF Apart
<1> HIDE DEF g
<1>4. g \in Injection(Names, 0 .. InitSize - 1)
  BY <1>3 DEF Injection, IsInjective
<1>5. IsFiniteSet(0 .. InitSize - 1) /\ Cardinality(0 .. InitSize - 1) = InitSize
  BY <1>1, FS_Interval
<1>6. Cardinality(Names) <= Cardinality(0 .. InitSize - 1)
  BY <1>4, <1>5, FS_Injection
<1> QED
  BY <1>5, <1>6, FS_CardinalityType

SafeAll == SlotsAll /\ Safe

\* What holds while the application is disciplined.
Orderly ==
    /\ Typing /\ ub = "none" /\ ~clashed /\ size = InitSize /\ CallersOnly /\ Exclusive
    /\ AllDense /\ AllClean /\ OwnFunc /\ freed \subseteq 1 .. Len(fn) /\ OneEach /\ room >= MinRoom
    /\ (shared <=> \A t \in Threads : at[t] # "publish") /\ \A t \in Threads : Served(t)

LEMMA SafeFacts == SafeAll => Orderly
BY DEF SafeAll, SlotsAll, Safe, Clean, TableInv, SlotsInv, KeptInv, Orderly

Tidy == Disciplined /\ Apart /\ Few

\* Names with the same slot are the same.
LEMMA OneName ==
    ASSUME Tidy, size = InitSize, NEW m \in Names, NEW n \in Names, Slot(m) = Slot(n)
    PROVE  m = n
BY DEF Tidy, Apart, Slot

\* Only a call that may begin takes its first step.
LEMMA FirstStep ==
    ASSUME NEW t \in Threads, Step(t), at[t] = "idle"
    PROVE  MayBegin(t)
BY DEF Step, Caller, Dispatcher, AddFunction, DelFunction, Lookup, Grow, Insert, Count,
       DelScan, DelShrink, DelCopy, DelFree, DelPublish, Uncount, Compare, Run

\* While a thread deletes nothing else happens.
LEMMA DeleterOnly ==
    ASSUME Tidy, Orderly, NEW t \in Threads, Step(t), NEW u \in Threads, at[u] \in Deleting
    PROVE  t = u
<1> SUFFICES ASSUME t # u PROVE FALSE
  OBVIOUS
<1>1. at[t] = "idle"
  BY DEF Orderly, Served
<1>2. MayBegin(t)
  BY <1>1, FirstStep
<1> QED
  BY <1>2 DEF MayBegin, Tidy

\* The table is whole and every Func in it can be used while nobody deletes.
LEMMA WholeTable ==
    ASSUME Orderly, \A t \in Threads : at[t] \notin Deleting \/ at[t] = "scan"
    PROVE  /\ shared /\ Indexes(keys, slots, length)
           /\ \A k \in 0 .. size - 1 : slots[k] # Null => Belongs(k) /\ Live(slots[k])
<1>1. \A t \in Threads : at[t] \notin {"copy", "free", "publish"}
  BY DEF Deleting
<1>2. shared /\ Indexes(keys, slots, length)
  BY <1>1 DEF Orderly, AllClean, Half
<1>3. ASSUME NEW k \in 0 .. size - 1, slots[k] # Null
      PROVE  Belongs(k) /\ Live(slots[k])
  BY <1>1, <1>3 DEF Orderly, AllClean, Rooted, KeptAll, Kept, Belongs, Live
<1> QED
  BY <1>2, <1>3

\* There is a slot and a key for a Func that is not in the table.
LEMMA RoomForOne ==
    ASSUME Tidy, Orderly, \A t \in Threads : at[t] \notin Deleting \/ at[t] = "scan",
           NEW n \in Names, \A k \in 0 .. size - 1 : slots[k] # Null => fn[slots[k]].name # n
    PROVE  length < size /\ length < room
<1>1. Typing /\ Rooted /\ Indexes(keys, slots, length) /\ size = InitSize /\ room >= MinRoom
  BY WholeTable DEF Orderly, AllClean
<1>2. \A k \in 0 .. size - 1 : slots[k] # Null => fn[slots[k]].name \in Names \ {n}
  <2> SUFFICES ASSUME NEW k \in 0 .. size - 1, slots[k] # Null
               PROVE  fn[slots[k]].name \in Names
    OBVIOUS
  <2>1. slots[k] \in 1 .. Len(fn)
    BY <1>1 DEF Rooted, Belongs
  <2> QED
    BY <1>1, <2>1, FuncParts
<1>3. IsFiniteSet(Names) /\ Cardinality(Names) <= MinRoom
  BY DEF Tidy, Few
<1>4. Cardinality(Names \ {n}) = Cardinality(Names) - 1
  BY <1>3, FS_RemoveElement
<1>5. length <= Cardinality(Names \ {n}) /\ Names \ {n} \in SUBSET Names
  BY <1>1, <1>2, <1>3, KeysAreNames
<1>6. Cardinality(Names) <= InitSize /\ Cardinality(Names) \in Nat
  BY <1>3, NamesAreSlots DEF Tidy
<1> QED
  BY <1>1, <1>3, <1>4, <1>5, <1>6, Numbers, RegistryAssumption

\* No name is registered twice: the name of a new Func is in no slot.
LEMMA NewName ==
    ASSUME Tidy, Orderly, NEW n \in Names, \A t \in Threads : at[t] \notin Deleting \/ at[t] = "scan",
           \A f \in 1 .. Len(fn) : fn[f].name = n => f \in freed
    PROVE  \A k \in 0 .. size - 1 : slots[k] # Null => fn[slots[k]].name # n
BY WholeTable DEF Live

\* Nor is the Func that is about to be put in the table there already.
LEMMA WaitingName ==
    ASSUME Tidy, Orderly, NEW t \in Threads, at[t] = "insert"
    PROVE  /\ \A u \in Threads : at[u] \notin Deleting
           /\ func[t] \in 1 .. Len(fn) /\ fn[func[t]].name \in Names /\ Live(func[t])
           /\ \A k \in 0 .. size - 1 : slots[k] # Null => fn[slots[k]].name # fn[func[t]].name
<1>1. func[t] \in 1 .. Len(fn)
  BY DEF Orderly, Typing, FuncKnown, Adding
<1>2. fn[func[t]].name \in Names
  BY <1>1, FuncParts DEF Orderly
<1>3. \A u \in Threads : at[u] \notin Deleting
  BY DEF Orderly, Exclusive, Adding, Deleting
<1>4. func[t] \notin freed /\ \A k \in 0 .. size - 1 : slots[k] # func[t]
  BY DEF Orderly, AllClean, CleanFor, Waits
<1>5. \A k \in 0 .. size - 1 : slots[k] # Null => fn[slots[k]].name # fn[func[t]].name
  BY <1>1, <1>3, <1>4, WholeTable DEF Live, Orderly, OneEach
<1> QED
  BY <1>1, <1>2, <1>3, <1>4, <1>5 DEF Live

\* The table neither grows nor is a slot overwritten.
LEMMA StaysClean ==
    ASSUME Tidy, Orderly, NEW t \in Threads, Step(t)
    PROVE  ~clashed' /\ size' = size /\ at'[t] # "grow"
<1>1. Typing /\ ~clashed /\ at[t] # "grow"
  BY DEF Orderly, Served
<1>2. CASE Insert(t)
  <2> DEFINE f == func[t]
             k == Slot(fn[f].name)
  <2>1. at[t] = "insert" /\ at'[t] = "count" /\ size' = size /\ k \in 0 .. size - 1
        /\ clashed' = (clashed \/ slots[k] \notin {Null, Junk})
    BY <1>1, <1>2, InsertFacts
  <2>2. slots[k] = Null
    <3> SUFFICES ASSUME slots[k] # Null PROVE FALSE
      OBVIOUS
    <3>1. fn[slots[k]].name # fn[f].name /\ fn[f].name \in Names
      BY <2>1, WaitingName
    <3>2. Belongs(k)
      BY <2>1 DEF Orderly, AllClean, Rooted
    <3>3. fn[slots[k]].name \in Names
      BY <1>1, <3>2, FuncParts DEF Belongs
    <3> QED
      BY <3>1, <3>2, <3>3, OneName DEF Belongs, Orderly
  <2> QED
    BY <1>1, <2>1, <2>2
<1>3. CASE \E n \in Names : AddFunction(t, n)
  <2>1. PICK n \in Names : AddFunction(t, n)
    BY <1>3
  <2>2. /\ \A u \in Threads : at[u] \notin Deleting
        /\ \A f \in 1 .. Len(fn) : fn[f].name = n => f \in freed
    BY <2>1 DEF AddFunction, MayBegin, Tidy
  <2>3. length < size
    BY <2>2, NewName, RoomForOne
  <2>4. ~Full
    BY <1>1, <2>3, Numbers DEF Full
  <2>5. at'[t] = "insert"
    BY <1>1, <2>1, <2>4, Shape DEF AddFunction, Go
  <2> QED
    BY <1>1, <2>1, <2>5 DEF AddFunction, fmap
<1>4. CASE ~Insert(t) /\ ~(\E n \in Names : AddFunction(t, n))
  <2>1. ~Grow(t)
    BY <1>1 DEF Grow
  <2>2. UNCHANGED <<clashed, size>>
    BY <1>4, <2>1 DEF Step, Caller, Dispatcher, DelFunction, Lookup, Count,
                  DelScan, DelShrink, DelCopy, DelFree, DelPublish, Uncount, Compare, Run, fmap
  <2>3. at' = at \/ \E l \in {"idle", "scan", "compare", "run", "shrink", "copy", "free", "publish", "uncount"} : Go(t, l)
    BY <1>4, <2>1 DEF Step, Caller, Dispatcher, DelFunction, Lookup, GetFunc, Count, Return,
                  DelScan, DelShrink, DelCopy, DelFree, DelPublish, Uncount, Compare, Run
  <2>4. at'[t] # "grow"
    BY <1>1, <2>3, Shape DEF Go
  <2> QED
    BY <1>1, <2>2, <2>4
<1> QED
  BY <1>2, <1>3, <1>4

\* No step goes wrong.
LEMMA NoFault ==
    ASSUME Tidy, Orderly, NEW t \in Threads, Step(t)
    PROVE  ub' = "none"
<1>1. Typing /\ ub = "none" /\ at[t] # "grow"
  BY DEF Orderly, Served
<1>2. CASE Insert(t)
  <2>1. at[t] = "insert"
    BY <1>2 DEF Insert
  <2>2. length < room /\ shared
    BY <2>1, WaitingName, RoomForOne, WholeTable
  <2>3. ~(length >= room)
    BY <1>1, <2>2, Numbers
  <2> QED
    BY <1>1, <1>2, <2>2, <2>3 DEF Insert
<1>3. CASE \E n \in Names : DelFunction(t, n) \/ Lookup(t, n)
  <2>1. \A u \in Threads : at[u] \notin Deleting
    BY <1>3 DEF DelFunction, Lookup, MayBegin, Tidy
  <2>2. shared
    BY <2>1, WholeTable
  <2> QED
    BY <1>1, <1>3, <2>2 DEF DelFunction, Lookup, GetFunc, Fails
<1>4. CASE DelScan(t)
  <2>1. at[t] = "scan"
    BY <1>4 DEF DelScan
  <2>2. \A u \in Threads : at[u] \notin Deleting \/ at[u] = "scan"
    BY <2>1 DEF Orderly, Exclusive, Deleting
  <2>3. func[t] \in 1 .. Len(fn) /\ fn[func[t]].key \in 0 .. size - 1 /\ slots[fn[func[t]].key] = func[t]
    BY <2>1 DEF Orderly, AllClean, CleanFor, Doomed, Deleting
  <2>4. Live(func[t])
    BY <2>2, <2>3, WholeTable DEF Null
  <2>5. length <= Cardinality(Names)
    <3>1. Rooted /\ Indexes(keys, slots, length) /\ IsFiniteSet(Names)
      BY <2>2, WholeTable DEF Orderly, AllClean, Tidy, Few
    <3>2. \A k \in 0 .. size - 1 : slots[k] # Null => fn[slots[k]].name \in Names
      <4> SUFFICES ASSUME NEW k \in 0 .. size - 1, slots[k] # Null
                   PROVE  fn[slots[k]].name \in Names
        OBVIOUS
      <4>1. slots[k] \in 1 .. Len(fn)
        BY <3>1 DEF Rooted, Belongs
      <4> QED
        BY <1>1, <4>1, FuncParts
    <3>3. Names \in SUBSET Names
      OBVIOUS
    <3> QED
      BY <1>1, <3>1, <3>2, <3>3, KeysAreNames
  <2>6. ASSUME length > 0, length > Chunk(length - 1)
        PROVE  FALSE
    <3>1. length - 1 \in Nat
      BY <1>1, <2>6, Numbers
    <3>2. Chunk(length - 1) >= MinRoom /\ Chunk(length - 1) \in Nat
      BY <3>1, ChunkRoom
    <3>3. Cardinality(Names) <= MinRoom /\ Cardinality(Names) \in Nat
      BY FS_CardinalityType DEF Tidy, Few
    <3> QED
      BY <1>1, <2>5, <2>6, <3>2, <3>3, Numbers
  <2> QED
    BY <1>1, <1>4, <2>4, <2>6 DEF DelScan, Fails
<1>5. CASE DelShrink(t)
  <2>1. at[t] = "shrink"
    BY <1>5 DEF DelShrink
  <2>2. /\ func[t] \in 1 .. Len(fn) /\ fn[func[t]].key \in 0 .. size - 1 /\ slots[fn[func[t]].key] = func[t]
        /\ Indexes(keys, slots, length)
    <3>1. \A u \in Threads : at[u] \notin {"copy", "free", "publish"}
      BY <2>1 DEF Orderly, Exclusive, Deleting
    <3> QED
      BY <2>1, <3>1 DEF Orderly, AllClean, CleanFor, Doomed, Deleting, Half
  <2>3. length # 0
    <3>1. fn[func[t]].key \in DOMAIN slots /\ slots[fn[func[t]].key] # Null
      BY <1>1, <2>2, Shape DEF Null
    <3>2. PICK i \in 0 .. length - 1 : Entry(keys, i) = fn[func[t]].key
      BY <2>2, <3>1 DEF Indexes
    <3> QED
      BY <3>2
  <2> QED
    BY <1>1, <1>5, <2>3 DEF DelShrink
<1>6. CASE DelCopy(t)
  <2>1. at[t] = "copy"
    BY <1>6 DEF DelCopy
  <2>2. shared
    BY <2>1 DEF Orderly, Exclusive, Deleting
  <2>3. Dense(newKeys[t], slots, length) /\ DOMAIN slots = 0 .. size - 1
    BY <1>1, <2>1, Shape DEF Orderly, AllDense, DenseFor
  <2>4. Junk \notin KeptSlots(t)
    BY <2>3 DEF Dense, KeptSlots, Junk
  <2> QED
    BY <1>1, <1>6, <2>2, <2>4 DEF DelCopy
<1>7. CASE DelFree(t)
  <2>1. at[t] = "free"
    BY <1>7 DEF DelFree
  <2>2. \A u \in Threads : at[u] # "publish"
    BY <2>1 DEF Orderly, Exclusive, Deleting
  <2>3. func[t] \in 1 .. Len(fn) /\ fn[func[t]].key \in 0 .. size - 1 /\ slots[fn[func[t]].key] = func[t]
    BY <2>1 DEF Orderly, AllClean, CleanFor, Doomed, Deleting
  <2>4. Live(func[t]) /\ shared
    BY <2>2, <2>3 DEF Orderly, AllClean, KeptAll, Kept, Live, Null
  <2> QED
    BY <1>1, <1>7, <2>4 DEF DelFree, Fails
<1>8. CASE Compare(t) \/ Run(t)
  <2>1. Live(func[t])
    BY <1>8 DEF Compare, Run, Orderly, Served
  <2> QED
    BY <1>1, <1>8, <2>1 DEF Compare, Run
<1>9. CASE (\E n \in Names : AddFunction(t, n)) \/ Count(t) \/ Uncount(t) \/ DelPublish(t) \/ Grow(t)
  BY <1>1, <1>9 DEF AddFunction, Count, Uncount, DelPublish, Grow
<1> QED
  BY <1>2, <1>3, <1>4, <1>5, <1>6, <1>7, <1>8, <1>9 DEF Step, Caller, Dispatcher

LEMMA OneEachNext ==
    ASSUME Tidy, Orderly, NEW t \in Threads, Step(t)
    PROVE  OneEach'
<1>1. Typing /\ OneEach /\ freed \subseteq 1 .. Len(fn) /\ Len(fn) \in Nat
      /\ fn \in Seq([name : Names, key : Nat])
  BY Shape DEF Orderly
<1>2. CASE \E n \in Names : AddFunction(t, n)
  <2>1. PICK n \in Names : AddFunction(t, n)
    BY <1>2
  <2>2. \A f \in 1 .. Len(fn) : fn[f].name = n => f \in freed
    BY <2>1 DEF AddFunction, Tidy
  <2>3. fn' = Append(fn, [name |-> n, key |-> 0]) /\ freed' = freed
    BY <2>1 DEF AddFunction
  <2>4. Len(fn') = Len(fn) + 1 /\ fn'[Len(fn) + 1].name = n /\ \A f \in 1 .. Len(fn) : fn'[f] = fn[f]
    BY <1>1, <2>3
  <2>5. ASSUME NEW f \in 1 .. Len(fn'), NEW g \in 1 .. Len(fn'), f \notin freed, g \notin freed,
               fn'[f].name = fn'[g].name
        PROVE  f = g
    <3>1. \A h \in 1 .. Len(fn') : h \in 1 .. Len(fn) \/ h = Len(fn) + 1
      BY <1>1, <2>4
    <3>2. CASE f \in 1 .. Len(fn) /\ g \in 1 .. Len(fn)
      BY <1>1, <2>4, <2>5, <3>2 DEF OneEach
    <3>3. \A h \in 1 .. Len(fn) : h \notin freed => fn'[h].name # n
      BY <2>2, <2>4
    <3> QED
      BY <2>4, <2>5, <3>1, <3>2, <3>3
  <2> QED
    BY <2>3, <2>5 DEF OneEach
<1>3. CASE Insert(t)
  <2>1. Len(fn') = Len(fn) /\ (\A g \in 1 .. Len(fn) : fn'[g].name = fn[g].name) /\ freed' = freed
    BY <1>1, <1>3, InsertFacts
  <2> QED
    BY <1>1, <2>1 DEF OneEach
<1>4. CASE ~Insert(t) /\ ~(\E n \in Names : AddFunction(t, n))
  <2>1. fn' = fn /\ freed \subseteq freed'
    BY <1>4 DEF Step, Caller, Dispatcher, DelFunction, Lookup, Grow, Count,
                DelScan, DelShrink, DelCopy, DelFree, DelPublish, Uncount, Compare, Run, heap
  <2> QED
    BY <1>1, <2>1 DEF OneEach
<1> QED
  BY <1>2, <1>3, <1>4

LEMMA SharedNext ==
    ASSUME Tidy, Orderly, NEW t \in Threads, Step(t)
    PROVE  shared' <=> \A u \in Threads : at'[u] # "publish"
<1>1. Typing /\ (shared <=> \A u \in Threads : at[u] # "publish")
      /\ \A u \in Threads \ {t} : at'[u] = at[u]
  BY OneMoves DEF Orderly, Others
<1>2. CASE DelFree(t)
  <2>1. at'[t] = "publish" /\ shared' = FALSE
    BY <1>1, <1>2, Shape DEF DelFree, Go
  <2> QED
    BY <2>1
<1>3. CASE DelPublish(t)
  <2>1. at[t] = "publish" /\ at'[t] = "uncount" /\ shared' = TRUE
    BY <1>1, <1>3, Shape DEF DelPublish, Go
  <2>2. \A u \in Threads \ {t} : at[u] # "publish"
    BY <2>1 DEF Orderly, Exclusive, Deleting
  <2> QED
    BY <1>1, <2>1, <2>2
<1>4. CASE ~DelFree(t) /\ ~DelPublish(t)
  <2>1. shared' = shared
    BY <1>4 DEF Step, Caller, Dispatcher, AddFunction, DelFunction, Lookup, Grow, Insert, Count,
                DelScan, DelShrink, DelCopy, Uncount, Compare, Run, fmap
  <2>2. at[t] # "publish" /\ at'[t] # "publish"
    <3>1. at[t] # "publish"
      BY <1>4 DEF Step, Caller, Dispatcher, AddFunction, DelFunction, Lookup, MayBegin, Grow, Insert, Count,
                  DelScan, DelShrink, DelCopy, Uncount, Compare, Run
    <3>2. at' = at \/ \E l \in {"idle", "grow", "insert", "count", "scan", "compare", "run", "shrink", "copy", "free"} : Go(t, l)
      BY <1>4 DEF Step, Caller, Dispatcher, AddFunction, DelFunction, Lookup, GetFunc, Grow, Insert, Count, Return,
                  DelScan, DelShrink, DelCopy, Uncount, Compare, Run
    <3> QED
      BY <1>1, <3>1, <3>2, Shape DEF Go
  <2> QED
    BY <1>1, <2>1, <2>2
<1> QED
  BY <1>2, <1>3, <1>4

LEMMA RoomNext ==
    ASSUME Tidy, Orderly, NEW t \in Threads, Step(t)
    PROVE  room' >= MinRoom
<1>1. Typing /\ room >= MinRoom /\ at[t] # "grow"
  BY DEF Orderly, Served
<1>2. CASE DelPublish(t)
  <2> DEFINE n == IF Len(newKeys[t]) = 0 THEN 0 ELSE Len(newKeys[t]) - 1
  <2>1. newKeys[t] \in Seq(Nat \cup {Junk})
    BY <1>1 DEF Typing, TypeOK, LocalOK
  <2>2. n \in Nat
    BY <2>1, LenProperties
  <2>3. room' = Chunk(n)
    BY <1>2 DEF DelPublish
  <2> HIDE DEF n
  <2> QED
    BY <2>2, <2>3, ChunkRoom
<1>3. CASE ~DelPublish(t)
  <2>1. room' = room
    BY <1>1, <1>3 DEF Step, Caller, Dispatcher, AddFunction, DelFunction, Lookup, Grow, Insert, Count,
                DelScan, DelShrink, DelCopy, DelFree, Uncount, Compare, Run, fmap
  <2> QED
    BY <1>1, <2>1
<1> QED
  BY <1>2, <1>3

\* A job's function stays the one it asks for, and nobody joins a DelFunction.
LEMMA ServedNext ==
    ASSUME Tidy, Orderly, NEW t \in Threads, Step(t)
    PROVE  \A u \in Threads : Served(u)'
<1>1. /\ Typing /\ at'[t] # "grow" /\ Others(t) /\ freed \subseteq 1 .. Len(fn)
      /\ at \in [Threads -> Locations] /\ Len(fn) \in Nat /\ fn \in Seq([name : Names, key : Nat])
  BY StaysClean, OneMoves, Shape DEF Orderly
<1>2. \A u \in Threads \ {t} : at'[u] = at[u] /\ func'[u] = func[u] /\ (u \in Dispatchers => handle'[u] = handle[u])
  BY <1>1 DEF Others
<1>3. \A u \in Threads : Served(u)
  BY DEF Orderly
<1>4. \A u \in Threads : at'[u] # "grow"
  BY <1>1, <1>2, <1>3 DEF Served
<1>5. ASSUME NEW u \in Threads, at'[u] \in Deleting
      PROVE  \A v \in Threads \ {u} : at'[v] = "idle"
  <2>1. CASE at[u] \in Deleting
    <3>1. t = u
      BY <2>1, DeleterOnly
    <3> QED
      BY <1>2, <1>3, <2>1, <3>1 DEF Served
  <2>2. CASE at[u] \notin Deleting
    <3>1. u = t
      BY <1>2, <1>5, <2>2
    <3>2. \A v \in Threads : at[v] = "idle"
      BY <1>1, <1>5, <2>2, <3>1, Edges DEF Tidy
    <3> QED
      BY <1>2, <3>1, <3>2
  <2> QED
    BY <2>1, <2>2
<1>8. ASSUME NEW u \in Threads, at'[u] = "publish"
      PROVE  func'[u] \in freed'
  <2>1. CASE at[u] = "publish"
    <3>1. t = u
      BY <2>1, DeleterOnly DEF Deleting
    <3>2. DelPublish(t)
      BY <2>1, <3>1 DEF Step, Caller, Dispatcher, AddFunction, DelFunction, Lookup, MayBegin, Grow, Insert, Count,
             DelScan, DelShrink, DelCopy, DelFree, Uncount, Compare, Run
    <3>3. at'[t] = "uncount"
      BY <1>1, <3>2 DEF DelPublish, Go
    <3> QED
      BY <1>8, <3>1, <3>3
  <2>2. CASE at[u] # "publish"
    <3>1. t = u
      BY <1>2, <1>8, <2>2
    <3>2. at' = at \/ DelFree(t) \/ \E l \in {"idle", "grow", "insert", "count", "scan", "compare", "run", "shrink", "copy", "free", "uncount"} : Go(t, l)
      BY DEF Step, Caller, Dispatcher, AddFunction, DelFunction, Lookup, GetFunc, Grow, Insert, Count, Return,
             DelScan, DelShrink, DelCopy, DelPublish, Uncount, Compare, Run
    <3>3. DelFree(t)
      BY <1>1, <1>8, <2>2, <3>1, <3>2 DEF Go
    <3> QED
      BY <3>1, <3>3 DEF DelFree, local
  <2> QED
    BY <2>1, <2>2
<1>6. CASE DelFree(t)
  <2>1. at[t] \in Deleting /\ at'[t] = "publish"
    BY <1>1, <1>6 DEF DelFree, Deleting, Go
  <2>2. \A u \in Threads : at'[u] \notin {"compare", "run"}
    BY <1>2, <1>3, <2>1 DEF Served
  <2> QED
    BY <1>4, <1>5, <1>8, <2>2 DEF Served
<1>7. CASE ~DelFree(t)
  <2>1. freed' = freed
    BY <1>7 DEF Step, Caller, Dispatcher, AddFunction, DelFunction, Lookup, Grow, Insert, Count,
                DelScan, DelShrink, DelCopy, DelPublish, Uncount, Compare, Run, heap
  <2>2. NamesKept /\ Len(fn') \in Nat
    BY <1>1, NamesNext
  <2>3. ASSUME NEW f, Live(f)
        PROVE  Live(f)' /\ fn'[f].name = fn[f].name
    BY <1>1, <2>1, <2>2, <2>3 DEF Live, NamesKept
  <2>4. ASSUME NEW u \in Dispatchers, u \in Threads, at[u] \in {"compare", "run"},
               func'[u] = func[u], handle'[u] = handle[u]
        PROVE  Live(func[u])' /\ fn'[func'[u]].name = handle'[u]
    <3>1. Live(func[u]) /\ fn[func[u]].name = handle[u]
      BY <1>3, <2>4 DEF Served
    <3> QED
      BY <2>3, <2>4, <3>1
  <2>5. ASSUME NEW n \in Names, t \in Dispatchers, Lookup(t, n), at'[t] # "idle"
        PROVE  Live(func[t])' /\ fn'[func'[t]].name = handle'[t]
    <3>1. GetFunc(t, n, "compare") /\ fn' = fn /\ Rooted /\ size = InitSize
      BY <2>5 DEF Lookup, heap, Orderly, AllClean
    <3>2. Slot(n) \in 0 .. size - 1 /\ func'[t] = slots[Slot(n)] /\ func'[t] # Null /\ Belongs(Slot(n))
      BY <1>1, <2>5, <3>1, GetFuncClean
    <3>3. \A u \in Threads : at[u] \notin Deleting
      BY <2>5 DEF Lookup, MayBegin, Tidy
    <3>4. Live(func'[t])
      BY <3>2, <3>3, WholeTable
    <3>5. fn[func'[t]].name \in Names
      BY <1>1, <3>2, FuncParts DEF Belongs
    <3>6. fn[func'[t]].name = n
      BY <3>1, <3>2, <3>5, OneName DEF Belongs
    <3>7. handle'[t] = n
      BY <1>1, <2>5 DEF Lookup, Typing, TypeOK, LocalOK
    <3> QED
      BY <2>3, <3>4, <3>6, <3>7
  <2>6. ASSUME NEW u \in Threads, at'[u] \in {"compare", "run"}
        PROVE  u \in Dispatchers /\ Live(func[u])' /\ fn'[func'[u]].name = handle'[u]
    <3>1. CASE u # t
      <4>1. u \in Dispatchers /\ at[u] \in {"compare", "run"} /\ func'[u] = func[u] /\ handle'[u] = handle[u]
        BY <1>2, <1>3, <2>6, <3>1 DEF Served
      <4> QED
        BY <2>4, <4>1
    <3>2. CASE u = t /\ \E n \in Names : t \in Dispatchers /\ Lookup(t, n)
      BY <2>5, <2>6, <3>2
    <3>3. CASE u = t /\ ~\E n \in Names : t \in Dispatchers /\ Lookup(t, n)
      <4>1. Compare(t) \/ Run(t)
        <5>1. Caller(t) => at'[t] \notin {"compare", "run"}
          <6>1. Caller(t) /\ at' # at =>
                    \E l \in {"idle", "grow", "insert", "count", "scan", "shrink", "copy", "free", "publish", "uncount"} : Go(t, l)
            BY DEF Caller, AddFunction, DelFunction, GetFunc, Grow, Insert, Count, Return,
                   DelScan, DelShrink, DelCopy, DelFree, DelPublish, Uncount
          <6>2. Caller(t) /\ at' = at => at[t] \notin {"compare", "run"}
            BY DEF Caller, AddFunction, DelFunction, MayBegin, Grow, Insert, Count,
                   DelScan, DelShrink, DelCopy, DelFree, DelPublish, Uncount
          <6> QED
            BY <1>1, <6>1, <6>2 DEF Go
        <5> QED
          BY <2>6, <3>3, <5>1 DEF Step, Dispatcher
      <4>2. t \in Dispatchers /\ at[t] \in {"compare", "run"}
        BY <1>3, <4>1 DEF Compare, Run, Served
      <4>3. UNCHANGED local
        <5>1. Live(func[t])
          BY <1>3, <4>2 DEF Served
        <5>2. ~Return(t)
          BY <1>1, <2>6, <3>3 DEF Return, Go
        <5> QED
          BY <4>1, <5>1, <5>2 DEF Compare, Run
      <4> QED
        BY <2>4, <3>3, <4>2, <4>3 DEF local
    <3> QED
      BY <3>1, <3>2, <3>3
  <2> QED
    BY <1>4, <1>5, <1>8, <2>6 DEF Served
<1> QED
  BY <1>6, <1>7

LEMMA NextSafe ==
    ASSUME Tidy
    PROVE  SafeAll /\ [Next]_vars => SafeAll'
<1> SUFFICES ASSUME SafeAll, [Next]_vars PROVE SafeAll'
  OBVIOUS
<1>1. SlotsAll'
  <2>1. Lone /\ Typing /\ KeptInv /\ TableInv /\ SlotsInv
    BY DEF Tidy, Lone, SafeAll, SlotsAll
  <2>2. Typing' /\ KeptInv' /\ TableInv'
    BY <2>1, NextTyping, NextKept, NextTable
  <2> QED
    BY <2>1, <2>2, NextSlots DEF SlotsAll
<1>2. Safe'
  <2>1. CASE Next
    <3>1. Orderly
      BY SafeFacts
    <3>2. PICK t \in Threads : Step(t)
      BY <2>1 DEF Next, Step, Threads
    <3>3. ub' = "none" /\ Clean'
      BY <3>1, <3>2, NoFault, StaysClean DEF Clean, Orderly
    <3>4. OneEach' /\ room' >= MinRoom
      BY <3>1, <3>2, OneEachNext, RoomNext
    <3>5. (shared' <=> \A u \in Threads : at'[u] # "publish") /\ \A u \in Threads : Served(u)'
      BY <3>1, <3>2, SharedNext, ServedNext
    <3> QED
      BY <3>3, <3>4, <3>5 DEF Safe
  <2>2. CASE UNCHANGED vars
    <3>1. Safe
      BY DEF SafeAll
    <3> QED
      BY <2>2, <3>1 DEF vars, fmap, heap, local, Safe, Clean, OneEach, Served, Live
  <2> QED
    BY <2>1, <2>2
<1> QED
  BY <1>1, <1>2 DEF SafeAll

LEMMA InitSafe == Init => SafeAll
<1> SUFFICES ASSUME Init PROVE SafeAll
  OBVIOUS
<1>1. SlotsAll
  BY InitTyping, InitKept, InitTable, InitSlots DEF SlotsAll
<1>2. \A t \in Threads : at[t] = "idle"
  BY DEF Init
<1>3. \A t \in Threads : Served(t)
  BY <1>2 DEF Served, Deleting
<1>4. OneEach
  BY DEF Init, OneEach
<1>5. room >= MinRoom
  BY ChunkRoom, RegistryAssumption DEF Init
<1>6. ub = "none" /\ Clean /\ shared
  BY DEF Init, Clean
<1> QED
  BY <1>1, <1>2, <1>3, <1>4, <1>5, <1>6 DEF SafeAll, Safe

LEMMA AlwaysSafe == ASSUME Tidy PROVE Spec => []SafeAll
<1>1. SafeAll /\ [Next]_vars => SafeAll'
  BY NextSafe
<1> QED
  BY <1>1, InitSafe, PTL DEF Spec

\* AddFunc, GetFunc and DelFunc of worker/function.c, and WorkerDo's use of
\* what it got, never touch memory they must not: for an application that
\* registers no name twice and lets DelFunction run alone, with names that
\* have slots of their own and no more of them than malloc's smallest chunk
\* of keys has room for, whatever the number of threads.
THEOREM DisciplinedIsSafe == ASSUME Tidy PROVE Spec => []NoUndefinedBehaviour
<1>1. SafeAll => NoUndefinedBehaviour
  BY DEF SafeAll, Safe, NoUndefinedBehaviour
<1> QED
  BY <1>1, AlwaysSafe, PTL

-----------------------------------------------------------------------------
(* A disciplined application sees a set of names.                          *)

Registered == {n \in Names : Callable(n)}
Calling == [t \in Threads |-> CallOf(t)]
NoCall == [op |-> "none", done |-> FALSE]
Call(op, n, done) == [op |-> op, name |-> n, done |-> done]
Job(n) == [op |-> "run", name |-> n]

\* What each thread's call is to the application.
LEMMA CallIdle ==
    ASSUME NEW t \in Threads, at[t] = "idle"
    PROVE  CallOf(t) = NoCall
BY DEF CallOf, NoCall, Adding, Deleting

LEMMA CallAdd ==
    ASSUME NEW t \in Threads, at[t] \in Adding
    PROVE  CallOf(t) = Call("add", fn[func[t]].name, at[t] = "count")
<1>1. at[t] # "idle" /\ at[t] \notin Deleting
  BY DEF Adding, Deleting
<1> QED
  BY <1>1 DEF CallOf, Call

LEMMA CallDel ==
    ASSUME NEW t \in Threads, at[t] \in Deleting
    PROVE  CallOf(t) = Call("del", fn[func[t]].name, at[t] \in {"publish", "uncount"})
<1>1. at[t] # "idle" /\ at[t] \notin Adding
  BY DEF Adding, Deleting
<1> QED
  BY <1>1 DEF CallOf, Call

LEMMA CallRun ==
    ASSUME NEW t \in Threads, at[t] \in {"compare", "run"}
    PROVE  CallOf(t) = Job(handle[t])
<1>1. at[t] # "idle" /\ at[t] \notin Adding /\ at[t] \notin Deleting
  BY DEF Adding, Deleting
<1> QED
  BY <1>1 DEF CallOf, Job

\* A call that takes effect.
Done(call, done) == [call EXCEPT !.done = done]

LEMMA CallDone ==
    ASSUME NEW op, NEW n, NEW b, NEW c
    PROVE  Done(Call(op, n, b), c) = Call(op, n, c)
BY DEF Call, Done

LEMMA CallEffect ==
    ASSUME NEW op, NEW n, NEW c, c = Call(op, n, FALSE)
    PROVE  Done(c, TRUE) = Call(op, n, TRUE)
BY CallDone

\* The steps of the abstract registry.
LEMMA ToBegin ==
    ASSUME NEW t \in Threads, NEW op \in {"add", "del"}, NEW n \in Names, CallOf(t) = NoCall,
           Calling' = [Calling EXCEPT ![t] = Call(op, n, FALSE)], Registered' = Registered
    PROVE  Service!Next
<1>1. Calling[t] = NoCall
  BY DEF Calling
<1>2. Service!Begin(t, op, n)
  BY <1>1 DEF Service!Begin, Service!None, Calling, Registered, NoCall, Call
<1> QED
  BY <1>2 DEF Service!Next

LEMMA ToRegister ==
    ASSUME NEW t \in Threads, NEW n \in Names, CallOf(t) = Call("add", n, FALSE),
           Calling' = [Calling EXCEPT ![t] = Call("add", n, TRUE)], Registered' = Registered \cup {n}
    PROVE  Service!Next
<1>1. Calling[t] = Call("add", n, FALSE)
  BY DEF Calling
<1>2. Calling[t].op = "add" /\ ~Calling[t].done /\ Calling[t].name = n
  BY <1>1 DEF Call
<1>3. [Calling[t] EXCEPT !.done = TRUE] = Call("add", n, TRUE)
  <2>1. Done(Calling[t], TRUE) = Call("add", n, TRUE)
    BY <1>1, CallEffect
  <2> QED
    BY <2>1 DEF Done
<1>4. Service!Register(t)
  BY <1>2, <1>3 DEF Service!Register, Calling, Registered
<1> QED
  BY <1>4 DEF Service!Next

LEMMA ToDelete ==
    ASSUME NEW t \in Threads, NEW n \in Names, CallOf(t) = Call("del", n, FALSE),
           \A u \in Threads : CallOf(u) # Job(n),
           Calling' = [Calling EXCEPT ![t] = Call("del", n, TRUE)], Registered' = Registered \ {n}
    PROVE  Service!Next
<1>1. Calling[t] = Call("del", n, FALSE) /\ \A u \in Threads : Calling[u] # Job(n)
  BY DEF Calling
<1>2. Calling[t].op = "del" /\ ~Calling[t].done /\ Calling[t].name = n
  BY <1>1 DEF Call
<1>3. [Calling[t] EXCEPT !.done = TRUE] = Call("del", n, TRUE)
  <2>1. Done(Calling[t], TRUE) = Call("del", n, TRUE)
    BY <1>1, CallEffect
  <2> QED
    BY <2>1 DEF Done
<1>4. Service!Delete(t)
  BY <1>1, <1>2, <1>3 DEF Service!Delete, Calling, Registered, Job
<1> QED
  BY <1>4 DEF Service!Next

LEMMA ToRunJob ==
    ASSUME NEW t \in Threads, NEW n \in Names, CallOf(t) = NoCall, Callable(n),
           Calling' = [Calling EXCEPT ![t] = Job(n)], Registered' = Registered
    PROVE  Service!Next
<1>1. Calling[t] = NoCall /\ n \in Registered
  BY DEF Calling, Registered
<1>2. Service!RunJob(t, n)
  BY <1>1 DEF Service!RunJob, Service!None, Calling, Registered, NoCall, Job
<1> QED
  BY <1>2 DEF Service!Next

LEMMA ToEnd ==
    ASSUME NEW t \in Threads, NEW n, NEW op, CallOf(t) = Job(n) \/ CallOf(t) = Call(op, n, TRUE),
           Calling' = [Calling EXCEPT ![t] = NoCall], Registered' = Registered
    PROVE  Service!Next
<1>1. Calling[t] = Job(n) \/ Calling[t] = Call(op, n, TRUE)
  BY DEF Calling
<1>2. Calling[t].op = "run" \/ Calling[t].done
  BY <1>1 DEF Job, Call
<1>3. Service!End(t)
  BY <1>2 DEF Service!End, Service!None, Calling, Registered, NoCall
<1> QED
  BY <1>3 DEF Service!Next

\* The calls of the other threads go on as they were.
LEMMA CallsMove ==
    ASSUME Tidy, Orderly, NEW t \in Threads, Step(t), NamesKept
    PROVE  /\ \A u \in Threads \ {t} : CallOf(u)' = CallOf(u)
           /\ Calling' = [Calling EXCEPT ![t] = CallOf(t)']
<1>1. Typing /\ \A u \in Threads : Served(u)
  BY DEF Orderly
<1>2. ASSUME NEW u \in Threads \ {t}
      PROVE  CallOf(u)' = CallOf(u)
  <2>1. at'[u] = at[u] /\ func'[u] = func[u] /\ (u \in Dispatchers => handle'[u] = handle[u])
    BY <1>1, OneMoves DEF Others
  <2>2. ASSUME at[u] \in Adding \cup Deleting
        PROVE  fn'[func'[u]].name = fn[func[u]].name
    <3>1. func[u] \in 1 .. Len(fn)
      <4>1. CASE at[u] = "scan"
        BY <4>1 DEF Orderly, AllClean, CleanFor, Doomed, Deleting
      <4>2. CASE at[u] # "scan"
        BY <1>1, <2>2, <4>2 DEF Typing, FuncKnown
      <4> QED
        BY <4>1, <4>2
    <3> QED
      BY <2>1, <3>1 DEF NamesKept
  <2>3. CASE at[u] \in Adding
    <3>1. CallOf(u) = Call("add", fn[func[u]].name, at[u] = "count")
      BY <2>3, CallAdd
    <3>2. CallOf(u)' = Call("add", fn[func[u]].name, at[u] = "count")'
      BY <2>1, <2>3 DEF CallOf, Call, Adding, Deleting
    <3> QED
      BY <2>1, <2>2, <2>3, <3>1, <3>2 DEF Call
  <2>4. CASE at[u] \in Deleting
    BY <2>1, <2>2, <2>4 DEF CallOf, Adding, Deleting
  <2>5. CASE at[u] \in {"compare", "run"}
    BY <1>1, <2>1, <2>5 DEF CallOf, Adding, Deleting, Served
  <2>6. CASE at[u] = "idle"
    BY <2>1, <2>6 DEF CallOf, Adding, Deleting
  <2> QED
    BY <1>1, <2>3, <2>4, <2>5, <2>6, Shape DEF Locations
<1>3. Calling' = [u \in Threads |-> CallOf(u)'] /\ Calling = [u \in Threads |-> CallOf(u)]
  BY DEF Calling
<1> QED
  BY <1>2, <1>3

\* The names in the registry are those in the table: a step that leaves the
\* table alone leaves them alone.
LEMMA NamesSame ==
    ASSUME Orderly, NamesKept, Len(fn') \in Nat, UNCHANGED <<size, slots, freed>>
    PROVE  Registered' = Registered
<1>1. Typing /\ Rooted /\ Len(fn) \in Nat
  BY Shape DEF Orderly, AllClean
<1>2. ASSUME NEW n \in Names
      PROVE  Callable(n)' <=> Callable(n)
  <2>1. Slot(n) \in 0 .. size - 1 /\ Slot(n)' = Slot(n)
    BY <1>1, SlotInRange, Shape DEF Slot
  <2>2. slots[Slot(n)] = Null \/ slots[Slot(n)] \in 1 .. Len(fn)
    BY <1>1, <2>1 DEF Rooted, Belongs
  <2>3. slots[Slot(n)] = Null => ~Callable(n) /\ ~Callable(n)'
    BY <2>1 DEF Callable, Live, Null
  <2>4. slots[Slot(n)] \in 1 .. Len(fn) => (Callable(n)' <=> Callable(n))
    BY <1>1, <2>1 DEF Callable, Live, NamesKept
  <2> QED
    BY <2>2, <2>3, <2>4
<1> QED
  BY <1>2 DEF Registered

\* A Func that is not in any slot, and then is.
LEMMA InsertNames ==
    ASSUME Tidy, Orderly, NEW t \in Threads, Insert(t)
    PROVE  Registered' = Registered \cup {fn[func[t]].name}
<1> DEFINE f == func[t]
           k == Slot(fn[f].name)
<1>1. /\ at[t] = "insert" /\ at'[t] = "count" /\ UNCHANGED <<size, freed, func, handle>>
      /\ f \in 1 .. Len(fn) /\ k \in 0 .. size - 1 /\ size' = size
      /\ Len(fn') = Len(fn) /\ \A g \in 1 .. Len(fn) : fn'[g].name = fn[g].name
      /\ slots' = [slots EXCEPT ![k] = f]
  BY InsertFacts DEF Orderly
<1>2. fn[f].name \in Names /\ Live(f) /\ size = InitSize /\ Typing /\ Rooted
  BY <1>1, WaitingName DEF Orderly, AllClean
<1>3. slots \in [0 .. size - 1 -> Pointers]
  BY <1>2, Shape
<1>4. slots'[k] = f /\ \A j \in (0 .. size - 1) \ {k} : slots'[j] = slots[j]
  BY <1>1, <1>3
<1>5. \A g : Live(g)' <=> Live(g)
  BY <1>1 DEF Live
<1>6. \A n \in Names : Slot(n) \in 0 .. size - 1 /\ Slot(n)' = Slot(n) /\ (Slot(n) = k <=> n = fn[f].name)
  BY <1>1, <1>2, SlotInRange, OneName, Shape DEF Slot
<1> HIDE DEF f, k
<1>7. ASSUME NEW n \in Names
      PROVE  Callable(n)' <=> Callable(n) \/ n = fn[f].name
  <2>1. CASE n = fn[f].name
    BY <1>1, <1>2, <1>4, <1>5, <1>6, <2>1 DEF Callable
  <2>2. CASE n # fn[f].name
    <3>1. slots'[Slot(n)] = slots[Slot(n)]
      BY <1>4, <1>6, <2>2
    <3> QED
      BY <1>1, <1>5, <1>6, <2>2, <3>1 DEF Callable, Live
  <2> QED
    BY <2>1, <2>2
<1> QED
  BY <1>2, <1>7 DEF Registered, f

\* A Func that is freed and still in its slot.
LEMMA FreeNames ==
    ASSUME Tidy, Orderly, NEW t \in Threads, DelFree(t)
    PROVE  /\ func[t] \in 1 .. Len(fn) /\ fn[func[t]].name \in Names
           /\ Registered' = Registered \ {fn[func[t]].name}
<1> DEFINE f == func[t]
           k == fn[f].key
<1>1. at[t] = "free" /\ freed' = freed \cup {f} /\ UNCHANGED <<size, slots, fn>>
  BY DEF DelFree
<1>2. Typing /\ Rooted /\ size = InitSize
  BY DEF Orderly, AllClean
<1>3. f \in 1 .. Len(fn) /\ k \in 0 .. size - 1 /\ slots[k] = f
  BY <1>1 DEF Orderly, AllClean, CleanFor, Doomed, Deleting
<1>4. fn[f].name \in Names
  BY <1>2, <1>3, FuncParts
<1>5. Slot(fn[f].name) = k
  BY <1>2, <1>3 DEF Rooted, Belongs, Null
<1> HIDE DEF f, k
<1>6. ASSUME NEW n \in Names
      PROVE  Callable(n)' <=> Callable(n) /\ n # fn[f].name
  <2>1. Slot(n)' = Slot(n) /\ (Slot(n) = k <=> n = fn[f].name)
    BY <1>1, <1>2, <1>4, <1>5, OneName DEF Slot
  <2>2. CASE n = fn[f].name
    <3>1. slots'[Slot(n)'] = f /\ f \in freed'
      BY <1>1, <1>3, <2>1, <2>2
    <3> QED
      BY <2>2, <3>1 DEF Callable, Live
  <2>3. CASE n # fn[f].name
    <3>1. slots[Slot(n)] = f => fn[slots[Slot(n)]].name # n
      BY <2>3
    <3> QED
      BY <1>1, <2>1, <2>3, <3>1 DEF Callable, Live
  <2> QED
    BY <2>2, <2>3
<1> QED
  BY <1>3, <1>4, <1>6 DEF Registered, f

\* It is taken out of its slot when no name leads to it any more.
LEMMA PublishNames ==
    ASSUME Tidy, Orderly, NEW t \in Threads, DelPublish(t)
    PROVE  Registered' = Registered
<1> DEFINE f == func[t]
           k == fn[f].key
<1>1. /\ at[t] = "publish" /\ slots' = newSlots[t] /\ UNCHANGED <<size, fn, freed>>
  BY PublishFacts DEF Orderly, heap
<1>2. Typing /\ Served(t) /\ DOMAIN slots = 0 .. size - 1
  BY Shape DEF Orderly
<1>3. newSlots[t] = Without(t) /\ f \in freed /\ k \in 0 .. size - 1 /\ slots[k] = f
  BY <1>1, <1>2 DEF Orderly, AllClean, CleanFor, Doomed, Deleting, Served
<1>4. slots' = [slots EXCEPT ![k] = Null]
  BY <1>1, <1>3 DEF Without
<1> HIDE DEF f, k
<1>5. slots'[k] = Null /\ \A j \in (0 .. size - 1) \ {k} : slots'[j] = slots[j]
  BY <1>2, <1>3, <1>4
<1>6. ASSUME NEW n \in Names
      PROVE  Callable(n)' <=> Callable(n)
  <2>1. Slot(n)' = Slot(n) /\ Slot(n) \in 0 .. size - 1
    BY <1>1, <1>2, SlotInRange, Shape DEF Slot
  <2>2. CASE Slot(n) = k
    <3>1. ~Live(f) /\ ~Live(Null)'
      BY <1>3 DEF Live, Null
    <3> QED
      BY <1>3, <1>5, <2>1, <2>2, <3>1 DEF Callable
  <2>3. CASE Slot(n) # k
    BY <1>1, <1>5, <2>1, <2>3 DEF Callable, Live
  <2> QED
    BY <2>2, <2>3
<1> QED
  BY <1>6 DEF Registered

\* What each step of the registry is to the application.
Implements == Service!Next \/ (Registered' = Registered /\ Calling' = Calling)

\* A step of one thread, once its call before and after is known.
LEMMA Mapped ==
    ASSUME Tidy, Orderly, NEW t \in Threads, Step(t)
    PROVE  /\ \A u \in Threads \ {t} : CallOf(u)' = CallOf(u)
           /\ Calling' = [Calling EXCEPT ![t] = CallOf(t)']
           /\ CallOf(t)' = CallOf(t) => Calling' = Calling
           /\ UNCHANGED <<size, slots, freed>> => Registered' = Registered
<1>1. NamesKept /\ Len(fn') \in Nat
  BY NamesNext DEF Orderly
<1>2. /\ \A u \in Threads \ {t} : CallOf(u)' = CallOf(u)
      /\ Calling' = [Calling EXCEPT ![t] = CallOf(t)']
  BY <1>1, CallsMove
<1>3. CallOf(t)' = CallOf(t) => Calling' = Calling
  <2>1. CallOf(t)' = CallOf(t) => \A u \in Threads : CallOf(u)' = CallOf(u)
    BY <1>2
  <2> QED
    BY <2>1 DEF Calling
<1>4. UNCHANGED <<size, slots, freed>> => Registered' = Registered
  BY <1>1, NamesSame
<1> QED
  BY <1>2, <1>3, <1>4

LEMMA AddImplements ==
    ASSUME Tidy, Orderly, Typing', NEW t \in Threads, NEW n \in Names, AddFunction(t, n), Step(t)
    PROVE  Implements
<1>1. Typing /\ at[t] = "idle" /\ UNCHANGED <<size, slots, freed>>
  BY DEF Orderly, AddFunction, MayBegin, fmap
<1>2. at'[t] = "insert" /\ fn'[func'[t]].name = n
  <2>1. at'[t] \in {"grow", "insert"} /\ func'[t] = Len(fn) + 1
    BY <1>1, Shape DEF AddFunction, Go
  <2>2. fn' = Append(fn, [name |-> n, key |-> 0])
    BY DEF AddFunction
  <2>3. fn'[Len(fn) + 1] = [name |-> n, key |-> 0]
    BY <1>1, <2>2, Shape
  <2> QED
    BY <2>1, <2>3, StaysClean
<1>3. CallOf(t) = NoCall
  BY <1>1, CallIdle
<1>4. CallOf(t)' = Call("add", n, FALSE)
  <2>1. CallOf(t)' = Call("add", fn[func[t]].name, at[t] = "count")'
    BY <1>2 DEF CallOf, Call, Adding, Deleting
  <2>2. (at[t] = "count")' = FALSE
    BY <1>2
  <2> QED
    BY <1>2, <2>1, <2>2 DEF Call
<1>5. Calling' = [Calling EXCEPT ![t] = Call("add", n, FALSE)] /\ Registered' = Registered
  BY <1>1, <1>4, Mapped
<1> QED
  BY <1>3, <1>5, ToBegin DEF Implements

LEMMA InsertImplements ==
    ASSUME Tidy, Orderly, NEW t \in Threads, Insert(t), Step(t)
    PROVE  Implements
<1> DEFINE n == fn[func[t]].name
<1>1. /\ at[t] = "insert" /\ at'[t] = "count" /\ UNCHANGED func /\ func[t] \in 1 .. Len(fn)
      /\ \A g \in 1 .. Len(fn) : fn'[g].name = fn[g].name
  BY InsertFacts DEF Orderly
<1>2. n \in Names /\ fn'[func'[t]].name = n
  BY <1>1, FuncParts DEF Orderly
<1>3. CallOf(t) = Call("add", n, FALSE)
  <2>1. CallOf(t) = Call("add", n, at[t] = "count")
    BY <1>1, CallAdd DEF Adding
  <2>2. (at[t] = "count") = FALSE
    BY <1>1
  <2> QED
    BY <2>1, <2>2
<1>4. CallOf(t)' = Call("add", n, TRUE)
  <2>1. CallOf(t)' = Call("add", fn[func[t]].name, at[t] = "count")'
    BY <1>1 DEF CallOf, Call, Adding, Deleting
  <2>2. (at[t] = "count")' = TRUE
    BY <1>1
  <2> HIDE DEF n
  <2> QED
    BY <1>2, <2>1, <2>2 DEF Call
<1>5. Registered' = Registered \cup {n}
  BY InsertNames
<1> HIDE DEF n
<1>6. Calling' = [Calling EXCEPT ![t] = Call("add", n, TRUE)]
  BY <1>4, Mapped
<1> QED
  BY <1>2, <1>3, <1>5, <1>6, ToRegister DEF Implements

LEMMA DelFunctionImplements ==
    ASSUME Tidy, Orderly, NEW t \in Threads, NEW n \in Names, DelFunction(t, n), Step(t)
    PROVE  Implements
<1>1. /\ Typing /\ Rooted /\ size = InitSize /\ at[t] = "idle" /\ UNCHANGED <<size, slots, freed, fn>>
      /\ GetFunc(t, n, "scan")
  BY DEF Orderly, AllClean, DelFunction, MayBegin, fmap, heap
<1>2. CallOf(t) = NoCall
  BY <1>1, CallIdle
<1>3. CASE at'[t] = "idle"
  <2>1. CallOf(t)' = NoCall
    BY <1>3 DEF CallOf, NoCall, Adding, Deleting
  <2> QED
    BY <1>1, <1>2, <2>1, Mapped DEF Implements
<1>4. CASE at'[t] # "idle"
  <2>1. at'[t] = "scan" /\ func'[t] = slots[Slot(n)] /\ Belongs(Slot(n))
    BY <1>1, <1>4, GetFuncClean
  <2>2. fn'[func'[t]].name = n
    <3>1. fn[func'[t]].name \in Names /\ Slot(fn[func'[t]].name) = Slot(n)
      BY <1>1, <2>1, FuncParts DEF Belongs
    <3> QED
      BY <1>1, <3>1, OneName
  <2>3. CallOf(t)' = Call("del", n, FALSE)
    <3>1. CallOf(t)' = Call("del", fn[func[t]].name, at[t] \in {"publish", "uncount"})'
      BY <2>1 DEF CallOf, Call, Adding, Deleting
    <3>2. (at[t] \in {"publish", "uncount"})' = FALSE
      BY <2>1
    <3> QED
      BY <2>2, <3>1, <3>2 DEF Call
  <2>4. Calling' = [Calling EXCEPT ![t] = Call("del", n, FALSE)] /\ Registered' = Registered
    BY <1>1, <2>3, Mapped
  <2> QED
    BY <1>2, <2>4, ToBegin DEF Implements
<1> QED
  BY <1>3, <1>4

\* DelFunc before it frees the function.
LEMMA ScanImplements ==
    ASSUME Tidy, Orderly, NEW t \in Threads, DelScan(t) \/ DelShrink(t) \/ DelCopy(t), Step(t)
    PROVE  Implements
<1>1. /\ at[t] \in {"scan", "shrink", "copy"} /\ at'[t] \in {"scan", "shrink", "copy", "free"}
      /\ UNCHANGED <<size, slots, freed, fn, func>>
  BY Shape DEF Orderly, DelScan, DelShrink, DelCopy, Go, fmap, heap, local
<1>2. CallOf(t)' = CallOf(t)
  <2>1. at[t] \in Deleting /\ at'[t] \in Deleting
    BY <1>1 DEF Deleting
  <2>2. (at[t] \in {"publish", "uncount"}) = (at[t] \in {"publish", "uncount"})'
    BY <1>1
  <2> QED
    BY <1>1, <2>1, <2>2 DEF CallOf, Adding, Deleting
<1> QED
  BY <1>1, <1>2, Mapped DEF Implements

LEMMA FreeImplements ==
    ASSUME Tidy, Orderly, NEW t \in Threads, DelFree(t), Step(t)
    PROVE  Implements
<1> DEFINE n == fn[func[t]].name
<1>1. at[t] = "free" /\ at'[t] = "publish" /\ UNCHANGED <<fn, func>>
  BY Shape DEF Orderly, DelFree, Go, local
<1>2. n \in Names /\ Registered' = Registered \ {n}
  BY FreeNames
<1>3. CallOf(t) = Call("del", n, FALSE)
  <2>1. CallOf(t) = Call("del", n, at[t] \in {"publish", "uncount"})
    BY <1>1, CallDel DEF Deleting
  <2>2. (at[t] \in {"publish", "uncount"}) = FALSE
    BY <1>1
  <2> QED
    BY <2>1, <2>2
<1>4. CallOf(t)' = Call("del", n, TRUE)
  <2>1. CallOf(t)' = Call("del", fn[func[t]].name, at[t] \in {"publish", "uncount"})'
    BY <1>1 DEF CallOf, Call, Adding, Deleting
  <2>2. (at[t] \in {"publish", "uncount"})' = TRUE
    BY <1>1
  <2>3. fn'[func'[t]].name = n
    BY <1>1
  <2> HIDE DEF n
  <2> QED
    BY <2>1, <2>2, <2>3 DEF Call
<1>5. \A u \in Threads : CallOf(u) # Job(n)
  <2>1. \A u \in Threads \ {t} : at[u] = "idle"
    BY <1>1 DEF Orderly, Served, Deleting
  <2>2. \A u \in Threads \ {t} : CallOf(u) = NoCall
    BY <2>1, CallIdle
  <2>3. NoCall # Job(n) /\ Call("del", n, FALSE) # Job(n)
    BY DEF NoCall, Job, Call
  <2> HIDE DEF n
  <2> QED
    BY <1>3, <2>2, <2>3
<1> HIDE DEF n
<1>6. Calling' = [Calling EXCEPT ![t] = Call("del", n, TRUE)]
  BY <1>4, Mapped
<1> QED
  BY <1>2, <1>3, <1>5, <1>6, ToDelete DEF Implements

LEMMA PublishImplements ==
    ASSUME Tidy, Orderly, NEW t \in Threads, DelPublish(t), Step(t)
    PROVE  Implements
<1>1. at[t] = "publish" /\ at'[t] = "uncount" /\ UNCHANGED <<fn, func>>
  BY Shape DEF Orderly, DelPublish, Go, heap, local
<1>2. CallOf(t)' = CallOf(t)
  <2>1. at[t] \in Deleting /\ at'[t] \in Deleting
    BY <1>1 DEF Deleting
  <2>2. (at[t] \in {"publish", "uncount"}) = (at[t] \in {"publish", "uncount"})'
    BY <1>1
  <2> QED
    BY <1>1, <2>1, <2>2 DEF CallOf, Adding, Deleting
<1> QED
  BY <1>2, PublishNames, Mapped DEF Implements

LEMMA LookupImplements ==
    ASSUME Tidy, Orderly, Typing', NEW t \in Dispatchers, t \in Threads, NEW n \in Names, Lookup(t, n), Step(t)
    PROVE  Implements
<1>1. /\ Typing /\ Rooted /\ size = InitSize /\ at[t] = "idle" /\ UNCHANGED <<size, slots, freed, fn>>
      /\ GetFunc(t, n, "compare")
  BY DEF Orderly, AllClean, Lookup, MayBegin, fmap, heap
<1>2. CallOf(t) = NoCall
  BY <1>1, CallIdle
<1>3. CASE at'[t] = "idle"
  <2>1. CallOf(t)' = NoCall
    BY <1>3 DEF CallOf, NoCall, Adding, Deleting
  <2> QED
    BY <1>1, <1>2, <2>1, Mapped DEF Implements
<1>4. CASE at'[t] # "idle"
  <2>1. at'[t] = "compare" /\ func'[t] = slots[Slot(n)] /\ func'[t] # Null /\ Slot(n) \in 0 .. size - 1 /\ Belongs(Slot(n))
    BY <1>1, <1>4, GetFuncClean
  <2>2. fn[slots[Slot(n)]].name = n
    <3>1. fn[slots[Slot(n)]].name \in Names /\ Slot(fn[slots[Slot(n)]].name) = Slot(n)
      BY <1>1, <2>1, FuncParts DEF Belongs
    <3> QED
      BY <1>1, <3>1, OneName
  <2>3. Callable(n)
    <3>1. \A u \in Threads : at[u] \notin Deleting
      BY DEF Lookup, MayBegin, Tidy
    <3>2. Live(slots[Slot(n)])
      BY <2>1, <3>1, WholeTable
    <3> QED
      BY <2>2, <3>2 DEF Callable
  <2>4. CallOf(t)' = Job(n)
    <3>1. handle'[t] = n
      BY <1>1 DEF Lookup, Typing, TypeOK, LocalOK
    <3>2. CallOf(t)' = Job(handle[t])'
      BY <2>1 DEF CallOf, Job, Adding, Deleting
    <3> QED
      BY <3>1, <3>2 DEF Job
  <2>5. Calling' = [Calling EXCEPT ![t] = Job(n)] /\ Registered' = Registered
    BY <1>1, <2>4, Mapped
  <2> QED
    BY <1>2, <2>3, <2>5, ToRunJob DEF Implements
<1> QED
  BY <1>3, <1>4

\* Calls that return.
LEMMA ReturnImplements ==
    ASSUME Tidy, Orderly, NEW t \in Threads, Count(t) \/ Uncount(t) \/ Run(t), Step(t)
    PROVE  Implements
<1>1. Typing /\ UNCHANGED <<size, slots, freed, fn>>
  BY DEF Orderly, Count, Uncount, Run, Compare, fmap, heap
<1>2. at'[t] = "idle"
  <2>1. Run(t) => Live(func[t])
    BY DEF Orderly, Served, Run
  <2>2. Return(t)
    BY <2>1 DEF Count, Uncount, Run
  <2> QED
    BY <1>1, <2>2, Shape DEF Return, Go
<1>3. CallOf(t)' = NoCall
  BY <1>2 DEF CallOf, NoCall, Adding, Deleting
<1>4. Calling' = [Calling EXCEPT ![t] = NoCall] /\ Registered' = Registered
  BY <1>1, <1>3, Mapped
<1>5. \E op, n : CallOf(t) = Job(n) \/ CallOf(t) = Call(op, n, TRUE)
  <2>1. CASE Count(t)
    <3>1. at[t] = "count"
      BY <2>1 DEF Count
    <3>2. CallOf(t) = Call("add", fn[func[t]].name, at[t] = "count")
      BY <3>1, CallAdd DEF Adding
    <3>3. (at[t] = "count") = TRUE
      BY <3>1
    <3> QED
      BY <3>2, <3>3
  <2>2. CASE Uncount(t)
    <3>1. at[t] = "uncount"
      BY <2>2 DEF Uncount
    <3>2. CallOf(t) = Call("del", fn[func[t]].name, at[t] \in {"publish", "uncount"})
      BY <3>1, CallDel DEF Deleting
    <3>3. (at[t] \in {"publish", "uncount"}) = TRUE
      BY <3>1
    <3> QED
      BY <3>2, <3>3
  <2>3. CASE Run(t)
    <3>1. CallOf(t) = Job(handle[t])
      BY <2>3, CallRun DEF Run
    <3> QED
      BY <3>1
  <2> QED
    BY <2>1, <2>2, <2>3
<1> QED
  BY <1>4, <1>5, ToEnd DEF Implements

LEMMA CompareImplements ==
    ASSUME Tidy, Orderly, NEW t \in Threads, Compare(t), Step(t)
    PROVE  Implements
<1>1. Typing /\ at[t] = "compare" /\ Live(func[t]) /\ Matches(t)
  BY DEF Orderly, Served, Compare, Matches
<1>2. Go(t, "run") /\ UNCHANGED <<size, slots, freed, handle>>
  BY <1>1 DEF Compare, fmap, heap, local
<1>3. at'[t] = "run"
  BY <1>1, <1>2, Shape DEF Go
<1>4. CallOf(t)' = CallOf(t)
  BY <1>1, <1>2, <1>3 DEF CallOf, Adding, Deleting
<1> QED
  BY <1>2, <1>4, Mapped DEF Implements

LEMMA StepImplements ==
    ASSUME Tidy, Orderly, Typing', NEW t \in Threads, Step(t)
    PROVE  Implements
<1>1. ~Grow(t)
  BY DEF Orderly, Served, Grow
<1>2. CASE t \in Callers /\ Caller(t)
  BY <1>1, <1>2, AddImplements, DelFunctionImplements, InsertImplements, ScanImplements, FreeImplements,
     PublishImplements, ReturnImplements DEF Caller
<1>3. CASE t \in Dispatchers /\ Dispatcher(t)
  BY <1>3, LookupImplements, CompareImplements, ReturnImplements DEF Dispatcher
<1> QED
  BY <1>2, <1>3 DEF Step

LEMMA InitImplements == Init => Service!Init
<1> SUFFICES ASSUME Init PROVE Registered = {} /\ Calling = [t \in Threads |-> NoCall]
  BY DEF Service!Init, Service!None, Registered, Calling, NoCall
<1>1. \A t \in Threads : CallOf(t) = NoCall
  BY CallIdle DEF Init
<1>2. \A n \in Names : ~Callable(n)
  <2>1. Len(fn) = 0
    BY DEF Init
  <2> QED
    BY <2>1 DEF Callable, Live
<1> QED
  BY <1>1, <1>2 DEF Registered, Calling

\* To such an application worker/function.c is a set of names: AddFunction,
\* DelFunction and the lookup of a job's function each take effect at one
\* instant between their start and their end, on the name they are given and
\* on no other, although DelFunc rebuilds the table in several steps without
\* the lock; and a function that runs is not deleted.
THEOREM RegistryIsASet == ASSUME Tidy PROVE Spec => ImplementsRegistry
<1>1. SafeAll /\ SafeAll' /\ [Next]_vars => [Service!Next]_<<Registered, Calling>>
  <2> SUFFICES ASSUME SafeAll, SafeAll', [Next]_vars PROVE Implements
    BY DEF Implements
  <2>1. CASE Next
    <3>1. PICK t \in Threads : Step(t)
      BY <2>1 DEF Next, Step, Threads
    <3>2. Orderly /\ Typing'
      BY SafeFacts DEF SafeAll, SlotsAll
    <3> QED
      BY <3>1, <3>2, StepImplements
  <2>2. CASE UNCHANGED vars
    BY <2>2 DEF vars, fmap, heap, local, Implements, Registered, Calling, Callable, CallOf, Live, Slot
  <2> QED
    BY <2>1, <2>2
<1>2. [Service!Next]_<<Registered, Calling>> <=>
          [Service!Next]_<<{n \in Names : Callable(n)}, [t \in Threads |-> CallOf(t)]>>
  BY DEF Registered, Calling
<1> QED
  BY <1>1, <1>2, InitImplements, AlwaysSafe, PTL DEF Spec, ImplementsRegistry, Service!Spec

=============================================================================
