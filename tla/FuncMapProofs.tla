--------------------------- MODULE FuncMapProofs ---------------------------
(***************************************************************************)
(* Theorems about the function registry, for any number of threads and     *)
(* names, any hash, any initial size and any allocator, and for            *)
(* applications that overlap their calls as well as for disciplined ones.  *)
(***************************************************************************)
EXTENDS FuncMap, FiniteSetTheorems, SequenceTheorems, TLAPS

-----------------------------------------------------------------------------
(* Types.                                                                  *)

\* A chunk has a size.
LEMMA ChunkIsNat ==
    ASSUME NEW n \in Nat
    PROVE  Chunk(n) \in Nat
<1>1. CASE n <= MinRoom
  BY <1>1, RegistryAssumption DEF Chunk
<1>2. CASE n > MinRoom
  <2> DEFINE more == n - MinRoom + Granule - 1
  <2>1. more \in Nat /\ Granule \in Nat /\ Granule > 0 /\ MinRoom \in Nat
    BY <1>2, RegistryAssumption
  <2> HIDE DEF more
  <2>2. more \div Granule \in Nat
    BY <2>1
  <2>3. Granule * (more \div Granule) \in Nat
    BY <2>1, <2>2
  <2>4. Chunk(n) = MinRoom + Granule * (more \div Granule)
    BY <1>2, <2>1 DEF Chunk, more
  <2> QED
    BY <2>1, <2>3, <2>4
<1> QED
  BY <1>1, <1>2, RegistryAssumption

\* A name has a slot of the registry, whatever its size.
LEMMA SlotInRange ==
    ASSUME size \in Nat \ {0}, NEW n \in Names
    PROVE  Slot(n) \in 0 .. size - 1
<1>1. Hash[n] \in Nat
  BY RegistryAssumption
<1>2. size \in Nat /\ size > 0
  OBVIOUS
<1> QED
  BY <1>1, <1>2 DEF Slot

\* What is read from the keys is a key or was never written.
LEMMA EntryIsKey ==
    ASSUME NEW s \in Seq(Nat \cup {Junk}), NEW i \in Nat
    PROVE  Entry(s, i) \in Nat \cup {Junk}
BY DEF Entry, Junk

LEMMA EmptyIsTable == <<>> \in [DOMAIN <<>> -> Pointers]
BY EmptySeq, LenProperties

\* A thread that is past its first step has a Func in hand.
FuncKnown ==
    \A t \in Threads :
        at[t] \in Adding \cup (Deleting \ {"scan"}) => func[t] \in 1 .. Len(fn)

Typing == TypeOK /\ FuncKnown

LEMMA InitTyping == Init => Typing
<1> SUFFICES ASSUME Init PROVE Typing
  OBVIOUS
<1> USE DEF Init
<1>1. FmapOK
  <2>1. room \in Nat /\ size \in Nat \ {0}
    BY ChunkIsNat, RegistryAssumption
  <2>2. slots \in [0 .. size - 1 -> Pointers]
    BY DEF Pointers
  <2>3. keys \in Seq(Nat \cup {Junk})
    BY EmptySeq
  <2> QED
    BY <2>1, <2>2, <2>3 DEF FmapOK
<1>2. HeapOK
  BY RegistryAssumption, EmptySeq DEF HeapOK
<1>3. LocalOK
  <2>1. newKeys \in [Threads -> Seq(Nat \cup {Junk})]
    BY EmptySeq
  <2>2. \A t \in Threads : newSlots[t] \in [DOMAIN newSlots[t] -> Pointers]
    BY EmptyIsTable
  <2>3. func \in [Threads -> Pointers]
    BY DEF Pointers
  <2> QED
    BY <2>1, <2>2, <2>3 DEF LocalOK
<1>4. at \in [Threads -> Locations]
  BY DEF Locations
<1>5. funcNum \in Int
  OBVIOUS
<1>6. clashed \in BOOLEAN
  OBVIOUS
<1>7. ub \in Outcomes
  BY DEF Outcomes
<1>8. FuncKnown
  BY DEF FuncKnown, Adding, Deleting
<1> QED
  BY <1>1, <1>2, <1>3, <1>4, <1>5, <1>6, <1>7, <1>8 DEF Typing, TypeOK

\* The parts of the state a step leaves alone keep their types.
LEMMA UnchangedTyping ==
    ASSUME TypeOK
    PROVE  /\ UNCHANGED fmap => FmapOK'
           /\ UNCHANGED heap => HeapOK'
           /\ UNCHANGED local => LocalOK'
BY DEF TypeOK, FmapOK, HeapOK, LocalOK, fmap, heap, local

\* A call that ends forgets its local variables.
LEMMA ReturnTyping ==
    ASSUME TypeOK, NEW t \in Threads, Return(t)
    PROVE  LocalOK' /\ at' \in [Threads -> Locations]
<1>1. at' \in [Threads -> Locations]
  BY DEF TypeOK, Return, Go, Locations
<1>2. func' \in [Threads -> Pointers] /\ handle' \in [Dispatchers -> Names]
  <2>1. func \in [Threads -> Pointers] /\ handle \in [Dispatchers -> Names]
    BY DEF TypeOK, LocalOK
  <2> QED
    BY <2>1 DEF Return, Pointers
<1>3. newKeys' \in [Threads -> Seq(Nat \cup {Junk})]
  <2>1. newKeys \in [Threads -> Seq(Nat \cup {Junk})]
    BY DEF TypeOK, LocalOK
  <2> QED
    BY <2>1, EmptySeq DEF Return
<1>4. DOMAIN newSlots' = Threads /\ \A u \in Threads : newSlots'[u] \in [DOMAIN newSlots'[u] -> Pointers]
  <2>1. DOMAIN newSlots = Threads /\ \A u \in Threads : newSlots[u] \in [DOMAIN newSlots[u] -> Pointers]
    BY DEF TypeOK, LocalOK
  <2>2. newSlots' = [newSlots EXCEPT ![t] = <<>>]
    BY DEF Return
  <2> QED
    BY <2>1, <2>2, EmptyIsTable
<1> QED
  BY <1>1, <1>2, <1>3, <1>4 DEF LocalOK

Known(t) == at[t] \in Adding \cup (Deleting \ {"scan"}) => func[t] \in 1 .. Len(fn)

\* A step of one thread, which no Func disappears in, matters to that thread.
LEMMA KnownStep ==
    ASSUME Typing, NEW t \in Threads, HeapOK', Len(fn) <= Len(fn'),
           \A u \in Threads \ {t} : at'[u] = at[u] /\ func'[u] = func[u],
           Known(t)'
    PROVE  FuncKnown'
<1>1. Len(fn) \in Nat /\ Len(fn') \in Nat
  BY LenProperties DEF Typing, TypeOK, HeapOK
<1>2. SUFFICES ASSUME NEW u \in Threads, u # t, at'[u] \in Adding \cup (Deleting \ {"scan"})
               PROVE  func'[u] \in 1 .. Len(fn')
  BY DEF FuncKnown, Known
<1>3. func[u] \in 1 .. Len(fn)
  BY <1>2 DEF Typing, FuncKnown
<1> QED
  BY <1>1, <1>2, <1>3

\* The same for a step that moves the thread and leaves the rest alone.
LEMMA GoTyping ==
    ASSUME Typing, NEW t \in Threads, NEW l \in Locations, Go(t, l)
    PROVE  /\ at' \in [Threads -> Locations] /\ at'[t] = l
           /\ \A u \in Threads \ {t} : at'[u] = at[u]
BY DEF Typing, TypeOK, Go

LEMMA AddFunctionTyping ==
    ASSUME Typing, NEW t \in Threads, NEW n \in Names, AddFunction(t, n)
    PROVE  Typing'
<1> USE DEF AddFunction
<1> DEFINE l == IF Full THEN "grow" ELSE "insert"
<1>1. Go(t, l) /\ l \in Locations
  BY DEF Locations, Adding
<1>2. at' \in [Threads -> Locations] /\ at'[t] = l /\ \A u \in Threads \ {t} : at'[u] = at[u]
  BY <1>1, GoTyping
<1>3. HeapOK' /\ Len(fn') = Len(fn) + 1 /\ Len(fn) \in Nat
  <2>1. fn \in Seq([name : Names, key : Nat]) /\ freed \subseteq Pointers
    BY DEF Typing, TypeOK, HeapOK
  <2>2. fn' = Append(fn, [name |-> n, key |-> 0]) /\ freed' = freed /\ Len(fn) < MaxAdds
    OBVIOUS
  <2>3. fn' \in Seq([name : Names, key : Nat]) /\ Len(fn') = Len(fn) + 1 /\ Len(fn) \in Nat
    BY <2>1, <2>2, LenProperties
  <2> HIDE DEF AddFunction
  <2> QED
    BY <2>1, <2>2, <2>3, RegistryAssumption DEF HeapOK
<1>4. func \in [Threads -> Pointers] /\ func' = [func EXCEPT ![t] = Len(fn) + 1]
  BY DEF Typing, TypeOK, LocalOK
<1>5. LocalOK'
  <2>1. Len(fn) + 1 \in Pointers
    BY <1>3, RegistryAssumption DEF Pointers, HeapOK
  <2>2. func' \in [Threads -> Pointers]
    BY <1>4, <2>1
  <2> QED
    BY <2>2 DEF Typing, TypeOK, LocalOK
<1>6. FmapOK' /\ funcNum' \in Int /\ clashed' \in BOOLEAN /\ ub' \in Outcomes
  BY UnchangedTyping DEF Typing, TypeOK
<1>7. FuncKnown'
  <2>1. Known(t)' /\ \A u \in Threads \ {t} : func'[u] = func[u]
    BY <1>3, <1>4 DEF Known
  <2> HIDE DEF AddFunction
  <2> QED
    BY <1>2, <1>3, <2>1, KnownStep
<1> QED
  BY <1>2, <1>3, <1>5, <1>6, <1>7 DEF Typing, TypeOK

\* The number of Funcs is a number.
LEMMA LenFn == HeapOK => Len(fn) \in Nat
BY LenProperties DEF HeapOK

LEMMA GrowTyping ==
    ASSUME Typing, NEW t \in Threads, Grow(t)
    PROVE  Typing'
<1>1. Go(t, "insert") /\ "insert" \in Locations /\ at[t] = "grow"
  BY DEF Grow, Locations, Adding
<1>2. at' \in [Threads -> Locations] /\ at'[t] = "insert" /\ \A u \in Threads \ {t} : at'[u] = at[u]
  BY <1>1, GoTyping
<1>3. FmapOK'
  <2>1. FmapOK /\ length \in Nat
    BY DEF Typing, TypeOK, FmapOK
  <2>2. CASE UNCHANGED <<size, slots, room>>
    BY <2>1, <2>2 DEF FmapOK, Grow
  <2>3. CASE size' = 2 * size /\ slots' = Enlarged /\ room' = Chunk(4 * size)
    <3>1. size \in Nat \ {0} /\ slots \in [0 .. size - 1 -> Pointers]
      BY <2>1 DEF FmapOK
    <3>2. room' \in Nat
      <4>1. 4 * size \in Nat
        BY <3>1
      <4> QED
        BY <2>3, <4>1, ChunkIsNat
    <3>3. slots' \in [0 .. size' - 1 -> Pointers]
      <4>1. \A k \in 0 .. 2 * size - 1 : SlotAt(k) \in Pointers
        BY <3>1 DEF SlotAt, Pointers
      <4> QED
        BY <2>3, <4>1 DEF Enlarged
    <3>4. size' \in Nat \ {0}
      BY <2>3, <3>1
    <3>5. length' \in Nat /\ shared' \in BOOLEAN /\ keys' \in Seq(Nat \cup {Junk})
      BY <2>1 DEF FmapOK, Grow
    <3> QED
      BY <3>2, <3>3, <3>4, <3>5 DEF FmapOK
  <2> QED
    BY <2>2, <2>3 DEF Grow
<1>4. HeapOK' /\ LocalOK' /\ funcNum' \in Int /\ clashed' \in BOOLEAN
  BY UnchangedTyping DEF Grow, Typing, TypeOK
<1>5. ub' \in Outcomes
  BY DEF Grow, Fails, Outcomes, Typing, TypeOK
<1>6. FuncKnown'
  <2>1. Known(t)' /\ fn' = fn /\ func' = func
    BY <1>1 DEF Grow, Known, Typing, FuncKnown, Adding, heap, local
  <2>2. Len(fn) <= Len(fn')
    BY <2>1, LenFn DEF Typing, TypeOK
  <2> QED
    BY <1>2, <1>4, <2>1, <2>2, KnownStep
<1> QED
  BY <1>2, <1>3, <1>4, <1>5, <1>6 DEF Typing, TypeOK

LEMMA InsertTyping ==
    ASSUME Typing, NEW t \in Threads, Insert(t)
    PROVE  Typing'
<1> DEFINE k == Slot(fn[func[t]].name)
<1>1. Go(t, "count") /\ "count" \in Locations /\ at[t] = "insert"
  BY DEF Insert, Locations, Adding
<1>2. at' \in [Threads -> Locations] /\ at'[t] = "count" /\ \A u \in Threads \ {t} : at'[u] = at[u]
  BY <1>1, GoTyping
<1>3. fn \in Seq([name : Names, key : Nat]) /\ func[t] \in 1 .. Len(fn)
  BY <1>1 DEF Typing, TypeOK, HeapOK, FuncKnown, Adding
<1>4. size \in Nat \ {0} /\ slots \in [0 .. size - 1 -> Pointers] /\ length \in Nat /\ keys \in Seq(Nat \cup {Junk})
  BY DEF Typing, TypeOK, FmapOK
<1>5. fn[func[t]] \in [name : Names, key : Nat]
  BY <1>3, ElementOfSeq
<1>6. k \in 0 .. size - 1 /\ k \in Nat
  <2>1. fn[func[t]].name \in Names
    BY <1>5
  <2>2. k \in 0 .. size - 1
    BY <1>4, <2>1, SlotInRange
  <2> QED
    BY <1>4, <2>2
<1>7. HeapOK' /\ Len(fn') = Len(fn)
  <2> DEFINE f == [fn[func[t]] EXCEPT !.key = k]
  <2>1. f \in [name : Names, key : Nat]
    BY <1>5, <1>6
  <2>2. fn' = [fn EXCEPT ![func[t]] = f] /\ freed' = freed
    BY DEF Insert
  <2> HIDE DEF f, k
  <2>3. fn' \in Seq([name : Names, key : Nat]) /\ Len(fn') = Len(fn)
    BY <1>3, <2>1, <2>2, ExceptSeq
  <2> QED
    BY <2>2, <2>3 DEF HeapOK, Typing, TypeOK
<1>8. FmapOK'
  <2>1. slots' \in [0 .. size' - 1 -> Pointers]
    <3>1. slots' = [slots EXCEPT ![k] = func[t]] /\ size' = size
      BY DEF Insert
    <3>2. func[t] \in Pointers
      BY DEF Typing, TypeOK, LocalOK
    <3> QED
      BY <1>4, <3>1, <3>2
  <2>2. keys' \in Seq(Nat \cup {Junk})
    <3> DEFINE old == [i \in 1 .. length |-> Entry(keys, i - 1)]
    <3>1. ASSUME NEW i \in 1 .. length
          PROVE  Entry(keys, i - 1) \in Nat \cup {Junk}
      <4>1. i - 1 \in Nat
        BY <1>4
      <4> QED
        BY <1>4, <4>1, EntryIsKey
    <3>2. old \in Seq(Nat \cup {Junk})
      BY <1>4, <3>1
    <3>3. keys' = old \o <<k>>
      BY DEF Insert, KeyAdded
    <3> HIDE DEF old, k
    <3> QED
      BY <1>6, <3>2, <3>3
  <2>3. size' \in Nat \ {0} /\ room' \in Nat /\ shared' \in BOOLEAN
    BY DEF Insert, Typing, TypeOK, FmapOK
  <2>4. length' \in Nat
    <3>1. length' = length + 1
      BY DEF Insert
    <3> QED
      BY <1>4, <3>1
  <2> QED
    BY <2>1, <2>2, <2>3, <2>4 DEF FmapOK
<1>9. LocalOK' /\ funcNum' \in Int
  BY UnchangedTyping DEF Insert, Typing, TypeOK
<1>10. clashed' \in BOOLEAN
  BY DEF Insert, Typing, TypeOK
<1>11. ub' \in Outcomes
  BY DEF Insert, Outcomes, Typing, TypeOK
<1>12. FuncKnown'
  <2>1. Known(t)' /\ func' = func
    BY <1>3, <1>7 DEF Insert, Known, local
  <2>2. Len(fn) <= Len(fn')
    BY <1>7, LenFn DEF Typing, TypeOK
  <2> QED
    BY <1>2, <1>7, <2>1, <2>2, KnownStep
<1> QED
  BY <1>2, <1>7, <1>8, <1>9, <1>10, <1>11, <1>12 DEF Typing, TypeOK

\* A thread that returns has nothing in hand and needs nothing.
LEMMA ReturnKnown ==
    ASSUME Typing, NEW t \in Threads, Return(t), HeapOK', fn' = fn
    PROVE  FuncKnown'
<1>1. Go(t, "idle") /\ "idle" \in Locations
  BY DEF Return, Locations
<1>2. at'[t] = "idle" /\ \A u \in Threads \ {t} : at'[u] = at[u]
  BY <1>1, GoTyping
<1>3. \A u \in Threads \ {t} : func'[u] = func[u]
  BY DEF Return, Typing, TypeOK, LocalOK
<1>4. Known(t)'
  BY <1>2 DEF Known, Adding, Deleting
<1>5. Len(fn) <= Len(fn')
  BY LenFn DEF Typing, TypeOK
<1> QED
  BY <1>2, <1>3, <1>4, <1>5, KnownStep

LEMMA CountTyping ==
    ASSUME Typing, NEW t \in Threads, Count(t) \/ Uncount(t)
    PROVE  Typing'
<1>1. TypeOK /\ Return(t) /\ UNCHANGED <<fmap, heap, clashed, ub>>
  BY DEF Typing, Count, Uncount
<1>2. LocalOK' /\ at' \in [Threads -> Locations]
  BY <1>1, ReturnTyping
<1>3. FmapOK' /\ HeapOK' /\ clashed' \in BOOLEAN /\ ub' \in Outcomes
  BY <1>1, UnchangedTyping DEF TypeOK
<1>4. funcNum' \in Int
  <2>1. funcNum \in Int /\ (funcNum' = funcNum + 1 \/ funcNum' = funcNum - 1)
    BY DEF Count, Uncount, Counted, Uncounted, Typing, TypeOK
  <2> QED
    BY <2>1
<1>5. FuncKnown'
  BY <1>1, <1>3, ReturnKnown DEF heap
<1> QED
  BY <1>2, <1>3, <1>4, <1>5 DEF Typing, TypeOK

\* GetFunc finds a Func, nothing, or a slot that was never written.
LEMMA GetFuncTyping ==
    ASSUME Typing, NEW t \in Threads, NEW n \in Names,
           NEW found \in {"scan", "compare"}, GetFunc(t, n, found)
    PROVE  /\ at' \in [Threads -> Locations] /\ func' \in [Threads -> Pointers]
           /\ ub' \in Outcomes
           /\ HeapOK' /\ fn' = fn => FuncKnown'
<1> DEFINE f == IF length = 0 THEN Null ELSE slots[Slot(n)]
           l == IF f = Null THEN "idle" ELSE found
<1>1. func' = [func EXCEPT ![t] = f] /\ Go(t, l)
  BY DEF GetFunc
<1>2. l \in Locations /\ l \notin Adding \cup (Deleting \ {"scan"})
  BY DEF Locations, Adding, Deleting
<1>3. at' \in [Threads -> Locations] /\ at'[t] = l /\ \A u \in Threads \ {t} : at'[u] = at[u]
  <2> HIDE DEF l
  <2> QED
    BY <1>1, <1>2, GoTyping
<1>4. f \in Pointers /\ func \in [Threads -> Pointers]
  <2>1. size \in Nat \ {0} /\ slots \in [0 .. size - 1 -> Pointers] /\ func \in [Threads -> Pointers]
    BY DEF Typing, TypeOK, FmapOK, LocalOK
  <2>2. slots[Slot(n)] \in Pointers
    BY <2>1, SlotInRange
  <2> QED
    BY <2>1, <2>2 DEF Pointers
<1>5. ub' \in Outcomes
  BY DEF GetFunc, Fails, Outcomes, Typing, TypeOK
<1>6. ASSUME HeapOK', fn' = fn
      PROVE  FuncKnown'
  <2> HIDE DEF l, f
  <2>1. Known(t)'
    BY <1>2, <1>3 DEF Known
  <2>2. Len(fn) <= Len(fn')
    BY <1>6, LenFn DEF Typing, TypeOK
  <2>3. \A u \in Threads \ {t} : func'[u] = func[u]
    BY <1>1, <1>4
  <2> QED
    BY <1>3, <1>6, <2>1, <2>2, <2>3, KnownStep
<1> HIDE DEF l, f
<1> QED
  BY <1>1, <1>3, <1>4, <1>5, <1>6

LEMMA LookupTyping ==
    ASSUME Typing, NEW t \in Threads, NEW n \in Names,
           DelFunction(t, n) \/ (t \in Dispatchers /\ Lookup(t, n))
    PROVE  Typing'
<1>1. PICK found \in {"scan", "compare"} : GetFunc(t, n, found)
  BY DEF DelFunction, Lookup
<1>2. UNCHANGED <<fmap, heap, funcNum, newKeys, newSlots, clashed>>
  BY DEF DelFunction, Lookup
<1>3. handle' \in [Dispatchers -> Names]
  <2>1. handle \in [Dispatchers -> Names]
    BY DEF Typing, TypeOK, LocalOK
  <2> QED
    BY <2>1 DEF DelFunction, Lookup
<1>4. FmapOK' /\ HeapOK' /\ funcNum' \in Int /\ clashed' \in BOOLEAN /\ fn' = fn
  BY <1>2, UnchangedTyping DEF Typing, TypeOK, heap
<1>5. at' \in [Threads -> Locations] /\ func' \in [Threads -> Pointers] /\ ub' \in Outcomes /\ FuncKnown'
  BY <1>1, <1>4, GetFuncTyping
<1>6. LocalOK'
  BY <1>2, <1>3, <1>5 DEF Typing, TypeOK, LocalOK
<1> QED
  BY <1>4, <1>5, <1>6 DEF Typing, TypeOK

LEMMA DispatchTyping ==
    ASSUME Typing, NEW t \in Threads, Compare(t) \/ Run(t)
    PROVE  Typing'
<1>1. UNCHANGED <<fmap, heap, funcNum, clashed>>
  BY DEF Compare, Run
<1>2. FmapOK' /\ HeapOK' /\ funcNum' \in Int /\ clashed' \in BOOLEAN /\ fn' = fn
  BY <1>1, UnchangedTyping DEF Typing, TypeOK, heap
<1>3. ub' \in Outcomes
  BY DEF Compare, Run, Outcomes, Typing, TypeOK
<1>4. CASE Return(t)
  BY <1>2, <1>3, <1>4, ReturnTyping, ReturnKnown DEF Typing, TypeOK
<1>5. CASE Go(t, "run") /\ UNCHANGED local
  <2>1. at' \in [Threads -> Locations] /\ at'[t] = "run" /\ \A u \in Threads \ {t} : at'[u] = at[u]
    BY <1>5, GoTyping DEF Locations
  <2>2. LocalOK'
    BY <1>5, UnchangedTyping DEF Typing
  <2>3. FuncKnown'
    <3>1. Known(t)' /\ func' = func
      BY <1>5, <2>1 DEF Known, Adding, Deleting, local
    <3>2. Len(fn) <= Len(fn')
      BY <1>2, LenFn DEF Typing, TypeOK
    <3> QED
      BY <1>2, <2>1, <3>1, <3>2, KnownStep
  <2> QED
    BY <1>2, <1>3, <2>1, <2>2, <2>3 DEF Typing, TypeOK
<1>6. CASE UNCHANGED <<at, local>>
  BY <1>2, <1>3, <1>6, UnchangedTyping DEF Typing, TypeOK, FuncKnown, local
<1> QED
  BY <1>4, <1>5, <1>6 DEF Compare, Run

\* The steps of DelFunc that keep the Func in hand.
LEMMA DelStepKnown ==
    ASSUME Typing, NEW t \in Threads, NEW l \in Locations, Go(t, l),
           func[t] \in 1 .. Len(fn), HeapOK', UNCHANGED <<fn, func>>
    PROVE  at' \in [Threads -> Locations] /\ FuncKnown'
<1>1. at' \in [Threads -> Locations] /\ at'[t] = l /\ \A u \in Threads \ {t} : at'[u] = at[u]
  BY GoTyping
<1>2. Known(t)' /\ Len(fn) <= Len(fn')
  BY LenFn DEF Known, Typing, TypeOK
<1> QED
  BY <1>1, <1>2, KnownStep

LEMMA DelScanTyping ==
    ASSUME Typing, NEW t \in Threads, DelScan(t)
    PROVE  Typing'
<1>1. CASE ~Live(func[t])
  BY <1>1, UnchangedTyping DEF DelScan, Outcomes, Typing, TypeOK, FuncKnown, LocalOK, heap
<1>2. CASE Live(func[t])
  <2>1. Go(t, "shrink") /\ "shrink" \in Locations /\ func[t] \in 1 .. Len(fn)
    BY <1>2 DEF DelScan, Locations, Deleting, Live
  <2>2. FmapOK' /\ HeapOK' /\ funcNum' \in Int /\ clashed' \in BOOLEAN /\ fn' = fn /\ func' = func
    BY UnchangedTyping DEF DelScan, Typing, TypeOK, heap
  <2>3. at' \in [Threads -> Locations] /\ FuncKnown'
    BY <2>1, <2>2, DelStepKnown
  <2>4. ub' \in Outcomes
    BY DEF DelScan, Fails, Outcomes, Typing, TypeOK
  <2> DEFINE from(i) == IF i - 1 < LastKey(fn[func[t]].key) THEN i - 1 ELSE i
             kept == [i \in 1 .. length |-> Entry(keys, from(i))]
  <2>5. keys \in Seq(Nat \cup {Junk}) /\ length \in Nat
    BY DEF Typing, TypeOK, FmapOK
  <2>6. kept \in Seq(Nat \cup {Junk})
    <3>1. ASSUME NEW i \in 1 .. length
          PROVE  Entry(keys, from(i)) \in Nat \cup {Junk}
      <4>1. from(i) \in Nat
        BY <2>5
      <4> QED
        BY <2>5, <4>1, EntryIsKey
    <3> HIDE DEF from
    <3> QED
      BY <2>5, <3>1
  <2>7. newKeys' \in [Threads -> Seq(Nat \cup {Junk})]
    <3>1. newKeys' = [newKeys EXCEPT ![t] = kept]
      BY <1>2 DEF DelScan
    <3>2. newKeys \in [Threads -> Seq(Nat \cup {Junk})]
      BY DEF Typing, TypeOK, LocalOK
    <3> HIDE DEF kept
    <3> QED
      BY <2>6, <3>1, <3>2
  <2>8. LocalOK'
    BY <2>7 DEF DelScan, Typing, TypeOK, LocalOK
  <2> QED
    BY <2>2, <2>3, <2>4, <2>8 DEF Typing, TypeOK
<1> QED
  BY <1>1, <1>2

LEMMA DelShrinkTyping ==
    ASSUME Typing, NEW t \in Threads, DelShrink(t)
    PROVE  Typing'
<1>1. Go(t, "copy") /\ "copy" \in Locations /\ func[t] \in 1 .. Len(fn)
  BY DEF DelShrink, Locations, Deleting, Typing, FuncKnown
<1>2. HeapOK' /\ LocalOK' /\ funcNum' \in Int /\ clashed' \in BOOLEAN /\ fn' = fn /\ func' = func
  BY UnchangedTyping DEF DelShrink, Typing, TypeOK, heap, local
<1>3. at' \in [Threads -> Locations] /\ FuncKnown'
  BY <1>1, <1>2, DelStepKnown
<1>4. ub' \in Outcomes
  BY DEF DelShrink, Outcomes, Typing, TypeOK
<1>5. length' \in Nat
  <2>1. length \in Nat /\ (length' = length \/ (length # 0 /\ length' = length - 1))
    BY DEF DelShrink, Typing, TypeOK, FmapOK
  <2> QED
    BY <2>1
<1>6. FmapOK'
  BY <1>5 DEF DelShrink, Typing, TypeOK, FmapOK
<1> QED
  BY <1>2, <1>3, <1>4, <1>6 DEF Typing, TypeOK

LEMMA DelCopyTyping ==
    ASSUME Typing, NEW t \in Threads, DelCopy(t)
    PROVE  Typing'
<1>1. Go(t, "free") /\ "free" \in Locations /\ func[t] \in 1 .. Len(fn)
  BY DEF DelCopy, Locations, Deleting, Typing, FuncKnown
<1>2. FmapOK' /\ HeapOK' /\ funcNum' \in Int /\ clashed' \in BOOLEAN /\ fn' = fn /\ func' = func
  BY UnchangedTyping DEF DelCopy, Typing, TypeOK, heap
<1>3. at' \in [Threads -> Locations] /\ FuncKnown'
  BY <1>1, <1>2, DelStepKnown
<1>4. ub' \in Outcomes
  BY DEF DelCopy, Outcomes, Typing, TypeOK
<1>5. LocalOK'
  <2>1. CopyKept(t) \in [0 .. size - 1 -> Pointers]
    <3>1. slots \in [0 .. size - 1 -> Pointers] /\ Null \in Pointers
      BY DEF Typing, TypeOK, FmapOK, Pointers
    <3> QED
      BY <3>1 DEF CopyKept
  <2>2. CopyKept(t) \in [DOMAIN CopyKept(t) -> Pointers]
    BY <2>1
  <2>3. newSlots' = [newSlots EXCEPT ![t] = CopyKept(t)]
    BY DEF DelCopy
  <2>4. DOMAIN newSlots = Threads /\ \A u \in Threads : newSlots[u] \in [DOMAIN newSlots[u] -> Pointers]
    BY DEF Typing, TypeOK, LocalOK
  <2>5. DOMAIN newSlots' = Threads /\ \A u \in Threads : newSlots'[u] \in [DOMAIN newSlots'[u] -> Pointers]
    BY <2>2, <2>3, <2>4
  <2> QED
    BY <2>5 DEF DelCopy, Typing, TypeOK, LocalOK
<1> QED
  BY <1>2, <1>3, <1>4, <1>5 DEF Typing, TypeOK

LEMMA DelFreeTyping ==
    ASSUME Typing, NEW t \in Threads, DelFree(t)
    PROVE  Typing'
<1>1. Go(t, "publish") /\ "publish" \in Locations /\ func[t] \in 1 .. Len(fn)
  BY DEF DelFree, Locations, Deleting, Typing, FuncKnown
<1>2. LocalOK' /\ funcNum' \in Int /\ clashed' \in BOOLEAN /\ fn' = fn /\ func' = func
  BY UnchangedTyping DEF DelFree, Typing, TypeOK, local
<1>3. FmapOK'
  BY DEF DelFree, Typing, TypeOK, FmapOK
<1>4. HeapOK'
  <2>1. func[t] \in Pointers
    BY DEF Typing, TypeOK, LocalOK
  <2> QED
    BY <2>1 DEF DelFree, Typing, TypeOK, HeapOK
<1>5. at' \in [Threads -> Locations] /\ FuncKnown'
  BY <1>1, <1>2, <1>4, DelStepKnown
<1>6. ub' \in Outcomes
  BY DEF DelFree, Fails, Outcomes, Typing, TypeOK
<1> QED
  BY <1>2, <1>3, <1>4, <1>5, <1>6 DEF Typing, TypeOK

LEMMA DelPublishTyping ==
    ASSUME Typing, NEW t \in Threads, DelPublish(t)
    PROVE  Typing'
<1>1. Go(t, "uncount") /\ "uncount" \in Locations /\ func[t] \in 1 .. Len(fn)
  BY DEF DelPublish, Locations, Deleting, Typing, FuncKnown
<1>2. HeapOK' /\ LocalOK' /\ funcNum' \in Int /\ clashed' \in BOOLEAN /\ ub' \in Outcomes /\ fn' = fn /\ func' = func
  BY UnchangedTyping DEF DelPublish, Typing, TypeOK, heap, local
<1>3. at' \in [Threads -> Locations] /\ FuncKnown'
  BY <1>1, <1>2, DelStepKnown
<1>4. keys' \in Seq(Nat \cup {Junk}) /\ keys' = newKeys[t]
  BY DEF DelPublish, Typing, TypeOK, LocalOK
<1>5. room' \in Nat
  <2> DEFINE n == IF Len(newKeys[t]) = 0 THEN 0 ELSE Len(newKeys[t]) - 1
  <2>1. Len(newKeys[t]) \in Nat
    BY <1>4, LenProperties
  <2>2. n \in Nat
    BY <2>1
  <2>3. room' = Chunk(n)
    BY DEF DelPublish
  <2> HIDE DEF n
  <2> QED
    BY <2>2, <2>3, ChunkIsNat
<1>6. slots' \in [0 .. size' - 1 -> Pointers]
  <2>1. newSlots[t] \in [DOMAIN newSlots[t] -> Pointers] /\ Junk \in Pointers
    BY DEF Typing, TypeOK, LocalOK, Pointers
  <2>2. \A k \in 0 .. size - 1 : (IF k \in DOMAIN newSlots[t] THEN newSlots[t][k] ELSE Junk) \in Pointers
    BY <2>1
  <2> QED
    BY <2>2 DEF DelPublish
<1>7. size' \in Nat \ {0} /\ length' \in Nat /\ shared' \in BOOLEAN
  BY DEF DelPublish, Typing, TypeOK, FmapOK
<1>8. FmapOK'
  BY <1>4, <1>5, <1>6, <1>7 DEF FmapOK
<1> QED
  BY <1>2, <1>3, <1>8 DEF Typing, TypeOK

LEMMA NextTyping == Typing /\ [Next]_vars => Typing'
<1> SUFFICES ASSUME Typing, [Next]_vars PROVE Typing'
  OBVIOUS
<1>1. ASSUME NEW t \in Callers, Caller(t)
      PROVE  Typing'
  <2> t \in Threads
    BY DEF Threads
  <2>1. CASE \E n \in Names : AddFunction(t, n) \/ DelFunction(t, n)
    BY <2>1, AddFunctionTyping, LookupTyping
  <2>2. CASE Grow(t) \/ Insert(t) \/ Count(t) \/ Uncount(t)
    BY <2>2, GrowTyping, InsertTyping, CountTyping
  <2>3. CASE DelScan(t) \/ DelShrink(t) \/ DelCopy(t) \/ DelFree(t) \/ DelPublish(t)
    BY <2>3, DelScanTyping, DelShrinkTyping, DelCopyTyping, DelFreeTyping, DelPublishTyping
  <2> QED
    BY <1>1, <2>1, <2>2, <2>3 DEF Caller
<1>2. ASSUME NEW t \in Dispatchers, Dispatcher(t)
      PROVE  Typing'
  BY <1>2, LookupTyping, DispatchTyping DEF Dispatcher, Threads
<1>3. CASE UNCHANGED vars
  BY <1>3, UnchangedTyping DEF vars, Typing, TypeOK, FuncKnown, local, heap
<1> QED
  BY <1>1, <1>2, <1>3 DEF Next

LEMMA AlwaysTyping == Spec => []Typing
BY InitTyping, NextTyping, PTL DEF Spec

\* Every variable keeps its shape, whatever calls overlap: no key beyond the
\* natural numbers, no slot outside the table, no Func that was never
\* allocated gets into the registry of worker/function.c.
THEOREM TypeCorrect == Spec => []TypeOK
<1>1. Typing => TypeOK
  BY DEF Typing
<1> QED
  BY <1>1, AlwaysTyping, PTL

-----------------------------------------------------------------------------
(* The two counts of functions, fmap->length and w->funcNum.               *)

Added == {t \in Callers : at[t] = "count"}
Removed == {t \in Callers : at[t] \in {"copy", "free", "publish", "uncount"}}

\* The counts differ by the calls that have changed one and not yet the other.
CountsInv == ub = "none" => length + Cardinality(Removed) = funcNum + Cardinality(Added)

\* Both sets are finite.
LEMMA CallsFinite ==
    /\ IsFiniteSet(Added) /\ IsFiniteSet(Removed)
    /\ Cardinality(Added) \in Nat /\ Cardinality(Removed) \in Nat
<1>1. Added \in SUBSET Callers /\ Removed \in SUBSET Callers
  BY DEF Added, Removed
<1>2. IsFiniteSet(Added) /\ IsFiniteSet(Removed)
  BY <1>1, RegistryAssumption, FS_Subset
<1> QED
  BY <1>2, FS_CardinalityType

LEMMA InitCounts == Init => CountsInv
<1> SUFFICES ASSUME Init PROVE CountsInv
  OBVIOUS
<1>1. Added = {} /\ Removed = {}
  BY DEF Init, Added, Removed, Threads
<1>2. length = 0 /\ funcNum = 0
  BY DEF Init
<1>3. Cardinality(Added) = 0 /\ Cardinality(Removed) = 0
  BY <1>1, FS_EmptySet
<1> QED
  BY <1>2, <1>3 DEF CountsInv

\* A step that moves no thread in or out of the two sets changes no count.
LEMMA SameCounts ==
    ASSUME CountsInv, ub = "none", UNCHANGED <<length, funcNum, Added, Removed>>
    PROVE  CountsInv'
<1>1. Cardinality(Added)' = Cardinality(Added) /\ Cardinality(Removed)' = Cardinality(Removed)
  OBVIOUS
<1> QED
  BY <1>1 DEF CountsInv

\* A thread that moves from one place to another.
LEMMA MoveCounts ==
    ASSUME TypeOK, NEW t \in Callers, NEW l \in Locations, Go(t, l)
    PROVE  /\ Added' = IF l = "count" THEN Added \cup {t} ELSE Added \ {t}
           /\ Removed' = IF l \in {"copy", "free", "publish", "uncount"}
                         THEN Removed \cup {t} ELSE Removed \ {t}
<1>1. at' = [at EXCEPT ![t] = l] /\ at \in [Threads -> Locations] /\ Callers \subseteq Threads
  BY DEF Go, TypeOK, Threads
<1>2. at'[t] = l /\ \A u \in Callers \ {t} : at'[u] = at[u]
  BY <1>1
<1> QED
  BY <1>2 DEF Added, Removed

Outside == {"idle", "grow", "insert", "scan", "shrink", "compare", "run"}

LEMMA MoveOutside ==
    ASSUME TypeOK, NEW t \in Threads, NEW l \in Outside, at[t] \in Outside, Go(t, l)
    PROVE  UNCHANGED <<Added, Removed>>
<1>1. at' = [at EXCEPT ![t] = l] /\ at \in [Threads -> Locations] /\ Callers \subseteq Threads
  BY DEF Go, TypeOK, Threads
<1>2. at'[t] \in Outside /\ \A u \in Callers \ {t} : at'[u] = at[u]
  BY <1>1
<1> QED
  BY <1>2 DEF Added, Removed, Outside

\* The steps of registering and deleting that count.
LEMMA InsertCounts ==
    ASSUME TypeOK, CountsInv, ub = "none", NEW t \in Callers, Insert(t)
    PROVE  CountsInv'
<1>1. Go(t, "count") /\ "count" \in Locations /\ t \notin Added /\ t \notin Removed
  BY DEF Insert, Locations, Adding, Added, Removed
<1>2. Added' = Added \cup {t} /\ Removed' = Removed \ {t}
  BY <1>1, MoveCounts
<1>3. Cardinality(Added)' = Cardinality(Added) + 1
  BY <1>1, <1>2, CallsFinite, FS_AddElement
<1>4. Cardinality(Removed)' = Cardinality(Removed)
  BY <1>1, <1>2
<1>5. length' = length + 1 /\ funcNum' = funcNum
  BY DEF Insert
<1>6. length \in Nat /\ funcNum \in Int
  BY DEF TypeOK, FmapOK
<1>7. length + Cardinality(Removed) = funcNum + Cardinality(Added)
  BY DEF CountsInv
<1>8. length' + Cardinality(Removed)' = funcNum' + Cardinality(Added)'
  BY <1>3, <1>4, <1>5, <1>6, <1>7, CallsFinite
<1> QED
  BY <1>8 DEF CountsInv

LEMMA CountCounts ==
    ASSUME TypeOK, CountsInv, ub = "none", NEW t \in Callers, Count(t)
    PROVE  CountsInv'
<1>1. Go(t, "idle") /\ "idle" \in Locations /\ t \in Added /\ t \notin Removed
  BY DEF Count, Return, Locations, Added, Removed
<1>2. Added' = Added \ {t} /\ Removed' = Removed \ {t}
  BY <1>1, MoveCounts
<1>3. Cardinality(Added)' = Cardinality(Added) - 1
  BY <1>1, <1>2, CallsFinite, FS_RemoveElement
<1>4. Cardinality(Removed)' = Cardinality(Removed)
  BY <1>1, <1>2
<1>5. length' = length /\ funcNum' = funcNum + 1
  BY DEF Count, Counted, fmap
<1>6. length \in Nat /\ funcNum \in Int
  BY DEF TypeOK, FmapOK
<1>7. length + Cardinality(Removed) = funcNum + Cardinality(Added)
  BY DEF CountsInv
<1>8. length' + Cardinality(Removed)' = funcNum' + Cardinality(Added)'
  BY <1>3, <1>4, <1>5, <1>6, <1>7, CallsFinite
<1> QED
  BY <1>8 DEF CountsInv

LEMMA DelShrinkCounts ==
    ASSUME TypeOK, CountsInv, ub = "none", NEW t \in Callers, DelShrink(t)
    PROVE  CountsInv'
<1>1. CASE length = 0
  BY <1>1 DEF DelShrink, CountsInv
<1>2. CASE length # 0
  <2>1. Go(t, "copy") /\ "copy" \in Locations /\ t \notin Added /\ t \notin Removed
    BY DEF DelShrink, Locations, Deleting, Added, Removed
  <2>2. Added' = Added \ {t} /\ Removed' = Removed \cup {t}
    BY <2>1, MoveCounts
  <2>3. Cardinality(Removed)' = Cardinality(Removed) + 1
    BY <2>1, <2>2, CallsFinite, FS_AddElement
  <2>4. Cardinality(Added)' = Cardinality(Added)
    BY <2>1, <2>2
  <2>5. length' = length - 1 /\ funcNum' = funcNum
    BY <1>2 DEF DelShrink
  <2>6. length \in Nat /\ funcNum \in Int
    BY DEF TypeOK, FmapOK
  <2>7. length + Cardinality(Removed) = funcNum + Cardinality(Added)
    BY DEF CountsInv
  <2>8. length' + Cardinality(Removed)' = funcNum' + Cardinality(Added)'
    BY <2>3, <2>4, <2>5, <2>6, <2>7, CallsFinite
  <2> QED
    BY <2>8 DEF CountsInv
<1> QED
  BY <1>1, <1>2

LEMMA UncountCounts ==
    ASSUME TypeOK, CountsInv, ub = "none", NEW t \in Callers, Uncount(t)
    PROVE  CountsInv'
<1>1. Go(t, "idle") /\ "idle" \in Locations /\ t \notin Added /\ t \in Removed
  BY DEF Uncount, Return, Locations, Added, Removed
<1>2. Added' = Added \ {t} /\ Removed' = Removed \ {t}
  BY <1>1, MoveCounts
<1>3. Cardinality(Removed)' = Cardinality(Removed) - 1
  BY <1>1, <1>2, CallsFinite, FS_RemoveElement
<1>4. Cardinality(Added)' = Cardinality(Added)
  BY <1>1, <1>2
<1>5. length' = length /\ funcNum' = funcNum - 1
  BY DEF Uncount, Uncounted, fmap
<1>6. length \in Nat /\ funcNum \in Int
  BY DEF TypeOK, FmapOK
<1>7. length + Cardinality(Removed) = funcNum + Cardinality(Added)
  BY DEF CountsInv
<1>8. length' + Cardinality(Removed)' = funcNum' + Cardinality(Added)'
  BY <1>3, <1>4, <1>5, <1>6, <1>7, CallsFinite
<1> QED
  BY <1>8 DEF CountsInv

\* The other steps leave both sides of the equation alone.
LEMMA CallerCounts ==
    ASSUME TypeOK, CountsInv, ub = "none", NEW t \in Callers, Caller(t)
    PROVE  CountsInv'
<1> t \in Threads
  BY DEF Threads
<1>1. ASSUME NEW n \in Names, AddFunction(t, n) \/ DelFunction(t, n)
      PROVE  CountsInv'
  <2>1. at[t] \in Outside /\ \E l \in Outside : Go(t, l)
    BY <1>1 DEF AddFunction, DelFunction, GetFunc, MayBegin, Outside
  <2>2. UNCHANGED <<length, funcNum>>
    BY <1>1 DEF AddFunction, DelFunction, fmap
  <2> QED
    BY <2>1, <2>2, MoveOutside, SameCounts
<1>2. CASE Grow(t)
  <2>1. at[t] \in Outside /\ Go(t, "insert") /\ "insert" \in Outside /\ UNCHANGED <<length, funcNum>>
    BY <1>2 DEF Grow, Outside
  <2> QED
    BY <2>1, MoveOutside, SameCounts
<1>3. CASE DelScan(t)
  <2>1. UNCHANGED <<length, funcNum>> /\ at[t] \in Outside /\ "shrink" \in Outside
    BY <1>3 DEF DelScan, fmap, Outside
  <2>2. CASE Go(t, "shrink")
    BY <2>1, <2>2, MoveOutside, SameCounts
  <2>3. CASE at' = at
    BY <2>1, <2>3, SameCounts DEF Added, Removed
  <2> QED
    BY <1>3, <2>2, <2>3 DEF DelScan
<1>4. CASE DelCopy(t) \/ DelFree(t) \/ DelPublish(t)
  <2>1. PICK l \in {"free", "publish", "uncount"} : Go(t, l)
    BY <1>4 DEF DelCopy, DelFree, DelPublish
  <2>2. t \in Removed /\ t \notin Added /\ l \in Locations
    BY <1>4 DEF DelCopy, DelFree, DelPublish, Added, Removed, Locations, Deleting
  <2>3. Added' = Added \ {t} /\ Removed' = Removed \cup {t}
    BY <2>1, <2>2, MoveCounts
  <2>4. UNCHANGED <<length, funcNum>>
    BY <1>4 DEF DelCopy, DelFree, DelPublish, fmap
  <2> QED
    BY <2>2, <2>3, <2>4, SameCounts
<1> QED
  BY <1>1, <1>2, <1>3, <1>4, InsertCounts, CountCounts, DelShrinkCounts, UncountCounts DEF Caller

LEMMA DispatcherCounts ==
    ASSUME TypeOK, CountsInv, ub = "none", NEW t \in Dispatchers, Dispatcher(t)
    PROVE  CountsInv'
<1>1. t \in Threads /\ at[t] \in Outside
  BY DEF Threads, Dispatcher, Lookup, MayBegin, Compare, Run, Outside
<1>2. UNCHANGED <<length, funcNum>>
  BY DEF Dispatcher, Lookup, Compare, Run, fmap
<1>3. (\E l \in Outside : Go(t, l)) \/ at' = at
  BY DEF Dispatcher, Lookup, GetFunc, Compare, Run, Return, Outside
<1>4. CASE \E l \in Outside : Go(t, l)
  BY <1>1, <1>2, <1>4, MoveOutside, SameCounts
<1>5. CASE at' = at
  BY <1>2, <1>5, SameCounts DEF Added, Removed
<1> QED
  BY <1>3, <1>4, <1>5

\* AddFunction and DelFunction of worker/worker.c change fmap->length and
\* w->funcNum under different locks; whenever no call is in progress the two
\* are equal, however the calls of any number of threads overlapped.
THEOREM CountsAlwaysAgree == Spec => []CountsAgree
<1>1. Init => CountsInv
  BY InitCounts
<1>2. TypeOK /\ CountsInv /\ [Next]_vars => CountsInv'
  <2> SUFFICES ASSUME TypeOK, CountsInv, [Next]_vars PROVE CountsInv'
    OBVIOUS
  <2>1. CASE Next
    BY <2>1, CallerCounts, DispatcherCounts DEF Next
  <2>2. CASE UNCHANGED vars
    BY <2>2 DEF vars, fmap, CountsInv, Added, Removed
  <2> QED
    BY <2>1, <2>2
<1>3. TypeOK /\ CountsInv => CountsAgree
  <2> SUFFICES ASSUME TypeOK, CountsInv, Quiet PROVE length = funcNum
    BY DEF CountsAgree
  <2>1. Added = {} /\ Removed = {}
    BY DEF Quiet, Added, Removed
  <2>2. Cardinality(Added) = 0 /\ Cardinality(Removed) = 0
    BY <2>1, FS_EmptySet
  <2>3. length + Cardinality(Removed) = funcNum + Cardinality(Added)
    BY DEF Quiet, CountsInv
  <2>4. length \in Nat /\ funcNum \in Int
    BY DEF TypeOK, FmapOK
  <2> QED
    BY <2>2, <2>3, <2>4
<1> QED
  BY <1>1, <1>2, <1>3, TypeCorrect, PTL DEF Spec

-----------------------------------------------------------------------------
(* Registrations that overlap.                                             *)

\* The threads that have a new Func and have not put it in the table yet.
Pending == {t \in Callers : at[t] \in {"grow", "insert"}}

\* Nothing has been deleted or overwritten, and nothing is half deleted.
Intact == freed = {} /\ ~clashed /\ Removed = {}

PublishAfterFree == freed = {} => \A t \in Callers : at[t] \notin {"publish", "uncount"}
OwnFunc == \A t, u \in Pending : func[t] = func[u] => t = u

Placed(f) ==
    /\ fn[f].key \in 0 .. size - 1
    /\ slots[fn[f].key] = f
    /\ \E i \in 0 .. length - 1 : Entry(keys, i) = fn[f].key
AllPlaced == \A f \in 1 .. Len(fn) : Placed(f) \/ \E t \in Pending : func[t] = f
AllCounted == length + Cardinality(Pending) = Len(fn)

KeptInv ==
    ub = "none" => PublishAfterFree /\ OwnFunc /\ (Intact => AllPlaced /\ AllCounted)

LEMMA PendingFinite == IsFiniteSet(Pending) /\ Cardinality(Pending) \in Nat
<1>1. Pending \in SUBSET Callers
  BY DEF Pending
<1>2. IsFiniteSet(Pending)
  BY <1>1, RegistryAssumption, FS_Subset
<1> QED
  BY <1>2, FS_CardinalityType

LEMMA InitKept == Init => KeptInv
<1> SUFFICES ASSUME Init PROVE KeptInv
  OBVIOUS
<1>1. Pending = {} /\ PublishAfterFree /\ OwnFunc
  BY DEF Init, Pending, PublishAfterFree, OwnFunc, Threads
<1>2. AllPlaced
  <2>1. Len(fn) = 0
    BY DEF Init
  <2> QED
    BY <2>1 DEF AllPlaced
<1>3. AllCounted
  <2>1. length = 0 /\ Len(fn) = 0
    BY DEF Init
  <2>2. Cardinality(Pending) = 0
    BY <1>1, FS_EmptySet
  <2> QED
    BY <2>1, <2>2 DEF AllCounted
<1> QED
  BY <1>1, <1>2, <1>3 DEF KeptInv

\* Where a step of one thread leaves the set of pending threads.
LEMMA MovePending ==
    ASSUME TypeOK, NEW t \in Threads, NEW l \in Locations, Go(t, l)
    PROVE  /\ l \notin {"grow", "insert"} => Pending' = Pending \ {t}
           /\ l \in {"grow", "insert"} /\ t \in Callers => Pending' = Pending \cup {t}
<1>1. at' = [at EXCEPT ![t] = l] /\ at \in [Threads -> Locations] /\ Callers \subseteq Threads
  BY DEF Go, TypeOK, Threads
<1>2. at'[t] = l /\ \A u \in Callers \ {t} : at'[u] = at[u]
  BY <1>1
<1> QED
  BY <1>2 DEF Pending

\* No step but DelFree and DelPublish reaches publish or uncount.
LEMMA MovePublish ==
    ASSUME TypeOK, PublishAfterFree, NEW t \in Threads, NEW l \in Locations, Go(t, l),
           l \notin {"publish", "uncount"}, freed' = freed
    PROVE  PublishAfterFree'
<1>1. at' = [at EXCEPT ![t] = l] /\ at \in [Threads -> Locations] /\ Callers \subseteq Threads
  BY DEF Go, TypeOK, Threads
<1>2. at'[t] = l /\ \A u \in Callers \ {t} : at'[u] = at[u]
  BY <1>1
<1> QED
  BY <1>2 DEF PublishAfterFree

\* A step that leaves the table and the pending threads alone, and one that
\* leaves the registry no longer intact.
LEMMA SameKept ==
    ASSUME KeptInv, ub = "none", UNCHANGED <<size, length, slots, keys, fn, Pending>>,
           \A u \in Pending : func'[u] = func[u], Intact' => Intact, PublishAfterFree'
    PROVE  KeptInv'
<1>1. OwnFunc'
  BY DEF KeptInv, OwnFunc
<1>2. ASSUME Intact'
      PROVE  AllPlaced' /\ AllCounted'
  <2>1. AllPlaced /\ AllCounted
    BY <1>2 DEF KeptInv
  <2>2. AllCounted'
    BY <2>1 DEF AllCounted
  <2>3. AllPlaced'
    BY <2>1 DEF AllPlaced, Placed, Entry
  <2> QED
    BY <2>2, <2>3
<1> QED
  BY <1>1, <1>2 DEF KeptInv

LEMMA LostKept ==
    ASSUME KeptInv, ub = "none", Pending' = Pending,
           \A u \in Pending : func'[u] = func[u], ~Intact', PublishAfterFree'
    PROVE  KeptInv'
<1>1. OwnFunc'
  BY DEF KeptInv, OwnFunc
<1> QED
  BY <1>1 DEF KeptInv

LEMMA AddFunctionKept ==
    ASSUME Typing, KeptInv, ub = "none", NEW t \in Callers, NEW n \in Names, AddFunction(t, n)
    PROVE  KeptInv'
<1> t \in Threads
  BY DEF Threads
<1> DEFINE l == IF Full THEN "grow" ELSE "insert"
<1>1. Go(t, l) /\ l \in {"grow", "insert"} /\ l \in Locations /\ at[t] = "idle"
  BY DEF AddFunction, MayBegin, Locations, Adding
<1> HIDE DEF l
<1>2. Pending' = Pending \cup {t} /\ t \notin Pending
  BY <1>1, MovePending DEF Typing, Pending
<1>3. UNCHANGED <<freed, clashed, size, slots, length, keys>>
  BY DEF AddFunction, fmap
<1>4. PublishAfterFree'
  BY <1>1, <1>3, MovePublish DEF Typing, KeptInv
<1>5. Len(fn) \in Nat /\ fn \in Seq([name : Names, key : Nat])
  BY LenFn DEF Typing, TypeOK, HeapOK
<1>6. Len(fn') = Len(fn) + 1 /\ \A f \in 1 .. Len(fn) : fn'[f] = fn[f]
  <2>1. fn' = Append(fn, [name |-> n, key |-> 0])
    BY DEF AddFunction
  <2> QED
    BY <1>5, <2>1
<1>7. func'[t] = Len(fn) + 1 /\ \A u \in Threads \ {t} : func'[u] = func[u]
  BY DEF AddFunction, Typing, TypeOK, LocalOK
<1>8. \A u \in Pending : u \in Threads \ {t} /\ func'[u] = func[u] /\ func[u] \in 1 .. Len(fn)
  BY <1>2, <1>7 DEF Pending, Typing, FuncKnown, Adding, Threads
<1>9. OwnFunc'
  <2> SUFFICES ASSUME NEW u \in Pending \cup {t}, NEW v \in Pending \cup {t}, func'[u] = func'[v]
               PROVE  u = v
    BY <1>2 DEF OwnFunc
  <2>1. \A w \in Pending : func'[w] # func'[t]
    BY <1>5, <1>7, <1>8
  <2> QED
    BY <1>8, <2>1 DEF KeptInv, OwnFunc
<1>10. ASSUME Intact'
       PROVE  AllPlaced' /\ AllCounted'
  <2>1. Intact
    <3>1. Removed' = Removed
      <4>1. l \in Outside /\ at[t] \in Outside
        BY <1>1 DEF Outside
      <4> QED
        BY <1>1, <4>1, MoveOutside DEF Typing
    <3> QED
      BY <1>3, <1>10, <3>1 DEF Intact
  <2>2. AllPlaced /\ AllCounted
    BY <2>1 DEF KeptInv
  <2>3. AllCounted'
    <3>1. Cardinality(Pending)' = Cardinality(Pending) + 1
      BY <1>2, PendingFinite, FS_AddElement
    <3>2. length \in Nat /\ length' = length
      BY <1>3 DEF Typing, TypeOK, FmapOK
    <3> QED
      BY <1>5, <1>6, <2>2, <3>1, <3>2, PendingFinite DEF AllCounted
  <2>4. AllPlaced'
    <3> SUFFICES ASSUME NEW f \in 1 .. Len(fn')
                 PROVE  Placed(f)' \/ \E u \in Pending' : func'[u] = f
      BY DEF AllPlaced
    <3>1. CASE f = Len(fn) + 1
      BY <1>2, <1>7, <3>1
    <3>2. CASE f \in 1 .. Len(fn)
      <4>1. CASE \E u \in Pending : func[u] = f
        BY <1>2, <1>8, <4>1
      <4>2. CASE Placed(f)
        BY <1>3, <1>6, <3>2, <4>2 DEF Placed, Entry
      <4> QED
        BY <2>2, <3>2, <4>1, <4>2 DEF AllPlaced
    <3> QED
      BY <1>5, <1>6, <3>1, <3>2
  <2> QED
    BY <2>3, <2>4
<1> QED
  BY <1>4, <1>9, <1>10 DEF KeptInv

LEMMA GrowKept ==
    ASSUME Typing, KeptInv, ub = "none", NEW t \in Callers, Grow(t)
    PROVE  KeptInv'
<1> t \in Threads
  BY DEF Threads
<1>1. Go(t, "insert") /\ "insert" \in Locations /\ at[t] = "grow" /\ "insert" \in Outside /\ at[t] \in Outside
  BY DEF Grow, Locations, Adding, Outside
<1>2. Pending' = Pending
  BY <1>1, MovePending DEF Typing, Pending
<1>3. UNCHANGED <<freed, clashed, length, keys, fn, func>>
  BY DEF Grow, heap, local
<1>4. PublishAfterFree' /\ OwnFunc'
  BY <1>1, <1>2, <1>3, MovePublish DEF Typing, KeptInv, OwnFunc
<1>5. ASSUME Intact'
      PROVE  AllPlaced' /\ AllCounted'
  <2>1. Removed' = Removed
    BY <1>1, MoveOutside DEF Typing
  <2>2. AllPlaced /\ AllCounted
    BY <1>3, <1>5, <2>1 DEF KeptInv, Intact
  <2>3. AllCounted'
    BY <1>2, <1>3, <2>2 DEF AllCounted
  <2>4. \A k \in 0 .. size - 1 : k \in 0 .. size' - 1 /\ slots'[k] = slots[k]
    <3>1. size \in Nat \ {0}
      BY DEF Typing, TypeOK, FmapOK
    <3>2. CASE UNCHANGED <<size, slots>>
      BY <3>2
    <3>3. CASE size' = 2 * size /\ slots' = Enlarged
      BY <3>1, <3>3 DEF Enlarged, SlotAt
    <3> QED
      BY <3>2, <3>3 DEF Grow
  <2>5. \A f : Placed(f) => Placed(f)'
    BY <1>3, <2>4 DEF Placed, Entry
  <2>6. AllPlaced'
    BY <1>2, <1>3, <2>2, <2>5 DEF AllPlaced
  <2> QED
    BY <2>3, <2>6
<1> QED
  BY <1>4, <1>5 DEF KeptInv

LEMMA InsertKept ==
    ASSUME Typing, KeptInv, ub = "none", NEW t \in Callers, Insert(t)
    PROVE  KeptInv'
<1> DEFINE g == func[t]
           k == Slot(fn[g].name)
<1> t \in Threads
  BY DEF Threads
<1>1. Go(t, "count") /\ "count" \in Locations /\ at[t] = "insert" /\ t \in Pending /\ t \notin Removed
  BY DEF Insert, Locations, Adding, Pending, Removed
<1>2. Pending' = Pending \ {t} /\ Removed' = Removed
  BY <1>1, MovePending, MoveCounts DEF Typing
<1>3. UNCHANGED <<size, freed, func>>
  BY DEF Insert, local
<1>4. PublishAfterFree' /\ OwnFunc'
  BY <1>1, <1>2, <1>3, MovePublish DEF Typing, KeptInv, OwnFunc
<1>5. fn \in Seq([name : Names, key : Nat]) /\ g \in 1 .. Len(fn) /\ Len(fn) \in Nat
  BY <1>1, LenFn DEF Typing, TypeOK, HeapOK, FuncKnown, Adding
<1>6. size \in Nat \ {0} /\ slots \in [0 .. size - 1 -> Pointers] /\ length \in Nat
  BY DEF Typing, TypeOK, FmapOK
<1>7. k \in 0 .. size - 1
  <2> HIDE DEF g
  <2>1. fn[g] \in [name : Names, key : Nat]
    BY <1>5, ElementOfSeq
  <2>2. fn[g].name \in Names
    BY <2>1
  <2> QED
    BY <1>6, <2>2, SlotInRange
<1>8. fn' = [fn EXCEPT ![g].key = k] /\ slots' = [slots EXCEPT ![k] = g] /\ length' = length + 1
      /\ keys' = [i \in 1 .. length |-> Entry(keys, i - 1)] \o <<k>>
      /\ clashed' = (clashed \/ slots[k] \notin {Null, Junk})
  BY DEF Insert, KeyAdded
<1> HIDE DEF k, g
<1>9. Len(fn') = Len(fn) /\ fn'[g].key = k /\ \A f \in 1 .. Len(fn) \ {g} : fn'[f] = fn[f]
  BY <1>5, <1>8
<1>10. Entry(keys', length) = k /\ \A i \in 0 .. length - 1 : Entry(keys', i) = Entry(keys, i)
  <2> DEFINE old == [i \in 1 .. length |-> Entry(keys, i - 1)]
  <2>1. keys' = old \o <<k>>
    BY <1>8
  <2>2. Len(old) = length /\ \A i \in 1 .. length : old[i] = Entry(keys, i - 1)
    BY <1>6
  <2>3. Len(keys') = length + 1 /\ keys'[length + 1] = k /\ \A i \in 1 .. length : keys'[i] = old[i]
    BY <1>6, <2>1, <2>2
  <2> HIDE DEF old
  <2>4. Entry(keys', length) = k
    BY <1>6, <2>3 DEF Entry
  <2>5. ASSUME NEW i \in 0 .. length - 1
        PROVE  Entry(keys', i) = Entry(keys, i)
    <3>1. i < Len(keys') /\ i + 1 \in 1 .. length /\ (i + 1) - 1 = i
      BY <1>6, <2>3
    <3> QED
      BY <2>2, <2>3, <3>1 DEF Entry
  <2> QED
    BY <2>4, <2>5
<1>11. ASSUME Intact'
       PROVE  AllPlaced' /\ AllCounted'
  <2>1. ~clashed' /\ ~clashed /\ slots[k] \in {Null, Junk}
    BY <1>8, <1>11 DEF Intact
  <2>2. AllPlaced /\ AllCounted
    BY <1>2, <1>3, <1>11, <2>1 DEF KeptInv, Intact
  <2>3. AllCounted'
    <3>1. Cardinality(Pending)' = Cardinality(Pending) - 1
      BY <1>1, <1>2, PendingFinite, FS_RemoveElement
    <3> QED
      BY <1>6, <1>8, <1>9, <2>2, <3>1, PendingFinite DEF AllCounted
  <2>4. AllPlaced'
    <3> SUFFICES ASSUME NEW f \in 1 .. Len(fn)
                 PROVE  Placed(f)' \/ \E u \in Pending' : func'[u] = f
      BY <1>9 DEF AllPlaced
    <3>1. CASE f = g
      <4>1. slots'[k] = g
        BY <1>6, <1>7, <1>8
      <4>2. length \in 0 .. length' - 1
        BY <1>6, <1>8
      <4> QED
        BY <1>3, <1>7, <1>9, <1>10, <3>1, <4>1, <4>2 DEF Placed
    <3>2. CASE f # g
      <4>1. fn'[f] = fn[f]
        BY <1>9, <3>2
      <4>2. CASE \E u \in Pending : func[u] = f
        BY <1>2, <1>3, <3>2, <4>2 DEF g
      <4>3. CASE Placed(f)
        <5>1. fn[f].key # k
          BY <2>1, <4>3 DEF Placed, Null, Junk
        <5>2. slots'[fn[f].key] = f
          BY <1>6, <1>8, <4>3, <5>1 DEF Placed
        <5>3. PICK i \in 0 .. length - 1 : Entry(keys, i) = fn[f].key
          BY <4>3 DEF Placed
        <5>4. Entry(keys', i) = fn[f].key
          BY <1>10, <5>3
        <5>5. i \in 0 .. length' - 1
          <6>1. length' = length + 1 /\ length \in Nat
            BY <1>6, <1>8
          <6> QED
            BY <6>1
        <5> QED
          BY <1>3, <4>1, <4>3, <5>2, <5>4, <5>5 DEF Placed
      <4> QED
        BY <2>2, <4>2, <4>3 DEF AllPlaced
    <3> QED
      BY <3>1, <3>2
  <2> QED
    BY <2>3, <2>4
<1> QED
  BY <1>4, <1>11 DEF KeptInv

\* Looking up, scanning and returning from AddFunction change nothing here.
LEMMA OtherKept ==
    ASSUME Typing, KeptInv, ub = "none", NEW t \in Threads,
           at[t] \in {"idle", "count", "scan", "compare", "run"},
           at' = at \/ \E l \in {"idle", "scan", "shrink", "compare", "run"} : Go(t, l),
           UNCHANGED <<fmap, heap, clashed>>,
           \A u \in Threads \ {t} : func'[u] = func[u]
    PROVE  KeptInv'
<1>1. at \in [Threads -> Locations] /\ Callers \subseteq Threads
  BY DEF Typing, TypeOK, Threads
<1>2. /\ at'[t] \in {"idle", "count", "scan", "shrink", "compare", "run"}
      /\ \A u \in Callers \ {t} : at'[u] = at[u]
  BY <1>1 DEF Go
<1>3. Pending' = Pending /\ Removed' = Removed /\ t \notin Pending
  BY <1>2 DEF Pending, Removed
<1>4. UNCHANGED <<size, length, slots, keys, fn, freed, clashed>>
  BY DEF fmap, heap
<1>5. PublishAfterFree'
  BY <1>2, <1>4 DEF KeptInv, PublishAfterFree
<1>6. \A u \in Pending : func'[u] = func[u]
  BY <1>1, <1>3 DEF Pending
<1>7. Intact' => Intact
  BY <1>3, <1>4 DEF Intact
<1> QED
  BY <1>3, <1>4, <1>5, <1>6, <1>7, SameKept

\* From the moment DelFunction has begun to take a function out the registry
\* is not intact: first the count is too small, then the function is gone.
LEMMA DeleteKept ==
    ASSUME Typing, KeptInv, ub = "none", NEW t \in Callers,
           DelShrink(t) \/ DelCopy(t) \/ DelFree(t) \/ DelPublish(t) \/ Uncount(t)
    PROVE  KeptInv'
<1>1. at \in [Threads -> Locations] /\ Callers \subseteq Threads /\ t \in Threads
  BY DEF Typing, TypeOK, Threads
<1>2. PICK l \in {"copy", "free", "publish", "uncount", "idle"} : Go(t, l)
  BY DEF DelShrink, DelCopy, DelFree, DelPublish, Uncount, Return
<1>3. at'[t] = l /\ \A u \in Callers \ {t} : at'[u] = at[u]
  BY <1>1, <1>2 DEF Go
<1>4. at[t] \in {"shrink", "copy", "free", "publish", "uncount"}
  BY DEF DelShrink, DelCopy, DelFree, DelPublish, Uncount
<1>5. Pending' = Pending /\ t \notin Pending
  BY <1>3, <1>4 DEF Pending
<1>6. \A u \in Pending : func'[u] = func[u]
  <2>1. \A u \in Threads \ {t} : func'[u] = func[u]
    BY DEF DelShrink, DelCopy, DelFree, DelPublish, Uncount, Return, local, Typing, TypeOK, LocalOK
  <2> QED
    BY <1>1, <1>5, <2>1 DEF Pending
<1>7. freed \subseteq freed' /\ (DelFree(t) => freed' # {})
  BY DEF DelShrink, DelCopy, DelFree, DelPublish, Uncount, heap
<1>8. DelPublish(t) \/ Uncount(t) => freed # {}
  BY DEF DelPublish, Uncount, KeptInv, PublishAfterFree
<1>9. ~Intact'
  <2>1. CASE DelShrink(t) \/ DelCopy(t)
    <3>1. at'[t] \in {"copy", "free"}
      BY <1>1, <2>1 DEF DelShrink, DelCopy, Go
    <3> QED
      BY <3>1 DEF Intact, Removed
  <2>2. CASE DelFree(t) \/ DelPublish(t) \/ Uncount(t)
    BY <1>7, <1>8, <2>2 DEF Intact
  <2> QED
    BY <2>1, <2>2
<1>10. PublishAfterFree'
  <2>1. CASE DelShrink(t) \/ DelCopy(t)
    <3>1. at'[t] \in {"copy", "free"} /\ freed' = freed
      BY <1>1, <2>1 DEF DelShrink, DelCopy, Go, heap
    <3> QED
      BY <1>3, <3>1 DEF KeptInv, PublishAfterFree
  <2>2. CASE DelFree(t) \/ DelPublish(t) \/ Uncount(t)
    BY <1>7, <1>8, <2>2 DEF PublishAfterFree
  <2> QED
    BY <2>1, <2>2
<1> QED
  BY <1>5, <1>6, <1>9, <1>10, LostKept

LEMMA NextKept == Typing /\ KeptInv /\ [Next]_vars => KeptInv'
<1> SUFFICES ASSUME Typing, KeptInv, [Next]_vars PROVE KeptInv'
  OBVIOUS
<1>1. ASSUME ub = "none", NEW t \in Callers, Caller(t)
      PROVE  KeptInv'
  <2> t \in Threads
    BY DEF Threads
  <2>1. ASSUME NEW n \in Names, DelFunction(t, n)
        PROVE  KeptInv'
    <3>1. at[t] = "idle" /\ (\E l \in {"idle", "scan"} : Go(t, l)) /\ UNCHANGED <<fmap, heap, clashed>>
      BY <2>1 DEF DelFunction, MayBegin, GetFunc
    <3>2. \A u \in Threads \ {t} : func'[u] = func[u]
      BY <2>1 DEF DelFunction, GetFunc, Typing, TypeOK, LocalOK
    <3> QED
      BY <1>1, <3>1, <3>2, OtherKept
  <2>2. CASE Count(t)
    <3>1. at[t] = "count" /\ Go(t, "idle") /\ UNCHANGED <<fmap, heap, clashed>>
      BY <2>2 DEF Count, Return
    <3>2. \A u \in Threads \ {t} : func'[u] = func[u]
      BY <2>2 DEF Count, Return, Typing, TypeOK, LocalOK
    <3> QED
      BY <1>1, <3>1, <3>2, OtherKept
  <2>3. CASE DelScan(t)
    <3>1. at[t] = "scan" /\ (at' = at \/ Go(t, "shrink")) /\ UNCHANGED <<fmap, heap, clashed, func>>
      BY <2>3 DEF DelScan
    <3> QED
      BY <1>1, <3>1, OtherKept
  <2> QED
    BY <1>1, <2>1, <2>2, <2>3, AddFunctionKept, GrowKept, InsertKept, DeleteKept DEF Caller
<1>2. ASSUME ub = "none", NEW t \in Dispatchers, Dispatcher(t)
      PROVE  KeptInv'
  <2> t \in Threads
    BY DEF Threads
  <2>1. at[t] \in {"idle", "compare", "run"} /\ UNCHANGED <<fmap, heap, clashed>>
    BY <1>2 DEF Dispatcher, Lookup, MayBegin, Compare, Run
  <2>2. at' = at \/ \E l \in {"idle", "compare", "run"} : Go(t, l)
    BY <1>2 DEF Dispatcher, Lookup, GetFunc, Compare, Run, Return
  <2>3. \A u \in Threads \ {t} : func'[u] = func[u]
    <3>1. func \in [Threads -> Pointers]
      BY DEF Typing, TypeOK, LocalOK
    <3>2. func' = func \/ \E f : func' = [func EXCEPT ![t] = f]
      BY <1>2 DEF Dispatcher, Lookup, GetFunc, Compare, Run, Return, local
    <3> QED
      BY <3>1, <3>2
  <2> QED
    BY <1>2, <2>1, <2>2, <2>3, OtherKept
<1>3. CASE UNCHANGED vars
  BY <1>3 DEF vars, fmap, heap, local, KeptInv, PublishAfterFree, OwnFunc, Intact,
              Removed, Pending, AllPlaced, AllCounted, Placed, Entry
<1> QED
  BY <1>1, <1>2, <1>3 DEF Next

\* AddFunc of worker/function.c compares length with size before it takes the
\* lock, and the registry may grow between that and its entry: still, until a
\* function is deleted or its slot overwritten, every registered function has
\* its slot and its key, whatever registrations overlapped.
THEOREM RegistrationsAlwaysKept == Spec => []RegistrationsKept
<1>1. Typing /\ KeptInv => RegistrationsKept
  <2> SUFFICES ASSUME Typing, KeptInv, Quiet, freed = {}, ~clashed
               PROVE  /\ length = Len(fn)
                      /\ \A f \in 1 .. Len(fn) :
                           /\ slots[fn[f].key] = f
                           /\ \E i \in 0 .. length - 1 : Entry(keys, i) = fn[f].key
    BY DEF RegistrationsKept
  <2>1. Pending = {} /\ Removed = {}
    BY DEF Quiet, Pending, Removed
  <2>2. AllPlaced /\ AllCounted
    BY <2>1 DEF Quiet, KeptInv, Intact
  <2>3. length = Len(fn)
    <3>1. Cardinality(Pending) = 0 /\ length \in Nat
      BY <2>1, FS_EmptySet DEF Typing, TypeOK, FmapOK
    <3> QED
      BY <2>2, <3>1 DEF AllCounted
  <2>4. \A f \in 1 .. Len(fn) : Placed(f)
    BY <2>1, <2>2 DEF AllPlaced
  <2> QED
    BY <2>3, <2>4 DEF Placed
<1> QED
  BY <1>1, InitKept, NextKept, AlwaysTyping, PTL DEF Spec

=============================================================================
