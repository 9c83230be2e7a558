------------------------------ MODULE FuncMap ------------------------------
(***************************************************************************)
(* The function registry of a worker (worker/function.c) as its callers    *)
(* use it: AddFunction and DelFunction of worker/worker.c, and the lookup  *)
(* at the start of WorkerDo.  The registry is an array of slots, indexed   *)
(* by the hash of a name, and an array of the slots in use in the order of *)
(* registration.  Names that hash to one slot overwrite each other.        *)
(*                                                                         *)
(* A step is what happens under one hold of fmap->lock, or between two     *)
(* holds: DelFunc reads, frees and replaces the arrays without the lock.   *)
(***************************************************************************)
EXTENDS Integers, Sequences, FiniteSets

CONSTANTS
    Names,        \* function names
    Hash,         \* Hash of function.c, on Names
    InitSize,     \* slots at first (MAP_SIZE, 128 in the code)
    MinRoom,      \* uints that fit in malloc's smallest chunk (6 with glibc)
    Granule,      \* and those that the next larger chunks add (4)
    Callers,      \* threads that call AddFunction and DelFunction
    Dispatchers,  \* read/write threads, which call GetFunc for their jobs
    MaxAdds,      \* bound: AddFunction calls
    Disciplined   \* whether the application registers no name twice, and lets
                  \* DelFunction run only while no other call is in progress

Threads == Callers \cup Dispatchers

ASSUME RegistryAssumption ==
    /\ Hash \in [Names -> Nat]
    /\ InitSize \in Nat \ {0}
    /\ MinRoom \in Nat /\ Granule \in Nat \ {0}
    /\ MaxAdds \in Nat
    /\ Disciplined \in BOOLEAN
    /\ IsFiniteSet(Callers)

VARIABLES
    size,     \* fmap->size
    length,   \* fmap->length
    slots,    \* fmap->functions
    shared,   \* whether fmap->functions points to allocated memory
    keys,     \* the entries of fmap->keys written so far
    room,     \* entries its chunk has room for
    fn,       \* the Func objects ever allocated
    freed,    \* those that have been freed
    funcNum,  \* w->funcNum
    at,       \* where each thread is
    handle,   \* the function each read/write thread's job asks for
    func,     \* the Func each thread works on, Null when idle
    newKeys,  \* newKeys and newFs of DelFunc
    newSlots,
    clashed,  \* history: a registration has overwritten a slot
    ub        \* the undefined behaviour that ended the program, if any

fmap == <<size, length, slots, shared, keys, room>>
heap == <<fn, freed>>
local == <<handle, func, newKeys, newSlots>>
vars == <<fmap, heap, funcNum, at, local, clashed, ub>>

-----------------------------------------------------------------------------
Null == 0
Junk == -1      \* memory that was never written
Pointers == {Junk, Null} \cup (1 .. MaxAdds)

\* How many uints fit in the chunk malloc returns for n of them.
Chunk(n) ==
    IF n <= MinRoom THEN MinRoom
    ELSE MinRoom + Granule * ((n - MinRoom + Granule - 1) \div Granule)

Slot(n) == Hash[n] % size
Entry(s, i) == IF i < Len(s) THEN s[i + 1] ELSE Junk
SlotAt(k) == IF k \in 0 .. size - 1 THEN slots[k] ELSE Junk
Live(f) == f \in 1 .. Len(fn) /\ f \notin freed

Adding == {"grow", "insert", "count"}
Deleting == {"scan", "shrink", "copy", "free", "publish", "uncount"}
Locations == {"idle", "compare", "run"} \cup Adding \cup Deleting

Go(t, l) == at' = [at EXCEPT ![t] = l]
Fails(cond, what) == ub' = IF cond THEN what ELSE ub

\* The call is over and its local variables are gone.
Return(t) ==
    /\ Go(t, "idle")
    /\ func' = [func EXCEPT ![t] = Null]
    /\ newKeys' = [newKeys EXCEPT ![t] = <<>>]
    /\ newSlots' = [newSlots EXCEPT ![t] = <<>>]
    /\ UNCHANGED handle

Init ==
    /\ size = InitSize /\ length = 0 /\ shared = TRUE
    /\ slots = [k \in 0 .. InitSize - 1 |-> Null]
    /\ keys = <<>> /\ room = Chunk(InitSize)
    /\ fn = <<>> /\ freed = {} /\ funcNum = 0
    /\ at = [t \in Threads |-> "idle"]
    /\ handle \in [Dispatchers -> Names]
    /\ func = [t \in Threads |-> Null]
    /\ newKeys = [t \in Threads |-> <<>>] /\ newSlots = [t \in Threads |-> <<>>]
    /\ clashed = FALSE /\ ub = "none"

MayBegin(t) ==
    /\ at[t] = "idle"
    /\ Disciplined => \A u \in Threads : at[u] \notin Deleting

-----------------------------------------------------------------------------
(* AddFunction.                                                            *)

\* AddFunc compares length with size before it takes the lock.
GrowOneLate == length > size
Full == length >= size

AddFunction(t, n) ==
    /\ MayBegin(t) /\ Len(fn) < MaxAdds
    /\ Disciplined => \A f \in 1 .. Len(fn) : fn[f].name = n => f \in freed
    /\ fn' = Append(fn, [name |-> n, key |-> 0])
    /\ func' = [func EXCEPT ![t] = Len(fn) + 1]
    /\ Go(t, IF Full THEN "grow" ELSE "insert")
    /\ UNCHANGED <<fmap, freed, funcNum, handle, newKeys, newSlots, clashed, ub>>

\* reNewFuncMap: nothing is rehashed, and what realloc adds is not cleared. An
\* array found empty by now is not grown.
NotEnlarged == slots
Enlarged == [k \in 0 .. 2 * size - 1 |-> SlotAt(k)]

Grow(t) ==
    /\ at[t] = "grow" /\ Go(t, "insert")
    /\ \/ /\ length > 0
          /\ size' = 2 * size
          /\ slots' = Enlarged
          /\ room' = Chunk(4 * size)
          /\ Fails(~shared, "freed table")
       \/ length = 0 /\ UNCHANGED <<size, slots, room, ub>>
    /\ UNCHANGED <<length, shared, keys, heap, funcNum, local, clashed>>

\* The entry written is keys[length], read with the lock held.
KeyNotAdded(k) == keys
KeyAdded(k) == [i \in 1 .. length |-> Entry(keys, i - 1)] \o <<k>>

Insert(t) ==
    /\ at[t] = "insert" /\ Go(t, "count")
    /\ LET k == Slot(fn[func[t]].name)
       IN /\ fn' = [fn EXCEPT ![func[t]].key = k]
          /\ slots' = [slots EXCEPT ![k] = func[t]]
          /\ keys' = KeyAdded(k)
          /\ clashed' = (clashed \/ slots[k] \notin {Null, Junk})
    /\ length' = length + 1
    /\ ub' = IF ~shared THEN "freed table"
             ELSE IF length >= room THEN "overrun" ELSE ub
    /\ UNCHANGED <<size, shared, room, freed, funcNum, local>>

ForgetCount == funcNum
Counted == funcNum + 1
Uncounted == funcNum - 1

Count(t) ==
    /\ at[t] = "count" /\ Return(t)
    /\ funcNum' = Counted
    /\ UNCHANGED <<fmap, heap, clashed, ub>>

-----------------------------------------------------------------------------
(* DelFunction.                                                            *)

\* GetFunc, under the lock; the pointer it returns is used after the unlock.
GetFunc(t, n, found) ==
    LET f == IF length = 0 THEN Null ELSE slots[Slot(n)]
    IN /\ func' = [func EXCEPT ![t] = f]
       /\ Go(t, IF f = Null THEN "idle" ELSE found)
       /\ Fails(length # 0 /\ ~shared, "freed table")

DelFunction(t, n) ==
    /\ MayBegin(t)
    /\ Disciplined => \A u \in Threads : at[u] = "idle"
    /\ GetFunc(t, n, "scan")
    /\ UNCHANGED <<fmap, heap, funcNum, handle, newKeys, newSlots, clashed>>

\* The last entry of the registry's keys that equals k, the first one if
\* there is none.
LastKey(k) ==
    LET Same == {i \in 0 .. length - 1 : Entry(keys, i) = k}
    IN IF Same = {} THEN 0 ELSE CHOOSE i \in Same : \A j \in Same : j <= i

\* newKeys is allocated for length - 1 entries and length of them are written,
\* the last from beyond the old ones.
DelScan(t) ==
    /\ at[t] = "scan"
    /\ IF Live(func[t])
         THEN /\ Go(t, "shrink")
              /\ newKeys' = [newKeys EXCEPT ![t] = [i \in 1 .. length |->
                    Entry(keys, IF i - 1 < LastKey(fn[func[t]].key) THEN i - 1 ELSE i)]]
              /\ Fails(length > 0 /\ length > Chunk(length - 1), "overrun")
         ELSE UNCHANGED <<at, newKeys>> /\ ub' = "dangling"
    /\ UNCHANGED <<fmap, heap, funcNum, handle, func, newSlots, clashed>>

DelShrink(t) ==
    /\ at[t] = "shrink" /\ Go(t, "copy")
    /\ IF length = 0
         THEN UNCHANGED length /\ ub' = "underflow"
         ELSE length' = length - 1 /\ UNCHANGED ub
    /\ UNCHANGED <<size, slots, shared, keys, room, heap, funcNum, local, clashed>>

KeptSlots(t) == {Entry(newKeys[t], i) : i \in 0 .. length - 1}
CopyAll(t) == slots
CopyKept(t) == [k \in 0 .. size - 1 |-> IF k \in KeptSlots(t) THEN slots[k] ELSE Null]

DelCopy(t) ==
    /\ at[t] = "copy" /\ Go(t, "free")
    /\ newSlots' = [newSlots EXCEPT ![t] = CopyKept(t)]
    /\ ub' = IF ~shared THEN "freed table"
             ELSE IF Junk \in KeptSlots(t) THEN "junk" ELSE ub
    /\ UNCHANGED <<fmap, heap, funcNum, handle, func, newKeys, clashed>>

\* make_free of the function and of the old array, which stays visible.
DelFree(t) ==
    /\ at[t] = "free" /\ Go(t, "publish")
    /\ freed' = freed \cup {func[t]}
    /\ shared' = FALSE
    /\ Fails(~shared \/ ~Live(func[t]), "double free")
    /\ UNCHANGED <<size, length, slots, keys, room, fn, funcNum, local, clashed>>

\* The keys' chunk now has room for as many entries as are left.
DelPublish(t) ==
    /\ at[t] = "publish" /\ Go(t, "uncount")
    /\ keys' = newKeys[t] /\ room' = Chunk(IF Len(newKeys[t]) = 0 THEN 0 ELSE Len(newKeys[t]) - 1)
    /\ slots' = [k \in 0 .. size - 1 |->
                    IF k \in DOMAIN newSlots[t] THEN newSlots[t][k] ELSE Junk]
    /\ shared' = TRUE
    /\ UNCHANGED <<size, length, heap, funcNum, local, clashed, ub>>

Uncount(t) ==
    /\ at[t] = "uncount" /\ Return(t)
    /\ funcNum' = Uncounted
    /\ UNCHANGED <<fmap, heap, clashed, ub>>

-----------------------------------------------------------------------------
(* WorkerDo's use of the registry for a job's handle n.                    *)

Lookup(t, n) ==
    /\ MayBegin(t)
    /\ handle' = [handle EXCEPT ![t] = n]
    /\ GetFunc(t, n, "compare")
    /\ UNCHANGED <<fmap, heap, funcNum, newKeys, newSlots, clashed>>

\* strcmp with the function's own name, and the comparison of the hashes.
Matches(t) == fn[func[t]].name = handle[t]

Compare(t) ==
    /\ at[t] = "compare"
    /\ \/ Live(func[t]) /\ Matches(t) /\ Go(t, "run") /\ UNCHANGED <<local, ub>>
       \/ Live(func[t]) /\ ~Matches(t) /\ Return(t) /\ UNCHANGED ub
       \/ ~Live(func[t]) /\ ub' = "dangling" /\ UNCHANGED <<at, local>>
    /\ UNCHANGED <<fmap, heap, funcNum, clashed>>

Run(t) ==
    /\ at[t] = "run"
    /\ \/ Live(func[t]) /\ Return(t) /\ UNCHANGED ub
       \/ ~Live(func[t]) /\ ub' = "dangling" /\ UNCHANGED <<at, local>>
    /\ UNCHANGED <<fmap, heap, funcNum, clashed>>

-----------------------------------------------------------------------------
Caller(t) ==
    \/ \E n \in Names : AddFunction(t, n) \/ DelFunction(t, n)
    \/ Grow(t) \/ Insert(t) \/ Count(t)
    \/ DelScan(t) \/ DelShrink(t) \/ DelCopy(t) \/ DelFree(t) \/ DelPublish(t) \/ Uncount(t)
Dispatcher(t) ==
    \/ \E n \in Names : Lookup(t, n)
    \/ Compare(t) \/ Run(t)

Next ==
    /\ ub = "none"
    /\ \/ \E t \in Callers : Caller(t)
       \/ \E t \in Dispatchers : Dispatcher(t)

Spec == Init /\ [][Next]_vars

-----------------------------------------------------------------------------
(* Properties.                                                             *)

FmapOK ==
    /\ size \in Nat \ {0} /\ length \in Nat /\ room \in Nat /\ shared \in BOOLEAN
    /\ slots \in [0 .. size - 1 -> Pointers]
    /\ keys \in Seq(Nat \cup {Junk})
HeapOK ==
    /\ fn \in Seq([name : Names, key : Nat]) /\ Len(fn) <= MaxAdds
    /\ freed \subseteq Pointers
LocalOK ==
    /\ handle \in [Dispatchers -> Names] /\ func \in [Threads -> Pointers]
    /\ newKeys \in [Threads -> Seq(Nat \cup {Junk})]
    /\ DOMAIN newSlots = Threads
    /\ \A t \in Threads : newSlots[t] \in [DOMAIN newSlots[t] -> Pointers]
Outcomes == {"none", "freed table", "overrun", "dangling", "underflow", "junk", "double free"}

\* The shape of every variable.
TypeOK ==
    /\ FmapOK /\ HeapOK /\ LocalOK
    /\ at \in [Threads -> Locations]
    /\ funcNum \in Int /\ clashed \in BOOLEAN /\ ub \in Outcomes

Quiet == ub = "none" /\ \A t \in Callers : at[t] = "idle"

\* Between calls the registry's length is the worker's count of functions,
\* which Ready and Work insist on before they connect and serve.
CountsAgree == Quiet => length = funcNum

\* Between calls every key Work goes through leads to a function, whatever
\* names clashed and however often the registry grew.
KeysDense ==
    Quiet => \A i \in 0 .. length - 1 :
        Entry(keys, i) \in 0 .. size - 1 /\ slots[Entry(keys, i)] \notin {Null, Junk}

\* Registrations may overlap and the registry may grow between them: until a
\* function is deleted or overwritten, each has its slot and its key.
RegistrationsKept ==
    Quiet /\ freed = {} /\ ~clashed =>
        /\ length = Len(fn)
        /\ \A f \in 1 .. Len(fn) :
             /\ slots[fn[f].key] = f
             /\ \E i \in 0 .. length - 1 : Entry(keys, i) = fn[f].key

\* Between calls a slot never holds a freed function or one that belongs
\* elsewhere, until a registration overwrites a slot or the registry grows.
SlotsLive ==
    Quiet /\ ~clashed /\ size = InitSize => \A k \in 0 .. size - 1 :
        slots[k] # Null => Live(slots[k]) /\ k = Slot(fn[slots[k]].name)

\* A freed function is used only by a job that hashes to its slot and looked
\* it up before it was deleted, until a registration overwrites a slot or the
\* registry grows.
DanglingOnlyInRace ==
    ub = "dangling" /\ ~clashed /\ size = InitSize =>
        \E t \in Dispatchers :
            func[t] \in freed /\ Slot(handle[t]) = Slot(fn[func[t]].name)

\* The keys are written outside their chunk only once DelFunction has replaced
\* it by a smaller one, or writes its copy, and only with more registrations
\* than the smallest chunk has room for.
OverrunNeedsDelete ==
    ub = "overrun" =>
        /\ Len(fn) > MinRoom
        /\ freed # {} \/ \E t \in Callers : at[t] = "shrink"

\* No call goes wrong for a disciplined application.
NoUndefinedBehaviour == ub = "none"

Callable(n) ==
    LET f == slots[Slot(n)] IN Live(f) /\ fn[f].name = n

CallOf(t) ==
    CASE at[t] = "idle" -> [op |-> "none", done |-> FALSE]
      [] at[t] \in Adding -> [op |-> "add", name |-> fn[func[t]].name, done |-> at[t] = "count"]
      [] at[t] \in Deleting -> [op |-> "del", name |-> fn[func[t]].name,
                                done |-> at[t] \in {"publish", "uncount"}]
      [] OTHER -> [op |-> "run", name |-> handle[t]]

Service == INSTANCE Registry WITH registered <- {n \in Names : Callable(n)},
                                  call <- [t \in Threads |-> CallOf(t)]

\* A disciplined application sees a set of names.
ImplementsRegistry == Service!Spec
=============================================================================
