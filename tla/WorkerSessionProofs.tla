------------------------- MODULE WorkerSessionProofs -------------------------
(***************************************************************************)
(* Theorems of WorkerSession, for any functions, any number and sizes of   *)
(* jobs, any sizes of a header and any number of calls at run time: what   *)
(* ReadNmidRes takes off the stream, which objects WriteNmidReq uses, and  *)
(* what the server gets to see.                                            *)
(*                                                                         *)
(* The invariants are stated in groups, each proved from those before it.  *)
(***************************************************************************)
EXTENDS WorkerSession, SequenceTheorems, TLAPS

Byte == (0 .. MaxJobs) \X (Nat \ {0})
Job == [func : Funcs, size : BodySizes, decodes : BOOLEAN]
Results == {"full", "short", "none"}
USE DEF worker, registry

-----------------------------------------------------------------------------
(* The invariants.                                                         *)

\* The shape of the registry, of everything else, and the indices that are in
\* use are those of something.
Entry(n) == [name : Funcs, key : 0 .. n - 1, live : BOOLEAN]
RegistryShape ==
    /\ size \in Nat \ {0} /\ keys \in Seq(0 .. size - 1) /\ fn \in Seq(Entry(size))
    /\ slots \in [0 .. size - 1 -> {Junk, Null} \cup (1 .. Len(fn))]
SessionShape ==
    /\ proc \in {"run", "exit", "sigpipe", "abort", "ub"}
    /\ main \in {"register", "announce", "send", "start", "join", "sleep"} /\ next \in Nat
    /\ rw \in {"none", "poll", "read", "do", "call", "copy", "pack", "head", "body", "gone"}
    /\ watch \in {"READ", "WRITE"} /\ res \in Responses
    /\ req \in Seq(Requests) /\ aReq \in 0 .. Len(req) /\ wreq \in 0 .. Len(req)
    /\ app \in [at : {"idle", "check", "pack", "head", "body", "free"}, kind : Kinds,
                name : Args, req : 0 .. Len(req)]
    /\ calls \in 0 .. RuntimeCalls
    /\ jobs \in Seq(Job) /\ Len(jobs) <= MaxJobs
    /\ notices \in 0 .. MaxNotices
    /\ net \in Seq(Byte) /\ inbox \in Seq(Byte)
    /\ closed \in BOOLEAN /\ wire \in Seq(Parts) /\ seen \in 0 .. Len(wire)
    /\ split \in BOOLEAN /\ deleted \in BOOLEAN /\ refused \in BOOLEAN
Ranges ==
    /\ func \in {Junk, Null} \cup (1 .. Len(fn))
    /\ next >= 1 /\ res.job <= Len(jobs)
    /\ \A k \in 1 .. Len(inbox) : inbox[k][1] <= Len(jobs)
    /\ \A k \in 1 .. Len(net) : net[k][1] <= Len(jobs)
    /\ rw = "none" <=> main \in {"register", "announce", "send", "start"}
    /\ rw = "copy" => func \in 1 .. Len(fn)
    /\ IF rw = "none" THEN Len(req) = 0 ELSE aReq >= 1
    /\ rw \in {"head", "body"} => wreq >= 1
    /\ app.at \in {"pack", "head", "body", "free"} => app.req >= 1 /\ rw # "none"
Typed == RegistryShape /\ SessionShape /\ Ranges

\* The registry: it never shrinks, nothing but growth leaves a slot unwritten,
\* and until DelFunction is called every key still stands for its function or
\* for a later one of the same slot.
Filled ==
    /\ Len(keys) = Len(fn)
    /\ \A k \in 0 .. size - 1 : slots[k] \in 1 .. Len(fn) => fn[slots[k]].key = k
    /\ \A i \in 1 .. Len(fn) :
           /\ fn[i].live /\ keys[i] = fn[i].key /\ slots[fn[i].key] \in i .. Len(fn)
           /\ ~Grown => fn[i].key = Slot(fn[i].name)
Table ==
    /\ MapSize <= size
    /\ ~Grown => \A k \in 0 .. size - 1 : slots[k] # Junk
    /\ IF main = "register" THEN calls = 0 /\ next = Len(fn) + 1 /\ Len(fn) <= Len(Initial)
                             ELSE Len(Initial) <= Len(fn)
    /\ Len(fn) > Len(Initial) => calls > 0
    /\ \A i \in 1 .. Len(Initial) : i <= Len(fn) => fn[i].name = Initial[i]
    /\ deleted => calls > 0
    /\ ~deleted => Filled
    /\ ~deleted /\ main = "send" => func \in 1 .. Len(fn)
    /\ rw = "call" => func # Null /\ (func = Junk => Grown)

\* Start's request is the only one until a Broadcast at run time allocates
\* another: it is not freed, holds no registration, and holds a result that is
\* not freed whenever it is to be written, unless a job was refused.
Result == req[1].kind = "ret" /\ req[1].ret = "live"
Heap ==
    /\ Len(req) > 1 \/ app.at # "idle" => calls > 0
    /\ rw \in {"head", "body"} => watch = "WRITE"
    /\ Len(req) <= 1 => app.at \in {"idle", "check"}
    /\ Len(req) = 1 =>
        /\ req[1].live /\ req[1].kind \in {"none", "ret"}
        /\ rw \in {"head", "body"} => req[1].kind = "ret"
        /\ rw = "pack" => req[1].ret \in {"copied", "live"}
        /\ proc = "run" /\ ~refused /\ rw \in {"poll", "head", "body"} /\ watch = "WRITE" => Result
    /\ proc \in {"ub", "abort"} =>
           \/ Len(req) > 1 \/ refused \/ deleted \/ Grown
           \/ rw = "do" /\ ~(Decodes /\ res.job # NoJob)

\* What the server has been told, will be told, and asks for is found by its
\* name, and what was found for a job has the job's name, until the registry has
\* lost a function.
Callable(f) == f \in Funcs /\ slots[Slot(f)] \in 1 .. Len(fn) /\ fn[slots[Slot(f)]].name = f
Found ==
    /\ \A j \in 1 .. Len(jobs) : Callable(jobs[j].func)
    /\ \A i \in 1 .. Len(wire) :
           wire[i].part = "body" /\ wire[i].kind = "add" => Callable(wire[i].arg)
    /\ \A r \in 1 .. Len(req) : req[r].kind = "add" => Callable(req[r].arg)
    /\ app.kind = "add" => Callable(app.name)
    /\ main = "send" => func \in 1 .. Len(fn) /\ Callable(fn[func].name)
    /\ rw \in {"call", "copy"} =>
           /\ func \in 1 .. Len(fn) /\ Callable(fn[func].name)
           /\ res.job # NoJob => fn[func].name = jobs[res.job].func
Names ==
    /\ main = "register" => wire = <<>> /\ jobs = <<>> /\ req = <<>> /\ app.kind = "none"
    /\ ~Disturbed => Found

-----------------------------------------------------------------------------
(* Sequences.                                                              *)

\* A part as a write leaves it on the stream.
Cut(p, o) == [p EXCEPT !.whole = (o = "full" /\ p.whole)]

\* What one write leaves on the stream: what was there, and the part, whole or
\* cut, or nothing more.
LEMMA Written ==
    ASSUME NEW w \in Seq(Parts), NEW p \in Parts, NEW o \in Results
    PROVE  /\ Write(w, p, o) \in Seq(Parts)
           /\ \A i \in 1 .. Len(w) : Write(w, p, o)[i] = w[i]
           /\ IF o = "none" THEN Write(w, p, o) = w
                            ELSE /\ Len(Write(w, p, o)) = Len(w) + 1
                                 /\ Write(w, p, o)[Len(w) + 1] = Cut(p, o)
           /\ Cut(p, o) \in Parts
<1> DEFINE q == Cut(p, o)
<1>0. q \in Parts
  BY DEF Parts, Cut
<1>1. CASE o = "none"
  BY <1>0, <1>1 DEF Write
<1>2. CASE o # "none"
  <2>2. Write(w, p, o) = Append(w, q)
    <3>1. CASE o = "full"
      <4>1. q = p
        BY <3>1 DEF Parts, Cut
      <4> QED
        BY <3>1, <4>1 DEF Write
    <3>2. CASE o = "short"
      <4>1. q = [p EXCEPT !.whole = FALSE]
        BY <3>2 DEF Parts, Cut
      <4> QED
        BY <3>2, <4>1 DEF Write
    <3> QED
      BY <1>2, <3>1, <3>2 DEF Results
  <2> HIDE DEF q
  <2>3. /\ Append(w, q) \in Seq(Parts)
        /\ Len(Append(w, q)) = Len(w) + 1
        /\ \A i \in 1 .. Len(w) : Append(w, q)[i] = w[i]
        /\ Append(w, q)[Len(w) + 1] = q
    BY <1>0, AppendProperties
  <2> QED
    BY <1>0, <1>2, <2>2, <2>3 DEF q
<1> QED
  BY <1>1, <1>2

\* Both writes of a request that nobody else is writing to.
LEMMA FrameWrites ==
    ASSUME SessionAssumption, wire \in Seq(Parts), NEW k \in Kinds, NEW x \in Args,
           NEW w \in FrameWritten(k, x)
    PROVE  \E o1, o2 \in WriteOutcomes :
               /\ w = Write(Write(wire, Part("head", k, 0), o1), Part("body", k, x), o2)
               /\ o1 \in Results /\ o2 \in Results
               /\ Part("head", k, 0) \in Parts /\ Part("body", k, x) \in Parts
               /\ Write(wire, Part("head", k, 0), o1) \in Seq(Parts)
               /\ w \in Seq(Parts) /\ Len(wire) <= Len(w)
<1>1. PICK o1 \in WriteOutcomes, o2 \in WriteOutcomes :
          w = Write(Write(wire, Part("head", k, 0), o1), Part("body", k, x), o2)
  BY DEF FrameWritten
<1>2. o1 \in Results /\ o2 \in Results
  BY <1>1 DEF SessionAssumption, Results
<1>3. Part("head", k, 0) \in Parts /\ Part("body", k, x) \in Parts
  BY DEF SessionAssumption, Part, Parts, Args
<1> DEFINE v == Write(wire, Part("head", k, 0), o1)
<1>4. v \in Seq(Parts) /\ Len(v) \in Nat /\ Len(wire) \in Nat
      /\ (Len(v) = Len(wire) \/ Len(v) = Len(wire) + 1)
  BY <1>2, <1>3, Written, LenProperties
<1> HIDE DEF v
<1>5. Write(v, Part("body", k, x), o2) \in Seq(Parts)
      /\ (Len(Write(v, Part("body", k, x), o2)) = Len(v)
            \/ Len(Write(v, Part("body", k, x), o2)) = Len(v) + 1)
  BY <1>2, <1>3, <1>4, Written
<1>6. w = Write(v, Part("body", k, x), o2)
  BY <1>1 DEF v
<1>7. w \in Seq(Parts) /\ Len(wire) <= Len(w)
  BY <1>4, <1>5, <1>6
<1> QED
  BY <1>1, <1>2, <1>3, <1>4, <1>7 DEF v

-----------------------------------------------------------------------------
(* Types.                                                                  *)

\* A new connection has the shape.
LEMMA TypedInit == SessionAssumption /\ Init => Typed
<1> SUFFICES ASSUME SessionAssumption, Init
             PROVE  Typed
  OBVIOUS
<1>1. next = 1 /\ 1 \in Nat /\ calls \in 0 .. RuntimeCalls /\ notices \in 0 .. MaxNotices
  BY DEF Init, SessionAssumption
<1>2. res \in Responses /\ res.job = 0
  BY DEF Init, NewResponse, Responses, SessionAssumption, NoJob
<1>3. app \in [at : {"idle", "check", "pack", "head", "body", "free"}, kind : Kinds,
               name : Args, req : 0 .. Len(req)]
  BY DEF Init, SessionAssumption, NoJob, Kinds, Args
<1>4. /\ req \in Seq(Requests) /\ jobs \in Seq([func : Funcs, size : BodySizes, decodes : BOOLEAN])
      /\ wire \in Seq(Parts) /\ net = <<>> /\ inbox = <<>>
      /\ net \in Seq((0 .. MaxJobs) \X (Nat \ {0}))
      /\ inbox \in Seq((0 .. MaxJobs) \X (Nat \ {0}))
      /\ Len(net) = 0 /\ Len(inbox) = 0 /\ Len(req) = 0 /\ Len(jobs) = 0 /\ Len(wire) = 0
  BY DEF Init, SessionAssumption
<1>5. seen \in 0 .. Len(wire) /\ aReq \in 0 .. Len(req) /\ wreq \in 0 .. Len(req)
      /\ Len(jobs) <= MaxJobs
  BY <1>4 DEF Init, SessionAssumption
<1>8. /\ closed \in BOOLEAN /\ split \in BOOLEAN /\ deleted \in BOOLEAN /\ refused \in BOOLEAN
  BY DEF Init
<1>9. /\ size \in Nat \ {0} /\ keys \in Seq(0 .. size - 1)
      /\ fn \in Seq([name : Funcs, key : 0 .. size - 1, live : BOOLEAN])
      /\ slots \in [0 .. size - 1 -> {Junk, Null} \cup (1 .. Len(fn))]
      /\ func \in {Junk, Null} \cup (1 .. Len(fn))
  BY DEF Init, SessionAssumption
<1>7. SessionShape
  BY <1>1, <1>2, <1>3, <1>4, <1>5, <1>8 DEF Init, SessionShape, Job, Byte
<1>r. RegistryShape
  BY <1>9 DEF RegistryShape, Entry
<1>6. Ranges
  BY <1>1, <1>2, <1>4, <1>9 DEF Init, Ranges
<1> QED
  BY <1>6, <1>7, <1>r DEF Typed

\* The parts of the shape, as the proofs cite them.
LEMMA Shape ==
    ASSUME SessionAssumption, Typed
    PROVE  /\ res \in Responses /\ res.size \in Nat /\ res.size >= 1 /\ res.job \in 0 .. Len(jobs)
           /\ req \in Seq(Requests) /\ Len(req) \in Nat
           /\ wire \in Seq(Parts) /\ Len(wire) \in Nat /\ seen \in 0 .. Len(wire)
           /\ jobs \in Seq(Job) /\ Len(jobs) \in 0 .. MaxJobs
           /\ net \in Seq(Byte) /\ Len(net) \in Nat /\ inbox \in Seq(Byte) /\ Len(inbox) \in Nat
           /\ MaxJobs \in Nat /\ RuntimeCalls \in Nat /\ MinDataSize \in Nat \ {0}
           /\ 0 \in Args
<1>a. res \in Responses
  BY DEF Typed, SessionShape
<1>b. req \in Seq(Requests)
  BY DEF Typed, SessionShape
<1>c. wire \in Seq(Parts)
  BY DEF Typed, SessionShape
<1>1. res \in Responses /\ req \in Seq(Requests) /\ wire \in Seq(Parts)
  BY <1>a, <1>b, <1>c
<1>2. jobs \in Seq(Job)
  BY DEF Typed, SessionShape, Job
<1>3. net \in Seq(Byte) /\ inbox \in Seq(Byte)
  BY DEF Typed, SessionShape, Byte
<1>4. MaxJobs \in Nat /\ RuntimeCalls \in Nat /\ MinDataSize \in Nat \ {0}
      /\ BodySizes \subseteq Nat \ {0} /\ 0 \in Args
  BY DEF SessionAssumption, Args
<1>5. res.size \in Nat /\ res.size >= 1
  <2>1. res.size \in BodySizes \cup {MinDataSize}
    BY <1>1 DEF Responses
  <2>2. \A n \in BodySizes \cup {MinDataSize} : n \in Nat /\ n # 0
    BY <1>4
  <2>3. res.size \in Nat /\ res.size # 0
    BY <2>1, <2>2
  <2> QED
    BY <2>3
<1>6. res.job \in 0 .. MaxJobs
  BY <1>1 DEF Responses
<1>7. Len(jobs) \in Nat
  BY <1>2
<1>8. res.job <= Len(jobs)
  BY DEF Typed, Ranges
<1>9. res.job \in 0 .. Len(jobs)
  BY <1>4, <1>6, <1>7, <1>8
<1>10. Len(jobs) <= MaxJobs
  BY DEF Typed, SessionShape
<1>11. Len(jobs) \in 0 .. MaxJobs
  BY <1>4, <1>7, <1>10
<1>12. seen \in 0 .. Len(wire)
  BY DEF Typed, SessionShape
<1>13. Len(req) \in Nat /\ Len(wire) \in Nat /\ Len(net) \in Nat /\ Len(inbox) \in Nat
  BY <1>1, <1>3
<1> QED
  BY <1>1, <1>2, <1>3, <1>4, <1>5, <1>9, <1>11, <1>12, <1>13

\* The registry's part of it.
LEMMA Shaped ==
    ASSUME Typed
    PROVE  /\ RegistryShape /\ Len(fn) \in Nat /\ Len(keys) \in Nat
           /\ func \in {Junk, Null} \cup (1 .. Len(fn))
           /\ \A p \in 1 .. Len(fn) :
                  fn[p] \in Entry(size) /\ fn[p].name \in Funcs /\ fn[p].key \in 0 .. size - 1
<1>1. RegistryShape /\ func \in {Junk, Null} \cup (1 .. Len(fn))
  BY DEF Typed, Ranges
<1>2. fn \in Seq(Entry(size)) /\ keys \in Seq(0 .. size - 1)
  BY <1>1 DEF RegistryShape
<1>3. Len(fn) \in Nat /\ Len(keys) \in Nat
  BY <1>2, LenProperties
<1>4. ASSUME NEW p \in 1 .. Len(fn)
      PROVE  fn[p] \in Entry(size)
  BY <1>2, <1>4, ElementOfSeq
<1> QED
  BY <1>1, <1>3, <1>4 DEF Entry

\* The slot of a name, and the names of what WorkerDo decodes.
LEMMA SlotRange ==
    ASSUME SessionAssumption, Typed, NEW f \in Funcs
    PROVE  Slot(f) \in 0 .. size - 1
<1>1. Hash[f] \in Nat /\ size \in Nat \ {0}
  BY Shaped DEF SessionAssumption, RegistryShape
<1> QED
  BY <1>1 DEF Slot

LEMMA HandleFunc ==
    ASSUME SessionAssumption, Typed, Decodes, NEW f \in Handles
    PROVE  f \in Funcs
<1>1. res.job # NoJob => res.job \in 1 .. Len(jobs)
  BY Shape DEF NoJob
<1>2. res.job # NoJob => jobs[res.job] \in Job
  BY <1>1, Shape, ElementOfSeq
<1> QED
  BY <1>2 DEF Handles, Job

\* The slots of a smaller registry are slots of a larger one, and so are the
\* functions in them.
LEMMA SlotsKept ==
    ASSUME NEW m \in Nat, NEW n \in Nat, m <= n
    PROVE  \A i \in 0 .. m - 1 : i \in 0 .. n - 1 /\ i < m
OBVIOUS

LEMMA EntriesKept ==
    ASSUME NEW m \in Nat, NEW n \in Nat, m <= n, NEW s \in Seq(Entry(m))
    PROVE  s \in Seq(Entry(n))
<1>1. 0 .. m - 1 \subseteq 0 .. n - 1
  OBVIOUS
<1>2. Entry(m) \subseteq Entry(n)
  BY <1>1 DEF Entry
<1> QED
  BY <1>2, SeqMonotonic

\* What AddFunc leaves: the functions and the keys it had, and one more of each
\* in the slot of the new name.
LEMMA Registering ==
    ASSUME SessionAssumption, Typed, NEW f \in Funcs, Register(f)
    PROVE  /\ RegistryShape' /\ size' >= size /\ size' \in {size, 2 * size}
           /\ Len(keys) \in Nat /\ Len(keys') = Len(keys) + 1 /\ keys'[Len(keys) + 1] = Slot(f)'
           /\ \A i \in 1 .. Len(keys) : keys'[i] = keys[i]
           /\ Len(fn) \in Nat /\ Len(fn') = Len(fn) + 1
           /\ fn'[Len(fn) + 1] = [name |-> f, key |-> Slot(f)', live |-> TRUE]
           /\ \A i \in 1 .. Len(fn) : fn'[i] = fn[i]
           /\ Slot(f)' \in 0 .. size' - 1 /\ slots'[Slot(f)'] = Len(fn) + 1
           /\ \A k \in 0 .. size - 1 : k # Slot(f)' => slots'[k] = slots[k]
<1> DEFINE k == Hash[f] % size'
           more == [name |-> f, key |-> k, live |-> TRUE]
<1>1. /\ size \in Nat \ {0} /\ keys \in Seq(0 .. size - 1) /\ fn \in Seq(Entry(size))
      /\ slots \in [0 .. size - 1 -> {Junk, Null} \cup (1 .. Len(fn))]
      /\ Len(fn) \in Nat /\ Len(keys) \in Nat
  BY Shaped DEF RegistryShape
<1>2. size' \in Nat \ {0} /\ size' >= size /\ size' \in {size, 2 * size}
  BY <1>1 DEF Register, Larger
<1>3. /\ keys' = Append(keys, k) /\ fn' = Append(fn, more)
      /\ slots' = [i \in 0 .. size' - 1 |->
                     IF i = k THEN Len(fn) + 1 ELSE IF i < size THEN slots[i] ELSE Junk]
  BY DEF Register
<1>4. k \in 0 .. size' - 1
  <2>1. Hash[f] \in Nat
    BY DEF SessionAssumption
  <2> QED
    BY <1>2, <2>1
<1>5. Slot(f)' = k
  BY DEF Slot
<1> HIDE DEF k
<1>6. more \in Entry(size')
  BY <1>4 DEF Entry
<1>7. fn \in Seq(Entry(size'))
  BY <1>1, <1>2, EntriesKept
<1>s. size \in Nat /\ size' \in Nat /\ size <= size'
  BY <1>1, <1>2
<1>8. keys \in Seq(0 .. size' - 1)
  <2> DEFINE S == 0 .. size - 1
             T == 0 .. size' - 1
  <2>1. S \subseteq T
    BY <1>s, SlotsKept
  <2>2. keys \in Seq(S)
    BY <1>1
  <2> HIDE DEF S, T
  <2>3. keys \in Seq(T)
    BY <2>1, <2>2, SeqMonotonic
  <2> QED
    BY <2>3 DEF T
<1>9. /\ keys' \in Seq(0 .. size' - 1) /\ Len(keys') = Len(keys) + 1 /\ keys'[Len(keys) + 1] = k
      /\ \A i \in 1 .. Len(keys) : keys'[i] = keys[i]
  BY <1>3, <1>4, <1>8, AppendProperties
<1>10. /\ fn' \in Seq(Entry(size')) /\ Len(fn') = Len(fn) + 1 /\ fn'[Len(fn) + 1] = more
       /\ \A i \in 1 .. Len(fn) : fn'[i] = fn[i]
  <2> HIDE DEF more
  <2> QED
    BY <1>3, <1>6, <1>7, AppendProperties
<1>11. slots' \in [0 .. size' - 1 -> {Junk, Null} \cup (1 .. Len(fn'))]
  <2> SUFFICES ASSUME NEW i \in 0 .. size' - 1
               PROVE  (IF i = k THEN Len(fn) + 1 ELSE IF i < size THEN slots[i] ELSE Junk)
                          \in {Junk, Null} \cup (1 .. Len(fn'))
    BY <1>3
  <2>1. i < size => i \in 0 .. size - 1
    BY <1>1
  <2>2. i < size => slots[i] \in {Junk, Null} \cup (1 .. Len(fn))
    BY <1>1, <2>1
  <2>3. 1 .. Len(fn) \subseteq 1 .. Len(fn') /\ Len(fn) + 1 \in 1 .. Len(fn')
    BY <1>1, <1>10
  <2> QED
    BY <2>2, <2>3
<1>12. slots'[k] = Len(fn) + 1
  BY <1>3, <1>4
<1>13. \A i \in 0 .. size - 1 : i # k => slots'[i] = slots[i]
  <2> SUFFICES ASSUME NEW i \in 0 .. size - 1, i # k
               PROVE  slots'[i] = slots[i]
    OBVIOUS
  <2>1. i \in 0 .. size' - 1 /\ i < size
    BY <1>s, SlotsKept
  <2> QED
    BY <1>3, <2>1
<1>14. RegistryShape'
  BY <1>2, <1>9, <1>10, <1>11 DEF RegistryShape
<1> QED
  BY <1>1, <1>2, <1>4, <1>5, <1>9, <1>10, <1>12, <1>13, <1>14

\* What DelFunc leaves.
LEMMA Unregistering ==
    ASSUME Typed, NEW p, Live(p), Unregister(p)
    PROVE  /\ RegistryShape' /\ size' = size /\ Len(fn') = Len(fn)
           /\ \A i \in 1 .. Len(fn) : fn'[i].name = fn[i].name
           /\ \A i \in 0 .. size - 1 : slots'[i] # Junk \/ slots[i] = Junk
<1>1. /\ size \in Nat \ {0} /\ keys \in Seq(0 .. size - 1) /\ fn \in Seq(Entry(size))
      /\ slots \in [0 .. size - 1 -> {Junk, Null} \cup (1 .. Len(fn))]
      /\ Len(fn) \in Nat /\ Len(keys) \in Nat
  BY Shaped DEF RegistryShape
<1>2. p \in 1 .. Len(fn) /\ fn[p] \in Entry(size)
  BY Shaped DEF Live
<1> DEFINE last == LastKey(fn[p].key)
           n == Len(keys) - 1
           kept(i) == \E m \in 1 .. Len(keys) : m # last /\ keys[m] = i
           e == [fn[p] EXCEPT !.live = FALSE]
<1>3. /\ size' = size
      /\ keys' = [i \in 1 .. n |-> keys[IF i < last THEN i ELSE i + 1]]
      /\ slots' = [i \in 0 .. size - 1 |-> IF kept(i) THEN slots[i] ELSE Null]
      /\ fn' = [fn EXCEPT ![p] = e]
  BY DEF Unregister
<1> HIDE DEF last, kept
<1>4. keys' \in Seq(0 .. size - 1)
  <2>1. keys' \in [1 .. n -> 0 .. size - 1]
    <3> SUFFICES ASSUME NEW i \in 1 .. n
                 PROVE  keys[IF i < last THEN i ELSE i + 1] \in 0 .. size - 1
      BY <1>3
    <3>1. i \in 1 .. Len(keys) /\ i + 1 \in 1 .. Len(keys)
      BY <1>1
    <3>2. keys[i] \in 0 .. size - 1 /\ keys[i + 1] \in 0 .. size - 1
      BY <1>1, <3>1, ElementOfSeq
    <3> QED
      BY <3>2
  <2>2. \E m \in Nat : 1 .. n = 1 .. m
    <3>1. CASE Len(keys) = 0
      <4>1. 1 .. n = 1 .. 0
        BY <1>1, <3>1
      <4> QED
        BY <4>1
    <3>2. CASE Len(keys) # 0
      <4>1. n \in Nat
        BY <1>1, <3>2
      <4> QED
        BY <4>1
    <3> QED
      BY <3>1, <3>2
  <2> HIDE DEF n
  <2>3. PICK m \in Nat : keys' \in [1 .. m -> 0 .. size - 1]
    BY <2>1, <2>2
  <2> QED
    BY <2>3, SeqDef
<1>5. e \in Entry(size) /\ e.name = fn[p].name
  BY <1>2 DEF Entry
<1>6. /\ fn' \in Seq(Entry(size)) /\ Len(fn') = Len(fn)
      /\ \A i \in 1 .. Len(fn) : fn'[i] = IF i = p THEN e ELSE fn[i]
  <2> HIDE DEF e
  <2> QED
    BY <1>1, <1>2, <1>3, <1>5, ExceptSeq
<1>7. slots' \in [0 .. size - 1 -> {Junk, Null} \cup (1 .. Len(fn'))]
  BY <1>1, <1>3, <1>6
<1>8. \A i \in 0 .. size - 1 : slots'[i] # Junk \/ slots[i] = Junk
  <2>1. Null # Junk
    BY DEF Null, Junk
  <2> QED
    BY <1>3, <2>1
<1>9. \A i \in 1 .. Len(fn) : fn'[i].name = fn[i].name
  BY <1>5, <1>6
<1>10. RegistryShape'
  BY <1>1, <1>3, <1>4, <1>6, <1>7 DEF RegistryShape
<1> QED
  BY <1>3, <1>6, <1>8, <1>9, <1>10

\* The steps of the thread that called Work.
LEMMA TypedMain ==
    ASSUME SessionAssumption, Typed, Main
    PROVE  Typed'
<1> USE DEF Typed
<1>0. RegistryShape /\ func \in {Junk, Null} \cup (1 .. Len(fn))
  BY DEF Ranges
<1>1. CASE RegisterNext
  <2>1. /\ main = "register" /\ next <= Len(Initial) /\ Register(Initial[next])
        /\ next' = next + 1
        /\ UNCHANGED <<proc, main, func, rw, watch, res, wreq, req, aReq, app, calls, jobs, notices,
                       net, closed, seen, split, inbox, wire, deleted, refused>>
    BY <1>1 DEF RegisterNext, reader, server, history
  <2>2. next \in Nat /\ next >= 1 /\ next' \in Nat /\ next' >= 1
    BY <2>1 DEF SessionShape, Ranges
  <2>3. Initial[next] \in Funcs
    <3>1. Initial \in Seq(Funcs) /\ Len(Initial) \in Nat
      BY DEF SessionAssumption
    <3>2. next \in 1 .. Len(Initial)
      BY <2>1, <2>2, <3>1
    <3> QED
      BY <3>1, <3>2, ElementOfSeq
  <2>4. RegistryShape' /\ Len(fn') = Len(fn) + 1 /\ Len(fn) \in Nat
    BY <2>1, <2>3, Registering
  <2>5. func' \in {Junk, Null} \cup (1 .. Len(fn'))
    BY <1>0, <2>1, <2>4
  <2>6. SessionShape'
    BY <2>1, <2>2 DEF SessionShape
  <2>7. Ranges'
    BY <2>1, <2>2, <2>5 DEF Ranges
  <2> QED
    BY <2>4, <2>6, <2>7
<1>2. CASE Ready
  <2>1. /\ main = "register" /\ main' = "announce" /\ next' = 1
        /\ UNCHANGED <<proc, func, rw, watch, res, wreq, req, aReq, app, calls, size, slots, keys, fn,
                       jobs, notices, net, closed, seen, split, inbox, wire, deleted, refused>>
    BY <1>2 DEF Ready, reader, appVars, server, history
  <2>r. RegistryShape'
    BY <2>1 DEF RegistryShape
  <2>2. SessionShape'
    BY <2>1 DEF SessionShape
  <2>3. Ranges'
    BY <2>1 DEF Ranges
  <2> QED
    BY <2>2, <2>3, <2>r
<1>3. CASE Find
  <2>1. /\ main = "announce" /\ ~AllAnnounced /\ func' = slots[keys[next]]
        /\ next' \in {next, next + 1} /\ main' \in {"announce", "send"}
        /\ UNCHANGED <<proc, rw, watch, res, wreq, req, aReq, app, calls, size, slots, keys, fn, jobs,
                       notices, net, closed, seen, split, inbox, wire, deleted, refused>>
    BY <1>3 DEF Find, reader, appVars, server, history
  <2>2. next \in Nat /\ next >= 1 /\ next' \in Nat /\ next' >= 1
    BY <2>1 DEF SessionShape, Ranges
  <2>3. func' \in {Junk, Null} \cup (1 .. Len(fn))
    <3>1. Len(keys) \in Nat /\ keys \in Seq(0 .. size - 1)
      BY Shaped DEF RegistryShape
    <3>2. next \in 1 .. Len(keys)
      BY <2>1, <2>2, <3>1 DEF AllAnnounced
    <3>3. keys[next] \in 0 .. size - 1
      BY <3>1, <3>2, ElementOfSeq
    <3> QED
      BY <1>0, <2>1, <3>3 DEF RegistryShape
  <2>r. RegistryShape'
    BY <2>1, <2>2, <2>3 DEF RegistryShape
  <2>4. SessionShape'
    BY <2>1, <2>2, <2>3 DEF SessionShape
  <2>5. Ranges'
    BY <2>1, <2>2, <2>3 DEF Ranges
  <2> QED
    BY <2>4, <2>5, <2>r
<1>4. CASE Announce
  <2>1. /\ main = "send" /\ main' = "announce" /\ next' = next + 1 /\ func' = Null
        /\ UNCHANGED <<rw, watch, res, wreq, req, aReq, app, calls, size, slots, keys, fn, jobs,
                       notices, net, closed, seen, split, inbox, deleted, refused>>
    BY <1>4 DEF Announce, reader, appVars, server, history
  <2>2. next' \in Nat /\ next' >= 1 /\ wire \in Seq(Parts) /\ Len(wire) \in Nat
        /\ seen \in 0 .. Len(wire)
    BY <2>1, Shape DEF SessionShape, Ranges
  <2>3. wire' \in Seq(Parts) /\ seen \in 0 .. Len(wire') /\ proc' \in {proc, "ub"}
    <3>1. CASE Live(func)
      <4>1. fn[func].name \in Args /\ "add" \in Kinds
        BY <3>1, Shaped DEF Live, Args, Kinds
      <4>2. wire' \in FrameWritten("add", fn[func].name) /\ proc' = proc
        BY <1>4, <3>1 DEF Announce
      <4>3. wire' \in Seq(Parts) /\ Len(wire) <= Len(wire')
        BY <2>2, <4>1, <4>2, FrameWrites
      <4> QED
        BY <2>2, <4>2, <4>3, LenProperties
    <3>2. CASE ~Live(func)
      BY <1>4, <2>2, <3>2 DEF Announce
    <3> QED
      BY <3>1, <3>2
  <2>r. RegistryShape'
    BY <2>1, <2>2, <2>3 DEF RegistryShape
  <2>4. SessionShape'
    BY <2>1, <2>2, <2>3 DEF SessionShape
  <2>5. Ranges'
    BY <2>1, <2>2 DEF Ranges
  <2> QED
    BY <2>4, <2>5, <2>r
<1>5. CASE Grab
  <2>1. wire \in Seq(Parts) /\ seen \in 0 .. Len(wire) /\ Len(wire) \in Nat
    BY DEF SessionShape
  <2>2. NoJob \in Args /\ "grab" \in Kinds
    BY DEF Args, Kinds, NoJob, SessionAssumption
  <2>3. wire' \in FrameWritten("grab", NoJob)
    BY <1>5 DEF Grab
  <2>4. wire' \in Seq(Parts) /\ Len(wire) <= Len(wire')
    BY <2>1, <2>2, <2>3, FrameWrites
  <2>5. seen \in 0 .. Len(wire')
    BY <2>1, <2>4, LenProperties
  <2>6. /\ main = "announce" /\ main' = "start"
        /\ UNCHANGED <<proc, next, func, rw, watch, res, wreq, req, aReq, app, calls, size, slots, keys,
                       fn, jobs, notices, net, closed, seen, split, inbox, deleted, refused>>
    BY <1>5 DEF Grab, reader, appVars, server, history
  <2>r. RegistryShape'
    BY <2>6 DEF RegistryShape
  <2>7. SessionShape'
    BY <2>4, <2>5, <2>6 DEF SessionShape
  <2>8. Ranges'
    BY <2>6 DEF Ranges
  <2> QED
    BY <2>7, <2>8, <2>r
<1>6. CASE Start
  <2>1. req \in Seq(Requests) /\ Len(req) = 0 /\ rw = "none"
    BY <1>6 DEF Start, SessionShape, Ranges
  <2>2. NewRequest \in Requests
    BY DEF NewRequest, Requests, Kinds, Args, SessionAssumption
  <2>3. req' \in Seq(Requests) /\ Len(req') = 1 /\ aReq' = 1
    BY <1>6, <2>1, <2>2, AppendProperties DEF Start
  <2>4. res' \in Responses /\ res'.job = 0
    BY <1>6 DEF Start, NewResponse, Responses, NoJob, SessionAssumption
  <2>5. wreq' \in 0 .. Len(req') /\ aReq' \in 0 .. Len(req')
    BY <1>6, <2>1, <2>3 DEF Start, SessionShape
  <2>6. app \in [at : {"idle", "check", "pack", "head", "body", "free"}, kind : Kinds,
                 name : Args, req : 0 .. Len(req')]
        /\ app.at \notin {"pack", "head", "body", "free"}
    BY <2>1, <2>3 DEF SessionShape, Ranges
  <2>7. /\ main' = "join" /\ rw' = "poll" /\ watch' = "READ"
        /\ UNCHANGED <<proc, next, func, wreq, app, calls, size, slots, keys, fn, jobs, notices, net,
                       closed, seen, split, inbox, wire, deleted, refused>>
    BY <1>6 DEF Start, appVars, server, history
  <2>r. RegistryShape'
    BY <2>7 DEF RegistryShape
  <2>8. SessionShape'
    BY <2>3, <2>4, <2>5, <2>6, <2>7 DEF SessionShape
  <2>9. Ranges'
    BY <2>3, <2>4, <2>6, <2>7, Shape DEF Ranges
  <2> QED
    BY <2>8, <2>9, <2>r
<1>7. CASE Join
  <2>1. /\ main = "join" /\ main' = "sleep"
        /\ UNCHANGED <<proc, next, func, rw, watch, res, wreq, req, aReq, app, calls, size, slots, keys,
                       fn, jobs, notices, net, closed, seen, split, inbox, wire, deleted, refused>>
    BY <1>7 DEF Join, reader, appVars, server, history
  <2>r. RegistryShape'
    BY <2>1 DEF RegistryShape
  <2>2. SessionShape'
    BY <2>1 DEF SessionShape
  <2>3. Ranges'
    BY <2>1 DEF Ranges
  <2> QED
    BY <2>2, <2>3, <2>r
<1> QED
  BY <1>1, <1>2, <1>3, <1>4, <1>5, <1>6, <1>7 DEF Main

\* What is left of a sequence when its first c elements are gone.
LEMMA Rest ==
    ASSUME NEW S, NEW s \in Seq(S), NEW c \in 0 .. Len(s)
    PROVE  /\ SubSeq(s, c + 1, Len(s)) \in Seq(S)
           /\ Len(SubSeq(s, c + 1, Len(s))) = Len(s) - c
           /\ \A k \in 1 .. Len(s) - c : SubSeq(s, c + 1, Len(s))[k] = s[c + k]
<1>1. Len(s) \in Nat /\ c \in Nat /\ c <= Len(s)
  OBVIOUS
<1>2. \A k \in (c + 1) .. Len(s) : k \in 1 .. Len(s)
  BY <1>1
<1>3. SubSeq(s, c + 1, Len(s)) \in Seq(S)
      /\ Len(SubSeq(s, c + 1, Len(s))) = (IF c + 1 <= Len(s) THEN Len(s) - (c + 1) + 1 ELSE 0)
      /\ \A k \in 1 .. Len(s) - (c + 1) + 1 :
             SubSeq(s, c + 1, Len(s))[k] = s[(c + 1) + k - 1]
  BY <1>1, <1>2, SubSeqProperties
<1>4. \A k \in 1 .. Len(s) - c : (c + 1) + k - 1 = c + k
  BY <1>1
<1> QED
  BY <1>1, <1>3, <1>4

\* What a step that reads leaves in the receive buffer.
LEMMA ReadLeaves ==
    ASSUME SessionAssumption, Typed, Reading
    PROVE  /\ Count \in 1 .. Len(inbox) /\ Count <= res.size /\ res.size \in Nat
           /\ Count = Len(inbox) \/ Count = res.size
           /\ inbox \in Seq(Byte) /\ inbox' \in Seq(Byte) /\ Len(inbox') = Len(inbox) - Count
           /\ \A k \in 1 .. Len(inbox) - Count : inbox'[k] = inbox[Count + k]
           /\ \A k \in 1 .. Len(inbox') : inbox'[k][1] <= Len(jobs)
           /\ Bytes[1] = inbox[1] /\ inbox[1][1] \in 0 .. Len(jobs)
<1>1. /\ inbox \in Seq(Byte) /\ Len(inbox) \in Nat /\ Len(inbox) # 0
      /\ \A k \in 1 .. Len(inbox) : inbox[k][1] <= Len(jobs)
  <2>1. \A k \in 1 .. Len(inbox) : inbox[k][1] <= Len(jobs)
    BY DEF Typed, Ranges
  <2>2. inbox \in Seq(Byte) /\ inbox # <<>>
    BY Shape DEF Reading
  <2> QED
    BY <2>1, <2>2, EmptySeq
<1>2. res.size \in Nat /\ res.size >= 1
  BY Shape
<1>3. Count \in 1 .. Len(inbox) /\ Count \in 0 .. Len(inbox) /\ Count <= res.size
      /\ (Count = Len(inbox) \/ Count = res.size)
  BY <1>1, <1>2 DEF Count
<1>4. inbox' = SubSeq(inbox, Count + 1, Len(inbox))
  BY DEF Reading
<1>5. /\ inbox' \in Seq(Byte) /\ Len(inbox') = Len(inbox) - Count
      /\ \A k \in 1 .. Len(inbox) - Count : inbox'[k] = inbox[Count + k]
  BY <1>1, <1>3, <1>4, Rest
<1>6. \A k \in 1 .. Len(inbox') : inbox'[k][1] <= Len(jobs)
  <2> SUFFICES ASSUME NEW k \in 1 .. Len(inbox')
               PROVE  inbox'[k][1] <= Len(jobs)
    OBVIOUS
  <2>1. Count + k \in 1 .. Len(inbox) /\ inbox'[k] = inbox[Count + k]
    BY <1>1, <1>3, <1>5
  <2> QED
    BY <1>1, <2>1
<1>7. Bytes[1] = inbox[1]
  <2>1. \A k \in 1 .. Count : k \in 1 .. Len(inbox)
    BY <1>1, <1>3
  <2>2. 1 \in 1 .. Count - 1 + 1 /\ 1 + 1 - 1 = 1
    BY <1>1, <1>3
  <2>3. \A i \in 1 .. Count - 1 + 1 : Bytes[i] = inbox[1 + i - 1]
    BY <1>1, <1>3, <2>1, SubSeqProperties DEF Bytes
  <2> QED
    BY <2>2, <2>3
<1>8. inbox[1][1] \in 0 .. Len(jobs)
  <2>1. 1 \in 1 .. Len(inbox) /\ inbox[1] \in Byte
    BY <1>1
  <2>2. inbox[1][1] \in 0 .. MaxJobs
    BY <2>1 DEF Byte
  <2>3. inbox[1][1] <= Len(jobs)
    BY <1>1, <2>1
  <2> QED
    BY <2>2, <2>3 DEF SessionAssumption
<1> QED
  BY <1>1, <1>2, <1>3, <1>5, <1>6, <1>7, <1>8

\* What one write of a request that exists leaves of the shape.
LEMMA HeadWrites ==
    ASSUME SessionAssumption, Typed, NEW r \in 1 .. Len(req), WriteHead(r)
    PROVE  /\ wire' \in Seq(Parts) /\ Len(wire) <= Len(wire') /\ seen \in 0 .. Len(wire')
           /\ proc' \in {proc, "ub"} /\ req' = req
           /\ (req[r].live => proc' = proc)
           /\ \E o \in Outcomes :
                  /\ o \in Results /\ Part("head", req[r].kind, 0) \in Parts
                  /\ wire' = Write(wire, Part("head", req[r].kind, 0), o)
<1>1. /\ wire \in Seq(Parts) /\ Len(wire) \in Nat /\ seen \in 0 .. Len(wire)
      /\ req \in Seq(Requests) /\ req[r] \in Requests
  BY Shape, ElementOfSeq
<1>2. Part("head", req[r].kind, 0) \in Parts
  BY <1>1 DEF Part, Parts, Args, Requests, SessionAssumption
<1>3. PICK o \in Outcomes : wire' = Write(wire, Part("head", req[r].kind, 0), o)
  BY DEF WriteHead
<1>4. o \in Results
  BY <1>3 DEF Outcomes, SessionAssumption, Results
<1>5. wire' \in Seq(Parts) /\ (Len(wire') = Len(wire) \/ Len(wire') = Len(wire) + 1)
  BY <1>1, <1>2, <1>3, <1>4, Written
<1>6. Len(wire) <= Len(wire') /\ seen \in 0 .. Len(wire')
  BY <1>1, <1>5
<1>7. proc' \in {proc, "ub"} /\ req' = req /\ (req[r].live => proc' = proc)
  BY DEF WriteHead
<1> QED
  BY <1>2, <1>3, <1>4, <1>5, <1>6, <1>7

\* What WriteBody leaves behind: the body on the stream as the write's outcome
\* has it, the requests but for the data of this one, and undefined behaviour
\* only of a freed request or a freed result.
LEMMA BodyWrites ==
    ASSUME SessionAssumption, Typed, NEW r \in 1 .. Len(req), WriteBody(r)
    PROVE  /\ wire' \in Seq(Parts) /\ Len(wire) <= Len(wire') /\ seen \in 0 .. Len(wire')
           /\ proc' \in {proc, "ub"} /\ req' \in Seq(Requests) /\ Len(req') = Len(req)
           /\ (req[r].live /\ (req[r].kind = "ret" => req[r].ret = "live") => proc' = proc)
           /\ \A x \in 1 .. Len(req) :
                  /\ req'[x].kind = req[x].kind /\ req'[x].arg = req[x].arg
                  /\ req'[x].live = req[x].live
           /\ \E o \in Outcomes :
                  /\ o \in Results
                  /\ Part("body", req[r].kind, req[r].arg) \in Parts
                  /\ wire' = Write(wire, Part("body", req[r].kind, req[r].arg), o)
<1>1. /\ wire \in Seq(Parts) /\ Len(wire) \in Nat /\ seen \in 0 .. Len(wire)
      /\ req \in Seq(Requests) /\ req[r] \in Requests
  BY Shape, ElementOfSeq
<1>2. Part("body", req[r].kind, req[r].arg) \in Parts
  BY <1>1 DEF Part, Parts, Requests
<1>3. PICK o \in Outcomes :
          /\ wire' = Write(wire, Part("body", req[r].kind, req[r].arg), o)
          /\ proc' = IF req[r].live /\ (req[r].kind = "ret" => req[r].ret = "live")
                     THEN proc ELSE "ub"
          /\ req' = IF req[r].kind = "ret" /\ o = "full"
                    THEN [req EXCEPT ![r].ret = "freed"] ELSE req
  BY DEF WriteBody
<1>4. o \in Results
  BY <1>3 DEF Outcomes, SessionAssumption, Results
<1>5. wire' \in Seq(Parts) /\ (Len(wire') = Len(wire) \/ Len(wire') = Len(wire) + 1)
  BY <1>1, <1>2, <1>3, <1>4, Written
<1>6. Len(wire) <= Len(wire') /\ seen \in 0 .. Len(wire')
  BY <1>1, <1>5
<1> DEFINE e == [req[r] EXCEPT !.ret = "freed"]
<1>7. e \in Requests /\ e.kind = req[r].kind /\ e.arg = req[r].arg /\ e.live = req[r].live
  BY <1>1 DEF Requests
<1>8. [req EXCEPT ![r].ret = "freed"] = [req EXCEPT ![r] = e]
  OBVIOUS
<1> HIDE DEF e
<1>9. CASE req' = [req EXCEPT ![r] = e]
  <2>1. /\ req' \in Seq(Requests) /\ Len(req') = Len(req)
        /\ \A x \in 1 .. Len(req) : req'[x] = IF x = r THEN e ELSE req[x]
    BY <1>1, <1>7, <1>9, ExceptSeq
  <2> QED
    BY <1>2, <1>3, <1>4, <1>5, <1>6, <1>7, <2>1
<1>10. CASE req' = req
  BY <1>1, <1>2, <1>3, <1>4, <1>5, <1>6, <1>10
<1> QED
  BY <1>3, <1>8, <1>9, <1>10

\* The steps of the read/write thread on EV_READ.
LEMMA TypedRead ==
    ASSUME SessionAssumption, Typed,
           ReadEvent \/ ReadDropped \/ ReadHeader \/ ReadBody \/ ReadClosed \/ ReadFailed
    PROVE  Typed'
<1> USE DEF Typed
<1>1. CASE ReadEvent
  <2>1. res' \in Responses /\ res'.job = res.job
    BY <1>1, Shape DEF ReadEvent, FreshBuffer, Responses
  <2>2. rw = "poll" /\ rw' = "read"
    BY <1>1 DEF ReadEvent
  <2>3. UNCHANGED <<proc, main, next, func, watch, wreq, req, aReq, app, calls, size, slots, keys, fn,
                    jobs, notices, net, inbox, closed, wire, seen, split, deleted, refused>>
    BY <1>1 DEF ReadEvent, appVars, server, history
  <2>r. RegistryShape'
    BY <2>3 DEF RegistryShape
  <2>4. SessionShape'
    BY <2>1, <2>2, <2>3 DEF SessionShape
  <2>5. Ranges'
    BY <2>1, <2>2, <2>3 DEF Ranges
  <2> QED
    BY <2>4, <2>5, <2>r
<1>2. ASSUME Reading, res' \in Responses, res'.job \in 0 .. Len(jobs), rw = "read",
             rw' \in {"read", "do", "gone"}, proc' = proc
      PROVE  Typed'
  <2>1. /\ inbox' \in Seq(Byte)
        /\ \A k \in 1 .. Len(inbox') : inbox'[k][1] <= Len(jobs)
    BY <1>2, ReadLeaves
  <2>2. res'.job <= Len(jobs)
    BY <1>2, Shape
  <2>3. UNCHANGED <<main, next, func, watch, wreq, req, aReq, app, calls, size, slots, keys, fn, jobs, notices, net,
                    closed, wire, seen, split, deleted, refused>>
    BY <1>2 DEF Reading, appVars, history, server
  <2>r. RegistryShape'
    BY <1>2, <2>1, <2>3 DEF RegistryShape
  <2>4. SessionShape'
    BY <1>2, <2>1, <2>3 DEF SessionShape
  <2>5. Ranges'
    BY <1>2, <2>1, <2>2, <2>3 DEF Ranges
  <2> QED
    BY <2>4, <2>5, <2>r
<1>3. Reading => rw = "read"
  BY DEF Reading
<1>4. CASE ReadDropped
  BY <1>2, <1>3, <1>4, Shape DEF ReadDropped
<1>5. CASE ReadHeader
  <2>1. Reading /\ proc' = proc /\ rw' \in {"read", "gone"}
    BY <1>3, <1>5 DEF ReadHeader
  <2> DEFINE j == Bytes[1][1]
             aligned == Bytes[1][2] = 1
  <2>2. j \in 0 .. Len(jobs)
    BY <2>1, ReadLeaves
  <2>3. j # NoJob => jobs[j].size \in BodySizes
    <3> HIDE DEF j
    <3>1. j # NoJob => j \in 1 .. Len(jobs)
      <4>1. Len(jobs) \in Nat
        BY Shape
      <4> QED
        BY <2>2, <4>1 DEF NoJob
    <3>2. j # NoJob => jobs[j] \in Job
      BY <3>1, Shape, ElementOfSeq
    <3> QED
      BY <3>2 DEF Job
  <2>4. \/ \E n \in BodySizes : res' = [res EXCEPT !.hread = TRUE, !.type = "job", !.size = n]
        \/ res' = [res EXCEPT !.hread = TRUE, !.type = "notice"]
        \/ res' = [res EXCEPT !.hread = TRUE]
    <3>1. \/ /\ aligned => j # NoJob
             /\ \E n \in IF aligned THEN {jobs[j].size} ELSE BodySizes :
                    res' = [res EXCEPT !.hread = TRUE, !.type = "job", !.size = n]
          \/ res' = [res EXCEPT !.hread = TRUE, !.type = "notice"]
          \/ res' = [res EXCEPT !.hread = TRUE]
      BY <1>5 DEF ReadHeader
    <3> QED
      BY <2>3, <3>1
  <2>5. res' \in Responses /\ res'.job = res.job
    BY <2>4, Shape DEF Responses
  <2> QED
    BY <1>2, <1>3, <2>1, <2>5, Shape
<1>6. CASE ReadBody
  <2>1. Reading /\ proc' = proc /\ rw' = "do"
    BY <1>6 DEF ReadBody
  <2>2. Bytes[1][1] \in 0 .. Len(jobs)
    BY <2>1, ReadLeaves
  <2>3. \E j \in 0 .. Len(jobs) : res' = [res EXCEPT !.job = j]
    <3>1. \/ res' = [res EXCEPT !.job = NoJob]
          \/ res' = [res EXCEPT !.job = Bytes[1][1]]
      BY <1>6 DEF ReadBody
    <3>2. NoJob \in 0 .. Len(jobs)
      <4>1. Len(jobs) \in Nat
        BY Shape
      <4> QED
        BY <4>1 DEF NoJob
    <3> QED
      BY <2>2, <3>1, <3>2
  <2>4. PICK j \in 0 .. Len(jobs) : res' = [res EXCEPT !.job = j]
    BY <2>3
  <2>5. j \in 0 .. MaxJobs
    BY <2>4, Shape
  <2>6. res' \in Responses /\ res'.job \in 0 .. Len(jobs)
    BY <2>4, <2>5, Shape DEF Responses
  <2> QED
    BY <1>2, <1>3, <2>1, <2>6
<1>7. CASE ReadClosed \/ ReadFailed
  <2>1. rw = "read" /\ rw' \in {"read", "gone"} /\ proc' \in {proc, "exit"}
    BY <1>7 DEF ReadClosed, ReadFailed, CloseAndExit, CloseAndReturn
  <2>2. UNCHANGED <<main, next, func, watch, res, wreq, req, aReq, app, calls, size, slots, keys, fn, jobs, notices, net,
                    inbox, closed, wire, seen, split, deleted, refused>>
    BY <1>7 DEF ReadClosed, ReadFailed, appVars, history, server
  <2>r. RegistryShape'
    BY <2>1, <2>2 DEF RegistryShape
  <2>3. SessionShape'
    BY <2>1, <2>2 DEF SessionShape
  <2>4. Ranges'
    BY <2>1, <2>2 DEF Ranges
  <2> QED
    BY <2>3, <2>4, <2>r
<1> QED
  BY <1>1, <1>4, <1>5, <1>6, <1>7

\* The steps of WorkerDo, and those on EV_WRITE.
LEMMA TypedWrite ==
    ASSUME SessionAssumption, Typed,
           \/ BadBody \/ GetFunc \/ RefuseJob \/ CallFunction \/ CallFreed
           \/ CopyResult \/ PackResult \/ WriteEvent \/ ReplyHead \/ ReplyBody
    PROVE  Typed'
<1> USE DEF Typed
<1>1. rw # "none" /\ (rw \in {"head", "body"} => wreq \in 1 .. Len(req))
  <2>1. rw # "none"
    BY DEF BadBody, GetFunc, RefuseJob, NotFound, OtherName, CallFunction, CallFreed, CopyResult,
           PackResult, WriteEvent, ReplyHead, ReplyBody
  <2>2. rw \in {"head", "body"} => wreq >= 1
    BY DEF Ranges
  <2>3. wreq \in 0 .. Len(req)
    BY DEF SessionShape
  <2> QED
    BY <2>1, <2>2, <2>3, Shape
<1>2. aReq \in 1 .. Len(req)
  <2>1. aReq >= 1
    BY <1>1 DEF Ranges
  <2>2. aReq \in 0 .. Len(req)
    BY DEF SessionShape
  <2> QED
    BY <2>1, <2>2, Shape
<1>3. ASSUME ReadDone, rw # "none", req' \in Seq(Requests), Len(req') = Len(req),
             refused' \in BOOLEAN, proc' \in {proc, "ub", "abort"}
      PROVE  Typed'
  <2>1. rw' = "poll" /\ watch' = "WRITE" /\ func' = Null
    BY <1>3 DEF ReadDone, AfterRead
  <2>2. res' \in Responses /\ res'.job = res.job
    BY <1>3, Shape DEF ReadDone, Responses
  <2>3. UNCHANGED <<main, next, wreq, aReq, app, calls, size, slots, keys, fn, jobs, notices, net,
                    inbox, closed, wire, seen, split, deleted>>
    BY <1>3 DEF ReadDone, appVars, server
  <2>r. RegistryShape'
    BY <1>3, <2>1, <2>2, <2>3 DEF RegistryShape
  <2>4. SessionShape'
    BY <1>3, <2>1, <2>2, <2>3 DEF SessionShape
  <2>5. Ranges'
    BY <1>3, <2>1, <2>2, <2>3 DEF Ranges
  <2> QED
    BY <2>4, <2>5, <2>r
<1>4. refused \in BOOLEAN
  BY DEF SessionShape
<1>5. CASE BadBody \/ CallFreed
  <2>1. proc' \in {"ub", "abort"}
        /\ UNCHANGED <<main, next, func, rw, watch, res, wreq, req, aReq, app, calls, size, slots,
                       keys, fn, jobs, notices, net, inbox, closed, wire, seen, split, deleted, refused>>
    BY <1>5 DEF BadBody, CallFreed, reader, appVars, server, history
  <2>r. RegistryShape'
    BY <2>1 DEF RegistryShape
  <2>2. SessionShape'
    BY <2>1 DEF SessionShape
  <2>3. Ranges'
    BY <2>1 DEF Ranges
  <2> QED
    BY <2>2, <2>3, <2>r
<1>6. CASE GetFunc \/ CallFunction
  <2>1. /\ rw' \in {"call", "copy"} /\ rw # "none"
        /\ UNCHANGED <<proc, main, next, watch, res, wreq, req, aReq, app, calls, size, slots, keys,
                       fn, jobs, notices, net, inbox, closed, wire, seen, split, deleted, refused>>
    BY <1>1, <1>6 DEF GetFunc, CallFunction, appVars, server, history
  <2>2. func' \in {Junk, Null} \cup (1 .. Len(fn)) /\ (rw' = "copy" => func' \in 1 .. Len(fn))
    <3>1. CASE GetFunc
      <4>1. PICK f \in Handles : func' = slots[Slot(f)]
        BY <3>1 DEF GetFunc
      <4>2. f \in Funcs
        BY <3>1, <4>1, HandleFunc DEF GetFunc
      <4>3. Slot(f) \in 0 .. size - 1
        BY <4>2, SlotRange
      <4>4. func' \in {Junk, Null} \cup (1 .. Len(fn)) /\ rw' = "call"
        BY <3>1, <4>1, <4>3, Shaped DEF RegistryShape, GetFunc
      <4> QED
        BY <4>4
    <3>2. CASE CallFunction
      BY <3>2, Shaped DEF CallFunction, Live
    <3> QED
      BY <1>6, <3>1, <3>2
  <2>r. RegistryShape'
    BY <2>1, <2>2 DEF RegistryShape
  <2>3. SessionShape'
    BY <2>1, <2>2 DEF SessionShape
  <2>4. Ranges'
    BY <2>1, <2>2 DEF Ranges
  <2> QED
    BY <2>3, <2>4, <2>r
<1>10. CASE RefuseJob
  <2>1. ReadDone /\ req' = req /\ refused' \in BOOLEAN /\ proc' \in {proc, "ub", "abort"}
    BY <1>10 DEF RefuseJob
  <2> QED
    BY <1>1, <1>3, <2>1, Shape
<1>11. CASE CopyResult
  <2>1. /\ rw = "copy" /\ rw' = "pack" /\ proc' \in {proc, "ub"}
        /\ req' = [req EXCEPT ![aReq] = Copied(req[aReq], fn[func].name)]
        /\ UNCHANGED <<main, next, func, watch, res, wreq, aReq, app, calls, size, slots, keys, fn,
                       jobs, notices, net, inbox, closed, wire, seen, split, deleted, refused>>
    BY <1>11 DEF CopyResult, appVars, server, history
  <2>2. req[aReq] \in Requests /\ fn[func].name \in Args
    BY <1>2, <2>1, Shape, Shaped, ElementOfSeq DEF Ranges, Args
  <2>3. Copied(req[aReq], fn[func].name) \in Requests
    BY <2>2 DEF Copied, Requests
  <2>4. req' \in Seq(Requests) /\ Len(req') = Len(req)
    BY <1>2, <2>1, <2>3, Shape, ExceptSeq
  <2>r. RegistryShape'
    BY <2>1, <2>4 DEF RegistryShape
  <2>5. SessionShape'
    BY <2>1, <2>4 DEF SessionShape
  <2>6. Ranges'
    BY <2>1, <2>4 DEF Ranges
  <2> QED
    BY <2>5, <2>6, <2>r
<1>12. CASE PackResult
  <2>1. req[aReq] \in Requests /\ res.job \in Args
    <3>1. req \in Seq(Requests) /\ res \in Responses
      BY Shape
    <3>2. res.job \in 0 .. MaxJobs
      BY <3>1 DEF Responses
    <3> QED
      BY <1>2, <3>1, <3>2, ElementOfSeq DEF Args
  <2>2. Packed(req[aReq], res.job) \in Requests
    BY <2>1 DEF Packed, Requests, Kinds
  <2>3. req' = [req EXCEPT ![aReq] = Packed(req[aReq], res.job)]
    BY <1>12 DEF PackResult
  <2>4. req' \in Seq(Requests) /\ Len(req') = Len(req)
    BY <1>2, <2>2, <2>3, Shape, ExceptSeq
  <2>5. ReadDone /\ refused' = refused /\ proc' \in {proc, "ub", "abort"}
    BY <1>12 DEF PackResult
  <2> QED
    BY <1>1, <1>3, <1>4, <2>4, <2>5
<1>7. CASE WriteEvent
  <2>1. wreq' = aReq /\ proc' \in {proc, "ub"} /\ rw = "poll" /\ rw' \in {"poll", "head"}
        /\ watch' \in {watch, "READ"}
    BY <1>7 DEF WriteEvent, AfterWrite
  <2>2. UNCHANGED <<main, next, func, res, req, aReq, app, calls, size, slots, keys, fn, jobs, notices, net,
                    inbox, closed, wire, seen, split, deleted, refused>>
    BY <1>7 DEF WriteEvent, appVars, server, history
  <2>3. wreq' \in 0 .. Len(req') /\ wreq' >= 1
    BY <1>2, <2>1, <2>2
  <2>r. RegistryShape'
    BY <2>2 DEF RegistryShape
  <2>4. SessionShape'
    <3>1. proc' \in {"run", "exit", "sigpipe", "abort", "ub"}
      BY <2>1 DEF SessionShape
    <3>2. rw' \in {"none", "poll", "read", "do", "call", "copy", "pack", "head", "body", "gone"}
      BY <2>1
    <3>3. watch' \in {"READ", "WRITE"} /\ wreq' \in 0 .. Len(req')
      BY <2>1, <2>3 DEF SessionShape
    <3> QED
      BY <2>2, <3>1, <3>2, <3>3 DEF SessionShape
  <2>5. Ranges'
    BY <2>1, <2>2, <2>3 DEF Ranges
  <2> QED
    BY <2>4, <2>5, <2>r
<1>8. CASE ReplyHead
  <2>1. rw = "head" /\ rw' = "body" /\ WriteHead(wreq)
    BY <1>8 DEF ReplyHead
  <2>2. UNCHANGED <<main, next, func, watch, res, wreq, aReq, app, calls, size, slots, keys, fn, jobs, notices, net,
                    inbox, closed, seen, split, deleted, refused>>
    BY <1>8 DEF ReplyHead, appVars, server, history
  <2>3. wire' \in Seq(Parts) /\ seen' \in 0 .. Len(wire') /\ proc' \in {proc, "ub"} /\ req' = req
    BY <1>1, <2>1, <2>2, HeadWrites
  <2>r. RegistryShape'
    BY <2>1, <2>2, <2>3 DEF RegistryShape
  <2>4. SessionShape'
    BY <2>1, <2>2, <2>3 DEF SessionShape
  <2>5. Ranges'
    BY <2>1, <2>2, <2>3 DEF Ranges
  <2> QED
    BY <2>4, <2>5, <2>r
<1>9. CASE ReplyBody
  <2>1. rw = "body" /\ rw' = "poll" /\ watch' = "READ" /\ WriteBody(wreq)
    BY <1>9 DEF ReplyBody, AfterWrite
  <2>2. UNCHANGED <<main, next, func, res, wreq, aReq, app, calls, size, slots, keys, fn, jobs, notices, net,
                    inbox, closed, seen, split, deleted, refused>>
    BY <1>9 DEF ReplyBody, appVars, server, history
  <2>3. wire' \in Seq(Parts) /\ seen' \in 0 .. Len(wire') /\ proc' \in {proc, "ub"}
        /\ req' \in Seq(Requests) /\ Len(req') = Len(req)
    BY <1>1, <2>1, <2>2, BodyWrites
  <2>r. RegistryShape'
    BY <2>1, <2>2, <2>3 DEF RegistryShape
  <2>4. SessionShape'
    BY <2>1, <2>2, <2>3 DEF SessionShape
  <2>5. Ranges'
    BY <2>1, <2>2, <2>3 DEF Ranges
  <2> QED
    BY <2>4, <2>5, <2>r
<1> QED
  BY <1>5, <1>6, <1>7, <1>8, <1>9, <1>10, <1>11, <1>12

\* The steps of the application thread.
LEMMA TypedApplication ==
    ASSUME SessionAssumption, Typed, Application
    PROVE  Typed'
<1> USE DEF Typed
<1> DEFINE Ats == {"idle", "check", "pack", "head", "body", "free"}
<1>1. /\ app \in [at : Ats, kind : Kinds, name : Args, req : 0 .. Len(req)]
      /\ calls \in 0 .. RuntimeCalls
      /\ app.at \in {"pack", "head", "body", "free"} => app.req >= 1 /\ rw # "none"
  BY DEF SessionShape, Ranges
<1>2. app.at \in {"pack", "head", "body", "free"} => app.req \in 1 .. Len(req) /\ rw # "none"
  <2>1. app.req \in 0 .. Len(req)
    BY <1>1
  <2> QED
    BY <1>1, <2>1, Shape
<1>3. ASSUME NEW kind \in {"add", "del"}, NEW f \in Funcs, Call(kind, f), RegistryShape',
             Len(fn') \in Nat, Len(fn') >= Len(fn), deleted' \in BOOLEAN, proc' \in {proc, "ub"}
      PROVE  Typed'
  <2>1. app' = [at |-> "check", kind |-> kind, name |-> f, req |-> 0]
        /\ calls' = calls + 1 /\ calls < RuntimeCalls
    BY <1>3 DEF Call
  <2>2. UNCHANGED <<main, next, func, rw, watch, res, wreq, req, aReq, jobs, notices, net,
                    inbox, closed, wire, seen, split, refused>>
    BY <1>3 DEF Call, reader, server
  <2>3. calls' \in 0 .. RuntimeCalls
    BY <1>1, <2>1, Shape
  <2>4. 0 \in 0 .. Len(req) /\ kind \in Kinds /\ f \in Args
    BY Shape DEF Kinds, Args
  <2>5. app' \in [at : Ats, kind : Kinds, name : Args, req : 0 .. Len(req)] /\ app'.at = "check"
    BY <2>1, <2>4
  <2>6. /\ func \in {Junk, Null} \cup (1 .. Len(fn'))
        /\ func \in 1 .. Len(fn) => func \in 1 .. Len(fn')
    <3>1. Len(fn) \in Nat /\ func \in {Junk, Null} \cup (1 .. Len(fn))
      BY Shaped
    <3>2. 1 .. Len(fn) \subseteq 1 .. Len(fn')
      BY <1>3, <3>1
    <3> QED
      BY <3>1, <3>2
  <2>7. SessionShape'
    BY <1>3, <2>2, <2>3, <2>5 DEF SessionShape
  <2>8. Ranges'
    BY <2>2, <2>5, <2>6 DEF Ranges
  <2> QED
    BY <1>3, <2>7, <2>8
<1>a. RegistryShape /\ Len(fn) \in Nat
  BY Shaped
<1>4. ASSUME NEW f \in Funcs, AddFunction(f)
      PROVE  Typed'
  <2>1. Call("add", f) /\ Register(f) /\ deleted' = deleted /\ proc' = proc
    BY <1>4 DEF AddFunction
  <2>2. RegistryShape' /\ Len(fn') = Len(fn) + 1
    BY <2>1, Registering
  <2>3. deleted' \in BOOLEAN
    BY <2>1 DEF SessionShape
  <2> QED
    BY <1>3, <1>a, <2>1, <2>2, <2>3
<1>5. ASSUME NEW f \in Funcs, DelFunction(f)
      PROVE  Typed'
  <2>1. Call("del", f) /\ deleted' = TRUE
    BY <1>5 DEF DelFunction
  <2> DEFINE p == slots[Slot(f)]
  <2>2. RegistryShape' /\ Len(fn') = Len(fn) /\ proc' \in {proc, "ub"}
    <3>1. CASE Live(p)
      <4>1. Unregister(p) /\ proc' = proc
        BY <1>5, <3>1 DEF DelFunction
      <4> HIDE DEF p
      <4> QED
        BY <3>1, <4>1, Unregistering
    <3>2. CASE ~Live(p)
      <4>1. UNCHANGED registry /\ proc' = "ub"
        BY <1>5, <3>2 DEF DelFunction
      <4> QED
        BY <1>a, <4>1 DEF RegistryShape
    <3> QED
      BY <3>1, <3>2
  <2> QED
    BY <1>3, <1>a, <2>1, <2>2
<1>6. CASE Broadcast
  <2>1. app.at = "check"
        /\ UNCHANGED <<proc, main, next, func, rw, watch, res, wreq, calls, size, slots, keys, fn, jobs, notices, net,
                       inbox, closed, wire, seen, split, deleted, refused>>
    BY <1>6 DEF Broadcast, reader, server, history
  <2>2. CASE rw # "none"
    <3>1. req' = Append(req, NewRequest) /\ aReq' = Len(req) + 1
          /\ app' = [app EXCEPT !.at = "pack", !.req = Len(req) + 1]
      BY <1>6, <2>2 DEF Broadcast, Running
    <3>2. NewRequest \in Requests
      BY Shape DEF NewRequest, Requests, Kinds
    <3>3. req' \in Seq(Requests) /\ Len(req') = Len(req) + 1
      BY <3>1, <3>2, Shape, AppendProperties
    <3>4. aReq' \in 0 .. Len(req') /\ aReq' >= 1 /\ Len(req) + 1 \in 0 .. Len(req')
      BY <3>1, <3>3, Shape
    <3>5. app' \in [at : Ats, kind : Kinds, name : Args, req : 0 .. Len(req')]
          /\ app'.req >= 1
      BY <1>1, <3>1, <3>4, Shape
    <3>6. wreq' \in 0 .. Len(req')
      BY <2>1, <3>3, Shape DEF SessionShape
    <3>r. RegistryShape'
      BY <2>1, <3>3, <3>4, <3>5, <3>6 DEF RegistryShape
    <3>7. SessionShape'
      BY <2>1, <3>3, <3>4, <3>5, <3>6 DEF SessionShape
    <3>8. Ranges'
      BY <2>1, <2>2, <3>4, <3>5 DEF Ranges
    <3> QED
      BY <3>7, <3>8, <3>r
  <2>3. CASE rw = "none"
    <3>1. UNCHANGED <<req, aReq>> /\ app' = [app EXCEPT !.at = "idle"]
      BY <1>6, <2>3 DEF Broadcast, Running
    <3>2. app' \in [at : Ats, kind : Kinds, name : Args, req : 0 .. Len(req)] /\ app'.at = "idle"
      BY <1>1, <3>1
    <3>r. RegistryShape'
      BY <2>1, <3>1, <3>2 DEF RegistryShape
    <3>3. SessionShape'
      BY <2>1, <3>1, <3>2 DEF SessionShape
    <3>4. Ranges'
      BY <2>1, <3>1, <3>2 DEF Ranges
    <3> QED
      BY <3>3, <3>4, <3>r
  <2> QED
    BY <2>2, <2>3
<1>7. ASSUME req' \in Seq(Requests), Len(req') = Len(req), proc' \in {proc, "ub"}, app'.req = app.req,
             app.at \in {"pack", "head", "body", "free"},
             app' \in [at : Ats, kind : Kinds, name : Args, req : 0 .. Len(req)],
             wire' \in Seq(Parts), seen' \in 0 .. Len(wire'),
             UNCHANGED <<main, next, func, rw, watch, res, wreq, aReq, calls, size, slots, keys, fn, jobs, notices, net,
                         inbox, closed, split, deleted, refused>>
      PROVE  Typed'
  <2>r. RegistryShape'
    BY <1>7 DEF RegistryShape
  <2>1. SessionShape'
    BY <1>7 DEF SessionShape
  <2>2. Ranges'
    BY <1>2, <1>7 DEF Ranges
  <2> QED
    BY <2>1, <2>2, <2>r
<1>8. CASE BroadcastPack
  <2>1. app.at = "pack" /\ app' = [app EXCEPT !.at = "head"]
        /\ req' = [req EXCEPT ![aReq].kind = app.kind, ![aReq].arg = app.name]
        /\ UNCHANGED <<proc, main, next, func, rw, watch, res, wreq, aReq, calls, size, slots, keys, fn, jobs, notices,
                       net, inbox, closed, wire, seen, split, deleted, refused>>
    BY <1>8 DEF BroadcastPack, reader, server, history
  <2>2. app' \in [at : Ats, kind : Kinds, name : Args, req : 0 .. Len(req)] /\ app'.req = app.req
    BY <1>1, <2>1
  <2>3. aReq \in 1 .. Len(req)
    <3>1. aReq >= 1 /\ aReq \in 0 .. Len(req)
      BY <1>2, <2>1 DEF Ranges, SessionShape
    <3> QED
      BY <3>1, Shape
  <2> DEFINE e == [req[aReq] EXCEPT !.kind = app.kind, !.arg = app.name]
  <2>4. req' = [req EXCEPT ![aReq] = e]
    BY <2>1, <2>3, Shape
  <2>5. e \in Requests
    <3>1. req[aReq] \in Requests
      BY <2>3, Shape, ElementOfSeq
    <3> QED
      BY <1>1, <3>1 DEF Requests
  <2> HIDE DEF e
  <2>6. req' \in Seq(Requests) /\ Len(req') = Len(req)
    BY <2>3, <2>4, <2>5, Shape, ExceptSeq
  <2> QED
    BY <1>7, <2>1, <2>2, <2>6, Shape
<1>9. CASE BroadcastHead
  <2>1. app.at = "head" /\ app' = [app EXCEPT !.at = "body"] /\ WriteHead(app.req)
        /\ UNCHANGED <<main, next, func, rw, watch, res, wreq, aReq, calls, size, slots, keys, fn, jobs, notices,
                       net, inbox, closed, seen, split, deleted, refused>>
    BY <1>9 DEF BroadcastHead, reader, server, history
  <2>2. app' \in [at : Ats, kind : Kinds, name : Args, req : 0 .. Len(req)] /\ app'.req = app.req
    BY <1>1, <2>1
  <2>3. wire' \in Seq(Parts) /\ seen' \in 0 .. Len(wire') /\ proc' \in {proc, "ub"} /\ req' = req
    BY <1>2, <2>1, HeadWrites
  <2> QED
    BY <1>7, <2>1, <2>2, <2>3, Shape
<1>10. CASE BroadcastBody
  <2>1. app.at = "body" /\ app' = [app EXCEPT !.at = "free"] /\ WriteBody(app.req)
        /\ UNCHANGED <<main, next, func, rw, watch, res, wreq, aReq, calls, size, slots, keys, fn, jobs, notices,
                       net, inbox, closed, seen, split, deleted, refused>>
    BY <1>10 DEF BroadcastBody, reader, server, history
  <2>2. app' \in [at : Ats, kind : Kinds, name : Args, req : 0 .. Len(req)] /\ app'.req = app.req
    BY <1>1, <2>1
  <2>3. wire' \in Seq(Parts) /\ seen' \in 0 .. Len(wire') /\ proc' \in {proc, "ub"}
        /\ req' \in Seq(Requests) /\ Len(req') = Len(req)
    BY <1>2, <2>1, BodyWrites
  <2> QED
    BY <1>7, <2>1, <2>2, <2>3
<1>11. CASE BroadcastFree
  <2>1. app.at = "free" /\ app' = [app EXCEPT !.at = "idle"]
        /\ req' = [req EXCEPT ![app.req].live = FALSE]
        /\ UNCHANGED <<proc, main, next, func, rw, watch, res, wreq, aReq, calls, size, slots, keys, fn, jobs, notices,
                       net, inbox, closed, wire, seen, split, deleted, refused>>
    BY <1>11 DEF BroadcastFree, reader, server, history
  <2>2. app' \in [at : Ats, kind : Kinds, name : Args, req : 0 .. Len(req)] /\ app'.req = app.req
    BY <1>1, <2>1
  <2>3. app.req \in 1 .. Len(req)
    BY <1>2, <2>1
  <2> DEFINE e == [req[app.req] EXCEPT !.live = FALSE]
  <2>4. req' = [req EXCEPT ![app.req] = e]
    BY <2>1, <2>3, Shape
  <2>5. e \in Requests
    <3>1. req[app.req] \in Requests
      BY <2>3, Shape, ElementOfSeq
    <3> QED
      BY <3>1 DEF Requests
  <2> HIDE DEF e
  <2>6. req' \in Seq(Requests) /\ Len(req') = Len(req)
    BY <2>3, <2>4, <2>5, Shape, ExceptSeq
  <2> QED
    BY <1>7, <2>1, <2>2, <2>6, Shape
<1> QED
  BY <1>4, <1>5, <1>6, <1>8, <1>9, <1>10, <1>11 DEF Application

\* A frame's bytes.
LEMMA FrameBytes ==
    ASSUME SessionAssumption, NEW j \in 0 .. MaxJobs, NEW n \in Nat
    PROVE  /\ Frame(j, n) \in Seq(Byte) /\ Len(Frame(j, n)) = MinDataSize + n
           /\ \A i \in 1 .. MinDataSize + n : Frame(j, n)[i] = <<j, i>>
<1> DEFINE m == MinDataSize + n
           s == Frame(j, n)
<1>1. m \in Nat
  BY DEF SessionAssumption
<1>2. s = [i \in 1 .. m |-> <<j, i>>]
  BY DEF Frame
<1> HIDE DEF m, s
<1>3. \A i \in 1 .. m : <<j, i>> \in Byte
  BY <1>1 DEF Byte
<1>4. s \in [1 .. m -> Byte]
  BY <1>2, <1>3
<1>5. s \in Seq(Byte)
  BY <1>1, <1>4, SeqDef
<1>6. Len(s) \in Nat /\ DOMAIN s = 1 .. Len(s) /\ DOMAIN s = 1 .. m
  BY <1>2, <1>5, LenProperties
<1>7. Len(s) = m
  <2>1. 1 .. Len(s) = 1 .. m
    BY <1>6
  <2>2. Len(s) <= m
    <3>1. Len(s) \in 1 .. Len(s) \/ Len(s) = 0
      BY <1>6
    <3> QED
      BY <1>1, <2>1, <3>1
  <2>3. m <= Len(s)
    <3>1. m \in 1 .. m \/ m = 0
      BY <1>1
    <3> QED
      BY <1>6, <2>1, <3>1
  <2>4. Len(s) \in Nat
    BY <1>6
  <2> QED
    BY <1>1, <2>2, <2>3, <2>4
<1>8. \A i \in 1 .. m : s[i] = <<j, i>>
  BY <1>2
<1> QED
  BY <1>5, <1>7, <1>8 DEF m, s

\* What a delivery moves.
LEMMA Moved ==
    ASSUME NEW S, NEW s \in Seq(S), NEW t \in Seq(S), NEW k \in 1 .. Len(t)
    PROVE  /\ s \o SubSeq(t, 1, k) \in Seq(S) /\ SubSeq(t, k + 1, Len(t)) \in Seq(S)
           /\ Len(s \o SubSeq(t, 1, k)) = Len(s) + k
           /\ Len(SubSeq(t, k + 1, Len(t))) = Len(t) - k
           /\ \A i \in 1 .. Len(s) : (s \o SubSeq(t, 1, k))[i] = s[i]
           /\ \A i \in 1 .. k : (s \o SubSeq(t, 1, k))[Len(s) + i] = t[i]
           /\ \A i \in 1 .. Len(t) - k : SubSeq(t, k + 1, Len(t))[i] = t[k + i]
<1>1. Len(s) \in Nat /\ Len(t) \in Nat /\ k \in Nat /\ k <= Len(t) /\ k \in 0 .. Len(t)
  OBVIOUS
<1>2. \A i \in 1 .. k : t[i] \in S
  BY <1>1
<1> DEFINE u == SubSeq(t, 1, k)
<1>3. u \in Seq(S) /\ Len(u) = k /\ \A i \in 1 .. k : u[i] = t[i]
  <2>1. /\ u \in Seq(S) /\ Len(u) = (IF 1 <= k THEN k - 1 + 1 ELSE 0)
        /\ \A i \in 1 .. k - 1 + 1 : u[i] = t[1 + i - 1]
    BY <1>1, <1>2, SubSeqProperties
  <2>2. k - 1 + 1 = k /\ \A i \in 1 .. k : 1 + i - 1 = i
    BY <1>1
  <2> QED
    BY <1>1, <2>1, <2>2
<1> HIDE DEF u
<1>4. /\ s \o u \in Seq(S) /\ Len(s \o u) = Len(s) + k
      /\ \A i \in 1 .. Len(s) + Len(u) :
             (s \o u)[i] = IF i <= Len(s) THEN s[i] ELSE u[i - Len(s)]
  BY <1>3, ConcatProperties
<1>5. \A i \in 1 .. Len(s) : (s \o u)[i] = s[i]
  BY <1>1, <1>3, <1>4
<1>6. \A i \in 1 .. k : (s \o u)[Len(s) + i] = t[i]
  <2> SUFFICES ASSUME NEW i \in 1 .. k
               PROVE  (s \o u)[Len(s) + i] = t[i]
    OBVIOUS
  <2>1. Len(s) + i \in 1 .. Len(s) + Len(u) /\ ~(Len(s) + i <= Len(s)) /\ Len(s) + i - Len(s) = i
    BY <1>1, <1>3
  <2>2. (s \o u)[Len(s) + i] = u[i]
    BY <1>4, <2>1
  <2> QED
    BY <1>3, <2>2
<1>7. /\ SubSeq(t, k + 1, Len(t)) \in Seq(S) /\ Len(SubSeq(t, k + 1, Len(t))) = Len(t) - k
      /\ \A i \in 1 .. Len(t) - k : SubSeq(t, k + 1, Len(t))[i] = t[k + i]
  BY <1>1, Rest
<1> QED
  BY <1>4, <1>5, <1>6, <1>7 DEF u

\* The steps of the server, of the network and of the signal.
LEMMA TypedEnvironment ==
    ASSUME SessionAssumption, Typed, Environment
    PROVE  Typed'
<1> USE DEF Typed
<1>0. /\ Len(net) \in Nat /\ Len(inbox) \in Nat /\ Len(wire) \in Nat /\ Len(jobs) \in Nat
      /\ MinDataSize \in Nat /\ res.job \in 0 .. Len(jobs) /\ MaxJobs \in Nat
      /\ seen \in 0 .. Len(wire)
  BY Shape
<1>1. CASE ServerReceive
  <2>1. seen' = seen + 1 /\ seen < Len(wire)
        /\ UNCHANGED <<proc, main, next, func, rw, watch, res, wreq, req, aReq, app, calls, size, slots, keys, fn, jobs,
                       notices, net, inbox, closed, wire, split, deleted, refused>>
    BY <1>1 DEF ServerReceive, reader, appVars, history
  <2>2. seen' \in 0 .. Len(wire')
    BY <1>0, <2>1
  <2>r. RegistryShape'
    BY <2>1, <2>2 DEF RegistryShape
  <2>3. SessionShape'
    BY <2>1, <2>2 DEF SessionShape
  <2>4. Ranges'
    BY <2>1 DEF Ranges
  <2> QED
    BY <2>3, <2>4, <2>r
<1>2. ASSUME NEW f \in Funcs, NEW n \in BodySizes, NEW d \in Decodable, SendJob(f, n, d)
      PROVE  Typed'
  <2>1. jobs' = Append(jobs, [func |-> f, size |-> n, decodes |-> d]) /\ Len(jobs) < MaxJobs
        /\ net' = net \o Frame(Len(jobs) + 1, n)
        /\ UNCHANGED <<proc, main, next, func, rw, watch, res, wreq, req, aReq, app, calls, size, slots, keys, fn,
                       notices, inbox, closed, wire, seen, split, deleted, refused>>
    BY <1>2 DEF SendJob, reader, appVars, history
  <2>2. [func |-> f, size |-> n, decodes |-> d] \in Job
    BY DEF Job, SessionAssumption
  <2>3. jobs' \in Seq(Job) /\ Len(jobs') = Len(jobs) + 1 /\ Len(jobs) \in Nat
    BY <2>1, <2>2, Shape, AppendProperties
  <2>4. Len(jobs) + 1 \in 0 .. MaxJobs /\ n \in Nat /\ MinDataSize + n \in Nat
    BY <2>1, <2>3, Shape DEF SessionAssumption
  <2> DEFINE w == Frame(Len(jobs) + 1, n)
  <2>5. /\ w \in Seq(Byte) /\ Len(w) = MinDataSize + n
        /\ \A i \in 1 .. MinDataSize + n : w[i] = <<Len(jobs) + 1, i>>
    BY <2>4, FrameBytes
  <2> HIDE DEF w
  <2>6. /\ net' \in Seq(Byte) /\ Len(net') = Len(net) + Len(w)
        /\ \A i \in 1 .. Len(net) + Len(w) :
               net'[i] = IF i <= Len(net) THEN net[i] ELSE w[i - Len(net)]
    <3>1. net' = net \o w
      BY <2>1 DEF w
    <3> QED
      BY <2>5, <3>1, Shape, ConcatProperties
  <2>7. \A i \in 1 .. Len(net') : net'[i][1] <= Len(jobs')
    <3> SUFFICES ASSUME NEW i \in 1 .. Len(net')
                 PROVE  net'[i][1] <= Len(jobs')
      OBVIOUS
    <3>1. CASE i <= Len(net)
      <4>1. i \in 1 .. Len(net) /\ i \in 1 .. Len(net) + Len(w) /\ Len(net) \in Nat
        BY <2>6, <3>1, Shape
      <4>2. net'[i] = net[i] /\ net[i] \in Byte
        BY <2>6, <3>1, <4>1, Shape, ElementOfSeq
      <4>3. net[i][1] <= Len(jobs) /\ net[i][1] \in Nat
        BY <4>1, <4>2 DEF Ranges, Byte
      <4> QED
        BY <2>3, <4>2, <4>3
    <3>2. CASE ~(i <= Len(net))
      <4>1. i \in 1 .. Len(net) + Len(w) /\ i - Len(net) \in 1 .. MinDataSize + n
        <5>1. Len(net') = Len(net) + Len(w) /\ Len(w) = MinDataSize + n /\ n \in Nat
          BY <2>4, <2>5, <2>6
        <5> QED
          BY <1>0, <3>2, <5>1
      <4>2. net'[i] = w[i - Len(net)]
        BY <2>6, <3>2, <4>1
      <4>3. net'[i] = <<Len(jobs) + 1, i - Len(net)>>
        BY <2>5, <4>1, <4>2
      <4> QED
        BY <2>3, <4>3
    <3> QED
      BY <3>1, <3>2
  <2>8. \A k \in 1 .. Len(inbox) : inbox[k][1] <= Len(jobs')
    <3> SUFFICES ASSUME NEW k \in 1 .. Len(inbox)
                 PROVE  inbox[k][1] <= Len(jobs')
      OBVIOUS
    <3>1. inbox[k][1] <= Len(jobs) /\ inbox[k] \in Byte
      BY Shape, ElementOfSeq DEF Ranges
    <3> QED
      BY <2>3, <3>1 DEF Byte
  <2>9. res.job <= Len(jobs') /\ Len(jobs') <= MaxJobs
    <3>1. Len(jobs) < MaxJobs /\ Len(jobs') = Len(jobs) + 1
      BY <2>1, <2>3
    <3> QED
      BY <1>0, <3>1
  <2>r. RegistryShape'
    BY <2>1, <2>3, <2>6, <2>9 DEF RegistryShape
  <2>10. SessionShape'
    BY <2>1, <2>3, <2>6, <2>9 DEF SessionShape, Job, Byte
  <2>11. Ranges'
    BY <2>1, <2>7, <2>8, <2>9 DEF Ranges
  <2> QED
    BY <2>10, <2>11, <2>r
<1>3. CASE SendNotice
  <2>1. notices < MaxNotices /\ notices' = notices + 1 /\ net' = net \o Frame(NoJob, 0)
        /\ UNCHANGED <<proc, main, next, func, rw, watch, res, wreq, req, aReq, app, calls, size, slots, keys, fn, jobs,
                       inbox, closed, wire, seen, split, deleted, refused>>
    BY <1>3 DEF SendNotice, reader, appVars, history
  <2>2. notices' \in 0 .. MaxNotices
    BY <2>1 DEF SessionShape, SessionAssumption
  <2> DEFINE w == Frame(NoJob, 0)
  <2>3. /\ w \in Seq(Byte) /\ Len(w) = MinDataSize
        /\ \A i \in 1 .. MinDataSize : w[i] = <<NoJob, i>>
    <3>1. NoJob \in 0 .. MaxJobs /\ MinDataSize + 0 = MinDataSize
      BY Shape DEF NoJob
    <3> QED
      BY <3>1, FrameBytes
  <2> HIDE DEF w
  <2>4. /\ net' \in Seq(Byte) /\ Len(net') = Len(net) + Len(w)
        /\ \A i \in 1 .. Len(net) + Len(w) :
               net'[i] = IF i <= Len(net) THEN net[i] ELSE w[i - Len(net)]
    <3>1. net' = net \o w
      BY <2>1 DEF w
    <3> QED
      BY <2>3, <3>1, Shape, ConcatProperties
  <2>5. \A i \in 1 .. Len(net') : net'[i][1] <= Len(jobs)
    <3> SUFFICES ASSUME NEW i \in 1 .. Len(net')
                 PROVE  net'[i][1] <= Len(jobs)
      OBVIOUS
    <3>1. CASE i <= Len(net)
      <4>1. i \in 1 .. Len(net) /\ i \in 1 .. Len(net) + Len(w)
        BY <2>4, <3>1, Shape
      <4>2. net'[i] = net[i]
        BY <2>4, <3>1, <4>1
      <4> QED
        BY <4>1, <4>2 DEF Ranges
    <3>2. CASE ~(i <= Len(net))
      <4>1. i \in 1 .. Len(net) + Len(w) /\ i - Len(net) \in 1 .. MinDataSize
        <5>1. Len(net') = Len(net) + Len(w) /\ Len(w) = MinDataSize
          BY <2>3, <2>4
        <5> QED
          BY <1>0, <3>2, <5>1
      <4>2. net'[i] = <<NoJob, i - Len(net)>>
        BY <2>3, <2>4, <3>2, <4>1
      <4> QED
        BY <4>2, Shape DEF NoJob
    <3> QED
      BY <3>1, <3>2
  <2>r. RegistryShape'
    BY <2>1, <2>2, <2>4 DEF RegistryShape
  <2>6. SessionShape'
    BY <2>1, <2>2, <2>4 DEF SessionShape, Byte
  <2>7. Ranges'
    BY <2>1, <2>5 DEF Ranges
  <2> QED
    BY <2>6, <2>7, <2>r
<1>4. CASE Deliver
  <2>1. PICK k \in 1 .. Len(net) :
            /\ split' = (split \/ ~EndsPart(net[k]))
            /\ inbox' = inbox \o SubSeq(net, 1, k)
            /\ net' = SubSeq(net, k + 1, Len(net))
    BY <1>4 DEF Deliver
  <2>2. UNCHANGED <<proc, main, next, func, rw, watch, res, wreq, req, aReq, app, calls, size, slots, keys, fn, jobs,
                    notices, closed, wire, seen, deleted, refused>>
    BY <1>4 DEF Deliver, reader, appVars, history
  <2>3. /\ inbox' \in Seq(Byte) /\ net' \in Seq(Byte)
        /\ Len(inbox') = Len(inbox) + k /\ Len(net') = Len(net) - k
        /\ \A i \in 1 .. Len(inbox) : inbox'[i] = inbox[i]
        /\ \A i \in 1 .. k : inbox'[Len(inbox) + i] = net[i]
        /\ \A i \in 1 .. Len(net) - k : net'[i] = net[k + i]
    <3>1. inbox \in Seq(Byte) /\ net \in Seq(Byte)
      BY Shape
    <3> DEFINE u == inbox \o SubSeq(net, 1, k)
               v == SubSeq(net, k + 1, Len(net))
    <3>2. /\ u \in Seq(Byte) /\ v \in Seq(Byte)
          /\ Len(u) = Len(inbox) + k /\ Len(v) = Len(net) - k
          /\ \A i \in 1 .. Len(inbox) : u[i] = inbox[i]
          /\ \A i \in 1 .. k : u[Len(inbox) + i] = net[i]
          /\ \A i \in 1 .. Len(net) - k : v[i] = net[k + i]
      BY <3>1, Moved
    <3> HIDE DEF u, v
    <3>3. inbox' = u /\ net' = v
      BY <2>1 DEF u, v
    <3> QED
      BY <3>2, <3>3
  <2>4. split' \in BOOLEAN
    BY <2>1
  <2>5. \A i \in 1 .. Len(inbox') : inbox'[i][1] <= Len(jobs)
    <3> SUFFICES ASSUME NEW i \in 1 .. Len(inbox')
                 PROVE  inbox'[i][1] <= Len(jobs)
      OBVIOUS
    <3>1. CASE i <= Len(inbox)
      <4>1. i \in 1 .. Len(inbox)
        BY <3>1, Shape
      <4> QED
        BY <2>3, <4>1 DEF Ranges
    <3>2. CASE ~(i <= Len(inbox))
      <4> DEFINE x == i - Len(inbox)
      <4>1. x \in 1 .. k /\ x \in 1 .. Len(net) /\ i = Len(inbox) + x
        <5>1. Len(inbox') = Len(inbox) + k /\ k \in 1 .. Len(net)
          BY <2>1, <2>3
        <5> QED
          BY <1>0, <3>2, <5>1
      <4> HIDE DEF x
      <4>2. inbox'[i] = net[x]
        BY <2>3, <4>1
      <4> QED
        BY <4>1, <4>2 DEF Ranges
    <3> QED
      BY <3>1, <3>2
  <2>6. \A i \in 1 .. Len(net') : net'[i][1] <= Len(jobs)
    <3> SUFFICES ASSUME NEW i \in 1 .. Len(net')
                 PROVE  net'[i][1] <= Len(jobs)
      OBVIOUS
    <3>1. i \in 1 .. Len(net) - k /\ k + i \in 1 .. Len(net)
      BY <2>3, Shape
    <3>2. net'[i] = net[k + i]
      BY <2>3, <3>1
    <3> QED
      BY <3>1, <3>2 DEF Ranges
  <2>r. RegistryShape'
    BY <2>2, <2>3, <2>4 DEF RegistryShape
  <2>7. SessionShape'
    BY <2>2, <2>3, <2>4 DEF SessionShape, Byte
  <2>8. Ranges'
    BY <2>2, <2>5, <2>6 DEF Ranges
  <2> QED
    BY <2>7, <2>8, <2>r
<1>5. CASE ServerClose \/ BrokenPipe
  <2>1. closed' \in {closed, TRUE} /\ proc' \in {proc, "sigpipe"}
        /\ UNCHANGED <<main, next, func, rw, watch, res, wreq, req, aReq, app, calls, size, slots, keys, fn, jobs,
                       notices, net, inbox, wire, seen, split, deleted, refused>>
    BY <1>5 DEF ServerClose, BrokenPipe, server, reader, appVars, history
  <2>2. closed' \in BOOLEAN
    BY <2>1 DEF SessionShape
  <2>r. RegistryShape'
    BY <2>1, <2>2 DEF RegistryShape
  <2>3. SessionShape'
    BY <2>1, <2>2 DEF SessionShape
  <2>4. Ranges'
    BY <2>1 DEF Ranges
  <2> QED
    BY <2>3, <2>4, <2>r
<1> QED
  BY <1>1, <1>2, <1>3, <1>4, <1>5 DEF Environment

\* Every step keeps the shape.
LEMMA TypedNext == SessionAssumption /\ Typed /\ [Next]_vars => Typed'
<1> SUFFICES ASSUME SessionAssumption, Typed, [Next]_vars
             PROVE  Typed'
  OBVIOUS
<1>1. CASE UNCHANGED vars
  BY <1>1 DEF Typed, RegistryShape, SessionShape, Ranges, vars
<1>2. CASE Next
  BY <1>2, TypedMain, TypedRead, TypedWrite, TypedApplication, TypedEnvironment
     DEF Next, ReadWrite
<1> QED
  BY <1>1, <1>2

\* For any constants every variable keeps its shape: no index, no pointer and
\* no job number leaves its range, whatever is read, written or cut.
THEOREM TypeCorrect == Spec => []TypeOK
<1>1. Init => Typed
  BY SessionAssumption, TypedInit
<1>2. Typed /\ [Next]_vars => Typed'
  BY SessionAssumption, TypedNext
<1>3. Typed => TypeOK
  <2> SUFFICES ASSUME RegistryShape, SessionShape, Ranges
               PROVE  TypeOK
    BY DEF Typed
  <2>1. /\ size \in Nat \ {0} /\ keys \in Seq(0 .. size - 1)
        /\ fn \in Seq([name : Funcs, key : 0 .. size - 1, live : BOOLEAN])
        /\ slots \in [0 .. size - 1 -> {Junk, Null} \cup (1 .. Len(fn))]
        /\ func \in {Junk, Null} \cup (1 .. Len(fn))
    BY DEF RegistryShape, Ranges, Entry
  <2>2. /\ jobs \in Seq([func : Funcs, size : BodySizes, decodes : BOOLEAN])
        /\ net \in Seq((0 .. MaxJobs) \X (Nat \ {0}))
        /\ inbox \in Seq((0 .. MaxJobs) \X (Nat \ {0}))
    BY DEF SessionShape, Job, Byte
  <2> QED
    BY <2>1, <2>2, Zenon DEF SessionShape, TypeOK
<1> QED
  BY <1>1, <1>2, <1>3, PTL DEF Spec

-----------------------------------------------------------------------------
(* The registry.                                                           *)

\* The registry's part of TypeOK is all that Filled and Table read of it.
LEMMA SameRegistry ==
    ASSUME UNCHANGED <<size, slots, keys, fn>>
    PROVE  /\ Grown' = Grown /\ Filled' = Filled
           /\ \A x : Slot(x)' = Slot(x)
           /\ \A x : Live(x)' = Live(x)
BY DEF Grown, Filled, Slot, Live

\* A registration keeps the registry filled.
LEMMA FilledAfter ==
    ASSUME SessionAssumption, Typed, Table, NEW f \in Funcs, Register(f)
    PROVE  /\ MapSize <= size' /\ (~Grown' => ~Grown /\ size' = size)
           /\ ~Grown' => \A k \in 0 .. size' - 1 : slots'[k] # Junk
           /\ Filled => Filled'
<1> DEFINE n == Len(fn)
           k == Slot(f)'
<1>1. /\ size' >= size /\ size' \in {size, 2 * size} /\ size \in Nat \ {0}
      /\ Len(keys') = Len(keys) + 1 /\ keys'[Len(keys) + 1] = k
      /\ \A i \in 1 .. Len(keys) : keys'[i] = keys[i]
      /\ n \in Nat /\ Len(fn') = n + 1
      /\ fn'[n + 1] = [name |-> f, key |-> k, live |-> TRUE]
      /\ \A i \in 1 .. n : fn'[i] = fn[i]
      /\ k \in 0 .. size' - 1 /\ slots'[k] = n + 1
      /\ \A i \in 0 .. size - 1 : i # k => slots'[i] = slots[i]
  BY Registering, Shaped DEF RegistryShape
<1>2. MapSize \in Nat /\ MapSize <= size
  BY DEF SessionAssumption, Table
<1>3. \A i \in 1 .. n : fn[i].key \in 0 .. size - 1
  BY Shaped
<1>4. MapSize <= size' /\ (~Grown' => ~Grown /\ size' = size)
  BY <1>1, <1>2 DEF Grown
<1> HIDE DEF n, k
<1>5. ASSUME ~Grown', NEW i \in 0 .. size' - 1
      PROVE  slots'[i] # Junk
  <2>1. ~Grown /\ size' = size
    BY <1>4, <1>5
  <2>2. i = k => slots'[i] \in Nat
    BY <1>1
  <2>3. i # k => slots'[i] = slots[i] /\ slots[i] # Junk
    BY <1>1, <1>5, <2>1 DEF Table
  <2>4. Junk \notin Nat
    BY DEF Junk
  <2> QED
    BY <2>2, <2>3, <2>4
<1>6. ASSUME Filled
      PROVE  Filled'
  <2>1. /\ Len(keys) = n
        /\ \A i \in 0 .. size - 1 : slots[i] \in 1 .. n => fn[slots[i]].key = i
        /\ \A i \in 1 .. n :
               /\ fn[i].live /\ keys[i] = fn[i].key /\ slots[fn[i].key] \in i .. n
               /\ ~Grown => fn[i].key = Slot(fn[i].name)
    BY <1>6 DEF Filled, n
  <2> DEFINE Fits(i) == /\ fn'[i].live /\ keys'[i] = fn'[i].key
                        /\ slots'[fn'[i].key] \in i .. Len(fn')
                        /\ ~Grown' => fn'[i].key = Hash[fn'[i].name] % size'
  <2>2. Fits(n + 1)
    <3>1. fn'[n + 1].live /\ fn'[n + 1].key = k /\ fn'[n + 1].name = f
      BY <1>1
    <3>2. keys'[n + 1] = k
      BY <1>1, <2>1
    <3>3. slots'[k] = n + 1 /\ n + 1 \in (n + 1) .. Len(fn')
      BY <1>1
    <3>4. Hash[fn'[n + 1].name] % size' = k
      BY <3>1 DEF k, Slot
    <3> QED
      BY <3>1, <3>2, <3>3, <3>4
  <2>3. ASSUME NEW i \in 1 .. n
        PROVE  Fits(i)
    <3>1. fn'[i] = fn[i] /\ keys'[i] = keys[i] /\ i \in Nat
      BY <1>1, <2>1
    <3>2. fn'[i].live /\ keys'[i] = fn'[i].key
      BY <2>1, <2>3, <3>1
    <3> DEFINE m == fn[i].key
    <3>3. m \in 0 .. size - 1 /\ slots[m] \in i .. n
      BY <1>3, <2>1, <2>3
    <3>4. slots'[m] \in i .. Len(fn')
      <4> HIDE DEF m
      <4>1. CASE m = k
        <5>1. slots'[m] = n + 1
          BY <1>1, <4>1
        <5>2. n + 1 \in i .. Len(fn')
          BY <1>1, <2>3
        <5> QED
          BY <4>1, <5>1, <5>2
      <4>2. CASE m # k
        <5>1. slots'[m] = slots[m]
          BY <1>1, <3>3, <4>2
        <5>2. slots[m] \in i .. Len(fn')
          BY <1>1, <2>3, <3>3
        <5> QED
          BY <1>1, <3>3, <5>1, <5>2
      <4> QED
        BY <4>1, <4>2
    <3>5. ~Grown' => fn'[i].key = Hash[fn'[i].name] % size'
      <4>1. SUFFICES ASSUME ~Grown'
                     PROVE  fn'[i].key = Hash[fn'[i].name] % size'
        OBVIOUS
      <4>2. ~Grown /\ size' = size
        BY <1>4, <4>1
      <4>3. fn[i].key = Slot(fn[i].name)
        BY <2>1, <2>3, <4>2
      <4> QED
        BY <3>1, <4>2, <4>3 DEF Slot
    <3> QED
      BY <3>1, <3>2, <3>4, <3>5
  <2> HIDE DEF Fits
  <2>4. \A i \in 1 .. Len(fn') : Fits(i)
    <3>1. \A i \in 1 .. Len(fn') : i \in 1 .. n \/ i = n + 1
      BY <1>1
    <3> QED
      BY <2>2, <2>3, <3>1
  <2>5. Len(keys') = Len(fn')
    BY <1>1, <2>1
  <2>6. ASSUME NEW i \in 0 .. size' - 1, slots'[i] \in 1 .. Len(fn')
        PROVE  fn'[slots'[i]].key = i
    <3>1. i = k => slots'[i] = n + 1 /\ fn'[n + 1].key = i
      BY <1>1
    <3>2. i # k /\ i < size => slots'[i] \in 1 .. n /\ slots'[i] = slots[i] /\ i \in 0 .. size - 1
      <4> SUFFICES ASSUME i # k, i < size
                   PROVE  slots'[i] \in 1 .. n /\ slots'[i] = slots[i] /\ i \in 0 .. size - 1
        OBVIOUS
      <4>1. i \in 0 .. size - 1
        BY <1>1
      <4>2. slots'[i] = slots[i] /\ slots[i] \in {Junk, Null} \cup (1 .. n)
        BY <4>1, <1>1, Shaped DEF RegistryShape, n
      <4> QED
        BY <2>6, <4>1, <4>2 DEF Junk, Null
    <3>3. i # k /\ ~(i < size) => slots'[i] = Junk
      <4>1. slots' = [x \in 0 .. Larger - 1 |->
                         IF x = Hash[f] % Larger THEN Len(fn) + 1
                         ELSE IF x < size THEN slots[x] ELSE Junk]
            /\ size' = Larger
        BY DEF Register
      <4>2. k = Hash[f] % Larger
        BY <4>1 DEF k, Slot
      <4> QED
        BY <4>1, <4>2
    <3>4. slots'[i] # Junk
      BY <2>6 DEF Junk
    <3>5. CASE i # k /\ i < size
      <4>1. PICK m \in 1 .. n : m = slots[i] /\ slots'[i] = m
        BY <3>2, <3>5
      <4>2. fn[m].key = i
        BY <2>1, <3>2, <3>5, <4>1
      <4> QED
        BY <1>1, <4>1, <4>2
    <3> QED
      BY <3>1, <3>3, <3>4, <3>5
  <2> QED
    BY <2>4, <2>5, <2>6 DEF Filled, Fits, Slot
<1> QED
  BY <1>4, <1>5, <1>6

\* Every step keeps Table.
LEMMA TableNext ==
    ASSUME SessionAssumption, Typed, Table, [Next]_vars
    PROVE  Table'
<1>0. /\ calls \in Nat /\ next \in Nat /\ Len(Initial) \in Nat /\ Len(fn) \in Nat
      /\ rw = "none" <=> main \in {"register", "announce", "send", "start"}
  <2>1. calls \in 0 .. RuntimeCalls /\ next \in Nat
    BY DEF Typed, SessionShape
  <2>2. RuntimeCalls \in Nat /\ Initial \in Seq(Funcs)
    BY DEF SessionAssumption
  <2> QED
    BY <2>1, <2>2, Shaped DEF Typed, Ranges
<1>1. ASSUME UNCHANGED <<size, slots, keys, fn, calls, deleted>>,
             IF main' = "register" THEN main = "register" /\ next' = next
                                   ELSE main = "register" => Len(Initial) <= Len(fn),
             ~deleted /\ main' = "send" => func' \in 1 .. Len(fn),
             rw' = "call" => func' # Null /\ (func' = Junk => Grown)
      PROVE  Table'
  <2>1. Grown' = Grown /\ Filled' = Filled
    BY <1>1, SameRegistry
  <2> QED
    BY <1>1, <2>1 DEF Table
<1>2. ASSUME UNCHANGED <<size, slots, keys, fn, calls, deleted, main, next, func>>,
             rw' = rw \/ rw' # "call"
      PROVE  Table'
  BY <1>1, <1>2 DEF Table
<1>3. CASE UNCHANGED vars
  BY <1>2, <1>3 DEF vars
<1>4. CASE \/ ReadEvent \/ ReadDropped \/ ReadHeader \/ ReadBody \/ ReadClosed \/ ReadFailed
           \/ BadBody \/ CallFunction \/ CallFreed \/ CopyResult
           \/ WriteEvent \/ ReplyHead \/ ReplyBody
  <2>1. /\ UNCHANGED <<size, slots, keys, fn, calls, deleted, main, next, func>>
        /\ rw' = rw \/ rw' \in {"read", "do", "gone", "copy", "pack", "poll", "head", "body"}
    BY <1>4 DEF ReadEvent, ReadDropped, ReadHeader, ReadBody, Reading, ReadClosed, ReadFailed,
                CloseAndExit, CloseAndReturn, BadBody, CallFunction, CallFreed, CopyResult,
                WriteEvent, ReplyHead, ReplyBody, reader, appVars, history
  <2> QED
    BY <1>2, <2>1
<1>5. CASE \/ Environment \/ Broadcast \/ BroadcastPack \/ BroadcastHead \/ BroadcastBody
           \/ BroadcastFree
  <2>1. UNCHANGED <<size, slots, keys, fn, calls, deleted, main, next, func, rw>>
    BY <1>5 DEF Environment, ServerReceive, SendNotice, Deliver, ServerClose, BrokenPipe, SendJob,
                Broadcast, BroadcastPack, BroadcastHead, BroadcastBody, BroadcastFree,
                reader, appVars, history
  <2> QED
    BY <1>2, <2>1
<1>6. CASE RefuseJob \/ PackResult
  <2>1. UNCHANGED <<size, slots, keys, fn, calls, deleted, main, next>> /\ func' = Null /\ rw' = "poll"
        /\ rw # "none"
    BY <1>6 DEF RefuseJob, NotFound, OtherName, PackResult, ReadDone, appVars
  <2>2. main # "send" /\ main # "register"
    BY <1>0, <2>1
  <2> QED
    BY <1>1, <2>1, <2>2
<1>7. CASE GetFunc
  <2>1. PICK f \in Handles : slots[Slot(f)] # Null /\ func' = slots[Slot(f)]
    BY <1>7 DEF GetFunc
  <2>2. UNCHANGED <<size, slots, keys, fn, calls, deleted, main, next>> /\ rw' = "call" /\ rw = "do"
        /\ Decodes
    BY <1>7 DEF GetFunc, appVars, history
  <2>3. main # "send" /\ main # "register"
    BY <1>0, <2>2
  <2>4. Slot(f) \in 0 .. size - 1
    <3>1. f \in Funcs
      BY <2>1, <2>2, HandleFunc
    <3> QED
      BY <3>1, SlotRange
  <2>5. func' # Null /\ (func' = Junk => Grown)
    BY <2>1, <2>4 DEF Table
  <2> QED
    BY <1>1, <2>2, <2>3, <2>5
<1>8. CASE Grab \/ Start \/ Join
  <2>1. /\ UNCHANGED <<size, slots, keys, fn, calls, deleted, next, func>>
        /\ main # "register" /\ main' \in {"start", "join", "sleep"} /\ rw' \in {rw, "poll"}
    BY <1>8 DEF Grab, Start, Join, reader, appVars, history
  <2> QED
    BY <1>1, <2>1 DEF Table
<1>9. CASE Announce
  <2>1. /\ UNCHANGED <<size, slots, keys, fn, calls, deleted, rw>>
        /\ main = "send" /\ main' = "announce"
    BY <1>9 DEF Announce, reader, appVars, history
  <2>2. rw = "none"
    BY <1>0, <2>1
  <2> QED
    BY <1>1, <2>1, <2>2
<1>10. CASE Find
  <2>1. /\ UNCHANGED <<size, slots, keys, fn, calls, deleted, rw>>
        /\ main = "announce" /\ main' # "register" /\ ~AllAnnounced /\ func' = slots[keys[next]]
    BY <1>10 DEF Find, reader, appVars, history
  <2>2. rw = "none"
    BY <1>0, <2>1
  <2>3. ~deleted => func' \in 1 .. Len(fn)
    <3> SUFFICES ASSUME Filled
                 PROVE  func' \in 1 .. Len(fn)
      BY DEF Table
    <3>1. next \in 1 .. Len(fn)
      BY <1>0, <2>1 DEF AllAnnounced, Filled, Typed, Ranges
    <3>2. keys[next] = fn[next].key /\ slots[fn[next].key] \in next .. Len(fn)
      BY <3>1 DEF Filled
    <3> QED
      BY <1>0, <2>1, <3>1, <3>2
  <2> QED
    BY <1>1, <2>1, <2>2, <2>3
<1>11. CASE Ready
  <2>1. /\ UNCHANGED <<size, slots, keys, fn, calls, deleted, rw, func>>
        /\ main = "register" /\ next > Len(Initial) /\ main' = "announce"
    BY <1>11 DEF Ready, reader, appVars, history
  <2>2. Len(Initial) <= Len(fn)
    BY <1>0, <2>1 DEF Table
  <2> QED
    BY <1>1, <2>1, <2>2 DEF Table
<1>12. CASE RegisterNext
  <2>1. /\ main = "register" /\ next <= Len(Initial) /\ Register(Initial[next]) /\ next' = next + 1
        /\ UNCHANGED <<calls, deleted, main, func, rw>>
    BY <1>12 DEF RegisterNext, reader, history
  <2>2. Initial[next] \in Funcs /\ next = Len(fn) + 1 /\ calls = 0
    <3>1. Initial \in Seq(Funcs)
      BY DEF SessionAssumption
    <3>2. next \in 1 .. Len(Initial)
      BY <1>0, <2>1 DEF Typed, Ranges
    <3> QED
      BY <2>1, <3>1, <3>2, ElementOfSeq DEF Table
  <2>3. /\ Len(fn') = Len(fn) + 1 /\ fn'[Len(fn) + 1].name = Initial[next]
        /\ \A i \in 1 .. Len(fn) : fn'[i] = fn[i]
        /\ MapSize <= size' /\ (~Grown' => \A k \in 0 .. size' - 1 : slots'[k] # Junk)
        /\ Filled => Filled'
    <3>1. PICK f \in Funcs : f = Initial[next] /\ Register(f)
      BY <2>1, <2>2
    <3>2. /\ Len(fn') = Len(fn) + 1 /\ fn'[Len(fn) + 1] = [name |-> f, key |-> Slot(f)', live |-> TRUE]
          /\ \A i \in 1 .. Len(fn) : fn'[i] = fn[i]
      BY <3>1, Registering
    <3>3. /\ MapSize <= size' /\ (~Grown' => \A k \in 0 .. size' - 1 : slots'[k] # Junk)
          /\ Filled => Filled'
      BY <3>1, FilledAfter
    <3> QED
      BY <3>1, <3>2, <3>3
  <2>5. next' = Len(fn') + 1 /\ Len(fn') <= Len(Initial)
    BY <1>0, <2>1, <2>2, <2>3
  <2>6. \A i \in 1 .. Len(Initial) : i <= Len(fn') => fn'[i].name = Initial[i]
    <3> SUFFICES ASSUME NEW i \in 1 .. Len(Initial), i <= Len(fn')
                 PROVE  fn'[i].name = Initial[i]
      OBVIOUS
    <3>1. (i \in 1 .. Len(fn) /\ i <= Len(fn)) \/ i = next
      BY <1>0, <2>2, <2>3
    <3> QED
      BY <2>2, <2>3, <3>1 DEF Table
  <2>7. rw # "call" /\ main # "send"
    BY <1>0, <2>1
  <2>8. ~(Len(fn') > Len(Initial))
    BY <1>0, <2>3, <2>5
  <2> QED
    BY <2>1, <2>2, <2>3, <2>5, <2>6, <2>7, <2>8 DEF Table
<1>13. ASSUME NEW f \in Funcs, AddFunction(f)
       PROVE  Table'
  <2>1. /\ main # "register" /\ Register(f) /\ calls' = calls + 1
        /\ UNCHANGED <<deleted, main, next, func, rw>>
    BY <1>13 DEF AddFunction, Call, reader
  <2>2. Len(fn') = Len(fn) + 1 /\ \A i \in 1 .. Len(fn) : fn'[i] = fn[i]
    BY <2>1, Registering
  <2>3. /\ MapSize <= size' /\ (~Grown' => ~Grown)
        /\ ~Grown' => \A k \in 0 .. size' - 1 : slots'[k] # Junk
        /\ Filled => Filled'
    BY <2>1, FilledAfter
  <2>4. Len(Initial) <= Len(fn) /\ Len(Initial) <= Len(fn') /\ calls' > 0
    BY <1>0, <2>1, <2>2 DEF Table
  <2>5. \A i \in 1 .. Len(Initial) : i <= Len(fn') => fn'[i].name = Initial[i]
    <3> SUFFICES ASSUME NEW i \in 1 .. Len(Initial)
                 PROVE  fn'[i].name = Initial[i]
      OBVIOUS
    <3>1. i \in 1 .. Len(fn) /\ i <= Len(fn)
      BY <1>0, <2>4
    <3> QED
      BY <2>2, <3>1 DEF Table
  <2>6. func \in 1 .. Len(fn) => func \in 1 .. Len(fn')
    BY <1>0, <2>2
  <2> QED
    BY <2>1, <2>3, <2>4, <2>5, <2>6 DEF Table
<1>14. ASSUME NEW f \in Funcs, DelFunction(f)
       PROVE  Table'
  <2> DEFINE p == slots[Slot(f)]
  <2>1. /\ main # "register" /\ calls' = calls + 1 /\ deleted' = TRUE
        /\ UNCHANGED <<main, next, func, rw>>
    BY <1>14 DEF DelFunction, Call, reader
  <2>2. /\ size' = size /\ Len(fn') = Len(fn)
        /\ \A i \in 1 .. Len(fn) : fn'[i].name = fn[i].name
        /\ \A i \in 0 .. size - 1 : slots'[i] # Junk \/ slots[i] = Junk
    <3>1. CASE Live(p)
      <4>1. Unregister(p)
        BY <1>14, <3>1 DEF DelFunction
      <4> HIDE DEF p
      <4>2. /\ RegistryShape' /\ size' = size /\ Len(fn') = Len(fn)
            /\ \A i \in 1 .. Len(fn) : fn'[i].name = fn[i].name
            /\ \A i \in 0 .. size - 1 : slots'[i] # Junk \/ slots[i] = Junk
        BY <3>1, <4>1, Unregistering, Zenon
      <4> QED
        BY <4>2
    <3>2. CASE ~Live(p)
      <4>1. UNCHANGED <<size, slots, fn>>
        BY <1>14, <3>2 DEF DelFunction
      <4> QED
        BY <4>1
    <3> QED
      BY <3>1, <3>2
  <2>3. Grown' = Grown
    BY <2>2 DEF Grown
  <2>4. ~Grown' => \A k \in 0 .. size' - 1 : slots'[k] # Junk
    BY <2>2, <2>3 DEF Table
  <2>5. \A i \in 1 .. Len(Initial) : i <= Len(fn') => fn'[i].name = Initial[i]
    <3> SUFFICES ASSUME NEW i \in 1 .. Len(Initial), i <= Len(fn')
                 PROVE  fn'[i].name = Initial[i]
      OBVIOUS
    <3>1. i \in 1 .. Len(fn) /\ i <= Len(fn)
      BY <1>0, <2>2
    <3> QED
      BY <2>2, <3>1 DEF Table
  <2>6. calls' > 0 /\ MapSize <= size' /\ Len(Initial) <= Len(fn')
    BY <1>0, <2>1, <2>2 DEF Table
  <2> QED
    BY <2>1, <2>3, <2>4, <2>5, <2>6 DEF Table
<1> QED
  BY <1>3, <1>4, <1>5, <1>6, <1>7, <1>8, <1>9, <1>10, <1>11, <1>12, <1>13, <1>14
     DEF Next, Main, ReadWrite, Application

-----------------------------------------------------------------------------
(* The requests.                                                           *)

\* Whose request the threads use while Start's is the only one.
LEMMA OnlyRequest ==
    ASSUME SessionAssumption, Typed
    PROVE  /\ Len(req) = 1 /\ rw # "none" => aReq = 1 /\ req[1] \in Requests
           /\ Len(req) = 1 /\ rw \in {"head", "body"} => wreq = 1
           /\ Len(req) <= 1 => Len(req) = 0 \/ Len(req) = 1
           /\ rw # "none" => aReq \in 1 .. Len(req) /\ (Len(req) = 1 \/ Len(req) > 1)
           /\ rw \in {"head", "body"} => wreq \in 1 .. Len(req)
           /\ app.at \in {"pack", "head", "body", "free"} =>
                  app.req \in 1 .. Len(req) /\ rw # "none"
<1>1. Len(req) \in Nat /\ req \in Seq(Requests)
  BY Shape
<1>2. /\ rw # "none" => aReq >= 1
      /\ rw \in {"head", "body"} => wreq >= 1
      /\ app.at \in {"pack", "head", "body", "free"} => app.req >= 1 /\ rw # "none"
  BY DEF Typed, Ranges
<1>3. aReq \in 0 .. Len(req) /\ wreq \in 0 .. Len(req)
  BY DEF Typed, SessionShape
<1>4. app.req \in 0 .. Len(req)
  BY DEF Typed, SessionShape
<1>5. Len(req) = 1 => req[1] \in Requests
  <2>1. Len(req) = 1 => 1 \in 1 .. Len(req)
    OBVIOUS
  <2> QED
    BY <1>1, <2>1, ElementOfSeq
<1>6. \A n \in Nat : \A x \in 0 .. n : x >= 1 =>
          x \in 1 .. n /\ (n = 1 => x = 1) /\ (n = 1 \/ n > 1)
  OBVIOUS
<1>7. \A n \in Nat : n <= 1 => n = 0 \/ n = 1
  OBVIOUS
<1>8. Len(req) \in Nat
  BY <1>1
<1>9. rw # "none" => aReq \in 1 .. Len(req) /\ (Len(req) = 1 => aReq = 1) /\ (Len(req) = 1 \/ Len(req) > 1)
  BY <1>2, <1>3, <1>6, <1>8
<1>10. rw \in {"head", "body"} => wreq \in 1 .. Len(req) /\ (Len(req) = 1 => wreq = 1)
  BY <1>2, <1>3, <1>6, <1>8
<1>11. app.at \in {"pack", "head", "body", "free"} => app.req \in 1 .. Len(req) /\ rw # "none"
  BY <1>2, <1>4, <1>6, <1>8
<1> QED
  BY <1>5, <1>7, <1>8, <1>9, <1>10, <1>11

\* Copying a result into a->Req and packing it: one request changes.
LEMMA Packs ==
    ASSUME SessionAssumption, Typed, PackResult
    PROVE  /\ aReq \in 1 .. Len(req) /\ Len(req') = Len(req)
           /\ req'[aReq].kind = "ret" /\ req'[aReq].ret = "live" /\ req'[aReq].arg = res.job
           /\ req'[aReq].live = req[aReq].live
           /\ \A x \in 1 .. Len(req) : x # aReq => req'[x] = req[x]
<1>1. rw = "pack" /\ req' = [req EXCEPT ![aReq] = Packed(req[aReq], res.job)]
  BY DEF PackResult
<1>2. aReq \in 1 .. Len(req) /\ req \in Seq(Requests)
  BY <1>1, OnlyRequest, Shape
<1>3. req[aReq] \in Requests /\ res.job \in Args
  <2>1. res.job \in 0 .. MaxJobs
    BY Shape DEF Responses
  <2> QED
    BY <1>2, <2>1, ElementOfSeq DEF Args
<1> DEFINE e == Packed(req[aReq], res.job)
<1>4. e \in Requests /\ e.kind = "ret" /\ e.ret = "live" /\ e.arg = res.job /\ e.live = req[aReq].live
  BY <1>3 DEF Packed, Requests, Kinds
<1> HIDE DEF e
<1>5. /\ Len(req') = Len(req)
      /\ \A x \in 1 .. Len(req) : req'[x] = IF x = aReq THEN e ELSE req[x]
  <2>1. req' = [req EXCEPT ![aReq] = e]
    BY <1>1 DEF e
  <2> QED
    BY <1>2, <1>4, <2>1, ExceptSeq
<1> QED
  BY <1>2, <1>4, <1>5

LEMMA Copies ==
    ASSUME SessionAssumption, Typed, CopyResult
    PROVE  /\ aReq \in 1 .. Len(req) /\ Len(req') = Len(req)
           /\ req'[aReq].kind = req[aReq].kind /\ req'[aReq].live = req[aReq].live
           /\ req'[aReq].ret \in {"copied", "live"}
           /\ req[aReq].ret = "live" => req'[aReq].ret = "live"
           /\ req[aReq].kind = "ret" => req'[aReq].arg = req[aReq].arg
           /\ req[aReq].kind # "ret" => req'[aReq].arg = fn[func].name
           /\ func \in 1 .. Len(fn) /\ fn[func].name \in Funcs
           /\ \A x \in 1 .. Len(req) : x # aReq => req'[x] = req[x]
<1>1. rw = "copy" /\ req' = [req EXCEPT ![aReq] = Copied(req[aReq], fn[func].name)]
  BY DEF CopyResult
<1>2. aReq \in 1 .. Len(req) /\ req \in Seq(Requests)
  BY <1>1, OnlyRequest, Shape
<1>3. req[aReq] \in Requests
  BY <1>2, ElementOfSeq
<1>4. func \in 1 .. Len(fn) /\ fn[func].name \in Funcs
  BY <1>1, Shaped DEF Typed, Ranges
<1> DEFINE n == fn[func].name
           e == Copied(req[aReq], n)
<1>5. n \in Args
  BY <1>4 DEF Args
<1> HIDE DEF n
<1>6. /\ e \in Requests /\ e.kind = req[aReq].kind /\ e.live = req[aReq].live
      /\ e.ret \in {"copied", "live"} /\ (req[aReq].ret = "live" => e.ret = "live")
      /\ e.arg = IF req[aReq].kind = "ret" THEN req[aReq].arg ELSE n
  BY <1>3, <1>5 DEF Copied, Requests
<1> HIDE DEF e
<1>7. /\ Len(req') = Len(req)
      /\ \A x \in 1 .. Len(req) : req'[x] = IF x = aReq THEN e ELSE req[x]
  <2>1. req' = [req EXCEPT ![aReq] = e]
    BY <1>1 DEF e, n
  <2> QED
    BY <1>2, <1>6, <2>1, ExceptSeq
<1> QED
  BY <1>2, <1>4, <1>6, <1>7 DEF n

\* Steps of Work and of the environment, and those that read.
LEMMA HeapRead ==
    ASSUME SessionAssumption, Typed, Table, Heap, proc = "run",
           \/ Main \/ Environment
           \/ ReadEvent \/ ReadDropped \/ ReadHeader \/ ReadBody \/ ReadClosed \/ ReadFailed
    PROVE  Heap'
<1>1. ASSUME UNCHANGED <<req, app, calls, deleted, watch, refused>>,
             proc' \in {"run", "exit", "sigpipe"},
             rw' = rw \/ rw' \in {"read", "do", "gone"}
      PROVE  Heap'
  BY <1>1 DEF Heap, Result
<1>2. CASE RegisterNext \/ Ready \/ Find \/ Announce \/ Grab \/ Join
  <2>1. UNCHANGED <<req, app, calls, deleted, watch, refused, rw>>
    BY <1>2 DEF RegisterNext, Ready, Find, Announce, Grab, Join, reader, appVars, history
  <2>2. proc' = proc \/ (Announce /\ ~Live(func) /\ proc' = "ub")
    BY <1>2 DEF RegisterNext, Ready, Find, Announce, Grab, Join
  <2>3. Announce /\ ~Live(func) => deleted
    <3>1. SUFFICES ASSUME Announce, ~deleted
                   PROVE  Live(func)
      OBVIOUS
    <3>2. main = "send"
      BY <3>1 DEF Announce
    <3> QED
      BY <3>1, <3>2 DEF Table, Filled, Live
  <2>4. CASE proc' = proc
    BY <1>1, <2>1, <2>4
  <2>5. CASE proc' = "ub" /\ deleted
    BY <2>1, <2>5 DEF Heap
  <2> QED
    BY <2>2, <2>3, <2>4, <2>5
<1>3. CASE Start
  <2>1. req' = Append(req, NewRequest) /\ rw' = "poll" /\ watch' = "READ"
        /\ UNCHANGED <<app, calls, deleted, refused, proc>> /\ main = "start"
    BY <1>3 DEF Start, appVars, history
  <2>2. Len(req) = 0 /\ req \in Seq(Requests)
    BY <2>1, Shape DEF Typed, Ranges
  <2>3. NewRequest \in Requests
    BY Shape DEF NewRequest, Requests, Kinds
  <2>4. Len(req') = 1 /\ req'[1] = NewRequest
    BY <2>1, <2>2, <2>3, AppendProperties
  <2>5. req'[1].live /\ req'[1].kind = "none"
    BY <2>4 DEF NewRequest
  <2> QED
    BY <2>1, <2>2, <2>4, <2>5 DEF Heap
<1>4. CASE Environment
  <2>1. UNCHANGED <<req, app, calls, deleted, watch, refused, rw>> /\ proc' \in {proc, "sigpipe"}
    BY <1>4 DEF Environment, ServerReceive, SendNotice, Deliver, ServerClose, BrokenPipe, SendJob,
                reader, appVars, history
  <2> QED
    BY <1>1, <2>1
<1>5. CASE ReadEvent
  <2>1. UNCHANGED <<req, app, calls, deleted, watch, refused, proc>> /\ rw' = "read"
    BY <1>5 DEF ReadEvent, appVars, history
  <2> QED
    BY <1>1, <2>1
<1>6. CASE ReadDropped \/ ReadHeader \/ ReadBody
  <2>1. UNCHANGED <<req, app, calls, deleted, watch, refused, proc>>
        /\ rw' \in {rw, "do", "gone"}
    BY <1>6 DEF ReadDropped, ReadHeader, ReadBody, Reading, appVars, history
  <2> QED
    BY <1>1, <2>1
<1>7. CASE ReadClosed \/ ReadFailed
  <2>1. UNCHANGED <<req, app, calls, deleted, watch, refused>>
        /\ rw' \in {rw, "gone"} /\ proc' \in {proc, "exit"}
    BY <1>7 DEF ReadClosed, ReadFailed, CloseAndExit, CloseAndReturn, appVars, history
  <2> QED
    BY <1>1, <2>1
<1> QED
  BY <1>2, <1>3, <1>4, <1>5, <1>6, <1>7 DEF Main

\* Steps that use a->Req.
LEMMA HeapWrite ==
    ASSUME SessionAssumption, Typed, Table, Heap, proc = "run",
           \/ BadBody \/ GetFunc \/ RefuseJob \/ CallFunction \/ CallFreed
           \/ CopyResult \/ PackResult \/ WriteEvent \/ ReplyHead \/ ReplyBody
    PROVE  Heap'
<1>0. /\ rw # "none" /\ Len(req) \in Nat /\ req \in Seq(Requests)
      /\ aReq \in 1 .. Len(req) /\ (Len(req) = 1 => aReq = 1) /\ (Len(req) = 1 \/ Len(req) > 1)
  <2>1. rw # "none"
    BY DEF BadBody, GetFunc, RefuseJob, NotFound, OtherName, CallFunction, CallFreed, CopyResult,
           PackResult, WriteEvent, ReplyHead, ReplyBody
  <2> QED
    BY <2>1, OnlyRequest, Shape
<1>1. CASE PackResult
  <2>1. /\ rw = "pack" /\ rw' = "poll" /\ watch' = "WRITE" /\ UNCHANGED <<app, calls, deleted, refused>>
        /\ proc' = IF ~req[aReq].live \/ req[aReq].ret = "freed" THEN "ub"
                   ELSE IF req[aReq].ret = "none" THEN "abort" ELSE proc
    BY <1>1 DEF PackResult, ReadDone, AfterRead, appVars
  <2>2. /\ Len(req') = Len(req) /\ req'[aReq].kind = "ret" /\ req'[aReq].ret = "live"
        /\ req'[aReq].live = req[aReq].live
    BY <1>1, Packs
  <2>3. Len(req) = 1 => aReq = 1 /\ req[1].live /\ req[1].ret \in {"copied", "live"}
    BY <1>0, <2>1 DEF Heap
  <2>4. Len(req) = 1 => proc' = proc
    BY <2>1, <2>3
  <2>5. Len(req) = 1 \/ Len(req) > 1
    BY <1>0
  <2> QED
    BY <2>1, <2>2, <2>3, <2>4, <2>5 DEF Heap, Result
<1>2. CASE RefuseJob
  <2>1. rw' = "poll" /\ UNCHANGED <<app, calls, deleted, req>> /\ refused' = TRUE /\ proc' = "run"
    BY <1>2 DEF RefuseJob, ReadDone, appVars
  <2> QED
    BY <2>1 DEF Heap
<1>6. CASE BadBody
  <2>1. /\ UNCHANGED <<app, calls, deleted, req, refused, rw, watch, res, jobs>>
        /\ proc' \in {"abort", "ub"} /\ rw = "do" /\ ~(Decodes /\ res.job # NoJob)
    BY <1>6 DEF BadBody, appVars, reader, server, history
  <2>2. rw' = "do" /\ ~(Decodes' /\ res'.job # NoJob)
    BY <2>1 DEF Decodes
  <2> QED
    BY <2>1, <2>2 DEF Heap
<1>7. CASE GetFunc \/ CallFunction
  <2>1. /\ UNCHANGED <<app, calls, deleted, req, refused, watch, proc>> /\ rw' \in {"call", "copy"}
    BY <1>7 DEF GetFunc, CallFunction, appVars, history
  <2> QED
    BY <2>1 DEF Heap
<1>8. CASE CallFreed
  <2>1. /\ UNCHANGED <<app, calls, deleted, req, refused, rw, watch, size>>
        /\ proc' = "ub" /\ rw = "call" /\ ~Live(func)
    BY <1>8 DEF CallFreed, appVars, reader, history
  <2>2. deleted \/ Grown
    <3> SUFFICES ASSUME ~deleted, ~Grown
                 PROVE  Live(func)
      BY <2>1
    <3>1. func # Null /\ func # Junk /\ func \in {Junk, Null} \cup (1 .. Len(fn))
      BY <2>1, Shaped DEF Table
    <3> QED
      BY <3>1 DEF Table, Filled, Live
  <2>3. deleted' \/ Grown'
    BY <2>1, <2>2 DEF Grown
  <2> QED
    BY <2>1, <2>3 DEF Heap
<1>9. CASE CopyResult
  <2>1. /\ UNCHANGED <<app, calls, deleted, refused, watch>> /\ rw = "copy" /\ rw' = "pack"
        /\ proc' = IF req[aReq].live THEN proc ELSE "ub"
    BY <1>9 DEF CopyResult, appVars, history
  <2>2. /\ Len(req') = Len(req) /\ req'[aReq].kind = req[aReq].kind
        /\ req'[aReq].live = req[aReq].live /\ req'[aReq].ret \in {"copied", "live"}
    BY <1>9, Copies
  <2>3. Len(req) = 1 => aReq = 1 /\ req[1].live /\ proc' = proc
    BY <1>0, <2>1 DEF Heap
  <2>4. Len(req) = 1 \/ Len(req) > 1
    BY <1>0
  <2> QED
    BY <2>1, <2>2, <2>3, <2>4 DEF Heap, Result
<1>3. CASE WriteEvent
  <2>1. /\ UNCHANGED <<app, calls, deleted, refused, req>> /\ rw = "poll" /\ watch = "WRITE"
        /\ \/ req[aReq].kind = "none" /\ rw' = "poll" /\ watch' = "READ"
           \/ req[aReq].kind # "none" /\ rw' = "head" /\ watch' = "WRITE"
        /\ proc' = IF req[aReq].live THEN proc ELSE "ub"
    BY <1>3 DEF WriteEvent, AfterWrite, appVars, history
  <2>2. Len(req) = 1 => proc' = proc /\ (rw' = "head" => req[1].kind = "ret")
    BY <1>0, <2>1 DEF Heap
  <2>3. Len(req) = 1 \/ Len(req) > 1
    BY <1>0
  <2> QED
    BY <2>1, <2>2, <2>3 DEF Heap, Result
<1>4. CASE ReplyHead
  <2>1. /\ UNCHANGED <<app, calls, deleted, refused, watch>> /\ rw = "head" /\ rw' = "body"
        /\ WriteHead(wreq)
    BY <1>4 DEF ReplyHead, appVars, history
  <2>2. req' = req /\ proc' \in {proc, "ub"} /\ wreq \in 1 .. Len(req)
        /\ (req[wreq].live => proc' = proc)
    BY <2>1, HeadWrites, OnlyRequest
  <2>3. Len(req) = 1 => wreq = 1 /\ proc' = proc
    BY <2>1, <2>2, OnlyRequest DEF Heap
  <2>4. Len(req) = 1 \/ Len(req) > 1
    BY <1>0
  <2> QED
    BY <2>1, <2>2, <2>3, <2>4 DEF Heap, Result
<1>5. CASE ReplyBody
  <2>1. /\ UNCHANGED <<app, calls, deleted, refused>> /\ rw = "body" /\ rw' = "poll"
        /\ watch' = "READ" /\ WriteBody(wreq)
    BY <1>5 DEF ReplyBody, AfterWrite, appVars, history
  <2>2. /\ Len(req') = Len(req) /\ proc' \in {proc, "ub"} /\ wreq \in 1 .. Len(req)
        /\ (req[wreq].live /\ (req[wreq].kind = "ret" => req[wreq].ret = "live") => proc' = proc)
        /\ \A x \in 1 .. Len(req) : req'[x].kind = req[x].kind /\ req'[x].live = req[x].live
    BY <2>1, BodyWrites, OnlyRequest
  <2>3. Len(req) = 1 /\ ~refused => proc' = proc
    <3>1. Len(req) = 1 => wreq = 1
      BY <2>1, OnlyRequest
    <3>2. Len(req) = 1 /\ ~refused => req[1].live /\ (req[1].kind = "ret" => req[1].ret = "live")
      BY <2>1 DEF Heap, Result
    <3> QED
      BY <2>2, <3>1, <3>2
  <2>4. Len(req) = 1 => req'[1].kind = req[1].kind /\ req'[1].live = req[1].live
    BY <2>2
  <2>5. Len(req) = 1 \/ Len(req) > 1
    BY <1>0
  <2> QED
    BY <2>1, <2>2, <2>3, <2>4, <2>5 DEF Heap
<1> QED
  BY <1>1, <1>2, <1>3, <1>4, <1>5, <1>6, <1>7, <1>8, <1>9

\* Steps of the application thread, which is beyond "check" only when there is
\* another request.
LEMMA HeapApplication ==
    ASSUME SessionAssumption, Typed, Table, Heap, proc = "run", Application
    PROVE  Heap'
<1>1. ASSUME NEW f \in Funcs, AddFunction(f) \/ DelFunction(f)
      PROVE  Heap'
  <2>1. /\ UNCHANGED <<req, watch, rw, refused>> /\ calls' = calls + 1 /\ app'.at = "check"
        /\ proc' = proc \/ deleted'
    BY <1>1 DEF AddFunction, DelFunction, Call, reader
  <2>2. calls' > 0
    <3>1. calls \in 0 .. RuntimeCalls
      BY DEF Typed, SessionShape
    <3> QED
      BY <2>1, <3>1, Shape
  <2> QED
    BY <2>1, <2>2 DEF Heap, Result
<1>2. CASE Broadcast
  <2>1. UNCHANGED <<watch, rw, proc, refused, calls, deleted>> /\ app.at = "check"
    BY <1>2 DEF Broadcast, reader, history
  <2>2. CASE rw # "none"
    <3>1. req' = Append(req, NewRequest)
      BY <1>2, <2>2 DEF Broadcast, Running
    <3>2. NewRequest \in Requests
      BY Shape DEF NewRequest, Requests, Kinds
    <3>3. Len(req') = Len(req) + 1
      BY <3>1, <3>2, Shape, AppendProperties
    <3>4. Len(req') > 1 /\ Len(req') # 1 /\ ~(Len(req') <= 1)
      <4>1. Len(req) = 1 \/ Len(req) > 1
        BY <2>2, OnlyRequest
      <4>2. Len(req) \in Nat
        BY Shape
      <4>3. \A n \in Nat : n = 1 \/ n > 1 =>
                n + 1 > 1 /\ n + 1 # 1 /\ ~(n + 1 <= 1)
        OBVIOUS
      <4> QED
        BY <3>3, <4>1, <4>2, <4>3
    <3>5. calls' > 0 /\ (rw' \in {"head", "body"} => watch' = "WRITE")
      BY <2>1 DEF Heap
    <3> QED
      BY <2>1, <3>4, <3>5 DEF Heap
  <2>3. CASE rw = "none"
    <3>1. req' = req /\ app' = [app EXCEPT !.at = "idle"]
      BY <1>2, <2>3 DEF Broadcast, Running
    <3>2. app'.at = "idle"
      BY <3>1 DEF Typed, SessionShape
    <3> QED
      BY <2>1, <3>1, <3>2 DEF Heap, Result
  <2> QED
    BY <2>2, <2>3
<1>3. ASSUME Len(req) > 1, Len(req') = Len(req), rw' = rw, watch' = watch, calls' = calls
      PROVE  Heap'
  BY <1>3 DEF Heap
<1>4. app.at \in {"pack", "head", "body", "free"} => Len(req) > 1
  <2>1. app.at \in {"pack", "head", "body", "free"} => ~(Len(req) <= 1)
    BY DEF Heap
  <2> QED
    BY <2>1, Shape
<1>5. CASE BroadcastPack
  <2>1. app.at = "pack" /\ rw' = rw /\ watch' = watch /\ calls' = calls
        /\ req' = [req EXCEPT ![aReq].kind = app.kind, ![aReq].arg = app.name]
    BY <1>5 DEF BroadcastPack, reader
  <2>2. Len(req') = Len(req)
    <3>1. Len(req') \in Nat /\ DOMAIN req' = DOMAIN req
      <4>1. req' \in Seq(Requests)
        BY <1>5, TypedApplication DEF Application, Typed, SessionShape
      <4> QED
        BY <2>1, <4>1
    <3>2. DOMAIN req = 1 .. Len(req) /\ DOMAIN req' = 1 .. Len(req')
      <4>1. req' \in Seq(Requests) /\ req \in Seq(Requests)
        BY <1>5, TypedApplication, Shape DEF Application, Typed, SessionShape
      <4> QED
        BY <4>1, LenProperties
    <3> QED
      BY <3>1, <3>2, Shape
  <2> QED
    BY <1>3, <1>4, <2>1, <2>2
<1>6. CASE BroadcastHead
  <2>1. app.at = "head" /\ rw' = rw /\ watch' = watch /\ calls' = calls /\ req' = req
    BY <1>6 DEF BroadcastHead, WriteHead, reader
  <2> QED
    BY <1>3, <1>4, <2>1
<1>7. CASE BroadcastBody
  <2>1. app.at = "body" /\ rw' = rw /\ watch' = watch /\ calls' = calls /\ WriteBody(app.req)
    BY <1>7 DEF BroadcastBody, reader
  <2>2. Len(req') = Len(req)
    BY <2>1, OnlyRequest, BodyWrites
  <2> QED
    BY <1>3, <1>4, <2>1, <2>2
<1>8. CASE BroadcastFree
  <2>1. app.at = "free" /\ rw' = rw /\ watch' = watch /\ calls' = calls
        /\ req' = [req EXCEPT ![app.req].live = FALSE]
    BY <1>8 DEF BroadcastFree, reader
  <2>2. req' = [req EXCEPT ![app.req] = [req[app.req] EXCEPT !.live = FALSE]]
    BY <2>1
  <2>3. app.req \in 1 .. Len(req) /\ [req[app.req] EXCEPT !.live = FALSE] \in Requests
    <3>1. app.req \in 1 .. Len(req)
      BY <2>1, OnlyRequest
    <3>2. req[app.req] \in Requests
      BY <3>1, Shape, ElementOfSeq
    <3> QED
      BY <3>1, <3>2 DEF Requests
  <2>4. Len(req') = Len(req)
    BY <2>2, <2>3, Shape, ExceptSeq
  <2> QED
    BY <1>3, <1>4, <2>1, <2>4
<1> QED
  BY <1>1, <1>2, <1>5, <1>6, <1>7, <1>8 DEF Application

\* Every step of the two threads, the server and the network keeps Heap.
LEMMA HeapNext == SessionAssumption /\ Typed /\ Table /\ Heap /\ [Next]_vars => Heap'
<1> SUFFICES ASSUME SessionAssumption, Typed, Table, Heap, [Next]_vars
             PROVE  Heap'
  OBVIOUS
<1>1. CASE UNCHANGED vars
  BY <1>1 DEF Heap, Result, Grown, Decodes, vars
<1>2. CASE Next
  BY <1>2, HeapRead, HeapWrite, HeapApplication DEF Next, ReadWrite
<1> QED
  BY <1>1, <1>2

-----------------------------------------------------------------------------
(* The parts on the stream to the server, and the names on it.             *)

\* Every part was there before the write or is the one it wrote.
LEMMA WrittenParts ==
    ASSUME NEW w \in Seq(Parts), NEW p \in Parts, NEW o \in Results,
           NEW v, v = Write(w, p, o)
    PROVE  \A i \in 1 .. Len(v) :
               \/ i \in 1 .. Len(w) /\ v[i] = w[i]
               \/ /\ i = Len(w) + 1 /\ i = Len(v) /\ o # "none"
                  /\ v[i].part = p.part /\ v[i].kind = p.kind /\ v[i].arg = p.arg
                  /\ (v[i].whole => o = "full") /\ (o = "full" => v[i] = p)
<1>0. /\ \A k \in 1 .. Len(w) : Write(w, p, o)[k] = w[k]
      /\ IF o = "none" THEN Write(w, p, o) = w
                       ELSE /\ Len(Write(w, p, o)) = Len(w) + 1
                            /\ Write(w, p, o)[Len(w) + 1] = Cut(p, o)
  BY Written
<1>1. /\ \A k \in 1 .. Len(w) : v[k] = w[k]
      /\ o = "none" => v = w
      /\ o # "none" => Len(v) = Len(w) + 1 /\ v[Len(w) + 1] = Cut(p, o)
  BY <1>0
<1>2. Len(w) \in Nat
  OBVIOUS
<1>3. /\ Cut(p, o).part = p.part /\ Cut(p, o).kind = p.kind /\ Cut(p, o).arg = p.arg
      /\ Cut(p, o).whole = (o = "full" /\ p.whole)
  BY DEF Parts, Cut
<1>4. Cut(p, o).whole => o = "full"
  BY <1>3
<1>5. o = "full" => Cut(p, o) = p
  BY DEF Parts, Cut
<1>6. SUFFICES ASSUME NEW i \in 1 .. Len(v)
               PROVE  \/ i \in 1 .. Len(w) /\ v[i] = w[i]
                      \/ /\ i = Len(w) + 1 /\ i = Len(v) /\ o # "none"
                         /\ v[i].part = p.part /\ v[i].kind = p.kind /\ v[i].arg = p.arg
                         /\ (v[i].whole => o = "full") /\ (o = "full" => v[i] = p)
  OBVIOUS
<1>7. CASE i \in 1 .. Len(w)
  BY <1>1, <1>7
<1>8. CASE i \notin 1 .. Len(w)
  <2>1. o # "none"
    BY <1>1, <1>8
  <2>2. i = Len(w) + 1 /\ i = Len(v)
    <3>1. Len(v) = Len(w) + 1
      BY <1>1, <2>1
    <3> QED
      BY <1>2, <1>8, <3>1
  <2>3. v[i] = Cut(p, o)
    BY <1>1, <2>1, <2>2
  <2> QED
    BY <1>3, <1>4, <1>5, <2>1, <2>2, <2>3
<1> QED
  BY <1>7, <1>8

\* Every part was there before or belongs to the request that was written.
LEMMA FrameParts ==
    ASSUME SessionAssumption, wire \in Seq(Parts), NEW k \in Kinds, NEW x \in Args,
           NEW w \in FrameWritten(k, x)
    PROVE  \A i \in 1 .. Len(w) :
               \/ i \in 1 .. Len(wire) /\ w[i] = wire[i]
               \/ w[i].part = "head" /\ w[i].kind = k
               \/ w[i].part = "body" /\ w[i].kind = k /\ w[i].arg = x
<1>1. PICK o1 \in WriteOutcomes, o2 \in WriteOutcomes :
          /\ w = Write(Write(wire, Part("head", k, 0), o1), Part("body", k, x), o2)
          /\ o1 \in Results /\ o2 \in Results
          /\ Part("head", k, 0) \in Parts /\ Part("body", k, x) \in Parts
          /\ Write(wire, Part("head", k, 0), o1) \in Seq(Parts)
  BY FrameWrites
<1> DEFINE h == Part("head", k, 0)
           b == Part("body", k, x)
           v == Write(wire, h, o1)
<1>2. h.part = "head" /\ h.kind = k /\ b.part = "body" /\ b.kind = k /\ b.arg = x
  BY DEF Part
<1>3. /\ h \in Parts /\ b \in Parts /\ v \in Seq(Parts) /\ v = Write(wire, h, o1)
      /\ w = Write(v, b, o2)
  BY <1>1
<1>a. o1 \in Results /\ o2 \in Results
  BY <1>1
<1> HIDE DEF h, b, v
<1>b. \A i \in 1 .. Len(v) :
          \/ i \in 1 .. Len(wire) /\ v[i] = wire[i]
          \/ /\ i = Len(wire) + 1 /\ i = Len(v) /\ o1 # "none"
             /\ v[i].part = h.part /\ v[i].kind = h.kind /\ v[i].arg = h.arg
             /\ (v[i].whole => o1 = "full") /\ (o1 = "full" => v[i] = h)
  BY <1>3, <1>a, WrittenParts
<1>c. \A i \in 1 .. Len(w) :
          \/ i \in 1 .. Len(v) /\ w[i] = v[i]
          \/ /\ i = Len(v) + 1 /\ i = Len(w) /\ o2 # "none"
             /\ w[i].part = b.part /\ w[i].kind = b.kind /\ w[i].arg = b.arg
             /\ (w[i].whole => o2 = "full") /\ (o2 = "full" => w[i] = b)
  <2>1. v \in Seq(Parts) /\ b \in Parts /\ w = Write(v, b, o2)
    BY <1>3
  <2> QED
    BY <1>a, <2>1, WrittenParts
<1>4. \A m \in 1 .. Len(v) : \/ m \in 1 .. Len(wire) /\ v[m] = wire[m]
                             \/ v[m].part = h.part /\ v[m].kind = h.kind
  BY <1>b
<1>5. \A i \in 1 .. Len(w) : \/ i \in 1 .. Len(v) /\ w[i] = v[i]
                             \/ w[i].part = b.part /\ w[i].kind = b.kind /\ w[i].arg = b.arg
  BY <1>c
<1> QED
  BY <1>2, <1>4, <1>5

\* MsgPack for a registration turns the request a->Req into it, and no other.
LEMMA Registers ==
    ASSUME SessionAssumption, Typed, BroadcastPack
    PROVE  /\ aReq \in 1 .. Len(req) /\ Len(req') = Len(req)
           /\ req'[aReq].kind = app.kind /\ req'[aReq].arg = app.name
           /\ \A x \in 1 .. Len(req) : x # aReq => req'[x] = req[x]
           /\ app'.kind = app.kind /\ app'.name = app.name
<1>1. /\ app.at = "pack" /\ app' = [app EXCEPT !.at = "head"]
      /\ req' = [req EXCEPT ![aReq].kind = app.kind, ![aReq].arg = app.name]
  BY DEF BroadcastPack
<1>2. aReq \in 1 .. Len(req) /\ req \in Seq(Requests)
  BY <1>1, OnlyRequest, Shape
<1>3. app \in [at : {"idle", "check", "pack", "head", "body", "free"}, kind : Kinds,
               name : Args, req : 0 .. Len(req)]
  BY DEF Typed, SessionShape
<1>4. req[aReq] \in Requests
  BY <1>2, ElementOfSeq
<1> DEFINE e == [req[aReq] EXCEPT !.kind = app.kind, !.arg = app.name]
<1>5. e \in Requests /\ e.kind = app.kind /\ e.arg = app.name
  BY <1>3, <1>4 DEF Requests
<1>6. req' = [req EXCEPT ![aReq] = e]
  BY <1>1, <1>2
<1> HIDE DEF e
<1>7. /\ Len(req') = Len(req)
      /\ \A x \in 1 .. Len(req) : req'[x] = IF x = aReq THEN e ELSE req[x]
  BY <1>2, <1>5, <1>6, ExceptSeq
<1>8. app'.kind = app.kind /\ app'.name = app.name
  BY <1>1, <1>3
<1> QED
  BY <1>2, <1>5, <1>7, <1>8

\* Freeing a request changes nothing of what any request holds.
LEMMA Frees ==
    ASSUME SessionAssumption, Typed, BroadcastFree
    PROVE  /\ Len(req') = Len(req)
           /\ \A x \in 1 .. Len(req) : req'[x].kind = req[x].kind /\ req'[x].arg = req[x].arg
<1>1. app.at = "free" /\ req' = [req EXCEPT ![app.req].live = FALSE]
  BY DEF BroadcastFree
<1>2. app.req \in 1 .. Len(req) /\ req \in Seq(Requests)
  BY <1>1, OnlyRequest, Shape
<1>3. req[app.req] \in Requests
  BY <1>2, ElementOfSeq
<1> DEFINE e == [req[app.req] EXCEPT !.live = FALSE]
<1>4. e \in Requests /\ e.kind = req[app.req].kind /\ e.arg = req[app.req].arg
  BY <1>3 DEF Requests
<1>5. req' = [req EXCEPT ![app.req] = e]
  BY <1>1, <1>2
<1> HIDE DEF e
<1>6. /\ Len(req') = Len(req)
      /\ \A x \in 1 .. Len(req) : req'[x] = IF x = app.req THEN e ELSE req[x]
  BY <1>2, <1>4, <1>5, ExceptSeq
<1> QED
  BY <1>4, <1>6

\* Until DelFunction is called, growth, or a registration that takes a slot in
\* use, what is found by its name stays found by it.
LEMMA Undisturbed ==
    ASSUME SessionAssumption, Typed, Table, [Next]_vars, main # "register", ~Disturbed'
    PROVE  /\ ~Disturbed /\ Len(fn) \in Nat /\ Len(fn') \in Nat /\ Len(fn) <= Len(fn')
           /\ \A i \in 1 .. Len(fn) : i \in 1 .. Len(fn') /\ fn'[i] = fn[i]
           /\ \A x : Callable(x) => Callable(x)'
<1>0. Len(fn) \in Nat /\ Len(Initial) \in Nat /\ Len(Initial) <= Len(fn)
  BY Shaped DEF SessionAssumption, Table
<1>1. CASE UNCHANGED <<size, slots, keys, fn, deleted>>
  <2>1. Disturbed' = Disturbed
    BY <1>1 DEF Disturbed, Grown, Overwritten
  <2>2. \A x : Callable(x)' = Callable(x)
    BY <1>1 DEF Callable, Slot
  <2> QED
    BY <1>0, <1>1, <2>1, <2>2
<1>2. ASSUME NEW f \in Funcs, AddFunction(f)
      PROVE  /\ ~Disturbed /\ Len(fn') \in Nat /\ Len(fn) <= Len(fn')
             /\ \A i \in 1 .. Len(fn) : i \in 1 .. Len(fn') /\ fn'[i] = fn[i]
             /\ \A x : Callable(x) => Callable(x)'
  <2> DEFINE n == Len(fn)
             k == Slot(f)'
  <2>1. Register(f) /\ deleted' = deleted
    BY <1>2 DEF AddFunction
  <2>2. /\ Len(fn') = n + 1 /\ fn'[n + 1] = [name |-> f, key |-> k, live |-> TRUE]
        /\ \A i \in 1 .. n : fn'[i] = fn[i]
        /\ \A i \in 0 .. size - 1 : i # k => slots'[i] = slots[i]
    BY <2>1, Registering
  <2>3. \A i \in 1 .. n : i \in 1 .. Len(fn') /\ fn'[i] = fn[i]
    BY <1>0, <2>2
  <2>4. ~deleted /\ ~Grown /\ size' = size /\ Filled
    <3>1. ~deleted /\ ~Grown'
      BY <2>1 DEF Disturbed
    <3> QED
      BY <2>1, <3>1, FilledAfter DEF Table
  <2> HIDE DEF k, n
  <2>5. n \in Nat /\ Len(Initial) <= n
    BY <1>0 DEF n
  <2>6. ASSUME Overwritten
        PROVE  Overwritten'
    <3>1. PICK i \in Len(Initial) + 1 .. n : \E m \in 1 .. n : m < i /\ fn[m].key = fn[i].key
      BY <2>6 DEF Overwritten, n
    <3>2. PICK m \in 1 .. n : m < i /\ fn[m].key = fn[i].key
      BY <3>1
    <3>3. i \in 1 .. n /\ i \in Len(Initial) + 1 .. Len(fn') /\ m \in 1 .. Len(fn')
      BY <1>0, <2>2, <2>5
    <3>4. fn'[m].key = fn'[i].key
      BY <2>2, <3>2, <3>3
    <3> QED
      BY <3>2, <3>3, <3>4 DEF Overwritten
  <2>7. ~Disturbed
    BY <2>4, <2>6 DEF Disturbed
  <2>8. ASSUME NEW x, Callable(x)
        PROVE  Callable(x)'
    <3> DEFINE q == Slot(x)
    <3>1. x \in Funcs /\ slots[q] \in 1 .. n /\ fn[slots[q]].name = x /\ q \in 0 .. size - 1
      BY <2>8, SlotRange DEF Callable, n
    <3>2. fn[slots[q]].key = q
      BY <2>4, <3>1 DEF Filled, n
    <3>3. Slot(x)' = q
      BY <2>4 DEF Slot
    <3> HIDE DEF q
    <3>4. q # k
      <4> SUFFICES ASSUME q = k
                   PROVE  Overwritten'
        BY DEF Disturbed
      <4>1. PICK m \in 1 .. n : m = slots[q]
        BY <3>1
      <4>2. fn'[m].key = q /\ fn'[n + 1].key = q
        BY <2>2, <3>2, <4>1
      <4>3. n + 1 \in Len(Initial) + 1 .. Len(fn') /\ m \in 1 .. Len(fn') /\ m < n + 1
        BY <1>0, <2>2, <2>5
      <4> QED
        BY <4>2, <4>3 DEF Overwritten
    <3>5. slots'[q] = slots[q] /\ slots[q] \in 1 .. Len(fn') /\ fn'[slots[q]].name = x
      BY <2>2, <2>3, <3>1, <3>4
    <3> QED
      BY <3>1, <3>3, <3>5 DEF Callable
  <2> QED
    BY <2>2, <2>3, <2>5, <2>7, <2>8 DEF n
<1>3. ASSUME NEW f \in Funcs, DelFunction(f)
      PROVE  FALSE
  BY <1>3 DEF DelFunction, Disturbed
<1>4. CASE UNCHANGED vars
  BY <1>1, <1>4 DEF vars
<1>5. CASE \/ Ready \/ Find \/ Announce \/ Grab \/ Start \/ Join
           \/ Broadcast \/ BroadcastPack \/ BroadcastHead \/ BroadcastBody \/ BroadcastFree
           \/ Environment
  <2>1. UNCHANGED <<size, slots, keys, fn, deleted>>
    BY <1>5 DEF Ready, Find, Announce, Grab, Start, Join, Broadcast, BroadcastPack, BroadcastHead,
                BroadcastBody, BroadcastFree, Environment, ServerReceive, SendNotice, Deliver,
                ServerClose, BrokenPipe, SendJob, appVars, history
  <2> QED
    BY <1>1, <2>1
<1>6. CASE ReadWrite
  <2>1. UNCHANGED <<size, slots, keys, fn, deleted>>
    BY <1>6 DEF ReadWrite, ReadEvent, ReadDropped, ReadHeader, ReadBody, Reading, ReadClosed,
                ReadFailed, CloseAndExit, CloseAndReturn, BadBody, GetFunc, RefuseJob, CallFunction,
                CallFreed, CopyResult, PackResult, ReadDone, WriteEvent, ReplyHead, ReplyBody,
                appVars, history
  <2> QED
    BY <1>1, <2>1
<1>7. ~RegisterNext
  BY DEF RegisterNext
<1> QED
  BY <1>0, <1>2, <1>3, <1>4, <1>5, <1>6, <1>7 DEF Next, Main, Application

\* What a slot holds is then found by its own name.
LEMMA SlotCallable ==
    ASSUME SessionAssumption, Typed, Table, ~Disturbed,
           NEW k \in 0 .. size - 1, slots[k] \in 1 .. Len(fn)
    PROVE  Callable(fn[slots[k]].name)
<1>1. Filled /\ ~Grown
  BY DEF Table, Disturbed
<1>2. PICK p \in 1 .. Len(fn) : p = slots[k]
  OBVIOUS
<1>3. fn[p].key = k /\ fn[p].key = Slot(fn[p].name) /\ fn[p].name \in Funcs
  BY <1>1, <1>2, Shaped DEF Filled
<1> QED
  BY <1>2, <1>3 DEF Callable

\* Nothing is told or asked before the functions are registered.
LEMMA UntoldNext ==
    ASSUME SessionAssumption, Typed, Table, Names, [Next]_vars, main = "register"
    PROVE  Names'
<1>1. wire = <<>> /\ jobs = <<>> /\ req = <<>> /\ app.kind = "none" /\ rw = "none" /\ seen = 0
  <2>1. wire = <<>> /\ seen \in 0 .. Len(wire)
    BY Shape DEF Names
  <2> QED
    BY <2>1 DEF Names, Typed, Ranges
<1>2. app \in [at : {"idle", "check", "pack", "head", "body", "free"}, kind : Kinds,
               name : Args, req : 0 .. Len(req)]
  BY DEF Typed, SessionShape
<1>3. UNCHANGED <<wire, jobs, req, rw>> /\ app'.kind = app.kind /\ main' \in {"register", "announce"}
  <2>1. CASE UNCHANGED vars
    BY <2>1 DEF vars
  <2>2. CASE RegisterNext \/ Ready
    BY <2>2 DEF RegisterNext, Ready, reader, appVars, server
  <2>3. CASE ServerReceive \/ SendNotice \/ Deliver \/ ServerClose \/ BrokenPipe
    BY <2>3 DEF ServerReceive, SendNotice, Deliver, ServerClose, BrokenPipe, reader, appVars, server
  <2>4. CASE Broadcast
    <3>1. ~Running
      BY <1>1 DEF Running
    <3> QED
      BY <1>2, <2>4, <3>1 DEF Broadcast, reader, server
  <2>5. app.at \notin {"pack", "head", "body", "free"}
    BY <1>1 DEF Typed, Ranges
  <2>6. ~Granted
    BY <1>1 DEF Granted
  <2>7. ~ReadWrite /\ ~(Find \/ Announce \/ Grab \/ Start \/ Join)
    <3>1. ~ReadWrite
      BY <1>1 DEF ReadWrite, ReadEvent, ReadDropped, ReadHeader, ReadBody, Reading, ReadClosed,
                  ReadFailed, BadBody, GetFunc, RefuseJob, NotFound, OtherName, CallFunction,
                  CallFreed, CopyResult, PackResult, WriteEvent, ReplyHead, ReplyBody
    <3> QED
      BY <3>1 DEF Find, Announce, Grab, Start, Join
  <2>8. \A f \in Funcs : ~(AddFunction(f) \/ DelFunction(f))
    BY DEF AddFunction, DelFunction, Call
  <2>9. \A f \in Funcs, n \in BodySizes, d \in Decodable : ~SendJob(f, n, d)
    BY <2>6 DEF SendJob
  <2> QED
    BY <2>1, <2>2, <2>3, <2>4, <2>5, <2>7, <2>8, <2>9
       DEF Next, Main, Application, Environment, BroadcastPack, BroadcastHead, BroadcastBody,
           BroadcastFree
<1>4. Found'
  BY <1>1, <1>3 DEF Found
<1> QED
  BY <1>1, <1>3, <1>4 DEF Names

\* No name the server is told of, or asks for, is unknown to the registry until
\* that has lost a function, and what is found for a job has its name.
LEMMA FoundNext ==
    ASSUME SessionAssumption, Typed, Table, Names, [Next]_vars, main # "register", ~Disturbed'
    PROVE  Found'
<1>0. wire \in Seq(Parts)
  BY Shape
<1> DEFINE K(x) == /\ x \in Funcs /\ slots'[Hash[x] % size'] \in 1 .. Len(fn')
                   /\ fn'[slots'[Hash[x] % size']].name = x
<1>1. /\ \A x : Callable(x) => K(x)
      /\ \A i \in 1 .. Len(fn) : i \in 1 .. Len(fn') /\ fn'[i] = fn[i]
      /\ ~Disturbed
  <2>1. \A x : Callable(x)' => K(x)
    BY DEF Callable, Slot
  <2>2. \A x : Callable(x) => Callable(x)'
    BY Undisturbed
  <2> HIDE DEF K
  <2> QED
    BY <2>1, <2>2, Undisturbed
<1>2. Found
  BY <1>1 DEF Names
<1>3. ASSUME \A j \in 1 .. Len(jobs') : K(jobs'[j].func),
             \A i \in 1 .. Len(wire') :
                 wire'[i].part = "body" /\ wire'[i].kind = "add" => K(wire'[i].arg),
             \A r \in 1 .. Len(req') : req'[r].kind = "add" => K(req'[r].arg),
             app'.kind = "add" => K(app'.name),
             main' = "send" => func' \in 1 .. Len(fn') /\ K(fn'[func'].name),
             rw' \in {"call", "copy"} =>
                 /\ func' \in 1 .. Len(fn') /\ K(fn'[func'].name)
                 /\ res'.job # NoJob => fn'[func'].name = jobs'[res'.job].func
      PROVE  Found'
  BY <1>3 DEF Found, Callable, Slot
<1> HIDE DEF K
\* The thread of Work and the read/write thread keep the function they have.
<1>f. ASSUME UNCHANGED jobs, main' = "send" => main = "send" /\ func' = func,
             rw' \in {"call", "copy"} =>
                 rw \in {"call", "copy"} /\ func' = func /\ res'.job = res.job
      PROVE  /\ main' = "send" => func' \in 1 .. Len(fn') /\ K(fn'[func'].name)
             /\ rw' \in {"call", "copy"} =>
                 /\ func' \in 1 .. Len(fn') /\ K(fn'[func'].name)
                 /\ res'.job # NoJob => fn'[func'].name = jobs'[res'.job].func
  BY <1>1, <1>2, <1>f DEF Found
\* Nothing else that is told or asked is new.
<1>g. ASSUME UNCHANGED jobs, app'.kind = app.kind, app'.name = app.name,
             \A r \in 1 .. Len(req') : req'[r].kind = "add" =>
                 \/ r \in 1 .. Len(req) /\ req[r].kind = "add" /\ req'[r].arg = req[r].arg
                 \/ Callable(req'[r].arg),
             \A i \in 1 .. Len(wire') : wire'[i].part = "body" /\ wire'[i].kind = "add" =>
                 \/ i \in 1 .. Len(wire) /\ wire'[i] = wire[i]
                 \/ Callable(wire'[i].arg)
      PROVE  /\ \A j \in 1 .. Len(jobs') : K(jobs'[j].func)
             /\ \A i \in 1 .. Len(wire') :
                    wire'[i].part = "body" /\ wire'[i].kind = "add" => K(wire'[i].arg)
             /\ \A r \in 1 .. Len(req') : req'[r].kind = "add" => K(req'[r].arg)
             /\ app'.kind = "add" => K(app'.name)
  BY <1>1, <1>2, <1>g DEF Found
<1>6. CASE UNCHANGED vars
  <2>1. UNCHANGED <<jobs, app, req, wire, main, func, rw, res>>
    BY <1>6 DEF vars
  <2> QED
    BY <1>3, <1>f, <1>g, <2>1
<1>4. rw = "none" <=> main \in {"register", "announce", "send", "start"}
  BY DEF Typed, Ranges
<1>7. CASE Join \/ ReadEvent \/ ReadDropped \/ ReadHeader \/ ReadBody \/ ReadClosed \/ ReadFailed
           \/ RefuseJob \/ BadBody \/ CallFunction \/ CallFreed \/ WriteEvent
           \/ ServerReceive \/ SendNotice \/ Deliver \/ ServerClose \/ BrokenPipe
  <2>1. UNCHANGED <<jobs, app, req, wire>>
    BY <1>7 DEF Join, ReadEvent, ReadDropped, ReadHeader, ReadBody, Reading, ReadClosed, ReadFailed,
                RefuseJob, BadBody, CallFunction, CallFreed, ReadDone, WriteEvent, ServerReceive,
                SendNotice, Deliver, ServerClose, BrokenPipe, appVars, server, history
  <2>2. \/ rw' \notin {"call", "copy"}
        \/ rw = rw' /\ func' = func /\ res' = res
        \/ rw = "call" /\ func' = func /\ res' = res
    BY <1>7 DEF Join, ReadEvent, ReadDropped, ReadHeader, ReadBody, Reading, ReadClosed, ReadFailed,
                CloseAndExit, CloseAndReturn, RefuseJob, BadBody, CallFunction, CallFreed, ReadDone,
                WriteEvent, ServerReceive, SendNotice, Deliver, ServerClose, BrokenPipe, reader
  <2>3. main' = "send" => main = "send" /\ (func' = func \/ rw # "none")
    BY <1>7 DEF Join, ReadEvent, ReadDropped, ReadHeader, ReadBody, Reading, ReadClosed, ReadFailed,
                RefuseJob, NotFound, OtherName, BadBody, CallFunction, CallFreed, ReadDone,
                WriteEvent, ServerReceive, SendNotice, Deliver, ServerClose, BrokenPipe
  <2> QED
    BY <1>3, <1>4, <1>f, <1>g, <2>1, <2>2, <2>3
<1>8. CASE Announce
  <2>1. /\ main = "send" /\ main' = "announce" /\ UNCHANGED <<jobs, app, req, rw>>
        /\ wire' = wire \/ wire' \in FrameWritten("add", fn[func].name)
    BY <1>8 DEF Announce, reader, appVars, server
  <2>2. Callable(fn[func].name) /\ rw = "none"
    BY <1>2, <1>4, <2>1 DEF Found
  <2>3. PICK x \in Args : x = fn[func].name /\ "add" \in Kinds
    BY <2>2 DEF Callable, Args, Kinds
  <2>4. \A i \in 1 .. Len(wire') : wire'[i].part = "body" /\ wire'[i].kind = "add" =>
            (i \in 1 .. Len(wire) /\ wire'[i] = wire[i]) \/ Callable(wire'[i].arg)
    <3>1. CASE wire' \in FrameWritten("add", x)
      <4>1. \A i \in 1 .. Len(wire') :
                \/ i \in 1 .. Len(wire) /\ wire'[i] = wire[i]
                \/ wire'[i].part = "head" /\ wire'[i].kind = "add"
                \/ wire'[i].part = "body" /\ wire'[i].kind = "add" /\ wire'[i].arg = x
        BY <1>0, <2>3, <3>1, FrameParts
      <4> QED
        BY <2>2, <2>3, <4>1
    <3> QED
      BY <2>1, <2>3, <3>1
  <2> QED
    BY <1>3, <1>f, <1>g, <2>1, <2>2, <2>4
<1>9. CASE Grab
  <2>1. wire' \in FrameWritten("grab", NoJob) /\ main' = "start" /\ UNCHANGED <<jobs, app, req, reader, func>>
    BY <1>9 DEF Grab, appVars, server
  <2>2. NoJob \in Args /\ "grab" \in Kinds
    BY Shape DEF Kinds, NoJob
  <2>3. \A i \in 1 .. Len(wire') :
            \/ i \in 1 .. Len(wire) /\ wire'[i] = wire[i]
            \/ wire'[i].kind = "grab"
    BY <1>0, <2>1, <2>2, FrameParts
  <2> QED
    BY <1>3, <1>f, <1>g, <2>1, <2>3 DEF reader
<1>10. CASE Start
  <2>1. /\ req' = Append(req, NewRequest) /\ main' = "join" /\ rw' = "poll"
        /\ UNCHANGED <<jobs, app, wire>>
    BY <1>10 DEF Start, appVars, server
  <2>2. NewRequest \in Requests /\ NewRequest.kind = "none"
    BY Shape DEF NewRequest, Requests, Kinds
  <2>3. /\ Len(req') = Len(req) + 1 /\ req'[Len(req) + 1] = NewRequest
        /\ \A r \in 1 .. Len(req) : req'[r] = req[r]
    BY <2>1, <2>2, Shape, AppendProperties
  <2>4. \A r \in 1 .. Len(req') : r \in 1 .. Len(req) \/ r = Len(req) + 1
    BY <2>3, Shape
  <2> QED
    BY <1>3, <1>f, <1>g, <2>1, <2>2, <2>3, <2>4
<1>p. CASE Find
  <2>1. /\ main = "announce" /\ func' = slots[keys[next]] /\ ~AllAnnounced
        /\ UNCHANGED <<jobs, app, req, wire, registry, rw>>
        /\ main' = "send" => func' # Null
    BY <1>p DEF Find, reader, appVars, server
  <2>2. Filled /\ ~Grown
    BY <1>1 DEF Disturbed, Table
  <2>3. next \in 1 .. Len(keys)
    BY <2>1, Shaped DEF AllAnnounced, Typed, Ranges, SessionShape
  <2>4. PICK k \in 0 .. size - 1 : k = keys[next]
    <3>1. keys \in Seq(0 .. size - 1)
      BY Shaped DEF RegistryShape
    <3> QED
      BY <2>3, <3>1, ElementOfSeq
  <2>5. main' = "send" => func' \in 1 .. Len(fn) /\ Callable(fn[func'].name)
    <3> SUFFICES ASSUME main' = "send"
                 PROVE  func' \in 1 .. Len(fn) /\ Callable(fn[func'].name)
      OBVIOUS
    <3>1. slots[k] \in 1 .. Len(fn)
      <4>1. slots[k] # Null /\ slots[k] # Junk
        BY <2>1, <2>2, <2>4 DEF Table
      <4> QED
        BY <2>4, <4>1, Shaped DEF RegistryShape
    <3>2. Callable(fn[slots[k]].name)
      BY <1>1, <3>1, SlotCallable
    <3> QED
      BY <2>1, <2>4, <3>1, <3>2
  <2>6. rw = "none"
    BY <1>4, <2>1
  <2> QED
    BY <1>1, <1>3, <1>g, <2>1, <2>5, <2>6
<1>q. CASE GetFunc
  <2>1. PICK f \in Handles : slots[Slot(f)] # Null /\ func' = slots[Slot(f)]
    BY <1>q DEF GetFunc
  <2>2. /\ UNCHANGED <<jobs, app, req, wire, registry, main, res>> /\ rw = "do" /\ Decodes
    BY <1>q DEF GetFunc, appVars, server
  <2>3. f \in Funcs
    BY <2>1, <2>2, HandleFunc
  <2>4. PICK k \in 0 .. size - 1 : k = Slot(f)
    BY <2>3, SlotRange
  <2>5. slots[k] \in 1 .. Len(fn)
    <3>1. ~Grown
      BY <1>1 DEF Disturbed
    <3>2. slots[k] # Null /\ slots[k] # Junk
      BY <2>1, <2>4, <3>1 DEF Table
    <3> QED
      BY <2>4, <3>2, Shaped DEF RegistryShape
  <2>6. Callable(fn[slots[k]].name)
    BY <1>1, <2>5, SlotCallable
  <2>7. res.job # NoJob => fn[slots[k]].name = jobs[res.job].func
    <3> SUFFICES ASSUME res.job # NoJob
                 PROVE  fn[slots[k]].name = jobs[res.job].func
      OBVIOUS
    <3>1. f = jobs[res.job].func
      BY <2>1 DEF Handles
    <3>2. res.job \in 1 .. Len(jobs)
      BY Shape DEF NoJob
    <3>3. Callable(f)
      BY <1>2, <3>1, <3>2 DEF Found
    <3> QED
      BY <2>4, <3>1, <3>3 DEF Callable
  <2>8. main # "send"
    BY <1>4, <2>2
  <2> QED
    BY <1>1, <1>3, <1>g, <2>1, <2>2, <2>4, <2>5, <2>6, <2>7, <2>8
<1>11. CASE PackResult
  <2>1. UNCHANGED <<jobs, app, wire, main>> /\ rw' = "poll" /\ rw = "pack"
    BY <1>11 DEF PackResult, ReadDone, appVars, server
  <2>2. \A r \in 1 .. Len(req') : req'[r].kind = "add" => r \in 1 .. Len(req) /\ req'[r] = req[r]
    BY <1>11, Packs
  <2> QED
    BY <1>3, <1>4, <1>f, <1>g, <2>1, <2>2
<1>s. CASE CopyResult
  <2>1. UNCHANGED <<jobs, app, wire, main>> /\ rw' = "pack" /\ rw = "copy"
    BY <1>s DEF CopyResult, appVars, server
  <2>2. Callable(fn[func].name)
    BY <1>2, <2>1 DEF Found
  <2>3. \A r \in 1 .. Len(req') : req'[r].kind = "add" =>
            \/ r \in 1 .. Len(req) /\ req[r].kind = "add" /\ req'[r].arg = req[r].arg
            \/ Callable(req'[r].arg)
    <3>1. /\ aReq \in 1 .. Len(req) /\ Len(req') = Len(req)
          /\ req'[aReq].kind = req[aReq].kind
          /\ req[aReq].kind # "ret" => req'[aReq].arg = fn[func].name
          /\ \A x \in 1 .. Len(req) : x # aReq => req'[x] = req[x]
      BY <1>s, Copies
    <3> QED
      BY <2>2, <3>1
  <2> QED
    BY <1>3, <1>4, <1>f, <1>g, <2>1, <2>3
<1>12. ASSUME NEW r \in 1 .. Len(req), WriteHead(r)
       PROVE  /\ req' = req
              /\ \A i \in 1 .. Len(wire') :
                     (i \in 1 .. Len(wire) /\ wire'[i] = wire[i]) \/ wire'[i].part = "head"
  <2>1. req' = req
    BY <1>12 DEF WriteHead
  <2>2. PICK o \in Outcomes : /\ o \in Results /\ Part("head", req[r].kind, 0) \in Parts
                              /\ wire' = Write(wire, Part("head", req[r].kind, 0), o)
    BY <1>12, HeadWrites
  <2>3. Part("head", req[r].kind, 0).part = "head"
    BY DEF Part
  <2>4. \A i \in 1 .. Len(wire') : (i \in 1 .. Len(wire) /\ wire'[i] = wire[i]) \/ wire'[i].part = "head"
    BY <1>0, <2>2, <2>3, WrittenParts
  <2> QED
    BY <2>1, <2>4
<1>13. ASSUME NEW r \in 1 .. Len(req), WriteBody(r)
       PROVE  /\ \A x \in 1 .. Len(req') : req'[x].kind = "add" =>
                     x \in 1 .. Len(req) /\ req[x].kind = "add" /\ req'[x].arg = req[x].arg
              /\ \A i \in 1 .. Len(wire') : wire'[i].part = "body" /\ wire'[i].kind = "add" =>
                     (i \in 1 .. Len(wire) /\ wire'[i] = wire[i]) \/ Callable(wire'[i].arg)
  <2>1. /\ Len(req') = Len(req)
        /\ \A x \in 1 .. Len(req) : req'[x].kind = req[x].kind /\ req'[x].arg = req[x].arg
    BY <1>13, BodyWrites
  <2> DEFINE p == Part("body", req[r].kind, req[r].arg)
  <2>2. PICK o \in Outcomes : /\ o \in Results /\ p \in Parts
                              /\ wire' = Write(wire, p, o)
    BY <1>13, BodyWrites
  <2>3. p.kind = req[r].kind /\ p.arg = req[r].arg
    BY DEF Part
  <2> HIDE DEF p
  <2>4. \A i \in 1 .. Len(wire') : \/ i \in 1 .. Len(wire) /\ wire'[i] = wire[i]
                                   \/ wire'[i].kind = req[r].kind /\ wire'[i].arg = req[r].arg
    <3>1. \A i \in 1 .. Len(wire') :
              \/ i \in 1 .. Len(wire) /\ wire'[i] = wire[i]
              \/ /\ i = Len(wire) + 1 /\ i = Len(wire') /\ o # "none"
                 /\ wire'[i].part = p.part /\ wire'[i].kind = p.kind /\ wire'[i].arg = p.arg
                 /\ (wire'[i].whole => o = "full") /\ (o = "full" => wire'[i] = p)
      BY <1>0, <2>2, WrittenParts
    <3> QED
      BY <2>3, <3>1
  <2>5. req[r].kind = "add" => Callable(req[r].arg)
    BY <1>2 DEF Found
  <2> QED
    BY <2>1, <2>4, <2>5
<1>14. CASE ReplyHead \/ ReplyBody
  <2>1. /\ UNCHANGED <<jobs, app, main, func>> /\ rw \in {"head", "body"} /\ rw' \in {"body", "poll"}
        /\ WriteHead(wreq) \/ WriteBody(wreq)
    BY <1>14 DEF ReplyHead, ReplyBody, appVars, server
  <2>2. wreq \in 1 .. Len(req)
    BY <2>1, OnlyRequest
  <2> QED
    BY <1>3, <1>f, <1>g, <1>12, <1>13, <2>1, <2>2
<1>15. ASSUME NEW f \in Funcs, AddFunction(f)
       PROVE  Found'
  <2>1. /\ app' = [at |-> "check", kind |-> "add", name |-> f, req |-> 0] /\ Register(f)
        /\ UNCHANGED <<jobs, req, wire, main, func, rw, res>>
    BY <1>15 DEF AddFunction, Call, server, reader
  <2>2. K(f)
    <3>1. /\ Len(fn') = Len(fn) + 1 /\ fn'[Len(fn) + 1] = [name |-> f, key |-> Slot(f)', live |-> TRUE]
          /\ slots'[Slot(f)'] = Len(fn) + 1 /\ Len(fn) \in Nat
      BY <2>1, Registering
    <3>2. Slot(f)' = Hash[f] % size'
      BY DEF Slot
    <3>3. Len(fn) + 1 \in 1 .. Len(fn')
      BY <3>1
    <3> QED
      BY <3>1, <3>2, <3>3 DEF K
  <2>3. /\ \A j \in 1 .. Len(jobs') : K(jobs'[j].func)
        /\ \A i \in 1 .. Len(wire') :
               wire'[i].part = "body" /\ wire'[i].kind = "add" => K(wire'[i].arg)
        /\ \A r \in 1 .. Len(req') : req'[r].kind = "add" => K(req'[r].arg)
    BY <1>1, <1>2, <2>1 DEF Found
  <2> QED
    BY <1>3, <1>f, <2>1, <2>2, <2>3
<1>t. ASSUME NEW f \in Funcs, DelFunction(f)
      PROVE  FALSE
  BY <1>t DEF DelFunction, Disturbed
<1>v. app \in [at : {"idle", "check", "pack", "head", "body", "free"}, kind : Kinds,
               name : Args, req : 0 .. Len(req)]
  BY DEF Typed, SessionShape
<1>16. CASE Broadcast
  <2>1. UNCHANGED <<jobs, wire, main, func, rw, res>>
    BY <1>16 DEF Broadcast, server, reader
  <2>2. app'.kind = app.kind /\ app'.name = app.name
    <3>1. \/ app' = [app EXCEPT !.at = "idle"]
          \/ app' = [app EXCEPT !.at = "pack", !.req = Len(req) + 1]
      BY <1>16 DEF Broadcast
    <3> QED
      BY <1>v, <3>1
  <2>3. NewRequest \in Requests /\ NewRequest.kind = "none"
    BY Shape DEF NewRequest, Requests, Kinds
  <2>4. \A r \in 1 .. Len(req') : req'[r].kind = "add" => r \in 1 .. Len(req) /\ req'[r] = req[r]
    <3>1. CASE req' = req
      BY <3>1
    <3>2. CASE req' = Append(req, NewRequest)
      <4>1. /\ Len(req') = Len(req) + 1 /\ req'[Len(req) + 1] = NewRequest
            /\ \A r \in 1 .. Len(req) : req'[r] = req[r]
        BY <2>3, <3>2, Shape, AppendProperties
      <4>2. \A r \in 1 .. Len(req') : r \in 1 .. Len(req) \/ r = Len(req) + 1
        BY <4>1, Shape
      <4> QED
        BY <2>3, <4>1, <4>2
    <3> QED
      BY <1>16, <3>1, <3>2 DEF Broadcast
  <2> QED
    BY <1>3, <1>f, <1>g, <2>1, <2>2, <2>4
<1>17. CASE BroadcastPack
  <2>1. UNCHANGED <<jobs, wire, main, func, rw, res>>
    BY <1>17 DEF BroadcastPack, server, reader
  <2>2. /\ aReq \in 1 .. Len(req) /\ Len(req') = Len(req)
        /\ req'[aReq].kind = app.kind /\ req'[aReq].arg = app.name
        /\ \A x \in 1 .. Len(req) : x # aReq => req'[x] = req[x]
        /\ app'.kind = app.kind /\ app'.name = app.name
    BY <1>17, Registers
  <2>3. \A r \in 1 .. Len(req') : req'[r].kind = "add" =>
            \/ r \in 1 .. Len(req) /\ req[r].kind = "add" /\ req'[r].arg = req[r].arg
            \/ Callable(req'[r].arg)
    BY <1>2, <2>2 DEF Found
  <2> QED
    BY <1>3, <1>f, <1>g, <2>1, <2>2, <2>3
<1>18. CASE BroadcastHead \/ BroadcastBody
  <2>1. /\ UNCHANGED <<jobs, main, func, rw, res>> /\ app.at \in {"head", "body"}
        /\ WriteHead(app.req) \/ WriteBody(app.req)
        /\ app' = [app EXCEPT !.at = "body"] \/ app' = [app EXCEPT !.at = "free"]
    BY <1>18 DEF BroadcastHead, BroadcastBody, server, reader
  <2>2. app.req \in 1 .. Len(req)
    BY <2>1, OnlyRequest
  <2>3. app'.kind = app.kind /\ app'.name = app.name
    BY <1>v, <2>1
  <2> QED
    BY <1>3, <1>f, <1>g, <1>12, <1>13, <2>1, <2>2, <2>3
<1>19. CASE BroadcastFree
  <2>1. UNCHANGED <<jobs, wire, main, func, rw, res>> /\ app' = [app EXCEPT !.at = "idle"]
    BY <1>19 DEF BroadcastFree, server, reader
  <2>2. app'.kind = app.kind /\ app'.name = app.name
    BY <1>v, <2>1
  <2>3. /\ Len(req') = Len(req)
        /\ \A x \in 1 .. Len(req) : req'[x].kind = req[x].kind /\ req'[x].arg = req[x].arg
    BY <1>19, Frees
  <2> QED
    BY <1>3, <1>f, <1>g, <2>1, <2>2, <2>3
<1>20. ASSUME NEW f \in Funcs, NEW n \in BodySizes, NEW d \in Decodable, SendJob(f, n, d)
       PROVE  Found'
  <2>1. /\ jobs' = Append(jobs, [func |-> f, size |-> n, decodes |-> d]) /\ f \in Known
        /\ UNCHANGED <<wire, req, app, main, func, rw, res, fn>>
    BY <1>20 DEF SendJob, appVars, reader
  <2>2. [func |-> f, size |-> n, decodes |-> d] \in Job
    BY DEF Job, SessionAssumption
  <2>3. /\ Len(jobs') = Len(jobs) + 1 /\ jobs'[Len(jobs) + 1].func = f /\ Len(jobs) \in Nat
        /\ \A j \in 1 .. Len(jobs) : jobs'[j] = jobs[j]
    BY <2>1, <2>2, Shape, AppendProperties
  <2>4. \A j \in 1 .. Len(jobs') : j \in 1 .. Len(jobs) \/ j = Len(jobs) + 1
    BY <2>3
  <2>5. Callable(f)
    <3>1. PICK i \in 1 .. seen : Got(i, "add") /\ wire[i].arg = f
      BY <2>1 DEF Known
    <3>2. i \in 1 .. Len(wire)
      BY <3>1, Shape
    <3> QED
      BY <1>2, <3>1, <3>2 DEF Got, Found
  <2>6. res.job # NoJob => res.job \in 1 .. Len(jobs)
    BY Shape DEF NoJob
  <2>7. \A j \in 1 .. Len(jobs') : K(jobs'[j].func)
    BY <1>1, <1>2, <2>3, <2>4, <2>5 DEF Found
  <2>8. /\ \A i \in 1 .. Len(wire') :
               wire'[i].part = "body" /\ wire'[i].kind = "add" => K(wire'[i].arg)
        /\ \A r \in 1 .. Len(req') : req'[r].kind = "add" => K(req'[r].arg)
        /\ app'.kind = "add" => K(app'.name)
        /\ main' = "send" => func' \in 1 .. Len(fn') /\ K(fn'[func'].name)
    BY <1>1, <1>2, <2>1 DEF Found
  <2>9. rw' \in {"call", "copy"} =>
            /\ func' \in 1 .. Len(fn') /\ K(fn'[func'].name)
            /\ res'.job # NoJob => fn'[func'].name = jobs'[res'.job].func
    BY <1>1, <1>2, <2>1, <2>3, <2>6 DEF Found
  <2> QED
    BY <1>3, <2>7, <2>8, <2>9
<1>21. ~RegisterNext /\ ~Ready
  BY DEF RegisterNext, Ready
<1> QED
  BY <1>6, <1>7, <1>8, <1>9, <1>10, <1>p, <1>q, <1>11, <1>s, <1>14, <1>15, <1>t, <1>16, <1>17,
     <1>18, <1>19, <1>20, <1>21
     DEF Next, Main, ReadWrite, Application, Environment

\* So every step keeps Names.
LEMMA NamesNext ==
    ASSUME SessionAssumption, Typed, Table, Names, [Next]_vars
    PROVE  Names'
<1>1. main # "register" => main' # "register"
  BY DEF Next, Main, ReadWrite, Application, Environment, vars, RegisterNext, Ready, Find, Announce,
         Grab, Start, Join, ReadEvent, ReadDropped, ReadHeader, ReadBody, Reading, ReadClosed,
         ReadFailed, BadBody, GetFunc, RefuseJob, CallFunction, CallFreed, CopyResult, PackResult,
         ReadDone, WriteEvent, ReplyHead, ReplyBody, AddFunction, DelFunction, Call, Broadcast,
         BroadcastPack, BroadcastHead, BroadcastBody, BroadcastFree, ServerReceive, SendNotice,
         Deliver, ServerClose, BrokenPipe, SendJob
<1>2. main # "register" /\ ~Disturbed' => Found'
  BY FoundNext
<1>3. main # "register" => Names'
  BY <1>1, <1>2 DEF Names
<1> QED
  BY <1>3, UntoldNext
=============================================================================
