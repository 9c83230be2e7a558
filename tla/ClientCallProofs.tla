-------------------------- MODULE ClientCallProofs --------------------------
(***************************************************************************)
(* Theorems of ClientCall, for any functions, sizes of header and body,    *)
(* and any number of calls, connections and answers: what is on the stream *)
(* in each direction, what the table holds, and whose answer a RespHandler *)
(* is given.                                                               *)
(***************************************************************************)
EXTENDS ClientCall, SequenceTheorems, FiniteSetTheorems, TLAPS

Entries == [key : Funcs, call : 1 .. MaxCalls]
Answers == [call : 1 .. MaxCalls, type : {"data", "error"}]
Bytewise == Nat \X Nat
Outcomes == {"full", "short", "none"}

-----------------------------------------------------------------------------
(* The invariants.                                                         *)

\* The request in c->Req is that of the last call.
Between == at \in {"new", "idle"}
Numbered ==
    /\ cur = Len(calls) /\ (Between \/ cur >= 1)
    /\ outer # NoCall /\ Between => proc # "run"
Typed == TypeOK /\ Numbered

\* A call that its RespHandler makes puts a second entry into the table.
Unnested == outer = NoCall
Tabled ==
    IF outer = NoCall THEN TableIsCall
    ELSE /\ Len(table) <= 2
         /\ Between \/ (Len(table) = 2 /\ table[1] = [key |-> FuncOf(cur), call |-> cur])

\* What has been written is in the order of the calls, and a call goes on
\* writing until its body is out, and then no more.
Done(w, i) == w[i].part = "body" /\ w[i].whole
OnWire(w, c, writing) ==
    /\ \A i \in 1 .. Len(w) : w[i].call <= c /\ (Done(w, i) /\ writing => w[i].call < c)
    /\ \A i, j \in 1 .. Len(w) :
           i < j => w[i].call <= w[j].call /\ (Done(w, i) => w[i].call < w[j].call)
    /\ \A i \in 1 .. Len(w) - 1 : Done(w, i) \/ w[i + 1].call = w[i].call
    /\ Len(w) = 0 \/ Done(w, Len(w)) \/ (writing /\ w[Len(w)].call = c)
Sent ==
    /\ OnWire(wire, cur, at = "write")
    /\ \A i \in base + 1 .. seen : wire[i].part = "body" => wire[i].whole

\* What is left to read is the end of answer k.
Size(k) == MinDataSize + (IF answers[k].type = "data" THEN BodySize ELSE 0)
Left(k) ==
    /\ Len(inbox) + Len(net) <= Size(k)
    /\ \A i \in 1 .. Len(net) : net[i] = <<k, Size(k) - Len(net) + i>>
    /\ \A i \in 1 .. Len(inbox) : inbox[i] = <<k, Size(k) - Len(net) - Len(inbox) + i>>
Nothing == net = <<>> /\ inbox = <<>>
ToCurrent(k) == k \in 1 .. Len(answers) /\ answers[k].call = cur

\* As long as no answer was doubled, no call nested and none misled, each call
\* has been given its own answer, nothing is left of it, and nothing but the
\* answer to the current call is there to be read.
Clean == ~AnsweredTwice /\ outer = NoCall /\ ~Misled
GivenTo(k) == {p \in given : p[1] = k}
Returned(k) == k \in 1 .. cur /\ (k < cur \/ Between)
Rightly ==
    /\ \A p \in given : p[2] \in 1 .. Len(answers) /\ answers[p[2]].call = p[1] /\ Returned(p[1])
    /\ \A k \in 1 .. cur : Returned(k) => \E a \in 1 .. Len(answers) : GivenTo(k) = {<<k, a>>}
Ahead ==
    /\ Between \/ at = "write" => Nothing
    /\ at = "wait" => Nothing \/ \E k \in 1 .. Len(answers) : ToCurrent(k) /\ Left(k)
    /\ at = "respond" /\ res.answer # NoAnswer => Nothing /\ ToCurrent(res.answer)
Owned ==
    /\ Clean => Rightly /\ Ahead
    /\ proc = "ub" => AnsweredTwice \/ outer # NoCall \/ Misled \/ Garbled

\* Answers that arrive whole and once are read whole.
Whole == Fragmented = FALSE /\ Nesting = FALSE /\ MaxExtra = 0
Complete == inbox # <<>> => EndsPart(inbox[Len(inbox)])
Intact ==
    /\ Clean /\ Complete
    /\ (~res.hread => res.size = MinDataSize) /\ (at = "write" => ~res.hread)
    /\ at = "wait" /\ ~res.hread => Nothing \/ \E k \in 1 .. Len(answers) :
           ToCurrent(k) /\ Left(k) /\ Len(net) + Len(inbox) = Size(k)
    /\ at = "wait" /\ res.hread => res.size = BodySize /\ res.type = "data" /\ \E k \in 1 .. Len(answers) :
           /\ ToCurrent(k) /\ Left(k) /\ answers[k].type = "data"
           /\ Len(net) + Len(inbox) = BodySize
    /\ at = "respond" => res.answer # NoAnswer

-----------------------------------------------------------------------------
(* What the invariants say, as the proofs cite it.                         *)

\* The parts of the shape.
LEMMA Shape ==
    ASSUME ClientAssumption, Typed
    PROVE  /\ calls \in Seq(Funcs) /\ Len(calls) \in 0 .. MaxCalls /\ cur = Len(calls) /\ cur \in Nat
           /\ table \in Seq(Entries) /\ Len(table) \in Nat /\ res \in Responses
           /\ wire \in Seq(Parts) /\ Len(wire) \in Nat /\ seen \in 0 .. Len(wire) /\ base \in 0 .. Len(wire)
           /\ answers \in Seq(Answers) /\ Len(answers) \in Nat
           /\ net \in Seq(Bytewise) /\ Len(net) \in Nat /\ inbox \in Seq(Bytewise) /\ Len(inbox) \in Nat
           /\ MinDataSize \in Nat \ {0} /\ BodySize \in Nat /\ BodySize > MinDataSize
           /\ MaxCalls \in Nat /\ MaxConnects \in Nat
<1>1. calls \in Seq(Funcs) /\ Len(calls) <= MaxCalls /\ cur = Len(calls)
  BY DEF Typed, TypeOK, Numbered
<1>2. table \in Seq(Entries) /\ res \in Responses
  BY DEF Typed, TypeOK, Entries
<1>3. wire \in Seq(Parts) /\ seen \in 0 .. Len(wire) /\ base \in 0 .. Len(wire)
  BY DEF Typed, TypeOK
<1>4. answers \in Seq(Answers) /\ net \in Seq(Bytewise) /\ inbox \in Seq(Bytewise)
  BY DEF Typed, TypeOK, Answers, Bytewise
<1>5. /\ MinDataSize \in Nat \ {0} /\ BodySize \in Nat /\ BodySize > MinDataSize
      /\ MaxCalls \in Nat /\ MaxConnects \in Nat
  BY DEF ClientAssumption
<1>6. /\ Len(calls) \in Nat /\ Len(table) \in Nat /\ Len(wire) \in Nat /\ Len(answers) \in Nat
      /\ Len(net) \in Nat /\ Len(inbox) \in Nat
  BY <1>1, <1>2, <1>3, <1>4, LenProperties
<1>7. Len(calls) \in 0 .. MaxCalls
  BY <1>1, <1>5, <1>6
<1> QED
  BY <1>1, <1>2, <1>3, <1>4, <1>5, <1>6, <1>7

\* What one write leaves on the stream: what was there, and the part, whole or
\* cut, or nothing more.
LEMMA Written ==
    ASSUME NEW w \in Seq(Parts), NEW p \in Parts, NEW o \in Outcomes
    PROVE  /\ Write(w, p, o) \in Seq(Parts) /\ Len(w) \in Nat /\ Len(Write(w, p, o)) \in Nat
           /\ Len(Write(w, p, o)) >= Len(w)
           /\ o = "none" => Write(w, p, o) = w
           /\ o # "none" =>
                  /\ Len(Write(w, p, o)) = Len(w) + 1
                  /\ Write(w, p, o)[Len(w) + 1].call = p.call
                  /\ Write(w, p, o)[Len(w) + 1].part = p.part
                  /\ Write(w, p, o)[Len(w) + 1].whole = (o = "full" /\ p.whole)
           /\ \A i \in 1 .. Len(w) : Write(w, p, o)[i] = w[i]
<1> DEFINE q == [p EXCEPT !.whole = (o = "full" /\ p.whole)]
<1>1. q \in Parts /\ q.call = p.call /\ q.part = p.part /\ q.whole = (o = "full" /\ p.whole)
  BY DEF Parts
<1>2. Len(w) \in Nat
  BY LenProperties
<1>3. CASE o = "none"
  BY <1>2, <1>3 DEF Write
<1>4. CASE o # "none"
  <2>1. Write(w, p, o) = Append(w, q)
    <3>1. CASE o = "full"
      <4>1. q = p
        BY <3>1 DEF Parts
      <4> QED
        BY <3>1, <4>1 DEF Write
    <3>2. CASE o = "short"
      <4>1. q = [p EXCEPT !.whole = FALSE]
        BY <3>2 DEF Parts
      <4> QED
        BY <3>2, <4>1 DEF Write
    <3> QED
      BY <1>4, <3>1, <3>2 DEF Outcomes
  <2> HIDE DEF q
  <2>2. /\ Append(w, q) \in Seq(Parts) /\ Len(Append(w, q)) = Len(w) + 1
        /\ \A i \in 1 .. Len(w) : Append(w, q)[i] = w[i]
        /\ Append(w, q)[Len(w) + 1] = q
    BY <1>1, AppendProperties
  <2> QED
    BY <1>1, <1>2, <1>4, <2>1, <2>2
<1> QED
  BY <1>3, <1>4

\* What WriteNmidReq writes, part by part.
LEMMA TwoWrites ==
    ASSUME ClientAssumption, Typed, WriteEvent
    PROVE  \E o1, o2 \in WriteOutcomes, w \in Seq(Parts) :
               /\ o1 \in Outcomes /\ o2 \in Outcomes /\ Part("head") \in Parts /\ Part("body") \in Parts
               /\ w = Write(wire, Part("head"), o1) /\ wire' = Write(w, Part("body"), o2)
               /\ at' = IF o2 # "full" THEN "write" ELSE "wait"
<1>1. PICK o1 \in WriteOutcomes, o2 \in WriteOutcomes :
          /\ wire' = Write(Write(wire, Part("head"), o1), Part("body"), o2)
          /\ at' = IF o2 # "full" THEN "write" ELSE "wait"
  BY DEF WriteEvent, MustRewrite, AfterWrite
<1>2. o1 \in Outcomes /\ o2 \in Outcomes
  BY <1>1 DEF ClientAssumption, Outcomes
<1>3. cur \in 1 .. MaxCalls
  <2>1. cur >= 1
    BY DEF Typed, Numbered, Between, WriteEvent
  <2> QED
    BY <2>1, Shape
<1>4. Part("head") \in Parts /\ Part("body") \in Parts
  BY <1>3 DEF Part, Parts
<1>5. Write(wire, Part("head"), o1) \in Seq(Parts)
  BY <1>2, <1>4, Shape, Written
<1> QED
  BY <1>1, <1>2, <1>4, <1>5

\* What is left of a sequence after its first n elements, and those.
LEMMA Rest ==
    ASSUME NEW S, NEW s \in Seq(S), NEW n \in 0 .. Len(s)
    PROVE  /\ SubSeq(s, n + 1, Len(s)) \in Seq(S)
           /\ Len(SubSeq(s, n + 1, Len(s))) = Len(s) - n
           /\ \A i \in 1 .. Len(s) - n : SubSeq(s, n + 1, Len(s))[i] = s[n + i]
<1>1. Len(s) \in Nat /\ n \in Nat /\ n + 1 \in Int
  BY LenProperties
<1>2. \A i \in n + 1 .. Len(s) : s[i] \in S
  BY <1>1, ElementOfSeq
<1> DEFINE t == SubSeq(s, n + 1, Len(s))
<1>3. /\ t \in Seq(S) /\ Len(t) = IF n + 1 <= Len(s) THEN Len(s) - (n + 1) + 1 ELSE 0
      /\ \A i \in 1 .. Len(s) - (n + 1) + 1 : t[i] = s[(n + 1) + i - 1]
  BY <1>1, <1>2, SubSeqProperties
<1> HIDE DEF t
<1>4. Len(s) - (n + 1) + 1 = Len(s) - n /\ Len(t) = Len(s) - n
  BY <1>1, <1>3
<1>5. \A i \in 1 .. Len(s) - n : (n + 1) + i - 1 = n + i
  BY <1>1
<1>6. \A i \in 1 .. Len(s) - n : t[i] = s[n + i]
  BY <1>3, <1>4, <1>5
<1> QED
  BY <1>3, <1>4, <1>6 DEF t

LEMMA Prefix ==
    ASSUME NEW S, NEW s \in Seq(S), NEW n \in 0 .. Len(s)
    PROVE  /\ SubSeq(s, 1, n) \in Seq(S) /\ Len(SubSeq(s, 1, n)) = n
           /\ \A i \in 1 .. n : SubSeq(s, 1, n)[i] = s[i]
<1>1. Len(s) \in Nat /\ n \in Int
  BY LenProperties
<1>2. \A i \in 1 .. n : s[i] \in S
  BY <1>1, ElementOfSeq
<1> DEFINE t == SubSeq(s, 1, n)
<1>3. /\ t \in Seq(S) /\ Len(t) = IF 1 <= n THEN n - 1 + 1 ELSE 0
      /\ \A i \in 1 .. n - 1 + 1 : t[i] = s[1 + i - 1]
  BY <1>1, <1>2, SubSeqProperties
<1> HIDE DEF t
<1> QED
  BY <1>1, <1>3 DEF t

\* The first entry found in a table of at most two.
LEMMA FirstFound ==
    ASSUME ClientAssumption, Typed, Len(table) <= 2, NEW f, Found(f) # {}
    PROVE  First(f) \in Found(f) /\ First(f) \in 1 .. Len(table) /\ (1 \in Found(f) => First(f) = 1)
<1>1. Found(f) \subseteq 1 .. 2 /\ Found(f) \subseteq 1 .. Len(table)
  <2>1. Len(table) \in Nat
    BY Shape
  <2> QED
    BY <2>1 DEF Found
<1>2. \E i \in Found(f) : \A j \in Found(f) : i <= j
  BY <1>1
<1>3. First(f) \in Found(f) /\ \A j \in Found(f) : First(f) <= j
  BY <1>2 DEF First
<1> QED
  BY <1>1, <1>3

\* There are never more.
LEMMA TwoEntries ==
    ASSUME ClientAssumption, Typed, Tabled
    PROVE  Len(table) <= 2
<1>1. CASE outer = NoCall
  <2>1. table = <<>> \/ table = <<[key |-> FuncOf(cur), call |-> cur]>>
    BY <1>1 DEF Tabled, TableIsCall
  <2>2. Len(<<>>) = 0 /\ \A e : Len(<<e>>) = 1
    OBVIOUS
  <2>3. Len(table) = 0 \/ Len(table) = 1
    BY <2>1, <2>2
  <2>4. Len(table) \in Nat
    BY Shape
  <2> QED
    BY <2>3, <2>4
<1> QED
  BY <1>1 DEF Tabled

-----------------------------------------------------------------------------
(* Types.                                                                  *)

\* The new entry of a call.
LEMMA Begins ==
    ASSUME ClientAssumption, Typed, NEW f \in Funcs, Begin(f)
    PROVE  /\ calls' \in Seq(Funcs) /\ Len(calls') <= MaxCalls /\ Len(calls') = Len(calls) + 1
           /\ cur' = Len(calls') /\ cur' >= 1 /\ at' = "write" /\ cur' = cur + 1
           /\ calls'[cur'] = f
           /\ res' = NewResponse /\ res' \in Responses
           /\ table' \in Seq(Entries) /\ table' = <<[key |-> f, call |-> cur']>> \o table
           /\ Len(table') = Len(table) + 1 /\ table'[1] = [key |-> f, call |-> cur']
<1>1. /\ Len(calls) < MaxCalls /\ calls' = Append(calls, f) /\ cur' = Len(calls) + 1
      /\ res' = NewResponse /\ at' = "write"
      /\ table' = <<[key |-> f, call |-> Len(calls) + 1]>> \o table
  BY DEF Begin, FreshResponse, Inserted
<1>2. Len(calls) \in Nat /\ MaxCalls \in Nat /\ calls \in Seq(Funcs) /\ cur = Len(calls)
  BY Shape
<1>3. calls' \in Seq(Funcs) /\ Len(calls') = Len(calls) + 1 /\ calls'[Len(calls) + 1] = f
  BY <1>1, <1>2, AppendProperties
<1>4. res' \in Responses
  BY <1>1, Shape DEF NewResponse, Responses, NoAnswer
<1> DEFINE e == [key |-> f, call |-> Len(calls) + 1]
<1>5. e \in Entries
  BY <1>1, <1>2 DEF Entries
<1>6. table' = <<e>> \o table
  BY <1>1
<1> HIDE DEF e
<1>7. table \in Seq(Entries) /\ <<e>> \in Seq(Entries) /\ Len(<<e>>) = 1 /\ <<e>>[1] = e
      /\ Len(table) \in Nat
  BY <1>5, Shape
<1> DEFINE h == <<e>>
<1>8. h \in Seq(Entries) /\ Len(h) = 1 /\ h[1] = e /\ table' = h \o table
  BY <1>6, <1>7
<1> HIDE DEF h
<1>a. table \in Seq(Entries)
  BY <1>7
<1>9. /\ h \o table \in Seq(Entries) /\ Len(h \o table) = Len(h) + Len(table)
      /\ \A i \in 1 .. Len(h) + Len(table) :
             (h \o table)[i] = IF i <= Len(h) THEN h[i] ELSE table[i - Len(h)]
  BY <1>a, <1>8, ConcatProperties
<1>10. Len(table') = Len(table) + 1 /\ table'[1] = e
  BY <1>7, <1>8, <1>9
<1> QED
  BY <1>1, <1>2, <1>3, <1>4, <1>8, <1>9, <1>10 DEF e

\* A call of Do, whoever makes it.
LEMMA TypedBegin ==
    ASSUME ClientAssumption, Typed, NEW f \in Funcs, Begin(f), outer' \in 0 .. Len(calls),
           given' \subseteq (1 .. MaxCalls) \X Nat, UNCHANGED <<proc, wire, server, inbox>>
    PROVE  Typed'
<1>1. /\ calls' \in Seq(Funcs) /\ Len(calls') <= MaxCalls /\ Len(calls') = Len(calls) + 1
      /\ cur' = Len(calls') /\ cur' >= 1 /\ at' = "write"
      /\ res' \in Responses /\ table' \in Seq(Entries)
  BY Begins
<1>2. UNCHANGED <<proc, wire, seen, answers, net, closed, connects, base, inbox>>
  BY DEF server, connection
<1>3. Len(calls) \in Nat /\ Len(calls') \in Nat
  BY <1>1, Shape
<1>4. cur' \in 0 .. Len(calls') /\ outer' \in 0 .. Len(calls')
  BY <1>1, <1>3
<1>5. TypeOK'
  BY <1>1, <1>2, <1>4 DEF Typed, TypeOK, Entries
<1>6. Numbered'
  BY <1>1 DEF Numbered, Between
<1> QED
  BY <1>5, <1>6 DEF Typed

\* The end of a call.
LEMMA Removes ==
    ASSUME ClientAssumption, Typed, Tabled, NEW f
    PROVE  Removed(f) \in Seq(Entries) /\ Len(Removed(f)) <= Len(table)
<1>1. table \in Seq(Entries) /\ Len(table) \in Nat
  BY Shape
<1>2. CASE Found(f) = {}
  BY <1>1, <1>2 DEF Removed
<1>3. CASE Found(f) # {}
  <2> DEFINE i == First(f)
  <2>1. i \in 1 .. Len(table)
    BY <1>3, FirstFound, TwoEntries
  <2> HIDE DEF i
  <2>2. i - 1 \in 0 .. Len(table) /\ i \in 0 .. Len(table)
    BY <1>1, <2>1
  <2> DEFINE s == SubSeq(table, 1, i - 1)
             t == SubSeq(table, i + 1, Len(table))
  <2>3. s \in Seq(Entries) /\ Len(s) = i - 1
    BY <1>1, <2>2, Prefix
  <2>4. t \in Seq(Entries) /\ Len(t) = Len(table) - i
    BY <1>1, <2>2, Rest
  <2>5. Removed(f) = s \o t
    BY <1>3 DEF Removed, i
  <2> HIDE DEF s, t
  <2>6. s \o t \in Seq(Entries) /\ Len(s \o t) = Len(s) + Len(t)
    BY <2>3, <2>4, ConcatProperties
  <2> QED
    BY <1>1, <2>1, <2>3, <2>4, <2>5, <2>6
<1> QED
  BY <1>2, <1>3

LEMMA TypedFinish ==
    ASSUME ClientAssumption, Typed, Tabled, at = "respond", Finish,
           given' \subseteq (1 .. MaxCalls) \X Nat, UNCHANGED <<wire, server, inbox>>
    PROVE  Typed'
<1>1. /\ table' = Removed(FuncOf(cur)) /\ at' = "idle" /\ proc' = IF outer = NoCall THEN proc ELSE "ub"
      /\ UNCHANGED <<calls, cur, res, outer, wire, seen, answers, net, closed, connects, base, inbox>>
  BY DEF Finish, server, connection
<1>2. table' \in Seq(Entries)
  BY <1>1, Removes
<1>3. proc' \in {"run", "done", "sigpipe", "ub"} /\ (outer' # NoCall => proc' # "run")
  BY <1>1 DEF Typed, TypeOK
<1>4. TypeOK'
  BY <1>1, <1>2, <1>3 DEF Typed, TypeOK, Entries
<1>5. Numbered'
  BY <1>1, <1>3 DEF Typed, Numbered, Between
<1> QED
  BY <1>4, <1>5 DEF Typed

\* What a read takes out of the buffer.
LEMMA Takes ==
    ASSUME ClientAssumption, Typed, Reading
    PROVE  /\ Count \in 1 .. Len(inbox) /\ Count <= res.size
           /\ (Count = res.size \/ Count = Len(inbox))
           /\ inbox' \in Seq(Bytewise) /\ Len(inbox') = Len(inbox) - Count
           /\ \A i \in 1 .. Len(inbox) - Count : inbox'[i] = inbox[Count + i]
           /\ Bytes[1] = inbox[1] /\ inbox[1] \in Bytewise
           /\ UNCHANGED <<proc, calls, cur, outer, table, given, wire, seen, answers, net, closed,
                          connects, base>>
           /\ at = "wait"
<1>1. /\ inbox # <<>> /\ inbox' = SubSeq(inbox, Count + 1, Len(inbox)) /\ at = "wait"
      /\ UNCHANGED <<proc, calls, cur, outer, table, given, wire, seen, answers, net, closed,
                     connects, base>>
  BY DEF Reading, call, server, connection
<1>2. inbox \in Seq(Bytewise) /\ Len(inbox) \in Nat /\ Len(inbox) # 0
  <2>1. inbox \in Seq(Bytewise) /\ Len(inbox) \in Nat
    BY Shape
  <2> QED
    BY <1>1, <2>1, EmptySeq
<1>3. res.size \in Nat /\ res.size >= 1
  <2>1. /\ res.size \in {MinDataSize, BodySize} /\ MinDataSize \in Nat \ {0} /\ BodySize \in Nat
        /\ BodySize > MinDataSize
    BY Shape DEF Responses
  <2> QED
    BY <2>1
<1>4. Count \in 1 .. Len(inbox) /\ Count <= res.size /\ (Count = res.size \/ Count = Len(inbox))
  BY <1>2, <1>3 DEF Count
<1>5. Bytes = SubSeq(inbox, 1, Count)
  BY DEF Bytes
<1> HIDE DEF Count
<1>6. /\ Count \in 0 .. Len(inbox) /\ 1 \in 1 .. Count /\ 1 \in 1 .. Len(inbox)
  BY <1>2, <1>4
<1>7. Bytes[1] = inbox[1] /\ inbox[1] \in Bytewise
  BY <1>2, <1>5, <1>6, Prefix, ElementOfSeq
<1>8. /\ inbox' \in Seq(Bytewise) /\ Len(inbox') = Len(inbox) - Count
      /\ \A i \in 1 .. Len(inbox) - Count : inbox'[i] = inbox[Count + i]
  BY <1>1, <1>2, <1>6, Rest
<1> QED
  BY <1>1, <1>4, <1>7, <1>8

LEMMA TypedReading ==
    ASSUME ClientAssumption, Typed, Reading, at' \in {"wait", "respond"}, res' \in Responses
    PROVE  Typed'
<1>1. /\ inbox' \in Seq(Bytewise) /\ at = "wait"
      /\ UNCHANGED <<proc, calls, cur, outer, table, given, wire, seen, answers, net, closed,
                     connects, base>>
  BY Takes
<1>2. TypeOK'
  BY <1>1 DEF Typed, TypeOK, Bytewise
<1>3. Numbered'
  BY <1>1 DEF Typed, Numbered, Between
<1> QED
  BY <1>2, <1>3 DEF Typed

LEMMA TypedRead ==
    ASSUME ClientAssumption, Typed, ReadDropped \/ ReadHeader \/ ReadBody
    PROVE  Typed'
<1>1. Reading
  BY DEF ReadDropped, ReadHeader, ReadBody
<1>2. at = "wait" /\ res \in Responses /\ inbox[1] \in Bytewise /\ Bytes[1] = inbox[1]
  BY <1>1, Shape, Takes
<1>3. Bytes[1][1] \in Nat
  BY <1>2 DEF Bytewise
<1>4. CASE ReadDropped
  BY <1>1, <1>2, <1>4, TypedReading DEF ReadDropped
<1>5. CASE ReadHeader
  <2>1. at' \in {"wait", "respond"}
    BY <1>2, <1>5 DEF ReadHeader
  <2>2. \/ res' = [res EXCEPT !.hread = TRUE, !.type = "data", !.size = BodySize]
        \/ \E a \in Nat : res' = [res EXCEPT !.hread = TRUE, !.type = "error", !.answer = a]
        \/ res' = [res EXCEPT !.hread = TRUE]
    BY <1>3, <1>5 DEF ReadHeader, NoAnswer
  <2>3. res' \in Responses
    BY <1>2, <2>2 DEF Responses
  <2> QED
    BY <1>1, <2>1, <2>3, TypedReading
<1>6. CASE ReadBody
  <2>1. at' \in {"wait", "respond"}
    BY <1>6 DEF ReadBody
  <2>2. res' \in Responses
    BY <1>2, <1>3, <1>6 DEF ReadBody, Responses, NoAnswer
  <2> QED
    BY <1>1, <2>1, <2>2, TypedReading
<1> QED
  BY <1>4, <1>5, <1>6

LEMMA TypedRespond ==
    ASSUME ClientAssumption, Typed, Tabled, proc = "run", Respond \/ RespondGarbled
    PROVE  Typed'
<1>1. at = "respond" /\ UNCHANGED <<wire, server, inbox>>
  BY DEF Respond, RespondGarbled
<1>2. cur \in 1 .. MaxCalls /\ given \subseteq (1 .. MaxCalls) \X Nat
  <2>1. cur >= 1
    BY <1>1 DEF Typed, Numbered, Between
  <2> QED
    BY <2>1, Shape DEF Typed, TypeOK
<1>3. CASE RespondGarbled
  <2>1. given' = given \cup {<<cur, NoAnswer>>} /\ Finish
    BY <1>3 DEF RespondGarbled
  <2>2. given' \subseteq (1 .. MaxCalls) \X Nat
    BY <1>2, <2>1 DEF NoAnswer
  <2> QED
    BY <1>1, <2>1, <2>2, TypedFinish
<1>4. CASE Respond
  <2>1. Found(Handle) # {} /\ given' = given \cup {<<table[First(Handle)].call, res.answer>>}
    BY <1>4 DEF Respond, Misnamed
  <2>2. First(Handle) \in 1 .. Len(table) /\ table \in Seq(Entries) /\ res.answer \in Nat
    BY <2>1, FirstFound, TwoEntries, Shape DEF Responses
  <2>3. table[First(Handle)] \in Entries
    BY <2>2, ElementOfSeq
  <2>4. given' \subseteq (1 .. MaxCalls) \X Nat
    BY <1>2, <2>1, <2>2, <2>3 DEF Entries
  <2>5. CASE Finish
    BY <1>1, <2>4, <2>5, TypedFinish
  <2>6. ASSUME NEW f \in Funcs, Begin(f), outer' = cur, proc' = proc
        PROVE  Typed'
    <3>1. outer' \in 0 .. Len(calls)
      BY <2>6, Shape
    <3> QED
      BY <1>1, <2>4, <2>6, <3>1, TypedBegin
  <2> QED
    BY <1>4, <2>5, <2>6 DEF Respond
<1> QED
  BY <1>3, <1>4

\* The initial state has the shape.
LEMMA TypedInit == ClientAssumption /\ Init => Typed
<1> SUFFICES ASSUME ClientAssumption, Init
             PROVE  Typed
  OBVIOUS
<1>1. res \in Responses
  BY DEF Init, NewResponse, Responses, NoAnswer, ClientAssumption
<1>2. /\ Len(calls) = 0 /\ Len(wire) = 0 /\ calls = <<>> /\ wire = <<>> /\ cur = 0 /\ outer = 0
      /\ seen = 0 /\ base = 0 /\ connects = 0 /\ given = {} /\ closed = FALSE
      /\ proc = "run" /\ at = "new"
  BY DEF Init, NoCall
<1>3. /\ calls \in Seq(Funcs) /\ wire \in Seq(Parts) /\ table \in Seq(Entries)
      /\ answers \in Seq(Answers) /\ net \in Seq(Bytewise) /\ inbox \in Seq(Bytewise)
  BY DEF Init
<1>4. seen \in 0 .. Len(wire) /\ base \in 0 .. Len(wire) /\ cur \in 0 .. Len(calls) /\ outer \in 0 .. Len(calls)
      /\ connects \in 0 .. MaxConnects /\ Len(calls) <= MaxCalls
  BY <1>2 DEF ClientAssumption
<1>5. TypeOK
  BY <1>1, <1>2, <1>3, <1>4 DEF TypeOK, Entries, Answers, Bytewise
<1>6. Numbered
  BY <1>2 DEF Numbered, Between, NoCall
<1> QED
  BY <1>5, <1>6 DEF Typed

\* The steps of the server and the network, and of nobody.
LEMMA TypedOthers ==
    ASSUME ClientAssumption, Typed,
           \/ ServerReceive \/ Deliver \/ ServerClose \/ BrokenPipe \/ Crash \/ UNCHANGED vars
           \/ \E k \in 1 .. Len(calls), type \in {"data", "error"} : Answer(k, type)
    PROVE  Typed'
<1> USE DEF call, connection
<1>1. CASE ServerReceive
  <2>1. seen + 2 <= Len(wire)
    <3>1. seen \in Nat /\ Len(wire) \in Nat /\ seen + 1 + 1 <= Len(wire)
      BY <1>1, Shape DEF ServerReceive, IsRequest
    <3> QED
      BY <3>1
  <2>2. seen' \in 0 .. Len(wire)
    <3>1. seen \in Nat /\ Len(wire) \in Nat /\ seen' = seen + 2
      BY <1>1, Shape DEF ServerReceive
    <3> QED
      BY <2>1, <3>1
  <2> QED
    BY <1>1, <2>2 DEF ServerReceive, Typed, TypeOK, Numbered, Between
<1>2. CASE Deliver
  <2>1. PICK n \in 1 .. Len(net) : inbox' = inbox \o SubSeq(net, 1, n) /\ net' = SubSeq(net, n + 1, Len(net))
    BY <1>2 DEF Deliver
  <2>2. net \in Seq(Bytewise) /\ inbox \in Seq(Bytewise) /\ n \in 0 .. Len(net)
    BY Shape
  <2>3. net' \in Seq(Bytewise) /\ SubSeq(net, 1, n) \in Seq(Bytewise)
    BY <2>1, <2>2, Rest, Prefix
  <2>4. inbox' \in Seq(Bytewise)
    BY <2>1, <2>2, <2>3, ConcatProperties
  <2>5. UNCHANGED <<proc, at, calls, cur, outer, table, res, given, wire, seen, answers, closed, connects, base>>
    BY <1>2 DEF Deliver
  <2> QED
    BY <2>3, <2>4, <2>5 DEF Typed, TypeOK, Numbered, Between, Bytewise
<1>3. CASE ServerClose
  BY <1>3 DEF ServerClose, Typed, TypeOK, Numbered, Between
<1>4. CASE BrokenPipe \/ Crash
  <2>1. /\ proc' \in {"sigpipe", "ub"}
        /\ UNCHANGED <<at, calls, cur, outer, table, res, given, wire, inbox, seen, answers, net, closed,
                       connects, base>>
    BY <1>4 DEF BrokenPipe, Crash, server
  <2> QED
    BY <2>1 DEF Typed, TypeOK, Numbered, Between
<1>5. CASE UNCHANGED vars
  BY <1>5 DEF vars, Typed, TypeOK, Numbered, Between
<1>6. ASSUME NEW k \in 1 .. Len(calls), NEW type \in {"data", "error"}, Answer(k, type)
      PROVE  Typed'
  <2>1. /\ answers' = Append(answers, [call |-> k, type |-> type])
        /\ net' = net \o Frame(Len(answers) + 1, type)
        /\ UNCHANGED <<proc, at, calls, cur, outer, table, res, given, wire, seen, inbox, closed, connects, base>>
    BY <1>6 DEF Answer
  <2> DEFINE a == [call |-> k, type |-> type]
             n == MinDataSize + (IF type = "data" THEN BodySize ELSE 0)
             f == Frame(Len(answers) + 1, type)
  <2>2. a \in Answers
    BY Shape DEF Answers
  <2> HIDE DEF a
  <2>3. answers' \in Seq(Answers)
    BY <2>1, <2>2, Shape, AppendProperties DEF a
  <2>4. n \in Nat /\ Len(answers) + 1 \in Nat
    BY Shape
  <2>5. f = [i \in 1 .. n |-> <<Len(answers) + 1, i>>]
    BY DEF Frame
  <2> HIDE DEF n
  <2>6. f \in Seq(Bytewise)
    BY <2>4, <2>5 DEF Bytewise
  <2> HIDE DEF f
  <2>7. net' \in Seq(Bytewise)
    <3>1. net \in Seq(Bytewise) /\ net' = net \o f
      BY <2>1, Shape DEF f
    <3> QED
      BY <2>6, <3>1, ConcatProperties
  <2> QED
    BY <2>1, <2>3, <2>7 DEF Typed, TypeOK, Numbered, Between, Bytewise, Answers
<1> QED
  BY <1>1, <1>2, <1>3, <1>4, <1>5, <1>6

\* Every step keeps the shape.
LEMMA TypedNext == ClientAssumption /\ Typed /\ Tabled /\ [Next]_vars => Typed'
<1> SUFFICES ASSUME ClientAssumption, Typed, Tabled, [Next]_vars
             PROVE  Typed'
  OBVIOUS
<1>1. CASE UNCHANGED vars
  BY <1>1, TypedOthers
<1>2. SUFFICES ASSUME proc = "run", Next
               PROVE  Typed'
  BY <1>1 DEF Next
<1>3. ASSUME NEW f \in Funcs, Do(f)
      PROVE  Typed'
  <2>1. Begin(f) /\ outer' = outer /\ given' = given /\ UNCHANGED <<proc, wire, server, inbox>>
    BY <1>3 DEF Do
  <2>2. outer' \in 0 .. Len(calls) /\ given' \subseteq (1 .. MaxCalls) \X Nat
    BY <2>1 DEF Typed, TypeOK
  <2> QED
    BY <2>1, <2>2, TypedBegin
<1>4. CASE Connect
  <2>1. /\ at' = "idle" /\ connects' = connects + 1 /\ connects < MaxConnects /\ at \in {"new", "idle"}
        /\ base' = Len(wire) /\ seen' = Len(wire) /\ net' = <<>> /\ inbox' = <<>> /\ closed' = FALSE
        /\ UNCHANGED <<proc, calls, cur, outer, table, res, given, wire, answers>>
    BY <1>4 DEF Connect, call
  <2>2. connects' \in 0 .. MaxConnects /\ Len(wire) \in 0 .. Len(wire)
    <3>1. connects \in 0 .. MaxConnects /\ MaxConnects \in Nat /\ Len(wire) \in Nat
      BY Shape DEF Typed, TypeOK
    <3> QED
      BY <2>1, <3>1
  <2>3. net' \in Seq(Nat \X Nat) /\ inbox' \in Seq(Nat \X Nat)
    BY <2>1
  <2> QED
    BY <2>1, <2>2, <2>3 DEF Typed, TypeOK, Numbered, Between
<1>5. CASE Close
  <2>1. /\ proc' = "done" /\ table' = <<>>
        /\ UNCHANGED <<at, calls, cur, outer, res, given, wire, inbox, seen, answers, net, closed,
                       connects, base>>
    BY <1>5 DEF Close, call, server, connection
  <2>2. table' \in Seq(Entries)
    BY <2>1
  <2> QED
    BY <2>1, <2>2 DEF Typed, TypeOK, Numbered, Between, Entries
<1>6. CASE WriteEvent
  <2>1. wire' \in Seq(Parts) /\ Len(wire) <= Len(wire') /\ at' \in {"write", "wait"}
    <3>1. PICK o1 \in WriteOutcomes, o2 \in WriteOutcomes, w \in Seq(Parts) :
               /\ o1 \in Outcomes /\ o2 \in Outcomes /\ Part("head") \in Parts /\ Part("body") \in Parts
               /\ w = Write(wire, Part("head"), o1) /\ wire' = Write(w, Part("body"), o2)
               /\ at' = IF o2 # "full" THEN "write" ELSE "wait"
      BY <1>6, TwoWrites
    <3>2. wire \in Seq(Parts) /\ Len(wire) \in Nat /\ Len(w) \in Nat /\ Len(w) >= Len(wire)
      BY <3>1, Shape, Written
    <3>3. wire' \in Seq(Parts) /\ Len(wire') \in Nat /\ Len(wire') >= Len(w)
      BY <3>1, Written
    <3> QED
      BY <3>1, <3>2, <3>3
  <2>2. /\ UNCHANGED <<proc, calls, cur, outer, table, res, given, inbox, seen, answers, net, closed,
                       connects, base>>
        /\ at = "write"
    BY <1>6 DEF WriteEvent, call, server, connection
  <2>3. seen' \in 0 .. Len(wire') /\ base' \in 0 .. Len(wire')
    <3>1. /\ seen \in 0 .. Len(wire) /\ base \in 0 .. Len(wire) /\ Len(wire) \in Nat
          /\ Len(wire') \in Nat
      BY <2>1, Shape, LenProperties
    <3> QED
      BY <2>1, <2>2, <3>1
  <2> QED
    BY <2>1, <2>2, <2>3 DEF Typed, TypeOK, Numbered, Between
<1> QED
  BY <1>2, <1>3, <1>4, <1>5, <1>6, TypedRead, TypedRespond, TypedOthers DEF Next, Client, Server

-----------------------------------------------------------------------------
(* The table.                                                              *)

\* An entry at the head of one, and at the head of a longer table.
LEMMA Removing ==
    ASSUME ClientAssumption, Typed, TableIsCall, ~Between
    PROVE  Removed(FuncOf(cur)) = <<>> /\ Found(FuncOf(cur)) = {1}
<1> DEFINE f == FuncOf(cur)
           e == [key |-> FuncOf(cur), call |-> cur]
<1>1. table = <<e>> /\ e.key = f
  BY DEF TableIsCall, Between
<1> HIDE DEF e, f
<1>2. Len(table) = 1 /\ table[1] = e
  BY <1>1
<1>3. Found(f) = {1}
  BY <1>1, <1>2 DEF Found
<1>4. First(f) = 1
  BY <1>2, <1>3, FirstFound
<1>5. Removed(f) = SubSeq(table, 1, 0) \o SubSeq(table, 2, 1)
  BY <1>2, <1>3, <1>4 DEF Removed
<1>6. SubSeq(table, 1, 0) = <<>> /\ SubSeq(table, 2, 1) = <<>>
  BY SubSeqEmpty
<1> QED
  BY <1>3, <1>5, <1>6 DEF f

\* What holds at the start of a call made by nobody's RespHandler, and by one.
LEMMA TabledBegin ==
    ASSUME ClientAssumption, Typed, Tabled, NEW f \in Funcs, Begin(f), outer = NoCall,
           IF Between THEN outer' = NoCall ELSE outer' = cur
    PROVE  Tabled'
<1>1. /\ cur' = Len(calls') /\ cur' >= 1 /\ at' = "write" /\ calls'[cur'] = f
      /\ table' = <<[key |-> f, call |-> cur']>> \o table
      /\ Len(table') = Len(table) + 1 /\ table'[1] = [key |-> f, call |-> cur']
  BY Begins
<1>2. TableIsCall /\ table \in Seq(Entries)
  BY Shape DEF Tabled
<1>3. CASE Between
  <2>1. table = <<>>
    BY <1>2, <1>3 DEF TableIsCall, Between
  <2>2. table' = <<[key |-> f, call |-> cur']>>
    BY <1>1, <2>1
  <2>3. TableIsCall'
    BY <1>1, <2>2 DEF TableIsCall, FuncOf
  <2> QED
    BY <1>3, <2>3 DEF Tabled
<1>4. CASE ~Between
  <2>1. Len(table) = 1
    BY <1>2, <1>4 DEF TableIsCall, Between
  <2>2. outer' # NoCall
    BY <1>4, Shape DEF Typed, Numbered, NoCall
  <2> QED
    BY <1>1, <2>1, <2>2 DEF Tabled, FuncOf
<1> QED
  BY <1>3, <1>4

LEMMA TabledInit == Init => Tabled
BY DEF Init, Tabled, TableIsCall

LEMMA TabledNext == ClientAssumption /\ Typed /\ Tabled /\ [Next]_vars => Tabled'
<1> SUFFICES ASSUME ClientAssumption, Typed, Tabled, [Next]_vars
             PROVE  Tabled'
  OBVIOUS
<1>1. ASSUME UNCHANGED <<calls, cur, outer, table>>, Between' <=> Between
      PROVE  Tabled'
  BY <1>1 DEF Tabled, TableIsCall, Between, FuncOf
<1>2. CASE UNCHANGED vars
  BY <1>1, <1>2 DEF vars, call, Between
<1>3. SUFFICES ASSUME proc = "run", Next
               PROVE  Tabled'
  BY <1>2 DEF Next
<1>4. Between => outer = NoCall
  BY <1>3 DEF Typed, Numbered
<1>5. ASSUME NEW f \in Funcs, Do(f)
      PROVE  Tabled'
  BY <1>4, <1>5, TabledBegin DEF Do, Between
<1>6. CASE Close
  <2>1. table' = <<>> /\ Between' /\ outer' = outer /\ Between
    BY <1>6 DEF Close, Between, call
  <2> QED
    BY <1>4, <2>1 DEF Tabled, TableIsCall, Between
<1>7. CASE Finish /\ ~Between
  <2>1. table' = Removed(FuncOf(cur)) /\ outer' = outer /\ at' = "idle"
    BY <1>7 DEF Finish
  <2>2. CASE outer = NoCall
    <3>1. table' = <<>>
      BY <1>7, <2>1, <2>2, Removing DEF Tabled
    <3> QED
      BY <2>1, <2>2, <3>1 DEF Tabled, TableIsCall
  <2>3. CASE outer # NoCall
    <3>1. Len(table') <= Len(table) /\ Len(table) <= 2 /\ Len(table') \in Nat /\ Len(table) \in Nat
      BY <2>1, Removes, TwoEntries, Shape, LenProperties
    <3>2. Len(table') <= 2
      BY <3>1
    <3> QED
      BY <2>1, <2>3, <3>2 DEF Tabled, Between
  <2> QED
    BY <2>2, <2>3
<1>8. CASE Respond
  <2>1. ~Between
    BY <1>8 DEF Respond, Between
  <2>2. ASSUME NEW f \in Funcs, Begin(f), outer = NoCall, outer' = cur
        PROVE  Tabled'
    BY <2>1, <2>2, TabledBegin
  <2> QED
    BY <1>7, <1>8, <2>1, <2>2 DEF Respond
<1>9. CASE RespondGarbled
  BY <1>7, <1>9 DEF RespondGarbled, Between
<1>10. CASE Connect \/ WriteEvent \/ Crash
  BY <1>1, <1>10 DEF Connect, WriteEvent, AfterWrite, Crash, Between, call
<1>11. CASE ReadDropped \/ ReadHeader \/ ReadBody
  <2>1. at = "wait" /\ at' \in {"wait", "respond"} /\ UNCHANGED <<calls, cur, outer, table>>
    BY <1>11 DEF ReadDropped, ReadHeader, ReadBody, Reading, call
  <2> QED
    BY <1>1, <2>1 DEF Between
<1>12. CASE Server \/ Deliver \/ ServerClose \/ BrokenPipe
  BY <1>1, <1>12 DEF Server, ServerReceive, Answer, Deliver, ServerClose, BrokenPipe, Between, call
<1> QED
  BY <1>3, <1>5, <1>6, <1>8, <1>9, <1>10, <1>11, <1>12 DEF Next, Client

-----------------------------------------------------------------------------
(* What follows from them.                                                 *)

\* Types and the table are invariants.
LEMMA ShapeCorrect == Spec => [](Typed /\ Tabled)
<1>1. Init => Typed /\ Tabled
  BY ClientAssumption, TypedInit, TabledInit
<1>2. Typed /\ Tabled /\ [Next]_vars => (Typed /\ Tabled)'
  BY ClientAssumption, TypedNext, TabledNext
<1> QED
  BY <1>1, <1>2, PTL DEF Spec

\* TypeOK: every variable keeps its shape whatever the server, the network and
\* the RespHandlers do, client.c and rw.c included.
THEOREM TypeCorrect == Spec => []TypeOK
<1>1. Typed => TypeOK
  BY DEF Typed
<1> QED
  BY <1>1, ShapeCorrect, PTL

\* TableIsCall: as long as no RespHandler calls Do, c->respHandles holds the
\* handler of the call in progress and nothing else, so no entry outlives its
\* call, however the call ends (rw.c removes it after the callback).
THEOREM TableAlwaysCall ==
    ASSUME Nesting = FALSE
    PROVE  Spec => []TableIsCall
<1>1. Init => Unnested
  BY DEF Init, Unnested
<1>2. Unnested /\ [Next]_vars => Unnested'
  BY DEF Unnested, Next, vars, call, Do, Connect, Close, Client, WriteEvent, ReadDropped, ReadHeader, ReadBody,
         Reading, Respond, RespondGarbled, Crash, Finish, Server, ServerReceive, Answer, Deliver,
         ServerClose, BrokenPipe
<1>3. Tabled /\ Unnested => TableIsCall
  BY DEF Tabled, Unnested
<1> QED
  BY <1>1, <1>2, <1>3, ShapeCorrect, PTL DEF Spec

-----------------------------------------------------------------------------
(* The stream to the server.                                               *)

\* One write more of the same call: unless the body went out whole, the call
\* is not finished with it.
LEMMA OneMore ==
    ASSUME NEW w \in Seq(Parts), NEW p \in Parts, NEW o \in Outcomes, p.whole,
           OnWire(w, p.call, TRUE)
    PROVE  OnWire(Write(w, p, o), p.call, ~(p.part = "body" /\ o = "full"))
<1> DEFINE v == Write(w, p, o)
           l == Len(w)
           c == p.call
           writing == ~(p.part = "body" /\ o = "full")
<1>1. l \in Nat /\ Len(v) \in Nat /\ (\A i \in 1 .. l : v[i] = w[i])
      /\ (o = "none" => v = w)
      /\ (o # "none" => /\ Len(v) = l + 1 /\ v[l + 1].call = c /\ v[l + 1].part = p.part
                        /\ v[l + 1].whole = (o = "full"))
  BY Written
<1>2. /\ \A i \in 1 .. l : w[i].call <= c /\ (Done(w, i) => w[i].call < c)
      /\ \A i, j \in 1 .. l : i < j => w[i].call <= w[j].call /\ (Done(w, i) => w[i].call < w[j].call)
      /\ \A i \in 1 .. l - 1 : Done(w, i) \/ w[i + 1].call = w[i].call
      /\ l = 0 \/ Done(w, l) \/ w[l].call = c
  BY DEF OnWire
<1>3. CASE o = "none"
  BY <1>1, <1>3
<1>4. CASE o # "none"
  <2>0. Done(v, l + 1) <=> ~writing
    <3>1. v[l + 1].part = p.part /\ v[l + 1].whole = (o = "full")
      BY <1>1, <1>4
    <3> HIDE DEF v, l
    <3> QED
      BY <3>1, Zenon DEF Done
  <2>1. Len(v) = l + 1 /\ v[l + 1].call = c /\ (Done(v, l + 1) <=> ~writing) /\ c \in Nat
    <3>1. c \in Nat
      BY DEF Parts
    <3> HIDE DEF v, l, c, writing
    <3> QED
      BY <1>1, <1>4, <2>0, <3>1
  <2>2. \A i \in 1 .. l : v[i] = w[i] /\ (Done(v, i) <=> Done(w, i))
    BY <1>1 DEF Done
  <2> HIDE DEF v, l, c, writing
  <2>3. \A i \in 1 .. Len(v) : i \in 1 .. l \/ i = l + 1
    BY <1>1, <2>1
  <2>4. \A i \in 1 .. Len(v) : v[i].call <= c /\ (Done(v, i) /\ writing => v[i].call < c)
    BY <1>2, <2>1, <2>2, <2>3
  <2>5. \A i, j \in 1 .. Len(v) : i < j => v[i].call <= v[j].call /\ (Done(v, i) => v[i].call < v[j].call)
    <3> SUFFICES ASSUME NEW i \in 1 .. Len(v), NEW j \in 1 .. Len(v), i < j
                 PROVE  v[i].call <= v[j].call /\ (Done(v, i) => v[i].call < v[j].call)
      OBVIOUS
    <3>1. i \in 1 .. l
      BY <1>1, <2>1, <2>3
    <3> QED
      BY <1>2, <2>1, <2>2, <2>3, <3>1
  <2>6. \A i \in 1 .. Len(v) - 1 : Done(v, i) \/ v[i + 1].call = v[i].call
    <3> SUFFICES ASSUME NEW i \in 1 .. Len(v) - 1
                 PROVE  Done(v, i) \/ v[i + 1].call = v[i].call
      OBVIOUS
    <3>1. i \in 1 .. l /\ (i = l \/ (i \in 1 .. l - 1 /\ i + 1 \in 1 .. l))
      BY <1>1, <2>1
    <3> QED
      BY <1>2, <2>1, <2>2, <3>1
  <2>7. Done(v, Len(v)) \/ (writing /\ v[Len(v)].call = c)
    BY <2>1
  <2> QED
    BY <2>4, <2>5, <2>6, <2>7 DEF OnWire, v, c, writing
<1> QED
  BY <1>3, <1>4

\* A new call finds the stream finished with those before it.
LEMMA NextCall ==
    ASSUME NEW w \in Seq(Parts), NEW c \in Nat, OnWire(w, c, FALSE)
    PROVE  OnWire(w, c + 1, TRUE)
<1>1. ASSUME NEW i \in 1 .. Len(w)
      PROVE  w[i].call \in Nat
  <2>1. w[i] \in Parts
    BY ElementOfSeq
  <2> QED
    BY <2>1 DEF Parts
<1> QED
  BY <1>1 DEF OnWire

LEMMA SentInit == Init => Sent
<1> SUFFICES ASSUME Init
             PROVE  Sent
  OBVIOUS
<1>1. wire = <<>> /\ Len(wire) = 0 /\ base = 0 /\ seen = 0
  BY DEF Init
<1> QED
  BY <1>1 DEF Sent, OnWire

LEMMA SentNext == ClientAssumption /\ Typed /\ Sent /\ [Next]_vars => Sent'
<1> SUFFICES ASSUME ClientAssumption, Typed, Sent, [Next]_vars
             PROVE  Sent'
  OBVIOUS
<1>1. ASSUME UNCHANGED <<wire, cur, base, seen>>, (at' = "write") <=> (at = "write")
      PROVE  Sent'
  BY <1>1 DEF Sent, OnWire, Done
<1>2. CASE UNCHANGED vars
  BY <1>1, <1>2 DEF vars, call, server, connection
<1>3. SUFFICES ASSUME proc = "run", Next
               PROVE  Sent'
  BY <1>2 DEF Next
<1>4. ASSUME NEW f \in Funcs, Begin(f), at # "write", UNCHANGED <<wire, base, seen>>
      PROVE  Sent'
  <2>1. cur' = cur + 1 /\ at' = "write" /\ cur \in Nat /\ wire \in Seq(Parts)
    BY <1>4, Begins, Shape
  <2>2. OnWire(wire, cur, FALSE)
    BY <1>4 DEF Sent
  <2>3. OnWire(wire', cur', at' = "write")
    BY <1>4, <2>1, <2>2, NextCall
  <2> QED
    BY <1>4, <2>3 DEF Sent
<1>5. ASSUME NEW f \in Funcs, Do(f)
      PROVE  Sent'
  BY <1>4, <1>5 DEF Do, server, connection
<1>6. CASE Connect
  <2>1. at # "write" /\ at' # "write" /\ wire' = wire /\ cur' = cur /\ base' = Len(wire) /\ seen' = Len(wire)
    BY <1>6 DEF Connect, call
  <2>2. Len(wire) \in Nat
    BY Shape
  <2>3. \A i \in base' + 1 .. seen' : FALSE
    BY <2>1, <2>2
  <2> QED
    BY <2>1, <2>3 DEF Sent
<1>7. CASE WriteEvent
  <2>1. PICK o1 \in WriteOutcomes, o2 \in WriteOutcomes, w \in Seq(Parts) :
             /\ o1 \in Outcomes /\ o2 \in Outcomes /\ Part("head") \in Parts /\ Part("body") \in Parts
             /\ w = Write(wire, Part("head"), o1) /\ wire' = Write(w, Part("body"), o2)
             /\ at' = IF o2 # "full" THEN "write" ELSE "wait"
    BY <1>7, TwoWrites
  <2> DEFINE h == Part("head")
             b == Part("body")
  <2>2. h.whole /\ h.part = "head" /\ h.call = cur /\ b.whole /\ b.part = "body" /\ b.call = cur
    BY DEF Part
  <2>3. h \in Parts /\ b \in Parts /\ w = Write(wire, h, o1) /\ wire' = Write(w, b, o2)
    BY <2>1
  <2> HIDE DEF h, b
  <2>4. at = "write" /\ cur' = cur /\ seen' = seen /\ base' = base
    BY <1>7 DEF WriteEvent, call, server, connection
  <2>5. OnWire(w, cur, TRUE)
    <3>1. OnWire(wire, h.call, TRUE) /\ wire \in Seq(Parts)
      BY <2>2, <2>4, Shape DEF Sent
    <3>2. OnWire(w, h.call, ~(h.part = "body" /\ o1 = "full"))
      BY <2>1, <2>2, <2>3, <3>1, OneMore
    <3> QED
      BY <2>2, <3>2
  <2>6. OnWire(wire', cur, ~(b.part = "body" /\ o2 = "full"))
    BY <2>1, <2>2, <2>3, <2>5, OneMore
  <2>7. (at' = "write") = ~(b.part = "body" /\ o2 = "full")
    BY <2>1, <2>2
  <2>8. \A i \in base' + 1 .. seen' : wire'[i] = wire[i]
    <3>0. wire \in Seq(Parts) /\ w \in Seq(Parts)
      BY <2>1, Shape
    <3>a. o1 \in Outcomes /\ o2 \in Outcomes /\ h \in Parts /\ b \in Parts
      BY <2>1, <2>3
    <3>b. w = Write(wire, h, o1) /\ wire' = Write(w, b, o2)
      BY <2>3
    <3>c. /\ \A i \in 1 .. Len(wire) : Write(wire, h, o1)[i] = wire[i]
          /\ Len(Write(wire, h, o1)) >= Len(wire) /\ Len(Write(wire, h, o1)) \in Nat /\ Len(wire) \in Nat
      BY <3>0, <3>a, Written
    <3>1. /\ \A i \in 1 .. Len(wire) : w[i] = wire[i]
          /\ Len(w) >= Len(wire) /\ Len(w) \in Nat /\ Len(wire) \in Nat
      BY <3>b, <3>c
    <3>d. \A i \in 1 .. Len(w) : Write(w, b, o2)[i] = w[i]
      BY <3>0, <3>a, Written
    <3>2. \A i \in 1 .. Len(w) : wire'[i] = w[i]
      BY <3>b, <3>d
    <3>3. base \in Nat /\ seen \in Nat /\ seen <= Len(wire)
      BY Shape
    <3> QED
      BY <2>4, <3>1, <3>2, <3>3
  <2> QED
    BY <2>4, <2>6, <2>7, <2>8 DEF Sent
<1>8. CASE ServerReceive
  <2>1. /\ seen' = seen + 2 /\ IsRequest(seen + 1) /\ base' = base
        /\ UNCHANGED <<at, wire, cur>>
    BY <1>8 DEF ServerReceive, call, connection
  <2>2. seen \in Nat /\ base \in Nat
    BY Shape
  <2>3. wire[seen + 1].part = "head" /\ wire[seen + 2].whole
    <3>1. seen + 1 + 1 = seen + 2
      BY <2>2
    <3> QED
      BY <2>1, <3>1 DEF IsRequest
  <2>4. \A i \in base + 1 .. seen + 2 : i \in base + 1 .. seen \/ i = seen + 1 \/ i = seen + 2
    BY <2>2
  <2>5. \A i \in base' + 1 .. seen' : wire'[i].part = "body" => wire'[i].whole
    BY <2>1, <2>3, <2>4 DEF Sent
  <2> QED
    BY <2>1, <2>5 DEF Sent
<1>9. CASE Finish /\ at = "respond" /\ UNCHANGED <<wire, base, seen>>
  BY <1>1, <1>9 DEF Finish
<1>10. CASE Respond \/ RespondGarbled
  BY <1>4, <1>9, <1>10 DEF Respond, RespondGarbled, server, connection
<1>11. CASE Close \/ Crash \/ BrokenPipe \/ Deliver \/ ServerClose
  BY <1>1, <1>11 DEF Close, Crash, BrokenPipe, Deliver, ServerClose, call, server, connection
<1>12. CASE ReadDropped \/ ReadHeader \/ ReadBody
  <2>1. at = "wait" /\ at' \in {"wait", "respond"} /\ UNCHANGED <<cur, wire, base, seen>>
    BY <1>12 DEF ReadDropped, ReadHeader, ReadBody, Reading, call, server, connection
  <2> QED
    BY <1>1, <2>1
<1>13. ASSUME NEW k \in 1 .. Len(calls), NEW type \in {"data", "error"}, Answer(k, type)
       PROVE  Sent'
  BY <1>1, <1>13 DEF Answer, call, connection
<1> QED
  BY <1>3, <1>5, <1>6, <1>7, <1>8, <1>10, <1>11, <1>12, <1>13 DEF Next, Client, Server

\* RequestOnce: the server gets each request at most once, whatever the writes
\* do and however often WriteNmidReq starts again from the header.
THEOREM EachRequestOnce == Spec => []RequestOnce
<1>1. Init => Sent
  BY SentInit
<1>2. Typed /\ Sent /\ [Next]_vars => Sent'
  BY ClientAssumption, SentNext
<1>3. Typed /\ Sent => RequestOnce
  <2> SUFFICES ASSUME Typed, Sent, NEW i \in 1 .. Len(wire), NEW j \in 1 .. Len(wire), i < j,
                      IsRequest(i), IsRequest(j), wire[i].call = wire[j].call
               PROVE  FALSE
    <3>1. Len(wire) \in Nat
      BY ClientAssumption, Shape
    <3> QED
      BY <3>1 DEF RequestOnce
  <2>1. Len(wire) \in Nat /\ wire \in Seq(Parts)
    BY ClientAssumption, Shape
  <2>2. /\ i + 1 <= Len(wire) /\ wire[i].part = "head" /\ Done(wire, i + 1) /\ wire[j].part = "head"
        /\ wire[i + 1].part = "body"
    BY DEF IsRequest, Done
  <2>3. i \in 1 .. Len(wire) - 1 /\ i + 1 \in 1 .. Len(wire)
    BY <2>1, <2>2
  <2>4. wire[i + 1].call = wire[i].call
    BY <2>2, <2>3 DEF Sent, OnWire, Done
  <2>5. i + 1 < j
    <3>1. j # i + 1
      BY <2>2
    <3> QED
      BY <2>1, <3>1
  <2>6. wire[i + 1].call < wire[j].call
    BY <2>2, <2>3, <2>5 DEF Sent, OnWire
  <2>7. wire[j].call \in Nat
    <3>1. wire[j] \in Parts
      BY <2>1, ElementOfSeq
    <3> QED
      BY <3>1 DEF Parts
  <2> QED
    BY <2>4, <2>6, <2>7
<1> QED
  BY <1>1, <1>2, <1>3, ShapeCorrect, PTL DEF Spec

-----------------------------------------------------------------------------
(* The answers.                                                            *)

\* Answers, and what the RespHandlers were given, are never taken back.
Longer ==
    /\ Len(answers) <= Len(answers') /\ \A i \in 1 .. Len(answers) : answers'[i] = answers[i]
    /\ given \subseteq given' /\ (outer' = NoCall => outer = NoCall)

LEMMA OneLonger ==
    ASSUME ClientAssumption, Typed, NEW k \in 1 .. Len(calls), NEW type \in {"data", "error"}, Answer(k, type)
    PROVE  /\ Len(answers') = Len(answers) + 1 /\ answers' \in Seq(Answers)
           /\ answers'[Len(answers) + 1].call = k /\ answers'[Len(answers) + 1].type = type
           /\ \A i \in 1 .. Len(answers) : answers'[i] = answers[i]
           /\ UNCHANGED <<proc, at, calls, cur, outer, table, res, given, wire, seen, inbox, closed,
                          connects, base>>
<1> DEFINE a == [call |-> k, type |-> type]
<1>1. answers' = Append(answers, a)
  BY DEF Answer
<1>2. a \in Answers /\ a.call = k /\ a.type = type
  BY Shape DEF Answers
<1> HIDE DEF a
<1>3. answers \in Seq(Answers)
  BY Shape
<1>4. /\ Len(answers') = Len(answers) + 1 /\ answers' \in Seq(Answers)
      /\ answers'[Len(answers) + 1] = a
      /\ \A i \in 1 .. Len(answers) : answers'[i] = answers[i]
  BY <1>1, <1>2, <1>3, AppendProperties
<1>5. UNCHANGED <<proc, at, calls, cur, outer, table, res, given, wire, seen, inbox, closed, connects, base>>
  BY DEF Answer, call, connection
<1> QED
  BY <1>2, <1>4, <1>5

LEMMA LongerNext == ClientAssumption /\ Typed /\ [Next]_vars => Longer
<1> SUFFICES ASSUME ClientAssumption, Typed, [Next]_vars
             PROVE  Longer
  OBVIOUS
<1>1. Len(answers) \in Nat
  BY Shape
<1>2. ASSUME UNCHANGED <<answers, outer>>, given \subseteq given'
      PROVE  Longer
  BY <1>1, <1>2 DEF Longer
<1>3. CASE UNCHANGED vars
  BY <1>2, <1>3 DEF vars, call, server
<1>4. SUFFICES ASSUME Next
               PROVE  Longer
  BY <1>3 DEF Next
<1>5. ASSUME NEW k \in 1 .. Len(calls), NEW type \in {"data", "error"}, Answer(k, type)
      PROVE  Longer
  BY <1>1, <1>5, OneLonger DEF Longer
<1>6. CASE Respond
  <2>1. given \subseteq given' /\ answers' = answers
    BY <1>6 DEF Respond, server
  <2>2. outer' = outer \/ (outer' = cur /\ cur # NoCall)
    BY <1>6 DEF Respond, Finish, Typed, Numbered, Between, NoCall
  <2> QED
    BY <1>1, <2>1, <2>2 DEF Longer
<1>7. CASE RespondGarbled
  BY <1>2, <1>7 DEF RespondGarbled, Finish, server
<1>8. CASE ReadDropped \/ ReadHeader \/ ReadBody
  BY <1>2, <1>8 DEF ReadDropped, ReadHeader, ReadBody, Reading, server, call
<1>9. CASE Connect \/ Close \/ WriteEvent \/ Crash \/ ServerReceive \/ Deliver \/ ServerClose \/ BrokenPipe
  BY <1>2, <1>9 DEF Connect, Close, WriteEvent, Crash, ServerReceive, Deliver, ServerClose, BrokenPipe,
                    server, call
<1>10. ASSUME NEW f \in Funcs, Do(f)
       PROVE  Longer
  BY <1>2, <1>10 DEF Do, server
<1> QED
  BY <1>4, <1>5, <1>6, <1>7, <1>8, <1>9, <1>10 DEF Next, Client, Server

\* So what has gone wrong stays gone wrong.
LEMMA CleanBefore ==
    ASSUME ClientAssumption, Typed, Longer
    PROVE  Clean' => Clean
<1>1. Len(answers) \in Nat /\ answers \in Seq(Answers)
  BY Shape
<1>2. AnsweredTwice => AnsweredTwice'
  BY <1>1 DEF AnsweredTwice, Longer
<1>3. Misled => Misled'
  BY DEF Misled, Longer
<1>4. outer' = NoCall => outer = NoCall
  BY DEF Longer
<1> QED
  BY <1>2, <1>3, <1>4 DEF Clean

\* Nothing that happens outside Do and its RespHandler touches what calls were
\* given.
LEMMA RightlyKept ==
    ASSUME ClientAssumption, Typed, Longer, Rightly, UNCHANGED <<given, cur>>, Between' <=> Between
    PROVE  Rightly'
<1>1. Len(answers) \in Nat
  BY Shape
<1>2. /\ \A p \in given : p[2] \in 1 .. Len(answers) /\ answers[p[2]].call = p[1] /\ Returned(p[1])
      /\ \A k \in 1 .. cur : Returned(k) => \E a \in 1 .. Len(answers) : GivenTo(k) = {<<k, a>>}
  BY DEF Rightly
<1>3. \A a \in 1 .. Len(answers) : a \in 1 .. Len(answers') /\ answers'[a] = answers[a]
  BY <1>1 DEF Longer
<1>4. ASSUME NEW k
      PROVE  (Returned(k)' <=> Returned(k)) /\ GivenTo(k)' = GivenTo(k)
  BY DEF Returned, GivenTo
<1>5. \A p \in given' : p[2] \in 1 .. Len(answers') /\ answers'[p[2]].call = p[1] /\ Returned(p[1])'
  BY <1>2, <1>3, <1>4
<1>6. ASSUME NEW k \in 1 .. cur, Returned(k)'
      PROVE  \E a \in 1 .. Len(answers') : GivenTo(k)' = {<<k, a>>}
  <2>1. PICK a \in 1 .. Len(answers) : GivenTo(k) = {<<k, a>>}
    BY <1>2, <1>4, <1>6
  <2> QED
    BY <1>3, <1>4, <2>1
<1> QED
  BY <1>5, <1>6 DEF Rightly

\* Reading takes bytes off the front of what is left of an answer.
LEMMA LeftRead ==
    ASSUME ClientAssumption, Typed, Reading, NEW k \in 1 .. Len(answers), Left(k)
    PROVE  /\ Left(k)' /\ inbox[1] = <<k, Size(k) - Len(net) - Len(inbox) + 1>>
           /\ Len(net') + Len(inbox') = Len(net) + Len(inbox) - Count
           /\ Size(k) \in Nat /\ Size(k)' = Size(k) /\ Len(net) + Len(inbox) <= Size(k)
<1>1. /\ Count \in 1 .. Len(inbox) /\ Len(inbox') = Len(inbox) - Count
      /\ \A i \in 1 .. Len(inbox) - Count : inbox'[i] = inbox[Count + i]
      /\ net' = net /\ answers' = answers
  BY Takes
<1>2. Len(inbox) \in Nat /\ Len(net) \in Nat /\ Size(k) \in Nat
  <2>1. Len(inbox) \in Nat /\ Len(net) \in Nat /\ MinDataSize \in Nat /\ BodySize \in Nat
    BY Shape
  <2> QED
    BY <2>1 DEF Size
<1>3. Size(k)' = Size(k)
  BY <1>1 DEF Size
<1> DEFINE n == Count
           z == Size(k)
           a == Len(inbox)
           b == Len(net)
<1> HIDE DEF n
<1>4. /\ b + a <= z
      /\ \A i \in 1 .. b : net[i] = <<k, z - b + i>>
      /\ \A i \in 1 .. a : inbox[i] = <<k, z - b - a + i>>
  BY DEF Left
<1>5. n \in 1 .. a /\ Len(inbox') = a - n /\ a \in Nat /\ b \in Nat /\ z \in Nat
      /\ \A i \in 1 .. a - n : inbox'[i] = inbox[n + i]
  BY <1>1, <1>2 DEF n
<1> HIDE DEF z, a, b
<1>6. \A i \in 1 .. a - n : inbox'[i] = <<k, z - b - (a - n) + i>>
  <2> SUFFICES ASSUME NEW i \in 1 .. a - n
               PROVE  inbox'[i] = <<k, z - b - (a - n) + i>>
    OBVIOUS
  <2>1. n + i \in 1 .. a /\ z - b - (a - n) + i = z - b - a + (n + i)
    BY <1>5
  <2> QED
    BY <1>4, <1>5, <2>1
<1>7. (a - n) + b <= z /\ Len(inbox') = a - n
  BY <1>4, <1>5
<1>8. Len(net') = b /\ Size(k)' = z /\ net' = net
  BY <1>1, <1>3 DEF b, z
<1>9. Left(k)'
  BY <1>4, <1>6, <1>7, <1>8 DEF Left
<1>10. inbox[1] = <<k, z - b - a + 1>>
  <2>1. 1 \in 1 .. a
    BY <1>5
  <2> QED
    BY <1>4, <2>1
<1>11. Len(net') + Len(inbox') = b + a - n /\ b + a <= z
  BY <1>4, <1>5, <1>8
<1> QED
  BY <1>3, <1>5, <1>9, <1>10, <1>11 DEF n, z, a, b

\* Delivery moves bytes from the network to the buffer.
LEMMA Delivers ==
    ASSUME ClientAssumption, Typed, NEW n \in 1 .. Len(net),
           inbox' = inbox \o SubSeq(net, 1, n), net' = SubSeq(net, n + 1, Len(net))
    PROVE  /\ Len(inbox') = Len(inbox) + n /\ Len(net') = Len(net) - n
           /\ \A i \in 1 .. Len(inbox) : inbox'[i] = inbox[i]
           /\ \A i \in 1 .. n : inbox'[Len(inbox) + i] = net[i]
           /\ \A i \in 1 .. Len(net) - n : net'[i] = net[n + i]
<1>1. inbox \in Seq(Bytewise) /\ net \in Seq(Bytewise) /\ Len(inbox) \in Nat /\ Len(net) \in Nat
      /\ n \in 0 .. Len(net)
  BY Shape
<1> DEFINE p == SubSeq(net, 1, n)
<1>2. p \in Seq(Bytewise) /\ Len(p) = n /\ \A i \in 1 .. n : p[i] = net[i]
  BY <1>1, Prefix
<1>3. Len(net') = Len(net) - n /\ \A i \in 1 .. Len(net) - n : net'[i] = net[n + i]
  BY <1>1, Rest
<1>a. inbox' = inbox \o p
  OBVIOUS
<1> HIDE DEF p
<1>4. /\ Len(inbox \o p) = Len(inbox) + Len(p)
      /\ \A i \in 1 .. Len(inbox) + Len(p) :
             (inbox \o p)[i] = IF i <= Len(inbox) THEN inbox[i] ELSE p[i - Len(inbox)]
  BY <1>1, <1>2, ConcatProperties
<1>5. \A i \in 1 .. Len(inbox) : inbox'[i] = inbox[i]
  BY <1>a, <1>1, <1>2, <1>4
<1>6. \A i \in 1 .. n : inbox'[Len(inbox) + i] = net[i]
  <2> SUFFICES ASSUME NEW i \in 1 .. n
               PROVE  inbox'[Len(inbox) + i] = net[i]
    OBVIOUS
  <2>1. Len(inbox) + i \in 1 .. Len(inbox) + Len(p) /\ ~(Len(inbox) + i <= Len(inbox))
        /\ (Len(inbox) + i) - Len(inbox) = i
    BY <1>1, <1>2
  <2> QED
    BY <1>a, <1>2, <1>4, <2>1
<1> QED
  BY <1>a, <1>2, <1>3, <1>4, <1>5, <1>6

LEMMA LeftDelivered ==
    ASSUME ClientAssumption, Typed, Deliver, NEW k \in 1 .. Len(answers), Left(k)
    PROVE  Left(k)' /\ Len(net') + Len(inbox') = Len(net) + Len(inbox)
<1>1. PICK n \in 1 .. Len(net) : inbox' = inbox \o SubSeq(net, 1, n) /\ net' = SubSeq(net, n + 1, Len(net))
  BY DEF Deliver
<1>2. /\ Len(inbox') = Len(inbox) + n /\ Len(net') = Len(net) - n
      /\ \A i \in 1 .. Len(inbox) : inbox'[i] = inbox[i]
      /\ \A i \in 1 .. n : inbox'[Len(inbox) + i] = net[i]
      /\ \A i \in 1 .. Len(net) - n : net'[i] = net[n + i]
  BY <1>1, Delivers
<1>3. Len(inbox) \in Nat /\ Len(net) \in Nat /\ Size(k) \in Nat
  <2>1. Len(inbox) \in Nat /\ Len(net) \in Nat /\ MinDataSize \in Nat /\ BodySize \in Nat
    BY Shape
  <2> QED
    BY <2>1 DEF Size
<1>4. Size(k)' = Size(k)
  BY DEF Deliver, Size
<1> DEFINE z == Size(k)
           a == Len(inbox)
           b == Len(net)
<1>5. /\ b + a <= z
      /\ \A i \in 1 .. b : net[i] = <<k, z - b + i>>
      /\ \A i \in 1 .. a : inbox[i] = <<k, z - b - a + i>>
  BY DEF Left
<1>6. /\ n \in 1 .. b /\ Len(inbox') = a + n /\ Len(net') = b - n /\ a \in Nat /\ b \in Nat /\ z \in Nat
      /\ \A i \in 1 .. a : inbox'[i] = inbox[i]
      /\ \A i \in 1 .. n : inbox'[a + i] = net[i]
      /\ \A i \in 1 .. b - n : net'[i] = net[n + i]
  BY <1>1, <1>2, <1>3
<1> HIDE DEF z, a, b
<1>7. \A i \in 1 .. b - n : net'[i] = <<k, z - (b - n) + i>>
  <2> SUFFICES ASSUME NEW i \in 1 .. b - n
               PROVE  net'[i] = <<k, z - (b - n) + i>>
    OBVIOUS
  <2>0. b \in Nat /\ n \in 1 .. b /\ z \in Nat
    BY <1>6
  <2>1. n + i \in 1 .. b /\ z - (b - n) + i = z - b + (n + i)
    BY <2>0
  <2> QED
    BY <1>5, <1>6, <2>1
<1>8. \A i \in 1 .. a + n : inbox'[i] = <<k, z - (b - n) - (a + n) + i>>
  <2> SUFFICES ASSUME NEW i \in 1 .. a + n
               PROVE  inbox'[i] = <<k, z - (b - n) - (a + n) + i>>
    OBVIOUS
  <2>1. CASE i <= a
    <3>1. i \in 1 .. a /\ z - (b - n) - (a + n) + i = z - b - a + i
      BY <1>6, <2>1
    <3> QED
      BY <1>5, <1>6, <3>1
  <2>2. CASE i > a
    <3>1. PICK m \in 1 .. n : i = a + m
      <4>1. i - a \in 1 .. n /\ i = a + (i - a)
        BY <1>6, <2>2
      <4> QED
        BY <4>1
    <3>2. m \in 1 .. b /\ z - (b - n) - (a + n) + i = z - b + m
      BY <1>6, <3>1
    <3> QED
      BY <1>5, <1>6, <3>1, <3>2
  <2> QED
    BY <1>6, <2>1, <2>2
<1>9. (a + n) + (b - n) = b + a /\ (b - n) + (a + n) = b + a
  BY <1>6
<1>10. Left(k)'
  <2>1. Len(inbox') = a + n /\ Len(net') = b - n /\ Size(k)' = z
    BY <1>4, <1>6 DEF z
  <2> QED
    BY <1>5, <1>7, <1>8, <1>9, <2>1 DEF Left
<1> QED
  BY <1>6, <1>9, <1>10 DEF a, b

\* The first bytes of a new answer.
LEMMA NewAnswer ==
    ASSUME ClientAssumption, Typed, NEW k \in 1 .. Len(calls), NEW type \in {"data", "error"},
           Answer(k, type), Nothing, NEW m, m = Len(answers) + 1
    PROVE  Left(m)' /\ Len(net') + Len(inbox') = Size(m)' /\ Size(m)' \in Nat
           /\ inbox' = <<>> /\ (net' # <<>> => net'[Len(net')] = <<m, Size(m)'>>)
<1>1. /\ answers'[m].type = type /\ inbox' = <<>> /\ net = <<>> /\ net' = net \o Frame(m, type)
      /\ m \in Nat
  BY OneLonger, Shape DEF Nothing, Answer
<1> DEFINE z == MinDataSize + (IF type = "data" THEN BodySize ELSE 0)
           f == Frame(m, type)
<1>2. z \in Nat /\ Size(m)' = z
  BY <1>1, Shape DEF Size
<1>3. f = [i \in 1 .. z |-> <<m, i>>]
  BY DEF Frame
<1>a. Len(inbox') = 0
  BY <1>1
<1> HIDE DEF z, f
<1>4. f \in Seq(Bytewise) /\ Len(f) = z /\ \A i \in 1 .. z : f[i] = <<m, i>>
  BY <1>1, <1>2, <1>3 DEF Bytewise
<1>5. net' = f
  <2>1. net' = <<>> \o f
    BY <1>1 DEF f
  <2> QED
    BY <1>4, <2>1, ConcatEmptySeq
<1>6. \A i \in 1 .. z : net'[i] = <<m, z - z + i>> /\ z - z + i = i
  BY <1>2, <1>4, <1>5
<1>7. Left(m)'
  <2>1. Len(net') = z /\ Len(inbox') = 0 /\ 0 + z <= z
    BY <1>a, <1>2, <1>4, <1>5
  <2> QED
    BY <1>2, <1>6, <2>1 DEF Left
<1>8. net' # <<>> => net'[z] = <<m, z>>
  <2>1. net' # <<>> => z \in 1 .. z
    BY <1>2, <1>4, <1>5, EmptySeq
  <2> QED
    BY <1>4, <1>5, <2>1
<1> QED
  BY <1>a, <1>1, <1>2, <1>4, <1>5, <1>7, <1>8

\* What a read makes of it: an answer that is taken for one is the current
\* call's, and all of it has been read.
LEMMA AheadRead ==
    ASSUME ClientAssumption, Typed, Ahead, ReadDropped \/ ReadHeader \/ ReadBody
    PROVE  Ahead'
<1>1. Reading /\ at = "wait" /\ at' \in {"wait", "respond"} /\ inbox # <<>>
  BY DEF ReadDropped, ReadHeader, ReadBody, Reading
<1>2. PICK k \in 1 .. Len(answers) : ToCurrent(k) /\ Left(k)
  BY <1>1 DEF Ahead, Nothing
<1>3. /\ Left(k)' /\ inbox[1] = <<k, Size(k) - Len(net) - Len(inbox) + 1>>
      /\ Len(net') + Len(inbox') = Len(net) + Len(inbox) - Count
      /\ Size(k) \in Nat /\ Len(net) + Len(inbox) <= Size(k)
  BY <1>1, <1>2, LeftRead
<1>4. /\ Count \in 1 .. Len(inbox) /\ Bytes[1] = inbox[1] /\ inbox' \in Seq(Bytewise)
      /\ UNCHANGED <<cur, answers, net>>
  BY <1>1, Takes
<1>5. ToCurrent(k)' /\ k \in 1 .. Len(answers')
  BY <1>2, <1>4 DEF ToCurrent
<1>6. /\ Len(net) \in Nat /\ Len(inbox) \in Nat /\ net \in Seq(Bytewise) /\ Len(inbox') \in Nat
      /\ MinDataSize \in Nat \ {0} /\ BodySize \in Nat /\ BodySize > MinDataSize
  BY <1>4, Shape, LenProperties
<1> DEFINE z == Size(k)
           l == Len(net) + Len(inbox)
<1>7. Bytes[1][1] = k /\ Bytes[1][2] = z - l + 1
  BY <1>3, <1>4, <1>6
<1> HIDE DEF Count
<1>8. l = Count => Nothing'
  <2>1. l = Count => Len(net') = 0 /\ Len(inbox') = 0
    BY <1>3, <1>4, <1>6
  <2>2. net' \in Seq(Bytewise) /\ inbox' \in Seq(Bytewise)
    BY <1>4, <1>6
  <2> QED
    BY <2>1, <2>2, EmptySeq DEF Nothing
<1>9. l \in Nat /\ z \in Nat /\ l <= z /\ l >= Count /\ Count \in Nat
  BY <1>3, <1>4, <1>6
<1> HIDE DEF z, l
<1>10. ASSUME at' = "respond", res'.answer # NoAnswer
       PROVE  l = Count /\ res'.answer = k
  <2>1. res \in Responses
    BY Shape
  <2>2. CASE ReadHeader
    <3>1. Bytes[1][2] = 1 /\ answers[k].type = "error" /\ Count = MinDataSize /\ res'.answer = k
      BY <1>1, <1>7, <1>10, <2>1, <2>2 DEF ReadHeader, Responses
    <3>2. z = MinDataSize
      BY <1>6, <3>1 DEF Size, z
    <3>3. z - l + 1 = 1
      BY <1>7, <3>1
    <3> QED
      BY <1>6, <1>9, <3>1, <3>2, <3>3
  <2>3. CASE ReadBody
    <3>1. Bytes[1][2] = MinDataSize + 1 /\ Count = BodySize /\ res'.answer = k
      BY <1>7, <1>10, <2>1, <2>3 DEF ReadBody, Responses
    <3>2. z = MinDataSize \/ z = MinDataSize + BodySize
      BY <1>6 DEF Size, z
    <3>3. z - l + 1 = MinDataSize + 1
      BY <1>7, <3>1
    <3>4. l >= BodySize
      BY <1>9, <3>1
    <3>5. z = MinDataSize + BodySize
      BY <1>6, <1>9, <3>2, <3>3, <3>4
    <3>6. l = BodySize
      BY <1>6, <1>9, <3>3, <3>5
    <3> QED
      BY <3>1, <3>6
  <2>4. CASE ReadDropped
    BY <1>1, <1>10, <2>4 DEF ReadDropped
  <2> QED
    BY <2>2, <2>3, <2>4
<1> QED
  BY <1>1, <1>3, <1>5, <1>8, <1>10 DEF Ahead, Between

\* As long as nothing has gone wrong the server answers only the current
\* call, and only while Do waits for it.
LEMMA OnlyCurrent ==
    ASSUME ClientAssumption, Typed, Sent, Rightly, Ahead,
           NEW k \in 1 .. Len(calls), NEW type \in {"data", "error"}, Answer(k, type), ~AnsweredTwice'
    PROVE  /\ k = cur /\ at \in {"wait", "respond"} /\ (at = "wait" => Nothing)
           /\ (at = "respond" => res.answer = NoAnswer)
<1>1. /\ Len(answers') = Len(answers) + 1 /\ answers'[Len(answers) + 1].call = k
      /\ \A i \in 1 .. Len(answers) : answers'[i] = answers[i]
  BY OneLonger
<1>2. Len(answers) \in Nat /\ cur = Len(calls) /\ cur \in Nat
  BY Shape
<1>3. ASSUME NEW i \in 1 .. Len(answers)
      PROVE  answers[i].call # k
  <2>1. i \in 1 .. Len(answers') /\ Len(answers) + 1 \in 1 .. Len(answers') /\ i # Len(answers) + 1
    BY <1>1, <1>2
  <2>2. answers'[i].call # k
    BY <1>1, <2>1 DEF AnsweredTwice
  <2> QED
    BY <1>1, <2>2
<1>4. ~Returned(k)
  <2> SUFFICES ASSUME Returned(k)
               PROVE  FALSE
    OBVIOUS
  <2>1. PICK a \in 1 .. Len(answers) : GivenTo(k) = {<<k, a>>}
    BY <1>2 DEF Rightly
  <2>2. <<k, a>> \in given
    BY <2>1 DEF GivenTo
  <2>3. answers[a].call = k
    BY <2>2 DEF Rightly
  <2> QED
    BY <1>3, <2>3
<1>5. k = cur /\ ~Between
  BY <1>2, <1>4 DEF Returned
<1>6. at # "write"
  <2> SUFFICES ASSUME at = "write"
               PROVE  FALSE
    OBVIOUS
  <2>1. PICK i \in base + 1 .. seen : wire[i].part = "body" /\ wire[i].call = cur
    BY <1>5 DEF Answer, MayAnswer, Received
  <2>2. i \in 1 .. Len(wire)
    <3>1. base \in Nat /\ seen \in Nat /\ seen <= Len(wire) /\ Len(wire) \in Nat
      BY Shape
    <3> QED
      BY <3>1
  <2>3. wire[i].whole
    BY <2>1 DEF Sent
  <2>4. wire[i].call < cur
    BY <2>1, <2>2, <2>3 DEF Sent, OnWire, Done
  <2> QED
    BY <1>2, <2>1, <2>4
<1>7. at \in {"wait", "respond"}
  BY <1>5, <1>6 DEF Typed, TypeOK, Between
<1>8. at = "wait" => Nothing
  BY <1>3, <1>5 DEF Ahead, ToCurrent
<1>9. at = "respond" => res.answer = NoAnswer
  BY <1>3, <1>5 DEF Ahead, ToCurrent
<1> QED
  BY <1>5, <1>7, <1>8, <1>9

\* A call that returns with an answer returns with its own.
LEMMA RightlyGiven ==
    ASSUME ClientAssumption, Typed, Rightly, ~Between, Between', UNCHANGED <<answers, cur>>,
           NEW a \in 1 .. Len(answers), answers[a].call = cur, given' = given \cup {<<cur, a>>}
    PROVE  Rightly'
<1>1. cur \in Nat /\ cur >= 1
  BY Shape DEF Typed, Numbered
<1>2. \A k : (Returned(k)' <=> k \in 1 .. cur) /\ (Returned(k) <=> k \in 1 .. cur /\ k # cur)
  BY <1>1 DEF Returned
<1>3. \A p \in given : p[1] # cur
  BY <1>2 DEF Rightly
<1>4. GivenTo(cur)' = {<<cur, a>>}
  BY <1>3 DEF GivenTo
<1>5. ASSUME NEW k \in 1 .. cur, k # cur
      PROVE  GivenTo(k)' = GivenTo(k)
  BY <1>5 DEF GivenTo
<1>6. \A p \in given' : p[2] \in 1 .. Len(answers') /\ answers'[p[2]].call = p[1] /\ Returned(p[1])'
  BY <1>1, <1>2 DEF Rightly
<1>7. ASSUME NEW k \in 1 .. cur
      PROVE  \E b \in 1 .. Len(answers') : GivenTo(k)' = {<<k, b>>}
  <2>1. CASE k = cur
    <3>1. GivenTo(k)' = {<<k, a>>}
      BY <1>4, <2>1
    <3> QED
      BY <3>1
  <2>2. CASE k # cur
    <3>1. PICK b \in 1 .. Len(answers) : GivenTo(k) = {<<k, b>>}
      BY <1>2, <2>2 DEF Rightly
    <3> QED
      BY <1>5, <2>2, <3>1
  <2> QED
    BY <2>1, <2>2
<1> QED
  BY <1>6, <1>7 DEF Rightly

\* The handler found for the answer to the current call is the current call's.
LEMMA OwnHandler ==
    ASSUME ClientAssumption, Typed, Tabled, outer = NoCall, at = "respond", ~Garbled,
           res.answer # NoAnswer => answers[res.answer].call = cur
    PROVE  ~Misnamed /\ table[First(Handle)].call = cur
<1>1. Handle = FuncOf(cur)
  BY DEF Garbled, Handle
<1>2. TableIsCall /\ ~Between
  BY DEF Tabled, Between
<1>3. Found(FuncOf(cur)) = {1}
  BY <1>2, Removing
<1>4. First(Handle) = 1
  BY <1>1, <1>3, FirstFound, TwoEntries
<1>5. table[1].call = cur
  BY <1>2 DEF TableIsCall, Between
<1> QED
  BY <1>1, <1>3, <1>4, <1>5 DEF Misnamed

LEMMA OwnedInit == Init => Owned
<1> SUFFICES ASSUME Init
             PROVE  Owned
  OBVIOUS
<1>1. given = {} /\ cur = 0 /\ at = "new" /\ net = <<>> /\ inbox = <<>> /\ proc = "run"
  BY DEF Init, NoCall
<1>2. Rightly
  BY <1>1 DEF Rightly
<1>3. Ahead
  BY <1>1 DEF Ahead, Between, Nothing
<1> QED
  BY <1>1, <1>2, <1>3 DEF Owned

LEMMA OwnedNext ==
    ClientAssumption /\ Typed /\ Tabled /\ Sent /\ Owned /\ [Next]_vars => Owned'
<1> SUFFICES ASSUME ClientAssumption, Typed, Tabled, Sent, Owned, [Next]_vars
             PROVE  Owned'
  OBVIOUS
<1>1. Longer /\ (Clean' => Clean /\ Rightly /\ Ahead /\ outer = NoCall)
  BY LongerNext, CleanBefore DEF Owned, Clean
<1>2. ASSUME proc' # "ub", Clean' => Rightly' /\ Ahead'
      PROVE  Owned'
  BY <1>2 DEF Owned
<1>3. CASE UNCHANGED vars
  <2>1. (Clean' <=> Clean) /\ (Rightly' <=> Rightly) /\ (Ahead' <=> Ahead)
    BY <1>3 DEF vars, call, server, connection, Clean, AnsweredTwice, Misled, Rightly, Ahead, Returned,
                GivenTo, Between, Nothing, ToCurrent, Left, Size
  <2>2. (AnsweredTwice' <=> AnsweredTwice) /\ (Misled' <=> Misled) /\ (Garbled' <=> Garbled)
    BY <1>3 DEF vars, call, server, connection, AnsweredTwice, Misled, Garbled
  <2> QED
    BY <1>3, <2>1, <2>2 DEF vars, call, Owned
<1>4. SUFFICES ASSUME proc = "run", Next
               PROVE  Owned'
  BY <1>3 DEF Next
<1>5. ASSUME UNCHANGED <<given, cur>>, Between' <=> Between, Clean'
      PROVE  Rightly'
  BY <1>1, <1>5, RightlyKept
<1>6. ASSUME NEW f \in Funcs, Do(f)
      PROVE  Owned'
  <2>1. /\ cur' = cur + 1 /\ at' = "write" /\ cur \in Nat /\ Between
        /\ UNCHANGED <<proc, given, answers, net, inbox>>
    BY <1>6, Begins, Shape DEF Do, Between, server
  <2>2. \A k : Returned(k)' <=> Returned(k)
    BY <2>1 DEF Returned, Between
  <2>3. Rightly => Rightly'
    <3>1. \A k : GivenTo(k)' = GivenTo(k)
      BY <2>1 DEF GivenTo
    <3>2. \A k \in 1 .. cur' : Returned(k) => k \in 1 .. cur
      BY DEF Returned
    <3> QED
      BY <2>1, <2>2, <3>1, <3>2 DEF Rightly
  <2>4. Ahead => Ahead'
    BY <2>1 DEF Ahead, Nothing, Between
  <2> QED
    BY <1>1, <1>2, <1>4, <2>1, <2>3, <2>4
<1>7. CASE Connect
  <2>1. /\ UNCHANGED <<proc, given, cur>> /\ Between /\ Between' /\ net' = <<>> /\ inbox' = <<>>
        /\ at' = "idle"
    BY <1>7 DEF Connect, Between, call
  <2>2. Ahead'
    BY <2>1 DEF Ahead, Nothing, Between
  <2> QED
    BY <1>2, <1>4, <1>5, <2>1, <2>2
<1>8. CASE Close
  <2>1. UNCHANGED <<at, given, cur, net, inbox>> /\ Between /\ proc' = "done"
    BY <1>8 DEF Close, Between, call, server
  <2>2. Ahead => Ahead'
    BY <2>1 DEF Ahead, Nothing, Between
  <2>3. Between' <=> Between
    BY <2>1 DEF Between
  <2> QED
    BY <1>1, <1>2, <1>5, <2>1, <2>2, <2>3
<1>9. CASE WriteEvent
  <2>1. /\ at = "write" /\ at' \in {"write", "wait"} /\ UNCHANGED <<proc, given, cur, net, inbox>>
    BY <1>9 DEF WriteEvent, AfterWrite, call, server
  <2>2. Ahead => Ahead'
    BY <2>1 DEF Ahead, Nothing, Between
  <2>3. Between' <=> Between
    BY <2>1 DEF Between
  <2> QED
    BY <1>1, <1>2, <1>4, <1>5, <2>1, <2>2, <2>3
<1>10. CASE ReadDropped \/ ReadHeader \/ ReadBody
  <2>1. /\ at = "wait" /\ at' \in {"wait", "respond"} /\ UNCHANGED <<proc, given, cur>>
    BY <1>10 DEF ReadDropped, ReadHeader, ReadBody, Reading, call
  <2>2. Ahead => Ahead'
    BY <1>10, AheadRead
  <2>3. Between' <=> Between
    BY <2>1 DEF Between
  <2> QED
    BY <1>1, <1>2, <1>4, <1>5, <2>1, <2>2, <2>3
<1>11. CASE Respond
  <2>1. /\ at = "respond" /\ ~Garbled /\ given' = given \cup {<<table[First(Handle)].call, res.answer>>}
        /\ UNCHANGED <<inbox, net, answers>>
    BY <1>11 DEF Respond, server
  <2>2. CASE Finish
    <3>1. /\ at' = "idle" /\ outer' = outer /\ proc' = (IF outer = NoCall THEN proc ELSE "ub") /\ cur' = cur
      BY <2>2 DEF Finish
    <3>2. ~Between /\ Between'
      BY <2>1, <3>1 DEF Between
    <3>3. ASSUME Clean'
          PROVE  Rightly' /\ Ahead'
      <4>1. outer = NoCall /\ Ahead /\ Rightly
        BY <1>1, <3>3
      <4>2. res.answer # NoAnswer => Nothing /\ ToCurrent(res.answer)
        BY <2>1, <4>1 DEF Ahead
      <4>3. table[First(Handle)].call = cur
        BY <2>1, <4>1, <4>2, OwnHandler DEF ToCurrent
      <4>4. given' = given \cup {<<cur, res.answer>>}
        BY <2>1, <4>3
      <4>5. res.answer # NoAnswer
        <5>1. <<cur, res.answer>> \in given' /\ <<cur, res.answer>>[2] = res.answer
          BY <4>4
        <5>2. \A p \in given' : p[2] # NoAnswer
          BY <3>3 DEF Clean, Misled
        <5> QED
          BY <5>1, <5>2
      <4>6. res.answer \in 1 .. Len(answers) /\ answers[res.answer].call = cur /\ Nothing
        BY <4>2, <4>5 DEF ToCurrent
      <4>7. Rightly'
        BY <2>1, <3>1, <3>2, <4>1, <4>4, <4>6, RightlyGiven
      <4>8. Ahead'
        BY <2>1, <3>1, <4>6 DEF Ahead, Nothing
      <4> QED
        BY <4>7, <4>8
    <3> QED
      BY <1>4, <3>1, <3>3 DEF Owned
  <2>3. CASE outer' = cur /\ proc' = proc
    <3>1. cur # NoCall
      BY <2>1 DEF Typed, Numbered, Between, NoCall
    <3> QED
      BY <1>4, <2>3, <3>1 DEF Owned, Clean
  <2> QED
    BY <1>11, <2>2, <2>3 DEF Respond
<1>12. CASE RespondGarbled
  <2>1. <<cur, NoAnswer>> \in given'
    BY <1>12 DEF RespondGarbled
  <2>2. Misled'
    BY <2>1 DEF Misled
  <2> QED
    BY <2>2 DEF Owned, Clean
<1>13. CASE Crash
  <2>1. /\ at = "respond" /\ (Misnamed \/ Garbled)
        /\ UNCHANGED <<at, cur, outer, table, res, given, answers, net, inbox>>
    BY <1>13 DEF Crash, call, server
  <2>2. Ahead => Ahead'
    BY <2>1 DEF Ahead, Nothing, Between, ToCurrent
  <2>3. Between' <=> Between
    BY <2>1 DEF Between
  <2>4. Clean' => Garbled'
    <3> SUFFICES ASSUME Clean', ~Garbled
                 PROVE  FALSE
      BY <2>1 DEF Garbled
    <3>1. outer = NoCall /\ Ahead
      BY <1>1
    <3>2. res.answer # NoAnswer => answers[res.answer].call = cur
      BY <2>1, <3>1 DEF Ahead, ToCurrent
    <3> QED
      BY <2>1, <3>1, <3>2, OwnHandler
  <2> QED
    BY <1>1, <1>5, <2>1, <2>2, <2>3, <2>4 DEF Owned, Clean
<1>14. CASE ServerReceive \/ ServerClose \/ BrokenPipe
  <2>1. UNCHANGED <<at, cur, res, given, answers, net, inbox>> /\ proc' # "ub"
    BY <1>4, <1>14 DEF ServerReceive, ServerClose, BrokenPipe, call, server
  <2>2. Ahead => Ahead'
    BY <2>1 DEF Ahead, Nothing, Between, ToCurrent, Left, Size
  <2>3. Between' <=> Between
    BY <2>1 DEF Between
  <2> QED
    BY <1>1, <1>2, <1>5, <2>1, <2>2, <2>3
<1>15. CASE Deliver
  <2>1. UNCHANGED <<proc, at, cur, res, given, answers>>
    BY <1>15 DEF Deliver, call
  <2>2. ~Nothing
    <3>1. Len(net) # 0
      <4>1. PICK n \in 1 .. Len(net) : TRUE
        BY <1>15 DEF Deliver
      <4> QED
        BY <4>1, Shape
    <3>2. Len(<<>>) = 0
      OBVIOUS
    <3> QED
      BY <3>1, <3>2 DEF Nothing
  <2>3. Ahead => Ahead'
    <3> SUFFICES ASSUME Ahead
                 PROVE  Ahead'
      OBVIOUS
    <3>1. ~Between /\ at # "write" /\ ~(at = "respond" /\ res.answer # NoAnswer)
      BY <2>2 DEF Ahead
    <3>2. CASE at = "wait"
      <4>1. PICK k \in 1 .. Len(answers) : ToCurrent(k) /\ Left(k)
        BY <2>2, <3>2 DEF Ahead
      <4>2. Left(k)' /\ ToCurrent(k)' /\ k \in 1 .. Len(answers')
        BY <1>15, <2>1, <4>1, LeftDelivered DEF ToCurrent
      <4> QED
        BY <2>1, <3>2, <4>2 DEF Ahead, Between
    <3>3. CASE at # "wait"
      BY <2>1, <3>1, <3>3 DEF Ahead, Between
    <3> QED
      BY <3>2, <3>3
  <2>4. Between' <=> Between
    BY <2>1 DEF Between
  <2> QED
    BY <1>1, <1>2, <1>4, <1>5, <2>1, <2>3, <2>4
<1>16. ASSUME NEW k \in 1 .. Len(calls), NEW type \in {"data", "error"}, Answer(k, type)
       PROVE  Owned'
  <2>1. UNCHANGED <<proc, at, cur, res, given>>
    BY <1>16 DEF Answer, call
  <2>2. Between' <=> Between
    BY <2>1 DEF Between
  <2>3. ASSUME Clean'
        PROVE  Ahead'
    <3>1. /\ k = cur /\ at \in {"wait", "respond"} /\ (at = "wait" => Nothing)
          /\ (at = "respond" => res.answer = NoAnswer)
      BY <1>1, <1>16, <2>3, OnlyCurrent DEF Clean
    <3>2. CASE at = "respond"
      BY <2>1, <3>1, <3>2 DEF Ahead, Between
    <3>3. CASE at = "wait"
      <4>1. PICK m \in Nat : m = Len(answers) + 1
        BY Shape
      <4>2. Left(m)'
        BY <1>16, <3>1, <3>3, <4>1, NewAnswer
      <4>3. m \in 1 .. Len(answers') /\ answers'[m].call = cur'
        <5>1. Len(answers') = Len(answers) + 1 /\ answers'[Len(answers) + 1].call = k
          BY <1>16, OneLonger
        <5> QED
          BY <2>1, <3>1, <4>1, <5>1, Shape
      <4> QED
        BY <2>1, <3>3, <4>2, <4>3 DEF Ahead, Between, ToCurrent
    <3> QED
      BY <3>1, <3>2, <3>3
  <2> QED
    BY <1>1, <1>2, <1>4, <1>5, <2>1, <2>2, <2>3
<1> QED
  BY <1>4, <1>6, <1>7, <1>8, <1>9, <1>10, <1>11, <1>12, <1>13, <1>14, <1>15, <1>16 DEF Next, Client, Server

LEMMA OwnedCorrect == Spec => [](Typed /\ Tabled /\ Sent /\ Owned)
<1>1. Init => Sent /\ Owned
  BY SentInit, OwnedInit
<1>2. Typed /\ Tabled /\ Sent /\ Owned /\ [Next]_vars => (Sent /\ Owned)'
  BY ClientAssumption, SentNext, OwnedNext
<1> QED
  BY <1>1, <1>2, ShapeCorrect, PTL DEF Spec

\* MisdeliveredOnlyIf: an answer reaches the RespHandler of another call, or
\* the process goes wrong, only if the server answered twice, a RespHandler
\* called Do, or ReadNmidRes took something else for an answer; answers carry
\* no call's number, so this is all that ties them to their calls.
THEOREM NeverMisdelivered == Spec => []MisdeliveredOnlyIf
<1>1. Typed /\ Owned => MisdeliveredOnlyIf
  BY DEF Owned, Clean, Rightly, MisdeliveredOnlyIf
<1> QED
  BY <1>1, OwnedCorrect, PTL

-----------------------------------------------------------------------------
(* Answers that arrive whole, one to a request.                            *)

\* What a read finds then: a header, or the body that goes with it.
LEMMA WholeRead ==
    ASSUME ClientAssumption, Typed, Intact, Reading
    PROVE  \E k \in 1 .. Len(answers) :
               /\ ToCurrent(k) /\ Left(k) /\ Bytes[1][1] = k
               /\ IF res.hread
                  THEN /\ answers[k].type = "data" /\ Count = BodySize /\ Bytes[1][2] = MinDataSize + 1
                       /\ Len(net) + Len(inbox) = BodySize
                  ELSE /\ Count = MinDataSize /\ Bytes[1][2] = 1
                       /\ Len(net) + Len(inbox) = Size(k)
<1>1. inbox # <<>> /\ at = "wait" /\ ~Nothing
  BY DEF Reading, Nothing
<1>2. PICK k \in 1 .. Len(answers) :
          /\ ToCurrent(k) /\ Left(k)
          /\ IF res.hread THEN answers[k].type = "data" /\ Len(net) + Len(inbox) = BodySize
                          ELSE Len(net) + Len(inbox) = Size(k)
  BY <1>1 DEF Intact
<1>3. /\ inbox[1] = <<k, Size(k) - Len(net) - Len(inbox) + 1>>
      /\ Size(k) \in Nat /\ Len(net) + Len(inbox) <= Size(k)
  BY <1>2, LeftRead
<1>4. /\ Count \in 1 .. Len(inbox) /\ Count <= res.size /\ (Count = res.size \/ Count = Len(inbox))
      /\ Bytes[1] = inbox[1]
  BY Takes
<1>5. /\ Len(net) \in Nat /\ Len(inbox) \in Nat /\ MinDataSize \in Nat \ {0} /\ BodySize \in Nat
      /\ BodySize > MinDataSize
  BY Shape
<1> HIDE DEF Count
<1>6. Bytes[1][1] = k /\ Bytes[1][2] = Size(k) - Len(net) - Len(inbox) + 1
  BY <1>3, <1>4
<1> DEFINE z == Size(k)
           a == Len(inbox)
           b == Len(net)
           l == inbox[Len(inbox)]
<1>7. l = <<k, z - b>>
  <2>1. a \in 1 .. a /\ z - b - a + a = z - b
    BY <1>3, <1>4, <1>5
  <2> QED
    BY <1>2, <2>1 DEF Left
<1>8. z - b = MinDataSize \/ (answers[k].type = "data" /\ z - b = MinDataSize + BodySize)
  <2>1. EndsPart(l)
    BY <1>1 DEF Intact, Complete
  <2> HIDE DEF l, z, a, b
  <2>2. l[1] = k /\ l[2] = z - b
    BY <1>7
  <2> QED
    BY <2>1, <2>2 DEF EndsPart
<1>9. z = MinDataSize + (IF answers[k].type = "data" THEN BodySize ELSE 0)
  BY DEF Size
<1>a. a \in Nat /\ b \in Nat /\ z \in Nat /\ Count \in 1 .. a /\ b + a <= z
  BY <1>3, <1>4, <1>5
<1> HIDE DEF z, a, b, l
<1>10. CASE res.hread
  <2>1. answers[k].type = "data" /\ b + a = BodySize /\ res.size = BodySize
    BY <1>1, <1>2, <1>10 DEF Intact, a, b
  <2>2. z = MinDataSize + BodySize
    BY <1>9, <2>1
  <2>3. z - b = MinDataSize + BodySize
    <3>1. z - b # MinDataSize
      BY <1>5, <1>a, <2>1, <2>2
    <3> QED
      BY <1>8, <3>1
  <2>4. b = 0 /\ a = BodySize
    BY <1>5, <1>a, <2>1, <2>2, <2>3
  <2>5. Count = BodySize
    BY <1>4, <2>1, <2>4 DEF a
  <2>6. z - b - a + 1 = MinDataSize + 1
    BY <1>5, <1>a, <2>2, <2>4
  <2> QED
    BY <1>2, <1>6, <1>10, <2>1, <2>5, <2>6 DEF a, b, z
<1>11. CASE ~res.hread
  <2>1. b + a = z /\ res.size = MinDataSize
    BY <1>2, <1>11 DEF Intact, a, b, z
  <2>2. a >= MinDataSize
    BY <1>5, <1>8, <1>a, <2>1
  <2>3. Count = MinDataSize
    BY <1>4, <1>5, <1>a, <2>1, <2>2 DEF a
  <2>4. z - b - a + 1 = 1
    BY <1>a, <2>1
  <2> QED
    BY <1>2, <1>6, <1>11, <2>1, <2>3, <2>4 DEF a, b, z
<1> QED
  BY <1>10, <1>11

\* So every read is of a whole header or body, and leaves a whole body or
\* nothing.
LEMMA IntactRead ==
    ASSUME ClientAssumption, Typed, Intact, ReadDropped \/ ReadHeader \/ ReadBody
    PROVE  Intact'
<1>1. Reading /\ at = "wait"
  BY DEF ReadDropped, ReadHeader, ReadBody, Reading
<1>2. PICK k \in 1 .. Len(answers) :
          /\ ToCurrent(k) /\ Left(k) /\ Bytes[1][1] = k
          /\ IF res.hread
             THEN /\ answers[k].type = "data" /\ Count = BodySize /\ Bytes[1][2] = MinDataSize + 1
                  /\ Len(net) + Len(inbox) = BodySize
             ELSE /\ Count = MinDataSize /\ Bytes[1][2] = 1
                  /\ Len(net) + Len(inbox) = Size(k)
  BY <1>1, WholeRead
<1>3. /\ Count \in 1 .. Len(inbox) /\ inbox' \in Seq(Bytewise) /\ Len(inbox') = Len(inbox) - Count
      /\ \A i \in 1 .. Len(inbox) - Count : inbox'[i] = inbox[Count + i]
      /\ UNCHANGED <<proc, calls, cur, outer, table, given, wire, seen, answers, net, closed, connects, base>>
  BY <1>1, Takes
<1>4. /\ Left(k)' /\ Len(net') + Len(inbox') = Len(net) + Len(inbox) - Count
      /\ Size(k) \in Nat /\ Size(k)' = Size(k)
  BY <1>1, <1>2, LeftRead
<1>5. /\ Len(net) \in Nat /\ Len(inbox) \in Nat /\ MinDataSize \in Nat \ {0} /\ BodySize \in Nat
      /\ BodySize > MinDataSize /\ res \in Responses /\ k \in Nat /\ k # NoAnswer
  BY Shape DEF NoAnswer
<1> HIDE DEF Count
<1>6. Clean'
  BY <1>3 DEF Intact, Clean, AnsweredTwice, Misled
<1>7. Complete'
  <2> SUFFICES ASSUME inbox' # <<>>
               PROVE  Complete'
    BY DEF Complete
  <2>1. Len(inbox') \in Nat \ {0}
    BY <1>3, EmptySeq
  <2>2. Len(inbox') \in 1 .. Len(inbox) - Count /\ Count + Len(inbox') = Len(inbox)
    BY <1>3, <1>5, <2>1
  <2>3. inbox'[Len(inbox')] = inbox[Len(inbox)]
    BY <1>3, <2>2
  <2>4. EndsPart(inbox[Len(inbox)])
    <3>1. inbox # <<>>
      BY <1>1 DEF Reading
    <3> QED
      BY <3>1 DEF Intact, Complete
  <2> QED
    BY <1>3, <2>3, <2>4 DEF EndsPart, Complete
<1>8. ToCurrent(k)' /\ k \in 1 .. Len(answers')
  BY <1>2, <1>3 DEF ToCurrent
<1>9. ~ReadDropped
  BY <1>2, <1>5 DEF ReadDropped
<1>10. CASE ReadBody
  <2>1. res.hread /\ at' = "respond" /\ res' = [res EXCEPT !.answer = k]
    BY <1>2, <1>10 DEF ReadBody
  <2>2. res'.hread /\ res'.answer # NoAnswer
    BY <1>5, <2>1 DEF Responses
  <2> QED
    BY <1>6, <1>7, <2>1, <2>2 DEF Intact
<1>11. CASE ReadHeader
  <2>1. ~res.hread /\ Count = MinDataSize /\ Bytes[1][2] = 1 /\ Len(net) + Len(inbox) = Size(k)
    BY <1>2, <1>11 DEF ReadHeader
  <2>2. \/ /\ answers[k].type = "data" /\ at' = "wait"
           /\ res' = [res EXCEPT !.hread = TRUE, !.type = "data", !.size = BodySize]
        \/ /\ at' = "respond"
           /\ res' = [res EXCEPT !.hread = TRUE, !.type = "error", !.answer = k]
    BY <1>1, <1>2, <1>11, <2>1 DEF ReadHeader
  <2>3. CASE at' = "wait"
    <3>1. answers[k].type = "data" /\ res'.hread /\ res'.type = "data" /\ res'.size = BodySize
      BY <1>5, <2>2, <2>3 DEF Responses
    <3>2. Size(k) = MinDataSize + BodySize
      BY <3>1 DEF Size
    <3>3. Len(net') + Len(inbox') = BodySize
      BY <1>4, <1>5, <2>1, <3>2
    <3>4. answers'[k].type = "data"
      BY <1>3, <3>1
    <3> QED
      BY <1>4, <1>6, <1>7, <1>8, <2>3, <3>1, <3>3, <3>4 DEF Intact
  <2>4. CASE at' = "respond"
    <3>1. res'.hread /\ res'.answer # NoAnswer
      BY <1>5, <2>2, <2>4 DEF Responses
    <3> QED
      BY <1>6, <1>7, <2>4, <3>1 DEF Intact
  <2> QED
    BY <2>2, <2>3, <2>4
<1> QED
  BY <1>9, <1>10, <1>11

\* A request that has been answered is not answered again.
LEMMA AnsweredOnce ==
    ASSUME ClientAssumption, Typed, Whole, ~AnsweredTwice,
           NEW k \in 1 .. Len(calls), NEW type \in {"data", "error"}, Answer(k, type)
    PROVE  ~AnsweredTwice'
<1>1. Len(answers) \in Nat
  BY Shape
<1>2. Extra \in SUBSET (1 .. Len(answers))
  BY DEF Extra
<1>3. IsFiniteSet(1 .. Len(answers))
  BY <1>1, FS_Interval
<1>4. IsFiniteSet(Extra)
  BY <1>2, <1>3, FS_Subset
<1>5. Cardinality(Extra) \in Nat
  BY <1>4, FS_CardinalityType
<1>6. ~(Cardinality(Extra) < 0)
  BY <1>5
<1>7. ~Answered(k)
  BY <1>6 DEF Answer, MayAnswer, Whole
<1>8. \A i \in 1 .. Len(answers) : answers[i].call # k
  BY <1>7 DEF Answered
<1>9. /\ Len(answers') = Len(answers) + 1 /\ answers'[Len(answers) + 1].call = k
      /\ \A i \in 1 .. Len(answers) : answers'[i] = answers[i]
  BY OneLonger
<1>10. \A i \in 1 .. Len(answers') : i \in 1 .. Len(answers) \/ i = Len(answers) + 1
  BY <1>1, <1>9
<1> QED
  BY <1>8, <1>9, <1>10 DEF AnsweredTwice

LEMMA IntactInit == ClientAssumption /\ Init => Intact
<1> SUFFICES ASSUME ClientAssumption, Init
             PROVE  Intact
  OBVIOUS
<1>1. /\ answers = <<>> /\ outer = NoCall /\ given = {} /\ inbox = <<>> /\ at = "new"
      /\ ~res.hread /\ res.size = MinDataSize
  BY DEF Init, NewResponse
<1>2. ~AnsweredTwice
  <2>1. Len(answers) = 0
    BY <1>1
  <2> QED
    BY <2>1 DEF AnsweredTwice
<1> QED
  BY <1>1, <1>2 DEF Intact, Clean, Misled, Complete

LEMMA IntactNext ==
    Whole /\ ClientAssumption /\ Typed /\ Tabled /\ Sent /\ Owned /\ Intact /\ [Next]_vars => Intact'
<1> SUFFICES ASSUME Whole, ClientAssumption, Typed, Tabled, Sent, Owned, Intact, [Next]_vars
             PROVE  Intact'
  OBVIOUS
<1>1. Clean /\ Rightly /\ Ahead /\ Complete /\ ~AnsweredTwice /\ outer = NoCall /\ ~Misled
  BY DEF Intact, Owned, Clean
<1>2. ASSUME UNCHANGED <<answers, outer>>, \A p \in given' : p \in given \/ p[2] # NoAnswer
      PROVE  Clean'
  BY <1>1, <1>2 DEF Clean, AnsweredTwice, Misled
<1>3. ASSUME UNCHANGED <<answers, outer, given, inbox, net, res, cur>>,
             at' = at \/ (at' # "wait" /\ at' # "respond" /\ at' # "write")
      PROVE  Intact'
  <2>0. Clean'
    BY <1>2, <1>3
  <2>1. Complete'
    <3>1. answers' = answers /\ inbox' = inbox
      BY <1>3
    <3>2. Complete
      BY <1>1
    <3> QED
      BY <3>1, <3>2 DEF Complete, EndsPart
  <2>2. CASE at' = at
    <3>1. UNCHANGED <<answers, inbox, net, res, cur, at>>
      BY <1>3, <2>2
    <3>2. Nothing' <=> Nothing
      BY <3>1 DEF Nothing
    <3>3. ASSUME NEW k
          PROVE  (ToCurrent(k)' <=> ToCurrent(k)) /\ (Left(k)' <=> Left(k)) /\ Size(k)' = Size(k)
      BY <3>1 DEF ToCurrent, Left, Size
    <3> QED
      BY <2>0, <2>1, <3>1, <3>2, <3>3 DEF Intact
  <2>3. CASE at' # "wait" /\ at' # "respond" /\ at' # "write"
    BY <1>3, <2>0, <2>1, <2>3 DEF Intact
  <2> QED
    BY <1>3, <2>2, <2>3
<1>4. CASE UNCHANGED vars
  BY <1>3, <1>4 DEF vars, call, server
<1>5. SUFFICES ASSUME proc = "run", Next
               PROVE  Intact'
  BY <1>4 DEF Next
<1>6. ASSUME NEW f \in Funcs, Do(f)
      PROVE  Intact'
  <2>1. /\ at' = "write" /\ res' = NewResponse /\ Between
        /\ UNCHANGED <<answers, outer, given, inbox, net>>
    BY <1>6, Begins DEF Do, server, Between
  <2>2. ~res'.hread /\ res'.size = MinDataSize
    BY <2>1 DEF NewResponse
  <2>3. Clean'
    BY <1>2, <2>1
  <2>4. Complete'
    BY <1>1, <2>1 DEF Complete, Ahead, Nothing
  <2> QED
    BY <2>1, <2>2, <2>3, <2>4 DEF Intact
<1>7. CASE Connect
  <2>1. at' = "idle" /\ inbox' = <<>> /\ UNCHANGED <<answers, outer, given, res>>
    BY <1>7 DEF Connect, call
  <2>2. Clean'
    BY <1>2, <2>1
  <2>3. res.hread \/ res.size = MinDataSize
    BY DEF Intact
  <2> QED
    BY <2>1, <2>2, <2>3 DEF Intact, Complete
<1>8. CASE WriteEvent
  <2>1. /\ at = "write" /\ at' \in {"write", "wait"}
        /\ UNCHANGED <<answers, outer, given, inbox, net, res, cur>>
    BY <1>8 DEF WriteEvent, AfterWrite, call, server
  <2>2. Nothing' /\ ~res.hread /\ res.size = MinDataSize
    BY <1>1, <2>1 DEF Ahead, Nothing, Intact
  <2>3. Clean' /\ Complete'
    BY <1>2, <2>1, <2>2 DEF Complete, Nothing
  <2> QED
    BY <2>1, <2>2, <2>3 DEF Intact
<1>9. ASSUME Finish, at = "respond", UNCHANGED <<answers, inbox, net>>,
             \A p \in given' : p \in given \/ p[2] # NoAnswer
      PROVE  Intact'
  <2>1. at' = "idle" /\ UNCHANGED <<outer, res>>
    BY <1>9 DEF Finish
  <2>2. Clean' /\ Complete'
    BY <1>1, <1>2, <1>9, <2>1 DEF Complete, EndsPart
  <2>3. res.hread \/ res.size = MinDataSize
    BY DEF Intact
  <2> QED
    BY <2>1, <2>2, <2>3 DEF Intact
<1>10. CASE Respond
  <2>1. /\ at = "respond" /\ given' = given \cup {<<table[First(Handle)].call, res.answer>>}
        /\ UNCHANGED <<answers, inbox, net>>
    BY <1>10 DEF Respond, server
  <2>2. res.answer # NoAnswer
    BY <2>1 DEF Intact
  <2>3. Finish
    BY <1>10 DEF Respond, Whole
  <2>4. <<table[First(Handle)].call, res.answer>>[2] = res.answer
    OBVIOUS
  <2> QED
    BY <1>9, <2>1, <2>2, <2>3, <2>4
<1>11. ~RespondGarbled
  BY DEF RespondGarbled, Garbled, Intact
<1>12. CASE ReadDropped \/ ReadHeader \/ ReadBody
  BY <1>12, IntactRead
<1>13. CASE Close \/ Crash \/ ServerReceive \/ ServerClose \/ BrokenPipe
  BY <1>3, <1>13 DEF Close, Crash, ServerReceive, ServerClose, BrokenPipe, call, server
<1>14. CASE Deliver
  <2>1. UNCHANGED <<at, outer, given, res, answers, cur>>
    BY <1>14 DEF Deliver, call
  <2>2. PICK n \in 1 .. Len(net) :
            /\ EndsPart(net[n])
            /\ inbox' = inbox \o SubSeq(net, 1, n) /\ net' = SubSeq(net, n + 1, Len(net))
    BY <1>14 DEF Deliver, Whole
  <2>3. Clean'
    BY <1>2, <2>1
  <2>4. /\ Len(inbox') = Len(inbox) + n /\ inbox'[Len(inbox) + n] = net[n] /\ n >= 1
    <3>1. Len(inbox') = Len(inbox) + n /\ \A i \in 1 .. n : inbox'[Len(inbox) + i] = net[i]
      BY <2>2, Delivers
    <3>2. n \in 1 .. n /\ n >= 1
      BY <2>2, Shape
    <3> QED
      BY <3>1, <3>2
  <2>5. Complete'
    BY <2>1, <2>2, <2>4 DEF Complete, EndsPart
  <2>6. ~Nothing
    <3>1. Len(<<>>) = 0 /\ Len(net) \in Nat /\ Len(net) # 0
      BY <2>2, Shape
    <3> QED
      BY <3>1 DEF Nothing
  <2>7. ASSUME NEW k \in 1 .. Len(answers), ToCurrent(k), Left(k)
        PROVE  /\ ToCurrent(k)' /\ Left(k)' /\ Len(net') + Len(inbox') = Len(net) + Len(inbox)
               /\ k \in 1 .. Len(answers') /\ Size(k)' = Size(k) /\ answers'[k] = answers[k]
    BY <1>14, <2>1, <2>7, LeftDelivered DEF ToCurrent, Size
  <2>8. CASE at = "wait" /\ ~res.hread
    <3>1. PICK k \in 1 .. Len(answers) : ToCurrent(k) /\ Left(k) /\ Len(net) + Len(inbox) = Size(k)
      BY <2>6, <2>8 DEF Intact
    <3>2. /\ ToCurrent(k)' /\ Left(k)' /\ Len(net') + Len(inbox') = Size(k)' /\ k \in 1 .. Len(answers')
      BY <2>7, <3>1
    <3>3. res.size = MinDataSize
      BY <2>8 DEF Intact
    <3> QED
      BY <2>1, <2>3, <2>5, <2>8, <3>2, <3>3 DEF Intact
  <2>9. CASE at = "wait" /\ res.hread
    <3>1. PICK k \in 1 .. Len(answers) : /\ ToCurrent(k) /\ Left(k) /\ answers[k].type = "data"
                                         /\ Len(net) + Len(inbox) = BodySize
      BY <2>9 DEF Intact
    <3>2. /\ ToCurrent(k)' /\ Left(k)' /\ answers'[k].type = "data" /\ Len(net') + Len(inbox') = BodySize
          /\ k \in 1 .. Len(answers')
      BY <2>7, <3>1
    <3>3. res.size = BodySize /\ res.type = "data"
      BY <2>9 DEF Intact
    <3> QED
      BY <2>1, <2>3, <2>5, <2>9, <3>2, <3>3 DEF Intact
  <2>10. CASE at # "wait"
    BY <2>1, <2>3, <2>5, <2>10 DEF Intact
  <2> QED
    BY <2>8, <2>9, <2>10
<1>15. ASSUME NEW k \in 1 .. Len(calls), NEW type \in {"data", "error"}, Answer(k, type)
       PROVE  Intact'
  <2>1. UNCHANGED <<at, cur, outer, given, res, inbox>>
    BY <1>15 DEF Answer, call
  <2>2. ~AnsweredTwice'
    BY <1>1, <1>15, AnsweredOnce
  <2>3. k = cur /\ at = "wait" /\ Nothing
    <3>1. /\ k = cur /\ at \in {"wait", "respond"} /\ (at = "wait" => Nothing)
          /\ (at = "respond" => res.answer = NoAnswer)
      BY <1>1, <1>15, <2>2, OnlyCurrent
    <3> QED
      BY <3>1 DEF Intact
  <2>4. Clean' /\ Complete'
    BY <1>1, <2>1, <2>2, <2>3 DEF Clean, Misled, Complete, Nothing
  <2>5. PICK m \in Nat : m = Len(answers) + 1
    BY Shape
  <2>6. Left(m)' /\ Len(net') + Len(inbox') = Size(m)'
    BY <1>15, <2>3, <2>5, NewAnswer
  <2>7. m \in 1 .. Len(answers') /\ ToCurrent(m)'
    <3>1. Len(answers') = Len(answers) + 1 /\ answers'[Len(answers) + 1].call = k
      BY <1>15, OneLonger
    <3> QED
      BY <2>1, <2>3, <2>5, <3>1, Shape DEF ToCurrent
  <2>8. ~res.hread /\ res.size = MinDataSize
    <3>1. ~res.hread
      <4> SUFFICES ASSUME res.hread
                   PROVE  FALSE
        OBVIOUS
      <4>1. Len(net) + Len(inbox) = BodySize
        BY <2>3 DEF Intact
      <4>2. Len(net) = 0 /\ Len(inbox) = 0
        BY <2>3 DEF Nothing
      <4> QED
        BY <4>1, <4>2, Shape
    <3> QED
      BY <3>1 DEF Intact
  <2> QED
    BY <2>1, <2>3, <2>4, <2>6, <2>7, <2>8 DEF Intact
<1> QED
  BY <1>5, <1>6, <1>7, <1>8, <1>10, <1>11, <1>12, <1>13, <1>14, <1>15 DEF Next, Client, Server

\* OwnAnswer: as long as the server answers a request once, parts arrive whole
\* and RespHandlers do not call Do, every call that has returned has run its
\* own RespHandler once, with the answer to its own request, over any number
\* of calls and connections and whatever becomes of the writes.
THEOREM EachOwnAnswer ==
    ASSUME Whole
    PROVE  Spec => []OwnAnswer
<1>1. Init => Intact
  BY ClientAssumption, IntactInit
<1>2. Typed /\ Tabled /\ Sent /\ Owned /\ Intact /\ [Next]_vars => Intact'
  BY ClientAssumption, IntactNext
<1>3. Typed /\ Owned /\ Intact => OwnAnswer
  <2> SUFFICES ASSUME Typed, Owned, Intact
               PROVE  OwnAnswer
    OBVIOUS
  <2>1. Rightly /\ cur \in Nat
    BY ClientAssumption, Shape DEF Owned, Intact
  <2>2. \A p \in given : p[2] # NoAnswer /\ answers[p[2]].call = p[1]
    BY <2>1 DEF Rightly, NoAnswer
  <2>3. ASSUME NEW k \in 1 .. MaxCalls, k < cur \/ (k = cur /\ at = "idle")
        PROVE  Cardinality({p \in given : p[1] = k}) = 1
    <3>1. Returned(k) /\ k \in 1 .. cur
      BY <2>1, <2>3 DEF Returned, Between
    <3>2. PICK a \in 1 .. Len(answers) : GivenTo(k) = {<<k, a>>}
      BY <2>1, <3>1 DEF Rightly
    <3> QED
      BY <3>2, FS_Singleton DEF GivenTo
  <2> QED
    BY <2>2, <2>3 DEF OwnAnswer
<1> QED
  BY <1>1, <1>2, <1>3, OwnedCorrect, PTL DEF Spec
=============================================================================
