----------------------------- MODULE ClientCall -----------------------------
(***************************************************************************)
(* A client and its connection to the server (client/client.c,             *)
(* client/rw.c): Do sends one request and runs an event loop of its own    *)
(* until the answer has been passed to the caller's RespHandler.  Answers  *)
(* carry the name of the function, not the call they belong to; the        *)
(* handler is found by that name in the table c->respHandles.              *)
(*                                                                         *)
(* The stream from the server is a sequence of bytes <<k, i>>: byte i of   *)
(* the server's k-th answer.  The stream to the server is a sequence of    *)
(* parts, one for each write call.                                         *)
(***************************************************************************)
EXTENDS Integers, Sequences, FiniteSets

CONSTANTS
    Funcs,          \* names of functions
    MinDataSize,    \* bytes of a header (MIN_DATA_SIZE, 12 in the code)
    BodySize,       \* bytes of the body of an answer with data
    MaxCalls,       \* bound: calls of Do
    MaxConnects,    \* bound: calls of Connect
    MaxExtra,       \* bound: answers beyond the first to a request, in all
    MaxParts,       \* bound: parts written
    Fragmented,     \* whether TCP may deliver a part of an answer in pieces
    WriteOutcomes,  \* what a write call can do: "full", "short", "none"
    Nesting,        \* whether a RespHandler may call Do
    MayClose        \* whether the server may close the connection

ASSUME ClientAssumption ==
    /\ MinDataSize \in Nat \ {0} /\ BodySize \in Nat /\ BodySize > MinDataSize
    /\ MaxCalls \in Nat /\ MaxConnects \in Nat /\ MaxExtra \in Nat /\ MaxParts \in Nat
    /\ Fragmented \in BOOLEAN /\ Nesting \in BOOLEAN /\ MayClose \in BOOLEAN
    /\ WriteOutcomes \subseteq {"full", "short", "none"} /\ "full" \in WriteOutcomes

VARIABLES
    proc,     \* the process: "run", or how it ended
    at,       \* where Do is, "idle", or "new" before Connect
    connects, \* successful calls of Connect
    base,     \* how many parts were written before the last of them
    calls,    \* the function of each call of Do so far
    cur,      \* the call c->Req belongs to
    outer,    \* the call whose RespHandler made this one, or NoCall
    table,    \* c->respHandles: the entries with one key, newest first
    res,      \* c->Res
    given,    \* history: <<call, answer>> for every RespHandler that was run
    wire,     \* the parts written
    seen,     \* how many of them the server has processed
    answers,  \* the server's answers
    net,      \* bytes sent by the server and not arrived yet
    inbox,    \* bytes in the client's receive buffer
    closed    \* whether the server has closed the connection

vars == <<proc, at, connects, base, calls, cur, outer, table, res, given, wire, seen, answers,
          net, inbox, closed>>
call == <<calls, cur, outer>>
connection == <<connects, base>>
server == <<seen, answers, net, closed, connection>>

-----------------------------------------------------------------------------
NoCall == 0
NoAnswer == 0
FuncOf(k) == calls[k]

Parts == [part : {"head", "body"}, call : 1 .. MaxCalls, whole : BOOLEAN]
Part(p) == [part |-> p, call |-> cur, whole |-> TRUE]
Write(w, p, outcome) ==
    CASE outcome = "full"  -> Append(w, p)
      [] outcome = "short" -> Append(w, [p EXCEPT !.whole = FALSE])
      [] outcome = "none"  -> w

NewResponse == [hread |-> FALSE, size |-> MinDataSize, type |-> "none", answer |-> NoAnswer]
Responses == [hread : BOOLEAN, size : {MinDataSize, BodySize},
              type : {"none", "data", "error"}, answer : Nat]

Init ==
    /\ proc = "run" /\ at = "new" /\ connects = 0 /\ base = 0 /\ calls = <<>> /\ cur = NoCall /\ outer = NoCall
    /\ table = <<>> /\ res = NewResponse /\ given = {}
    /\ wire = <<>> /\ seen = 0 /\ answers = <<>> /\ net = <<>> /\ inbox = <<>>
    /\ closed = FALSE

-----------------------------------------------------------------------------
(* The table: hash_insert puts an entry before those of the same name,     *)
(* hash_lookup and hash_remove find the first one.                         *)

NotInserted(f, k) == table
Inserted(f, k) == <<[key |-> f, call |-> k]>> \o table
Found(f) == {i \in 1 .. Len(table) : table[i].key = f}
First(f) == CHOOSE i \in Found(f) : \A j \in Found(f) : i <= j
NotRemoved(f) == table
Removed(f) ==
    IF Found(f) = {} THEN table
    ELSE SubSeq(table, 1, First(f) - 1) \o SubSeq(table, First(f) + 1, Len(table))

-----------------------------------------------------------------------------
(* Connect and Close. Connect takes a new socket, whatever became of the    *)
(* last one: what has not been read from that is never read.               *)

Connect ==
    /\ at \in {"new", "idle"} /\ connects < MaxConnects
    /\ at' = "idle" /\ connects' = connects + 1
    /\ base' = Len(wire) /\ seen' = Len(wire)
    /\ net' = <<>> /\ inbox' = <<>> /\ closed' = FALSE
    /\ UNCHANGED <<proc, call, table, res, given, wire, answers>>

\* hash_destroy frees the entries; the client is freed too.
Close ==
    /\ at \in {"new", "idle"}
    /\ proc' = "done" /\ table' = <<>>
    /\ UNCHANGED <<at, call, res, given, wire, server, inbox>>

-----------------------------------------------------------------------------
(* Do, up to the event loop.                                               *)

ReusedResponse == [res EXCEPT !.size = MinDataSize]
EmptyBuffer == [NewResponse EXCEPT !.size = 0]
FreshResponse == NewResponse

Begin(f) ==
    /\ Len(calls) < MaxCalls
    /\ calls' = Append(calls, f) /\ cur' = Len(calls) + 1
    /\ res' = FreshResponse
    /\ table' = Inserted(f, Len(calls) + 1)
    /\ at' = "write"

Do(f) ==
    /\ at = "idle"
    /\ Begin(f)
    /\ UNCHANGED <<proc, outer, given, wire, server, inbox>>

\* rw_handler on EV_WRITE. WriteNmidReq writes the header and the body; unless
\* the whole body went out it is called again and starts from the header.
RewriteAlways(o) == TRUE
MustRewrite(o) == o # "full"
AfterWrite == "wait"

WriteEvent ==
    /\ at = "write" /\ Len(wire) < MaxParts
    /\ \E o1, o2 \in WriteOutcomes :
         /\ wire' = Write(Write(wire, Part("head"), o1), Part("body"), o2)
         /\ at' = IF MustRewrite(o2) THEN "write" ELSE AfterWrite
    /\ UNCHANGED <<proc, call, table, res, given, server, inbox>>

-----------------------------------------------------------------------------
(* rw_handler on EV_READ. When the server has closed the connection        *)
(* ReadNmidRes returns 0 at once, again and again: Do does not return.     *)

Count == IF Len(inbox) < res.size THEN Len(inbox) ELSE res.size
Bytes == SubSeq(inbox, 1, Count)

Reading ==
    /\ at = "wait" /\ inbox # <<>>
    /\ inbox' = SubSeq(inbox, Count + 1, Len(inbox))
    /\ UNCHANGED <<proc, call, table, given, wire, server>>

\* continue: the bytes are lost.
ReadDropped ==
    /\ Reading
    /\ Count < MinDataSize \/ (Count > MinDataSize /\ ~res.hread)
    /\ UNCHANGED <<at, res>>

\* A header. What follows one of an answer with data is its body; any other
\* answer is complete. Bytes that are no header pass for one of a server only
\* by chance, and are refused otherwise.
ReadHeader ==
    /\ Reading
    /\ Count = MinDataSize /\ ~res.hread
    /\ LET k == Bytes[1][1]
           aligned == Bytes[1][2] = 1
       IN \/ /\ aligned => answers[k].type = "data"
             /\ res' = [res EXCEPT !.hread = TRUE, !.type = "data", !.size = BodySize]
             /\ at' = at
          \/ /\ aligned => answers[k].type = "error"
             /\ res' = [res EXCEPT !.hread = TRUE, !.type = "error",
                                   !.answer = IF aligned THEN k ELSE NoAnswer]
             /\ at' = "respond"
          \/ /\ ~aligned
             /\ res' = [res EXCEPT !.hread = TRUE]
             /\ at' = at

\* The body: answer k's if these are its bytes, anything else otherwise.
ReadBody ==
    /\ Reading
    /\ Count >= MinDataSize /\ res.hread
    /\ LET k == Bytes[1][1]
           intact == Bytes[1][2] = MinDataSize + 1 /\ Count = BodySize
       IN res' = [res EXCEPT !.answer = IF intact THEN k ELSE NoAnswer]
    /\ at' = "respond"

-----------------------------------------------------------------------------
(* The end of ReadNmidRes and of rw_handler.                               *)

\* Res->handle: the name in the body, the request's name without a body.
Handle == IF res.type = "error" THEN FuncOf(cur) ELSE FuncOf(answers[res.answer].call)

Garbled == res.answer = NoAnswer /\ res.type # "error"
Misnamed == ~Garbled /\ (Found(Handle) = {} \/ Handle # FuncOf(cur))

\* rw_handler after ReadNmidRes: the entry of c->Req's name goes, c->Req and
\* c->Res are freed and the loop ends. If the RespHandler called Do, they were
\* freed by that call, and are used again when it returns.
Finish ==
    /\ table' = Removed(FuncOf(cur))
    /\ outer' = outer
    /\ at' = "idle"
    /\ proc' = IF outer = NoCall THEN proc ELSE "ub"
    /\ UNCHANGED <<calls, cur, res>>

\* The RespHandler returns, or first calls Do for f.
Respond ==
    /\ at = "respond" /\ ~Garbled /\ ~Misnamed
    /\ given' = given \cup {<<table[First(Handle)].call, res.answer>>}
    /\ \/ Finish
       \/ /\ Nesting /\ outer = NoCall
          /\ \E f \in Funcs : Begin(f)
          /\ outer' = cur
          /\ UNCHANGED proc
    /\ UNCHANGED <<wire, server, inbox>>

\* No entry has the name: hash_lookup's null pointer is dereferenced. Or one
\* has, but the name is not the request's: resultData stays null and
\* FreeResponse dereferences it. A garbled body may do either, or pass for an
\* answer.
Crash ==
    /\ at = "respond" /\ (Misnamed \/ Garbled)
    /\ proc' = "ub"
    /\ UNCHANGED <<at, call, table, res, given, wire, server, inbox>>

RespondGarbled ==
    /\ at = "respond" /\ Garbled
    /\ given' = given \cup {<<cur, NoAnswer>>}
    /\ Finish
    /\ UNCHANGED <<wire, server, inbox>>
-----------------------------------------------------------------------------
(* The server and the network.                                             *)

IsRequest(i) ==
    /\ i + 1 <= Len(wire)
    /\ wire[i].part = "head" /\ wire[i].whole
    /\ wire[i + 1].part = "body" /\ wire[i + 1].whole

ServerReceive ==
    /\ ~closed /\ IsRequest(seen + 1)
    /\ seen' = seen + 2
    /\ UNCHANGED <<proc, at, call, table, res, given, wire, answers, net, inbox, closed, connection>>

Answered(k) == \E i \in 1 .. Len(answers) : answers[i].call = k
Extra == {i \in 1 .. Len(answers) : \E j \in 1 .. i - 1 : answers[j].call = answers[i].call}
Received(k) == \E i \in base + 1 .. seen : wire[i].part = "body" /\ wire[i].call = k
MayAnswer(k) ==
    /\ ~closed /\ Received(k)
    /\ Answered(k) => Cardinality(Extra) < MaxExtra

Frame(k, type) == [i \in 1 .. MinDataSize + (IF type = "data" THEN BodySize ELSE 0) |-> <<k, i>>]
EndsPart(b) ==
    b[2] = MinDataSize \/ (answers[b[1]].type = "data" /\ b[2] = MinDataSize + BodySize)

Answer(k, type) ==
    /\ MayAnswer(k)
    /\ answers' = Append(answers, [call |-> k, type |-> type])
    /\ net' = net \o Frame(Len(answers) + 1, type)
    /\ UNCHANGED <<proc, at, call, table, res, given, wire, seen, inbox, closed, connection>>

Deliver ==
    /\ \E n \in 1 .. Len(net) :
         /\ Fragmented \/ EndsPart(net[n])
         /\ inbox' = inbox \o SubSeq(net, 1, n)
         /\ net' = SubSeq(net, n + 1, Len(net))
    /\ UNCHANGED <<proc, at, call, table, res, given, wire, seen, answers, closed, connection>>

ServerClose ==
    /\ MayClose /\ at # "new" /\ ~closed
    /\ closed' = TRUE
    /\ UNCHANGED <<proc, at, call, table, res, given, wire, seen, answers, net, inbox, connection>>

\* A write after the server is gone raises SIGPIPE, which nobody handles.
BrokenPipe ==
    /\ closed /\ at = "write"
    /\ proc' = "sigpipe"
    /\ UNCHANGED <<at, call, table, res, given, wire, server, inbox>>

-----------------------------------------------------------------------------
Client ==
    \/ WriteEvent \/ ReadDropped \/ ReadHeader \/ ReadBody
    \/ Respond \/ Crash \/ RespondGarbled
Server ==
    \/ ServerReceive
    \/ \E k \in 1 .. Len(calls), type \in {"data", "error"} : Answer(k, type)

Next ==
    /\ proc = "run"
    /\ \/ \E f \in Funcs : Do(f)
       \/ Connect \/ Close \/ Client \/ Server \/ Deliver \/ ServerClose \/ BrokenPipe

Spec == Init /\ [][Next]_vars

\* The client's thread is scheduled, TCP delivers, and the server answers what
\* it has received; nothing makes the application call Do.
FairSpec ==
    /\ Spec
    /\ WF_vars(proc = "run" /\ Client)
    /\ WF_vars(proc = "run" /\ Deliver)
    /\ WF_vars(proc = "run" /\ Server)

-----------------------------------------------------------------------------
(* Properties.                                                             *)

\* The shape of every variable.
TypeOK ==
    /\ proc \in {"run", "done", "sigpipe", "ub"} /\ at \in {"new", "idle", "write", "wait", "respond"}
    /\ calls \in Seq(Funcs) /\ Len(calls) <= MaxCalls
    /\ connects \in 0 .. MaxConnects /\ base \in 0 .. Len(wire)
    /\ cur \in 0 .. Len(calls) /\ outer \in 0 .. Len(calls)
    /\ table \in Seq([key : Funcs, call : 1 .. MaxCalls]) /\ res \in Responses
    /\ given \subseteq (1 .. MaxCalls) \X Nat
    /\ wire \in Seq(Parts) /\ seen \in 0 .. Len(wire)
    /\ answers \in Seq([call : 1 .. MaxCalls, type : {"data", "error"}])
    /\ net \in Seq(Nat \X Nat) /\ inbox \in Seq(Nat \X Nat) /\ closed \in BOOLEAN

\* Every call that has returned ran its own RespHandler once, with the answer
\* to its own request, although answers do not say which call they are for.
OwnAnswer ==
    /\ \A p \in given : p[2] # NoAnswer /\ answers[p[2]].call = p[1]
    /\ \A k \in 1 .. MaxCalls : k < cur \/ (k = cur /\ at = "idle") =>
           Cardinality({p \in given : p[1] = k}) = 1

\* The table holds the handler of the call in progress and nothing else.
TableIsCall ==
    table = IF at \in {"new", "idle"} THEN <<>> ELSE <<[key |-> FuncOf(cur), call |-> cur]>>

\* The server gets each request at most once: a write that is repeated never
\* repeats a request that went out whole.
RequestOnce ==
    \A i, j \in 1 .. Len(wire) :
        IsRequest(i) /\ IsRequest(j) /\ wire[i].call = wire[j].call => i = j

\* An answer reaches the RespHandler of another call only if the server
\* answered a request twice, a RespHandler called Do, or an earlier call came
\* back with bytes that were no answer, and left the rest of its own behind;
\* the process goes wrong only for these reasons or when part of an answer is
\* taken for the whole.
AnsweredTwice ==
    \E i, j \in 1 .. Len(answers) : i # j /\ answers[i].call = answers[j].call
Misled == \E p \in given : p[2] = NoAnswer
MisdeliveredOnlyIf ==
    /\ (\E p \in given : p[2] # NoAnswer /\ answers[p[2]].call # p[1]) =>
           AnsweredTwice \/ outer # NoCall \/ Misled
    /\ proc = "ub" => AnsweredTwice \/ outer # NoCall \/ Misled \/ Garbled

\* Do returns unless the server leaves.
CallReturns == at \notin {"new", "idle"} ~> at = "idle" \/ closed
=============================================================================
