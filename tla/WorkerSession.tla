---------------------------- MODULE WorkerSession ----------------------------
(***************************************************************************)
(* One agent of a worker: the connection of a worker process to one nmid   *)
(* server (worker/agent.c, worker/rw.c).  Three threads share it: the one  *)
(* that called Work, the read/write thread that Start creates, and an      *)
(* application thread that registers or deletes functions while the worker *)
(* runs.  The read/write thread alternates: one ReadNmidRes, which takes a *)
(* job off the stream and runs it, then one WriteNmidReq, which sends what *)
(* a->Req holds.                                                           *)
(*                                                                         *)
(* All three use the registry, slots indexed by the hash of a name. A call *)
(* of AddFunc, DelFunc or GetFunc is one step here; FuncMap has the steps  *)
(* inside. What a thread does with the Func it got is a step of its own.   *)
(*                                                                         *)
(* The stream from the server is a sequence of bytes, each written         *)
(* <<j, i>>: byte i of the frame of job j, or of a notice (a header with   *)
(* no body) when j is 0.  The stream to the server is a sequence of parts, *)
(* one for each write call.                                                *)
(***************************************************************************)
EXTENDS Integers, Sequences, FiniteSets

CONSTANTS
    Funcs,           \* names of functions the application has
    Initial,         \* those registered before Ready and Work, in order
    Hash,            \* Hash of function.c, on Funcs
    MapSize,         \* slots of the registry at first (MAP_SIZE, 128 in the code)
    MinDataSize,     \* bytes of a header (MIN_DATA_SIZE, 12 in the code)
    BodySizes,       \* bytes a job's body can have
    Decodable,       \* whether DecodePack gets a job's parameters: TRUE, FALSE or
                     \* either (ParamsCodec says when; a job that crashes it on a
                     \* variable it never set is one of which it does not)
    MaxJobs,         \* bound: jobs the server sends
    MaxNotices,      \* bound: headers of other types the server sends
    RuntimeCalls,    \* bound: AddFunction and DelFunction calls after Work
    Fragmented,      \* whether TCP may deliver a part of a frame in pieces
    WriteOutcomes,   \* what a write call can do: "full", "short", "none"
    StdoutBuffered,  \* whether printf output can be pending when exit runs
    MayClose,        \* whether the server may close the connection
    MayReset         \* whether the end of the connection may be an error

ASSUME SessionAssumption ==
    /\ Initial \in Seq(Funcs) \ {<<>>}
    /\ Hash \in [Funcs -> Nat] /\ MapSize \in Nat \ {0}
    /\ MinDataSize \in Nat \ {0}
    /\ BodySizes \subseteq Nat \ {0} /\ Decodable \subseteq BOOLEAN
    /\ {MaxJobs, MaxNotices, RuntimeCalls} \subseteq Nat
    /\ {Fragmented, StdoutBuffered, MayClose, MayReset} \subseteq BOOLEAN
    /\ WriteOutcomes \subseteq {"full", "short", "none"}
    /\ "full" \in WriteOutcomes

VARIABLES
    proc,     \* the process: "run", or how it ended
    main,     \* where Work is
    next,     \* the index of the next function to register, or to announce
    func,     \* the Func that Work's loop, or later WorkerDo, got, if any
    rw,       \* where the read/write thread is
    watch,    \* the event a->watcher waits for
    res,      \* a->Res
    wreq,     \* the argument of the read/write thread's WriteNmidReq
    req,      \* the Request objects allocated since Start
    aReq,     \* a->Req, an index of req; 0 before Start
    app,      \* where the application thread is
    calls,    \* AddFunction and DelFunction calls it has made
    size,     \* the registry w->funcs: its size,
    slots,    \* its functions,
    keys,     \* the slots in use in the order of registration,
    fn,       \* and the Func objects ever put into it
    jobs,     \* the jobs the server has sent
    notices,  \* the number of notices it has sent
    net,      \* bytes sent by the server and not arrived yet
    inbox,    \* bytes in the worker's receive buffer
    closed,   \* whether the server has closed the connection
    wire,     \* the parts the worker has written
    seen,     \* how many of them the server has processed
    split,    \* history: a part of a frame arrived in pieces
    deleted,  \* history: DelFunction has removed a name
    refused   \* history: WorkerDo found no function for what was read

vars == <<proc, main, next, func, rw, watch, res, wreq, req, aReq, app, calls,
          size, slots, keys, fn, jobs, notices, net, inbox, closed, wire, seen,
          split, deleted, refused>>
server == <<jobs, notices, net, closed, seen, split>>
history == <<deleted, refused>>
reader == <<rw, watch, res, wreq>>
registry == <<size, slots, keys, fn>>
appVars == <<app, calls, registry>>
worker == <<main, next, func>>

-----------------------------------------------------------------------------
(* The two streams.                                                        *)

Kinds == {"none", "add", "del", "grab", "ret"}
Args == Funcs \cup (0 .. MaxJobs)
Parts == [part : {"head", "body"}, kind : Kinds, arg : Args, whole : BOOLEAN]
Part(p, k, x) == [part |-> p, kind |-> k, arg |-> x, whole |-> TRUE]

\* One write on the non-blocking socket: all of the part, some of it, or
\* nothing (EAGAIN) is added to the stream w.
Write(w, p, outcome) ==
    CASE outcome = "full"  -> Append(w, p)
      [] outcome = "short" -> Append(w, [p EXCEPT !.whole = FALSE])
      [] outcome = "none"  -> w

\* A whole WriteNmidReq of a request that holds x, nobody else writing. The
\* body follows whatever became of the header: -1 is as true as 12 in
\* if(headRet).
FrameWritten(k, x) ==
    { Write(Write(wire, Part("head", k, 0), o1), Part("body", k, x), o2) :
        o1 \in WriteOutcomes, o2 \in WriteOutcomes }

Frame(j, n) == [i \in 1 .. MinDataSize + n |-> <<j, i>>]
EndsPart(b) ==
    \/ b[2] = MinDataSize
    \/ b[1] > 0 /\ b[2] = MinDataSize + jobs[b[1]].size

\* What the server has learnt from the parts it has processed.
Got(i, k) == wire[i].part = "body" /\ wire[i].kind = k /\ wire[i].whole
Known == {f \in Funcs : \E i \in 1 .. seen :
            /\ Got(i, "add") /\ wire[i].arg = f
            /\ \A k \in i + 1 .. seen : ~(Got(k, "del") /\ wire[k].arg = f)}
Granted == \E i \in 1 .. seen : Got(i, "grab")

-----------------------------------------------------------------------------
(* The heap objects.                                                       *)

NoJob == 0
Null == 0
Junk == -1      \* memory that was never written
NewRequest == [live |-> TRUE, kind |-> "none", arg |-> 0, ret |-> "none"]
Requests == [live : BOOLEAN, kind : Kinds, arg : Args,
             ret : {"none", "copied", "live", "freed"}]
NewResponse == [hread |-> FALSE, size |-> MinDataSize, type |-> "none", job |-> NoJob,
                params |-> "null"]
Responses == [hread : BOOLEAN, size : BodySizes \cup {MinDataSize},
              type : {"none", "job", "notice"}, job : 0 .. MaxJobs,
              params : {"null", "freed"}]

\* a->ready, which Connect has set, and a->running.
Connected == TRUE
Running == rw # "none"

Init ==
    /\ proc = "run" /\ main = "register" /\ next = 1 /\ func = Null
    /\ size = MapSize /\ slots = [k \in 0 .. MapSize - 1 |-> Null] /\ keys = <<>> /\ fn = <<>>
    /\ rw = "none" /\ watch = "READ" /\ res = NewResponse /\ wreq = 0
    /\ req = <<>> /\ aReq = 0
    /\ app = [at |-> "idle", kind |-> "none", name |-> NoJob, req |-> 0] /\ calls = 0
    /\ jobs = <<>> /\ notices = 0 /\ net = <<>> /\ inbox = <<>> /\ closed = FALSE
    /\ wire = <<>> /\ seen = 0 /\ split = FALSE /\ deleted = FALSE /\ refused = FALSE

-----------------------------------------------------------------------------
(* The registry.                                                           *)

Slot(f) == Hash[f] % size
Live(p) == p \in 1 .. Len(fn) /\ fn[p].live

\* AddFunc: a full registry is grown first, nothing is rehashed, and what is
\* added to it is not cleared. Whatever the slot held is overwritten.
Larger == IF Len(keys) >= size THEN 2 * size ELSE size
Register(f) ==
    LET k == Hash[f] % Larger
    IN /\ size' = Larger
       /\ slots' = [i \in 0 .. Larger - 1 |->
                     IF i = k THEN Len(fn) + 1 ELSE IF i < size THEN slots[i] ELSE Junk]
       /\ keys' = Append(keys, k)
       /\ fn' = Append(fn, [name |-> f, key |-> k, live |-> TRUE])

\* DelFunc of a Func, whatever its name: the last key that equals its own goes,
\* and the slots that no key is left for.
LastKey(k) ==
    LET Same == {i \in 1 .. Len(keys) : keys[i] = k}
    IN CHOOSE i \in Same : \A j \in Same : j <= i
Unregister(p) ==
    LET last == LastKey(fn[p].key)
    IN /\ size' = size
       /\ keys' = [i \in 1 .. Len(keys) - 1 |-> keys[IF i < last THEN i ELSE i + 1]]
       /\ slots' = [i \in 0 .. size - 1 |->
                     IF \E n \in 1 .. Len(keys) : n # last /\ keys[n] = i THEN slots[i] ELSE Null]
       /\ fn' = [fn EXCEPT ![p].live = FALSE]

-----------------------------------------------------------------------------
(* The thread that registers the first functions and calls Ready and Work. *)

RegisterNext ==
    /\ main = "register" /\ next <= Len(Initial)
    /\ Register(Initial[next])
    /\ next' = next + 1
    /\ UNCHANGED <<proc, main, func, reader, req, aReq, app, calls, server, inbox, wire, history>>

Ready ==
    /\ main = "register" /\ next > Len(Initial)
    /\ main' = "announce" /\ next' = 1
    /\ UNCHANGED <<proc, func, reader, req, aReq, appVars, server, inbox, wire, history>>

\* The end of Work's loop over the registry's keys.
AllButLastAnnounced == next >= Len(keys)
AllAnnounced == next > Len(keys)

\* Work takes the function of the next key; an empty slot is passed over.
Find ==
    /\ main = "announce" /\ ~AllAnnounced
    /\ func' = slots[keys[next]]
    /\ IF func' = Null THEN main' = main /\ next' = next + 1
                       ELSE main' = "send" /\ next' = next
    /\ UNCHANGED <<proc, reader, req, aReq, appVars, server, inbox, wire, history>>

\* Broadcast of its name, whose helper thread is joined at once.
Announce ==
    /\ main = "send" /\ main' = "announce"
    /\ next' = next + 1 /\ func' = Null
    /\ IF Live(func)
         THEN proc' = proc /\ wire' \in FrameWritten("add", fn[func].name)
         ELSE proc' = "ub" /\ wire' = wire
    /\ UNCHANGED <<reader, req, aReq, appVars, server, inbox, history>>

Grab ==
    /\ main = "announce" /\ AllAnnounced
    /\ main' = "start"
    /\ wire' \in FrameWritten("grab", NoJob)
    /\ UNCHANGED <<proc, next, func, reader, req, aReq, appVars, server, inbox, history>>

\* Start allocates Res and Req and creates the read/write thread, which sets
\* a->running and enters its event loop waiting for EV_READ; Start joins it.
Start ==
    /\ main = "start"
    /\ main' = "join"
    /\ req' = Append(req, NewRequest) /\ aReq' = Len(req) + 1
    /\ res' = NewResponse
    /\ rw' = "poll" /\ watch' = "READ"
    /\ UNCHANGED <<proc, next, func, wreq, appVars, server, inbox, wire, history>>

\* The read/write thread has ended: Work goes on to for(;;) sleep(0).
Join ==
    /\ main = "join" /\ rw = "gone"
    /\ main' = "sleep"
    /\ UNCHANGED <<proc, next, func, reader, req, aReq, appVars, server, inbox, wire, history>>

-----------------------------------------------------------------------------
(* The read/write thread: rw_handler on EV_READ.                           *)

Readable == inbox # <<>> \/ (closed /\ net = <<>>)

\* ReadNmidRes starts with a fresh buffer of MinDataSize bytes.
EmptyBuffer(r) == [r EXCEPT !.size = 0]
StaleBuffer(r) == r
FreshBuffer(r) == [r EXCEPT !.size = MinDataSize]

ReadEvent ==
    /\ rw = "poll" /\ watch = "READ" /\ Readable
    /\ rw' = "read"
    /\ res' = FreshBuffer(res)
    /\ UNCHANGED <<proc, worker, watch, wreq, req, aReq, appVars, server, inbox, wire, history>>

Count == IF Len(inbox) < res.size THEN Len(inbox) ELSE res.size
Bytes == SubSeq(inbox, 1, Count)

\* What read returned, consumed from the receive buffer by the three branches
\* of ReadNmidRes' loop.
Reading ==
    /\ rw = "read" /\ inbox # <<>>
    /\ inbox' = SubSeq(inbox, Count + 1, Len(inbox))
    /\ UNCHANGED <<worker, watch, wreq, req, aReq, appVars, server, wire, history>>

\* continue: the bytes are lost.
ReadDropped ==
    /\ Reading
    /\ Count < MinDataSize \/ (Count > MinDataSize /\ ~res.hread)
    /\ UNCHANGED <<proc, rw, res>>

\* MinDataSize bytes are a header, whatever they are. Its first field is the
\* sender's type, so a header of the server is taken; other bytes may look
\* like one of a job of any size, like one of something else, or like none.
ReadHeader ==
    /\ Reading
    /\ Count = MinDataSize
    /\ UNCHANGED proc
    /\ LET j == Bytes[1][1]
           aligned == Bytes[1][2] = 1
       IN \/ /\ aligned => j # NoJob
             /\ rw' = rw
             /\ \E n \in IF aligned THEN {jobs[j].size} ELSE BodySizes :
                    res' = [res EXCEPT !.hread = TRUE, !.type = "job", !.size = n]
          \/ /\ aligned => j = NoJob
             /\ rw' = rw
             /\ res' = [res EXCEPT !.hread = TRUE, !.type = "notice"]
          \/ /\ ~aligned      \* Close cancels the thread
             /\ rw' = "gone"
             /\ res' = [res EXCEPT !.hread = TRUE]

\* More than MinDataSize bytes after a header are a body. It is job j's when
\* the bytes are those of its body; anything else is kept as NoJob.
ReadBody ==
    /\ Reading
    /\ Count > MinDataSize /\ res.hread
    /\ rw' = "do"
    /\ LET j == Bytes[1][1]
           intact == j # NoJob /\ Bytes[1][2] = MinDataSize + 1 /\ Count >= jobs[j].size
       IN res' = [res EXCEPT !.job = IF intact THEN j ELSE NoJob]
    /\ UNCHANGED proc

\* The event rw_handler waits for after a read, and after a write.
KeepReading == "READ"
AfterRead == "WRITE"
KeepWriting == "WRITE"
AfterWrite == "READ"

\* exit(1) after Close has cancelled the calling thread: if output is pending,
\* exit's flush is a cancellation point, the thread ends there and the process
\* stays.
CloseAndReturn == proc' = proc /\ rw' = "gone"
CloseAndExit ==
    \/ proc' = "exit" /\ rw' = rw
    \/ StdoutBuffered /\ proc' = proc /\ rw' = "gone"

\* read returned 0.
ReadClosed ==
    /\ rw = "read" /\ inbox = <<>> /\ net = <<>> /\ closed
    /\ CloseAndExit
    /\ UNCHANGED <<worker, watch, res, wreq, req, aReq, appVars, server, inbox, wire, history>>

\* read failed.
ReadFailed ==
    /\ rw = "read" /\ closed /\ MayReset
    /\ CloseAndReturn
    /\ UNCHANGED <<worker, watch, res, wreq, req, aReq, appVars, server, inbox, wire, history>>

-----------------------------------------------------------------------------
(* The read/write thread: WorkerDo and the end of ReadNmidRes.             *)

\* Whether DecodePack gets parameters from what was read, and with which
\* handles; bytes that are no job's body may be read as any.
Decodes == res.type = "job" /\ (res.job # NoJob => jobs[res.job].decodes)
Handles == IF res.job = NoJob THEN Funcs ELSE {jobs[res.job].func}

\* The end of ReadNmidRes, and rw_handler waits for EV_WRITE. The parameters
\* that were decoded are freed, and Res keeps the pointer to them.
ReadDone ==
    /\ rw' = "poll" /\ watch' = AfterRead
    /\ res' = [res EXCEPT !.hread = FALSE, !.params = "freed"]
    /\ func' = Null
    /\ UNCHANGED <<main, next, wreq, aReq, appVars, server, inbox, wire, deleted>>

\* No parameters were decoded: FreeParamsArr gets the null pointer its
\* assertion forbids, or the array it freed the last time. A job without a
\* colon has also used a variable that DecodePack never set.
BadBody ==
    /\ rw = "do"
    /\ ~(Decodes /\ res.job # NoJob)
    /\ \/ proc' = "abort" /\ res.params = "null"
       \/ proc' = "ub" /\ (res.params = "freed" \/ res.type = "job")
    /\ UNCHANGED <<worker, reader, req, aReq, appVars, server, inbox, wire, history>>

\* GetFunc.
GetFunc ==
    /\ rw = "do" /\ Decodes
    /\ \E f \in Handles : slots[Slot(f)] # Null /\ func' = slots[Slot(f)]
    /\ rw' = "call"
    /\ UNCHANGED <<proc, main, next, watch, res, wreq, req, aReq, appVars, server, inbox, wire, history>>

\* WorkerDo finds no function, or one of another name in the job's slot, and
\* leaves a->Req as it was.
NotFound == rw = "do" /\ Decodes /\ \E f \in Handles : slots[Slot(f)] \in {Null, Junk}
OtherName == rw = "call" /\ Live(func) /\ \E f \in Handles : fn[func].name # f
RefuseJob ==
    /\ NotFound \/ OtherName
    /\ ReadDone
    /\ refused' = TRUE
    /\ UNCHANGED <<proc, req>>

\* Its name is the job's, and it is called; or it was freed since.
CallFunction ==
    /\ rw = "call" /\ Live(func) /\ fn[func].name \in Handles
    /\ rw' = "copy"
    /\ UNCHANGED <<proc, worker, watch, res, wreq, req, aReq, appVars, server, inbox, wire, history>>

CallFreed ==
    /\ rw = "call" /\ ~Live(func)
    /\ proc' = "ub"
    /\ UNCHANGED <<worker, reader, req, aReq, appVars, server, inbox, wire, history>>

\* What it returned and the job's handle are put into a->Req.
CopiedOnce(r, f) == [r EXCEPT !.arg = IF r.kind = "ret" THEN @ ELSE f,
                              !.ret = IF @ = "none" THEN "copied" ELSE @]
Copied(r, f) == [r EXCEPT !.arg = IF r.kind = "ret" THEN @ ELSE f,
                          !.ret = IF @ = "live" THEN @ ELSE "copied"]
CopyResult ==
    /\ rw = "copy" /\ rw' = "pack"
    /\ proc' = IF req[aReq].live THEN proc ELSE "ub"
    /\ req' = [req EXCEPT ![aReq] = Copied(@, fn[func].name)]
    /\ UNCHANGED <<worker, watch, res, wreq, aReq, appVars, server, inbox, wire, history>>

\* RetDataPack of what a->Req is by then, which needs a result.
KeepFirstResult(r, j) == [r EXCEPT !.kind = "ret", !.ret = "live",
                                   !.arg = IF r.kind = "ret" THEN @ ELSE j]
Packed(r, j) == [r EXCEPT !.kind = "ret", !.arg = j, !.ret = "live"]
PackResult ==
    /\ rw = "pack"
    /\ ReadDone
    /\ proc' = IF ~req[aReq].live \/ req[aReq].ret = "freed" THEN "ub"
               ELSE IF req[aReq].ret = "none" THEN "abort" ELSE proc
    /\ req' = [req EXCEPT ![aReq] = Packed(@, res.job)]
    /\ UNCHANGED refused

-----------------------------------------------------------------------------
(* The read/write thread: rw_handler on EV_WRITE.                          *)

\* a->Req->WriteNmidReq(a->Req); with nothing packed yet it writes nothing.
WriteEvent ==
    /\ rw = "poll" /\ watch = "WRITE"
    /\ wreq' = aReq
    /\ IF req[aReq].kind = "none"
         THEN rw' = "poll" /\ watch' = AfterWrite
         ELSE rw' = "head" /\ watch' = watch
    /\ proc' = IF req[aReq].live THEN proc ELSE "ub"
    /\ UNCHANGED <<worker, res, req, aReq, appVars, server, inbox, wire, history>>

\* After Close the socket's descriptor is not open any more.
Outcomes == IF rw = "gone" THEN {"none"} ELSE WriteOutcomes

\* The two writes of WriteNmidReq(Req) on request r. The result data is freed
\* when all of it was written, and stays where it is otherwise.
WriteHead(r) ==
    /\ \E o \in Outcomes : wire' = Write(wire, Part("head", req[r].kind, 0), o)
    /\ proc' = IF req[r].live THEN proc ELSE "ub"
    /\ UNCHANGED req

WriteBody(r) ==
    \E o \in Outcomes :
        /\ wire' = Write(wire, Part("body", req[r].kind, req[r].arg), o)
        /\ proc' = IF req[r].live /\ (req[r].kind = "ret" => req[r].ret = "live") THEN proc ELSE "ub"
        /\ req' = IF req[r].kind = "ret" /\ o = "full"
                  THEN [req EXCEPT ![r].ret = "freed"] ELSE req

ReplyHead ==
    /\ rw = "head" /\ rw' = "body"
    /\ WriteHead(wreq)
    /\ UNCHANGED <<worker, watch, res, wreq, aReq, appVars, server, inbox, history>>

ReplyBody ==
    /\ rw = "body" /\ rw' = "poll" /\ watch' = AfterWrite
    /\ WriteBody(wreq)
    /\ UNCHANGED <<worker, res, wreq, aReq, appVars, server, inbox, history>>

-----------------------------------------------------------------------------
(* The application thread: AddFunction and DelFunction, and the Broadcast  *)
(* they end with.                                                          *)

Call(kind, f) ==
    /\ main # "register" /\ app.at = "idle" /\ calls < RuntimeCalls
    /\ calls' = calls + 1
    /\ app' = [at |-> "check", kind |-> kind, name |-> f, req |-> 0]
    /\ UNCHANGED <<worker, reader, req, aReq, server, inbox, wire, refused>>

AddFunction(f) ==
    /\ Call("add", f)
    /\ Register(f)
    /\ UNCHANGED <<proc, deleted>>

\* With no function in the name's slot it returns at once.
DelFunction(f) ==
    /\ Call("del", f) /\ slots[Slot(f)] # Null
    /\ IF Live(slots[Slot(f)])
         THEN Unregister(slots[Slot(f)]) /\ proc' = proc
         ELSE UNCHANGED registry /\ proc' = "ub"
    /\ deleted' = TRUE

\* if(a->running) Broadcast, which replaces a->Req by a new request.
Broadcast ==
    /\ app.at = "check"
    /\ IF Running
         THEN /\ req' = Append(req, NewRequest) /\ aReq' = Len(req) + 1
              /\ app' = [app EXCEPT !.at = "pack", !.req = Len(req) + 1]
         ELSE app' = [app EXCEPT !.at = "idle"] /\ UNCHANGED <<req, aReq>>
    /\ UNCHANGED <<proc, worker, reader, calls, registry, server, inbox, wire, history>>

BroadcastPack ==
    /\ app.at = "pack"
    /\ app' = [app EXCEPT !.at = "head"]
    /\ req' = [req EXCEPT ![aReq].kind = app.kind, ![aReq].arg = app.name]
    /\ UNCHANGED <<proc, worker, reader, aReq, calls, registry, server, inbox, wire, history>>

BroadcastHead ==
    /\ app.at = "head" /\ app' = [app EXCEPT !.at = "body"]
    /\ WriteHead(app.req)
    /\ UNCHANGED <<worker, reader, aReq, calls, registry, server, inbox, history>>

BroadcastBody ==
    /\ app.at = "body" /\ app' = [app EXCEPT !.at = "free"]
    /\ WriteBody(app.req)
    /\ UNCHANGED <<worker, reader, aReq, calls, registry, server, inbox, history>>

\* FreeRequest: a->Req still points to the request.
BroadcastFree ==
    /\ app.at = "free" /\ app' = [app EXCEPT !.at = "idle"]
    /\ req' = [req EXCEPT ![app.req].live = FALSE]
    /\ UNCHANGED <<proc, worker, reader, aReq, calls, registry, server, inbox, wire, history>>

-----------------------------------------------------------------------------
(* The server and the network.                                             *)

ServerReceive ==
    /\ seen < Len(wire) /\ ~closed
    /\ seen' = seen + 1
    /\ UNCHANGED <<proc, worker, reader, req, aReq, appVars, jobs, notices,
                   net, inbox, closed, wire, split, history>>

SendJob(f, n, d) ==
    /\ ~closed /\ Granted /\ f \in Known /\ Len(jobs) < MaxJobs
    /\ jobs' = Append(jobs, [func |-> f, size |-> n, decodes |-> d])
    /\ net' = net \o Frame(Len(jobs) + 1, n)
    /\ UNCHANGED <<proc, worker, reader, req, aReq, appVars, notices, inbox,
                   closed, wire, seen, split, history>>

SendNotice ==
    /\ ~closed /\ Granted /\ notices < MaxNotices
    /\ notices' = notices + 1
    /\ net' = net \o Frame(NoJob, 0)
    /\ UNCHANGED <<proc, worker, reader, req, aReq, appVars, jobs, inbox,
                   closed, wire, seen, split, history>>

Deliver ==
    /\ \E k \in 1 .. Len(net) :
         /\ Fragmented \/ EndsPart(net[k])
         /\ split' = (split \/ ~EndsPart(net[k]))
         /\ inbox' = inbox \o SubSeq(net, 1, k)
         /\ net' = SubSeq(net, k + 1, Len(net))
    /\ UNCHANGED <<proc, worker, reader, req, aReq, appVars, jobs, notices,
                   closed, wire, seen, history>>

ServerClose ==
    /\ MayClose /\ ~closed /\ main # "register"
    /\ closed' = TRUE
    /\ UNCHANGED <<proc, worker, reader, req, aReq, appVars, jobs, notices,
                   net, inbox, wire, seen, split, history>>

\* A write after the server is gone raises SIGPIPE, which nobody handles.
BrokenPipe ==
    /\ closed
    /\ \/ main = "send" \/ (main = "announce" /\ AllAnnounced) \/ rw \in {"head", "body"}
       \/ rw # "gone" /\ app.at \in {"head", "body"}
    /\ proc' = "sigpipe"
    /\ UNCHANGED <<worker, reader, req, aReq, appVars, server, inbox, wire, history>>

-----------------------------------------------------------------------------
Main == RegisterNext \/ Ready \/ Find \/ Announce \/ Grab \/ Start \/ Join
ReadWrite ==
    \/ ReadEvent \/ ReadDropped \/ ReadHeader \/ ReadBody \/ ReadClosed \/ ReadFailed
    \/ BadBody \/ GetFunc \/ RefuseJob \/ CallFunction \/ CallFreed
    \/ CopyResult \/ PackResult \/ WriteEvent \/ ReplyHead \/ ReplyBody
Application ==
    \/ \E f \in Funcs : AddFunction(f) \/ DelFunction(f)
    \/ Broadcast \/ BroadcastPack \/ BroadcastHead \/ BroadcastBody \/ BroadcastFree
Environment ==
    \/ ServerReceive \/ SendNotice \/ Deliver \/ ServerClose \/ BrokenPipe
    \/ \E f \in Funcs, n \in BodySizes, d \in Decodable : SendJob(f, n, d)

Next == proc = "run" /\ (Main \/ ReadWrite \/ Application \/ Environment)

Spec == Init /\ [][Next]_vars

\* The threads are scheduled and TCP delivers; the server and the application
\* do nothing they do not choose to do.
FairSpec ==
    /\ Spec
    /\ WF_vars(proc = "run" /\ Main)
    /\ WF_vars(proc = "run" /\ ReadWrite)
    /\ WF_vars(proc = "run" /\ Deliver)

-----------------------------------------------------------------------------
(* Properties.                                                             *)

\* The shape of every variable.
TypeOK ==
    /\ proc \in {"run", "exit", "sigpipe", "abort", "ub"}
    /\ main \in {"register", "announce", "send", "start", "join", "sleep"} /\ next \in Nat
    /\ rw \in {"none", "poll", "read", "do", "call", "copy", "pack", "head", "body", "gone"}
    /\ watch \in {"READ", "WRITE"} /\ res \in Responses
    /\ req \in Seq(Requests) /\ aReq \in 0 .. Len(req) /\ wreq \in 0 .. Len(req)
    /\ app \in [at : {"idle", "check", "pack", "head", "body", "free"}, kind : Kinds,
                name : Args, req : 0 .. Len(req)]
    /\ calls \in 0 .. RuntimeCalls
    /\ size \in Nat \ {0} /\ keys \in Seq(0 .. size - 1)
    /\ fn \in Seq([name : Funcs, key : 0 .. size - 1, live : BOOLEAN])
    /\ slots \in [0 .. size - 1 -> {Junk, Null} \cup (1 .. Len(fn))]
    /\ func \in {Junk, Null} \cup (1 .. Len(fn))
    /\ jobs \in Seq([func : Funcs, size : BodySizes, decodes : BOOLEAN])
    /\ Len(jobs) <= MaxJobs
    /\ notices \in 0 .. MaxNotices
    /\ net \in Seq((0 .. MaxJobs) \X (Nat \ {0})) /\ inbox \in Seq((0 .. MaxJobs) \X (Nat \ {0}))
    /\ closed \in BOOLEAN /\ wire \in Seq(Parts) /\ seen \in 0 .. Len(wire)
    /\ split \in BOOLEAN /\ deleted \in BOOLEAN /\ refused \in BOOLEAN

IsReply(p) == p.part = "body" /\ p.kind = "ret" /\ p.whole
Answered(j) == \E i \in 1 .. Len(wire) : IsReply(wire[i]) /\ wire[i].arg = j

\* The replies on the stream are those of jobs 1, 2, 3, ... in this order:
\* none is skipped, repeated, or sent with the data of another job, although
\* all of them are packed into the one request a->Req.
RepliesInOrder ==
    \A i \in 1 .. Len(wire) : IsReply(wire[i]) =>
        /\ \A k \in 1 .. i - 1 : IsReply(wire[k]) => wire[k].arg < wire[i].arg
        /\ \/ wire[i].arg = 1
           \/ \E k \in 1 .. i - 1 : IsReply(wire[k]) /\ wire[k].arg = wire[i].arg - 1

\* What makes the worker misread the stream: a part that arrived in pieces, or
\* a body as long as a header.
MisreadCause == split \/ \E j \in 1 .. Len(jobs) : jobs[j].size = MinDataSize

Undecodable == \E j \in 1 .. Len(jobs) : ~jobs[j].decodes

\* What makes the registry lose a function that was announced: it has grown, a
\* registration at run time took a slot that was in use before, or DelFunction.
Grown == size # MapSize
Overwritten ==
    \E i \in Len(Initial) + 1 .. Len(fn), k \in 1 .. Len(fn) :
        k < i /\ fn[k].key = fn[i].key
Disturbed == deleted \/ Grown \/ Overwritten

\* Even when writes come out short or not at all, no job is answered twice and
\* no answer overtakes another, as long as the functions stay as they are and
\* the registry has room for them: answers are lost or cut, nothing else.
NoDuplicateReply ==
    \/ MisreadCause \/ calls > 0 \/ Grown
    \/ \A i, k \in 1 .. Len(wire) :
           i < k /\ IsReply(wire[i]) /\ IsReply(wire[k]) => wire[i].arg < wire[k].arg

\* While no handler is running the next byte the worker will read is the
\* first one of a frame: ReadNmidRes has consumed whole frames only.
AlignedReads ==
    rw = "poll" /\ inbox \o net # <<>> => Head(inbox \o net)[2] = 1

\* No freed request, function or result data is used and no assertion fails,
\* except in a job whose parameters do not decode: the worker fails in it.
NoUndefinedBehaviour ==
    proc \in {"ub", "abort"} => rw = "do" /\ res.job # NoJob /\ ~jobs[res.job].decodes

\* The worker misreads the stream - takes part of a frame for the start of
\* one, parses a body that is none or not all of one, or gives the connection
\* up - only if a part of a frame arrived in pieces or a job's body was exactly
\* as long as a header, or the server closed. And only then does an assertion
\* fail or is freed data used, unless a job did not decode, the functions have
\* been changed at run time or the registry had no room for them.
InWorkerDo == rw \in {"do", "call", "copy", "pack"}
MisreadOnlyIf ==
    \/ MisreadCause
    \/ /\ AlignedReads
       /\ proc \in {"abort", "ub"} => Undecodable \/ calls > 0 \/ Grown
       /\ InWorkerDo => res.job # NoJob
       /\ rw = "gone" => closed

\* As long as the stream is read right and jobs decode, freed data is used or
\* an assertion fails only after one of three things: a Broadcast at run time
\* has put its own request in a->Req, which the read/write thread then shares,
\* finds freed or finds empty; a job was refused, so that the last result was
\* sent again; or a Func went away while a thread had it. And a job is refused
\* only once the registry has lost a function: it has grown, a registration at
\* run time took a slot in use, or DelFunction was called.
UndefinedOnlyAfter ==
    \/ MisreadCause \/ Undecodable
    \/ /\ proc \in {"abort", "ub"} => Len(req) > 1 \/ refused \/ deleted \/ Grown
       /\ refused => Disturbed

\* When the worker grabs, it has announced every function registered before
\* Work but those whose slot a later registration took, even if AddFunction
\* runs at the same time; a DelFunction at that time moves the keys under
\* Work's loop, which may then miss one.
Replaced(k) == \E i \in k + 1 .. Len(fn) : fn[i].key = fn[k].key
AnnouncedBeforeGrab ==
    main \in {"start", "join", "sleep"} /\ ~deleted =>
        \A k \in 1 .. Len(Initial) :
            \/ Replaced(k)
            \/ \E i \in 1 .. Len(wire) :
                 wire[i].part = "body" /\ wire[i].kind = "add" /\ wire[i].arg = Initial[k]

\* Until the worker grabs, the server gets whole frames: AddFunction at that
\* time leaves the announcement to Work's loop or to nobody, but never writes
\* between another thread's header and body. After the grab a Broadcast may.
FramesWhole ==
    \A k \in 1 .. Len(wire) - 1 :
        wire[k].part = "head" =>
            \/ wire[k + 1] = [wire[k] EXCEPT !.part = "body", !.arg = wire[k + 1].arg]
            \/ calls > 0 /\ \E g \in 1 .. k : Got(g, "grab")

\* Every job is answered unless the server leaves first, or the worker fails in
\* a job, this one or an earlier one, whose parameters do not decode.
JobAnswered ==
    \A j \in 1 .. MaxJobs :
        Len(jobs) >= j ~>
            closed \/ Answered(j) \/ \E k \in 1 .. Len(jobs) : k <= j /\ ~jobs[k].decodes

\* When the server closes the connection the worker process ends.
CloseEndsWorker == closed ~> proc # "run"
=============================================================================
