# Verification of nmid-c

nmid-c is the C client and the C worker of the nmid micro-service scheduler: a
*worker* process registers functions with an nmid server and runs the jobs it
is sent; a *client* process calls such functions. Both use one non-blocking
TCP connection per server, libev event loops and msgpack payloads. This
directory holds TLA+ models of the code, the TLC configurations that check
them and the TLAPS proofs about them. Paths below are relative to `src/`.

## 1. Inventory

| Component | State it keeps | Operations | What makes it hard |
|---|---|---|---|
| worker agent I/O (`worker/agent.c`, `worker/rw.c`) | `a->Res`, `a->Req`, the watcher's event, `running`, the socket | `Broadcast`, `Grab`, `Start`, `rw_handler`, `ReadNmidRes`, `WorkerDo`, `WriteNmidReq`, `Close` | three threads share `a->Req` without a lock; reads and writes may be short; `exit` after cancelling the calling thread |
| worker API (`worker/worker.c`) | `arrNum`, `funcNum`, `readyNum`, `runningNum` | `AddServer`, `AddFunction`, `DelFunction`, `Ready`, `Work` | functions may be added and deleted while `Work` goes through them |
| function registry (`worker/function.c`) | `size`, `length`, `functions`, `keys` | `AddFunc`, `DelFunc`, `GetFunc`, `reNewFuncMap`, `NewFuncMap`, `NewFunc`, `Hash` | lock held for some steps only; no chains for clashing names; growth without rehashing; frees what lookups still hold |
| client call (`client/client.c`, `client/rw.c`) | `c->Req`, `c->Res`, `c->respHandles`, the socket, one event loop per call | `NewClient`, `Connect`, `Do`, `rw_handler`, `WriteNmidReq`, `ReadNmidRes`, `Close` | answers name a function, not a call; requests are written again after a short write |
| client hash table (`client/hash.c`, `list.h`) | buckets of chains, the list of all nodes, `used`, `size` | `hash_alloc`, `hash_insert`, `hash_insert_bykey`, `hash_lookup`, `hash_replace`, `hash_remove`, `hash_foreach`, `hash_destroy`, `hash_resize` | comparison over the stored key's length; rebuilding turns chains round; a handler that changes the table it is called from |
| parameter decoding (`worker/util.c`, `DecodePack`) | `Res->paramsNum`, `Res->paramsArr` | `ResMsgPackDecode`, `GetParamsNum`, `GetParamsArr`, `SubStrLastVal`, `FreeParamsArr` | values are cut out of a printed text by counting characters; the text has to fit a buffer; variables are used that were never set; one array pointer outlives every job |
| agent array (`worker/agent.c`, `worker/worker.c`) | `size`, `cur`, `a[]`, `lock`; `arrNum`; each agent's `curIndex`, `ready`, `running` | `NewAgentArr`, `AddAgent`, `reNewAgentArr`, `DelAgent`, `AddServer`, `Connect`, `Start` | frees what it moves; indices and counts that nobody corrects; a counter without a lock |
| generic array (`worker/array.c`) | - | - | used by nothing |
| examples, builds (`run/`, `*/CMakeLists.txt`) | - | - | show which calls are meant |

How they interact: the application calls `AddServer`, `AddFunction` and
`Work`. `Work` broadcasts every registered name on every agent, sends a grab
and starts the agent's read/write thread, which it joins. That thread
alternates between `EV_READ` (read a job, look the function up in the
registry, run it, pack the result into `a->Req`) and `EV_WRITE` (send
`a->Req`). A run-time `AddFunction` or `DelFunction` changes the registry and
then calls `Broadcast`, which replaces `a->Req`. The client's `Do` packs a
request, puts its handler in the hash table under the function's name and runs
an event loop that writes the request and reads until an answer was handled.

What each must guarantee:

* agent I/O: each job answered exactly once and in order, reads that stay
  aligned with frames, no use of a freed request or result, an end of the
  process when the server goes;
* registry: a set of names for its callers; two counters that agree; every key
  leads to a live function; no function taken away while it runs;
* client call: each handler gets the answer to its own call, each request is
  sent once, `Do` returns;
* hash table: a bag of entries, each found under its key, freed once, visited
  once by an iteration;
* parameter decoding: a function is called with what the client sent; memory a
  job left behind is not freed again by the next;
* agent array: every server added is in its place and counted, every connected
  one is served, in the order they were added.

`PROJECT.json` lists the hazards at their lines.

## 2. The modules

### `WorkerSession` (`worker/agent.c`, `worker/rw.c`, `Work` and the run-time half of `worker/worker.c`)

One agent. Processes: `main` (`RegisterNext` for the functions registered
before `Ready` and `Work`; then `Find`, `Announce`, `Grab`, `Start`, `Join` - the
loop of `Work` and the functions it calls), the read/write thread (`rw`), an
application thread (`app`) and an environment.

* *Handlers.* `ReadEvent` is `rw_handler` on `EV_READ` up to the first `read`
  of `ReadNmidRes`; `ReadDropped`, `ReadHeader`, `ReadBody`, `ReadClosed` are
  the four things one `read` in its loop leads to. `WorkerDo` is several steps, since
  the application thread may come between any two: `GetFunc`, then `CallFunction`
  (`CallFreed` if the Func was freed meanwhile), `CopyResult` into `a->Req`, and
  `PackResult`, which is `RetDataPack` of what `a->Req` is by then and the rest
  of `rw_handler`. `RefuseJob` is its two returns without a function, `BadBody`
  a job of which `DecodePack` gets no parameters. Whether it does is an
  attribute of the job here, `decodes`, which the server picks from `Decodable`;
  `ParamsCodec` says which parameters decode. `WriteEvent`, `ReplyHead`,
  `ReplyBody` are `EV_WRITE`, split at the two writes of `WriteNmidReq`.
* *Registry.* `size`, `slots`, `keys` and the Func objects `fn`, as in
  `worker/function.c`: a name goes to the slot of its hash and overwrites what
  is there; a full registry doubles, rehashes nothing and leaves the new slots
  uncleared (`Junk`); `DelFunc` clears the slots that no key is left for. A call
  of `AddFunc`, `DelFunc` or `GetFunc` is one step; the steps inside, and what
  they do to each other, are `FuncMap`'s, and so are writes beyond the keys'
  chunk. `funcNum`, over which `Work`'s loop goes, is the number of keys here;
  `FuncMap!CountsAgree` says that it is between calls.
* *Streams.* Bytes to the worker are pairs `<<job, offset>>`, so a misaligned
  read is visible as an offset; what the bytes decode to is left to a
  nondeterministic choice wherever the worker reads bytes that are no header
  or not the job's body. Writes are parts, whole or cut.
* *Memory.* `req` is every `Request` allocated since `Start`, with a flag
  `live` and the state of the result data it holds. Use of a dead one, or a
  second free, is `proc = "ub"`; a failing `assert` is `proc = "abort"`. Both
  end the behaviour: nothing can be said after them.
* *Application.* `AddFunction`/`DelFunction` change the registry, then
  `Broadcast` in the five steps that other threads can come between. A user
  function returns a result; one that returns null aborts by itself.
* *Close.* `Close` cancels the calling thread, then `exit(1)` runs. With
  standard output flushed, `exit` has no cancellation point and the process
  ends. With output pending, `exit`'s flush is one: the thread ends, the
  process stays. `StdoutBuffered` chooses. After a failed read or an illegal
  header nobody calls `exit`; the thread ends in its event loop (`ReadFailed`
  and the last case of `ReadHeader`).
* *History.* `split` records that a part of a frame arrived in pieces,
  `deleted` that `DelFunction` removed a name, `refused` that `WorkerDo` found
  no function for what was read. The properties that speak of the cause of a
  misread stream or of a freed object need them; no action reads them.

### `FuncMap` and `Registry` (`worker/function.c` and its callers)

`FuncMap` gives `AddFunction`, `DelFunction` and a dispatched job one action
for each hold of `fmap->lock` and for each stretch between two. `functions` is
`slots` with three kinds of content: a Func, `Null`, and `Junk` for memory
`realloc` has not cleared. `keys` keeps its chunk's room separately, since the
code writes beyond the count it asked for and the chunk `malloc` returned
decides what that does. `Chunk` is external: glibc's chunk sizes. `ub` names the
undefined behaviour that ended a run. `clashed` is a history variable.
`GetFunc`'s first look at `length` and its locked lookup are one step: a delete
between the two yields what a lookup after or before it yields.

`Registry` is the abstract specification: a set of names, in which a call takes
effect at one instant between its start and its end, and a function that runs
is not deleted. `FuncMap!Service` is the refinement mapping: a name is
registered when the slot of its hash holds a live Func of that name.

### `AgentPool` (`worker/agent.c`, `worker/worker.c`: several servers)

`agentArr` with its lock, `w->arrNum`, the agents, and three threads: `main`
(`AddServer`, `Ready`, `Connect` per round of Ready's loop, `Work`, `Start`,
`Join`, `Sleep`), `app` (`AddServer`, and the loop over the agents at the end of
`AddFunction` and `DelFunction`: `Fetch` a pointer, `Use` it), and the
read/write thread of the agent that is served (`Run`, `Close`, `DelBegin`,
`DelEnd`). `AddAgent` is what happens under the lock; `arrNum++` comes after it
in two steps, `Load` and `Store`, because nothing protects it. `DelBegin` is
`DelAgent` up to the unlock: every agent it moves down is freed first, and a
free of a freed one, or a read of `curIndex` from the one it has just freed, is
undefined. `Fetch` may find the `NULL` that `DelAgent` writes into a slot
between the free and the store.

A connection here only ends; what it carries is in `WorkerSession`. The two
meet in `rw`: `serve` stands for all of `WorkerSession`'s read/write thread, and
`Close`, `DelBegin`, `DelEnd` refine the end it has there for one agent.

### `ClientCall` (`client/client.c`, `client/rw.c`)

`Connect`, `Do`, then `WriteEvent` (`EV_WRITE`), then `ReadDropped`,
`ReadHeader`, `ReadBody` and `Respond` (`EV_READ`, ending in the `RespHandler`
and the clean-up of `rw_handler`), and `Close`. A handler may itself call `Do`.
`Connect` may be called again: the answers on the old socket are gone with it. A
write to a connection the server has left may end the process (`BrokenPipe`:
nobody handles SIGPIPE). Answers carry the function name only. The table is its
one chain of entries with the newest first, the order `hash_insert` makes and
`hash_lookup` sees (`HashTable!NewestFound`).

### `HashTable` and `NameTable` (`client/hash.c`, `client/list.h`)

`HashTable` keeps what the code keeps: a chain per bucket, the list through all
nodes, `used`, the index of the size. Every function but `hash()` is an action;
`hash()` is a constant, and so are the hashes `hash_insert_bykey` gets by hashing
the structure in place of the name (`Garbage`). Comparison is `IsPrefix` of the
stored key, as `strncmp` over its length is. `hash_foreach` is `Begin`,
`Advance` and `Break`, between which its handler makes any other call;
`list_for_each` reads `next` from the node it is at, so advancing from a removed
one is undefined.

`NameTable` is the abstract specification: a bag of entries without buckets, in
which a call that names a key may take any entry whose key is a prefix of it and
fails only if none has that key. The refinement mapping (`HashTable!Table`)
takes the nodes that were not freed. In `HashTable` the list and the chains are
written by what they hold and in which order (`Pushed`, `Linked`, `Rebuilt`,
`Found`), so that the proofs need no recursion.

### `ParamsCodec` (`worker/util.c`, `DecodePack` and the end of `ReadNmidRes`)

The text msgpack prints for an array of strings (external; the quotation mark is
one character that occurs in no parameter), `GetParamsNum` as the count of its
colons, the loop of `GetParamsArr` as one action per round with its index
arithmetic, `SubStrLastVal`, and `FreeParamsArr` with its assertion and the
pointer it leaves. Jobs follow each other on one `Response`.

* *The buffer.* `Text` is what `ResMsgPackDecode` has of the printed text: it is
  printed into twice as many bytes as the parameters are packed in (`PackLen`),
  and what does not fit is cut off. `<<":", ":">>` packs into 5 bytes and
  prints into 10, one more than there is room for. `n` parameters with short
  headers fit if they have `2n - 1` characters together. With 16 or more the
  array's header has a zero byte, at which `strncpy` in `ReadNmidRes` stops.
* *Variables never set.* `PrintUnset` is what `ResMsgPackArrDecode` and
  `ResMsgPackDecode` do with `tmp_buf`, `i` and `buf_arr` for no other purpose than
  to print: they may end the process on any job. `DecodeNothing` has the
  `tmp_buf` that `ResMsgPackDecode` returns, which it has not set if there is no
  colon.

`Meant` is the reference: what the client put after each colon. `Clean` says
which parameters come through; for a text that was cut it is `LastWhole` that
says so.

### Configuration modules

`WorkerSessionMC`, `FuncMapMC`, `HashTableMC`, `ParamsCodecMC`: values of
sequence-, function- and set-valued constants. `ClientCall` and `AgentPool` need
none.

### Proof modules

`AgentPoolProofs`, `ClientCallProofs`, `HashTableProofs` and `ParamsCodecProofs`
hold the theorems about the modules they are named after. Those about `FuncMap` are in `FuncMapProofs` (typing, the
counters, overlapping registrations) and, extending it, `RegistryProofs` (the
slots, the keys, the refinement of `Registry`). Those about `WorkerSession` are
in `WorkerSessionProofs` (typing, the heap, the names) and, extending it,
`WorkerStreamProofs` (the stream from the server and the stream to it). See
section 5.

## 3. The runs

Deadlock is not checked: jobs, calls and registrations are bounded, after which
nothing needs to happen, and a process may end.

| Run | Question | Properties |
|---|---|---|
| `session` | With whole writes and frames that arrive part by part, three functions of which two share a slot, and jobs that decode or not: is every job answered once, in order, with its own data, unless the worker fails in one that does not decode, and does the worker end with the server? | `TypeOK`, `RepliesInOrder`, `AlignedReads`, `NoUndefinedBehaviour`, `JobAnswered`, `CloseEndsWorker` |
| `faults` | What may short and refused writes, split frames, header-sized bodies, jobs that do not decode and resets do? Replies are lost, neither doubled nor reordered; the stream is misread only after a split part or a header-sized body. | `NoDuplicateReply`, `MisreadOnlyIf` |
| `runtime` | What can two calls of `AddFunction` or `DelFunction` break, at any point of `Work` and of two jobs, inside `WorkerDo` too, with names that share a slot and a registry that grows? Memory is misused only after a `Broadcast`, a refused job, a deletion or growth; a job is refused only once the registry has lost its function; the announcements before the grab are whole frames, and complete but for the functions whose slot was taken, unless a delete moves the keys. | `UndefinedOnlyAfter`, `AnnouncedBeforeGrab`, `FramesWhole` |
| `buffered_exit` | (violation) Does the process end with the server, as the comment at `exit(1)` says, when standard output is a file or pipe? | `CloseEndsWorker` |
| `registry_churn` | One thread registers and deletes clashing names past a growth of the registry while another dispatches. | `TypeOK`, `KeysDense`, `SlotsLive`, `DanglingOnlyInRace`, `OverrunNeedsDelete` |
| `registry_races` | Two threads register and delete in any overlap over three sizes of the registry. | `CountsAgree`, `RegistrationsKept` |
| `registry_service` | Does the registry implement a set of names for a disciplined application? | `NoUndefinedBehaviour`, `ImplementsRegistry` |
| `agents` | Up to five servers on an array of four, added by two threads, connected or not, whose connections end at any time: where is each agent, when is memory misused, who is served? | `TypeOK`, `ArrayAgrees`, `UndefinedOnlyAfter`, `ServedInOrder`, `NextServed` |
| `params` | Which parameters reach a function as the client sent them, and which break the process, whatever jobs came before? | `TypeOK`, `DecodedIff`, `UndefinedOnlyIf` |
| `client_calls` | One answer per request, whole writes, up to three connections: does each handler get its own answer, and does `Do` return? | `TypeOK`, `OwnAnswer`, `TableIsCall`, `CallReturns` |
| `client_faults` | Three calls with short writes, fragments, an answer too many and nested calls: what is needed to misdeliver? | `RequestOnce`, `MisdeliveredOnlyIf` |
| `hash_table` | Is the table a bag of entries with prefix matching, through rebuilding and through changes inside `hash_foreach`? | `TypeOK`, `WellLinked`, `NewestFound`, `VisitsAll`, `ImplementsNameTable` |

### Bounds and why they are enough

* `MinDataSize = 2` stands for 12. What matters is that a frame has bytes
  before, inside and at the end of its header, and bodies shorter than, equal
  to and longer than a header: sizes 2 and 3 give all of them with
  `Fragmented` on.
* `MaxJobs` 1 to 3: the read/write thread holds one job at a time and `a->Req`
  one result, so an effect of job *n* on job *n + 1*, and its consequence for a
  third, are the longest chains.
* `RuntimeCalls = 2`: one call that takes a slot and one that gives it back, or
  a registration that makes the registry of two grow and one more. A third
  `Broadcast` adds another request of the same kind; what one can do to the
  read/write thread is already undefined. In `runtime` the connection stays
  open and every job decodes; `session` and `faults` have what else can happen,
  without calls at run time.
* Slots: three for three names of which two share one; two in `runtime`, where
  the second initial registration or the first call fills it.
* Registry: sizes 1, 2 and 4 instead of 128, with 3 or 4 registrations, cross
  the growth of the array; `MinRoom` and `Granule` scale malloc's chunks down
  with them so that writing past a chunk can happen and can be absorbed.
  Two names with one hash index, one with another.
* Client: four calls over three connections without faults; with faults
  three calls over one, six parts written (three requests, or fewer written
  again) and one answer more than there are requests. A misread answer needs
  three calls to do harm: the first returns on a piece of its answer, the second
  on the rest, the third on the answer of the second. An answer too many, for
  which two calls and the rest of the stream suffice, need not be followed by
  another.
* Agents: an array of 4 for 512 and five servers outgrow it; three agents are
  the fewest with one freed and another doubled, four leave one behind them.
  One loop of `AddFunction` meets every state of a removal.
* Hash table: sizes 4 and 5 for `tableSize`. Two names share a bucket of
  the small table and not of the large one, and one is a prefix of the other;
  four insertions reach the limit, rebuild, and reach it again.
* Parameters: a letter, the three characters with a meaning, single strings of
  four characters, pairs and triples of shorter ones. Cutting depends on whether
  a value is first, last or in between, and on up to two characters of it. Four
  parameters of which three are empty put the end of the buffer at each place of
  the text's end; 15 and 16 are the numbers between which the header changes.

### Fairness

`WorkerSession!FairSpec` has weak fairness of `Main`, of the read/write thread
and of `Deliver`: they stand for the operating system scheduling threads that
never block without an event, and for TCP. The server and the application get
none; `JobAnswered` and `CloseEndsWorker` hold although the server may stop
reading. `ClientCall!FairSpec` adds fairness of the server's answer: without it
`Do` waits for ever by design (it has no timeout), and `CallReturns` allows for
a server that closes, after which `Do` spins. `AgentPool!FairSpec` schedules
`main` and the read/write thread; that a connection ends is no one's duty, so
`NextServed` assumes that none stays open for ever (`[]<>~Stays`): `Start` joins
the thread of the server before. The hash table, the registry and the parameters
have no liveness of their own: every call returns.

## 4. Findings

* `buffered_exit`: `Close` runs `pthread_cancel(pthread_self())` and the next
  call is `exit(1)`. The comment at `worker/rw.c:368` says the worker exits
  normally; with output pending only the thread ends.

Weaknesses that contradict no text of the repository are properties that say
exactly when things go wrong (`UndefinedOnlyAfter`, `MisreadOnlyIf`,
`DanglingOnlyInRace`, `OverrunNeedsDelete`, `MisdeliveredOnlyIf`, `DecodedIff`,
`UndefinedOnlyIf`, `NextServed`, `NewestFound`).

## 5. What is proved

`FuncMapProofs`, from `RegistryAssumption` alone (natural sizes, a hash into
the naturals, finitely many threads that call): for every number of threads,
names and registrations, every initial size and allocator, with `Disciplined`
true or false.

* `TypeCorrect == Spec => []TypeOK`. `TypeOK` is not inductive: a thread in the
  middle of `AddFunc` or `DelFunc` dereferences the Func it holds, so the
  invariant also says that it holds one (`FuncKnown`: past its first step
  `func[t]` is an allocated Func). One lemma per action, with the parts
  `FmapOK`, `HeapOK`, `LocalOK` of `TypeOK` as the conjuncts each action can
  disturb.
* `CountsAlwaysAgree == Spec => []CountsAgree`. `CountsAgree` speaks of quiet
  states only. The inductive invariant `CountsInv` says what the difference is
  in all others: `length + |Removed| = funcNum + |Added|`, where `Added` are the
  threads between `AddFunc` and `funcNum++` and `Removed` those between
  `length--` and `funcNum--`. Each counting step adds or removes one element
  (`FS_AddElement`, `FS_RemoveElement`); every other step moves a thread inside
  or outside a set.
* `RegistrationsAlwaysKept == Spec => []RegistrationsKept`: registrations that
  overlap, rehashes among them, lose nothing while no Func has been freed and
  no two names took one slot. In between, a Func is in nobody's slot: its
  thread has allocated it and waits to insert it. `KeptInv` therefore says,
  while nothing is freed, overwritten or half deleted (`Intact`), that each
  Func is placed in its slot and in the key array or is held by such a pending
  thread (`AllPlaced`), that pending threads hold different Funcs (`OwnFunc`),
  and that `length + |Pending|` is the number of Funcs (`AllCounted`). The
  steps of `DelFunc` that undo a place need a freed Func before them
  (`PublishAfterFree`), so they cannot disturb it.

### The registry's slots and keys

`RegistryProofs`, from `RegistryAssumption` and from what the application does.
Neither `AddFunc` nor `DelFunc` guards what these assumptions are about, and
without them the properties are false:

* `Lone`: no call overlaps a `DelFunction`, because the application is
  `Disciplined` or because one thread calls (jobs are dispatched meanwhile in
  the second case). `DelFunc` copies the keys and the
  slots without the lock, so a registration in between is lost, and a second
  deletion of the same Func frees it again.
* `Alone`: one thread calls. Two `AddFunction` calls that overlap both see
  `length == size - 1` and write past the keys without any deletion.
* `Tidy`: disciplined, with names whose slots differ (`Apart`), and no more of
  them than the smallest chunk of keys has room for (`Few`). A name that takes
  another's slot replaces it for good; and `DelFunc` writes `length` keys into
  a chunk for `length - 1`, which only `malloc`'s rounding makes harmless.

The theorems, each by an invariant of its own over `Typing` and `KeptInv` of
`FuncMapProofs`:

* `KeysAlwaysDense` (`KeysDense`) assumes `Lone`. `TableInv`: the first `length`
  keys are slots in use, and so are those a `DelFunction` has prepared
  (`DenseFor`), of which there is one (`Exclusive`). Growth keeps
  slots and keys as they are; a clash adds a key for a slot already in use.
* `SlotsAlwaysLive` (`SlotsLive`) and `DanglingOnlyRaces` (`DanglingOnlyInRace`)
  assume `Lone`. `SlotsInv`, until a slot is overwritten or the registry grows:
  the keys are the slots in use, each once (`Indexes`); every slot in use holds
  a Func that belongs there (`Rooted`) and is not freed but for the one between
  `free` and `publish` (`KeptAll`); a deleting thread's Func is still in its
  slot (`Doomed`), and its copy is the table without it (`Without`).
* `OverrunOnlyAfterDelete` (`OverrunNeedsDelete`) assumes `Alone`. `Roomy`: there
  is room for the next key until a deletion, and `room` never falls below
  `MinRoom`.
* `DisciplinedIsSafe` (`NoUndefinedBehaviour`) assumes `Tidy`. `Safe`: nothing
  undefined, no clash and no growth has happened, each name has one live Func,
  a job between its lookup and its end holds a live Func of the name it looked
  up, and nobody else is in a call while a `DelFunction` runs.
* `RegistryIsASet == ASSUME Tidy PROVE Spec => ImplementsRegistry`, from `Safe`:
  the insertion in `AddFunc` is where a name becomes registered, the free in
  `DelFunc` where it ceases to be, the lookup where a job begins to run; every
  other step of the code stutters or begins or ends a call. `Apart` makes
  `Callable` depend on a name's own slot only (`Mapped`).

### The array of agents

`AgentPoolProofs`, from `PoolAssumption` alone: for every initial size of the
array, number of servers and of loops, output pending or not.

* `TypeCorrect == Spec => []TypeOK`
* `ArrayAlwaysAgrees == Spec => []ArrayAgrees`
* `UndefinedOnlyAfterRemoval == Spec => []UndefinedOnlyAfter`
* `AlwaysServedInOrder == Spec => []ServedInOrder`

The first three follow from one inductive invariant, `IInv`, with a lemma per action
and in it a step per conjunct. None of them is inductive. `Counts` says that
`arrNum` and the calls of `AddServer` that have not counted yet are at most the
agents added, whatever overlaps: this is why the loops over `arrNum` slots read
no slot that was never written. `Exact` says, while no connection has ended,
that they are equal unless two calls overlapped. `InPlace` says that each agent
is in the slot it has noted as long as `Safe` holds (the array has not been
outgrown, and no connection has ended or there is one agent only): a loop that
reads slot `p < arrNum` then finds agent `p + 1`. `Holders` says that slots and
threads hold agents that were added to a place, and that the read/write thread
exists only while `main` joins it.

The fourth needs `OrderInv` beside it. `Noted`: agents are connected before any
connection ends, each in slot `curIndex`, so what `DelAgent` later reads as the
served agent's place is Work's own index. `Ahead`: in the slots Work has not
looked at, a connected agent is still in its own. `DelAgent` could break this
only by moving two agents or more behind the served one; but then it has freed
the served agent, whose index its loop reads, and that is undefined; and if
the served agent is no longer in its slot, an `AddServer` has taken it over, and
what lies behind was never connected. `Ordered`: what was served is below
what is left.

### The worker's session

From `SessionAssumption`: for any functions, hash, sizes of the registry, of a
header and of bodies, any number of jobs, notices and run-time calls. Where a
theorem assumes more of a constant, the property is false without it, and
`faults` or `runtime` shows what happens then.

* `TypeCorrect == Spec => []TypeOK` (`WorkerSessionProofs`). `TypeOK` allows
  indices that nothing has; `Typed` adds that those in use are of something
  (`Ranges`): a byte's job has been sent, `a->Req` and the arguments of the
  writes in progress have been allocated, a key's Func exists.
* `NoUseAfterFree == Spec => []UndefinedOnlyAfter`,
  `NoMisread == Spec => []MisreadOnlyIf` (`WorkerStreamProofs`). Both need to
  know where the read/write thread is in the stream and what the registry holds,
  so the invariant `Reads` has five parts beside `Typed`. `Table`: the first Func
  objects are the initial functions, more exist only after a call at run time,
  without growth no slot is `Junk`, and until a `DelFunction` none is freed and
  each key leads to its Func or a later one of the slot (`Filled`). `Heap`: while
  Start's request is the only one it is live, and holds a live result whenever
  it is about to be written, unless a job was refused; and what else a failure
  may come from. `Names`: until the registry is `Disturbed`, what the server has
  been told, and what it asks for, is found in its slot (`Found`). That a job is
  refused only then is where the clashes matter: of two initial functions with
  one slot only the later is ever announced. `Framed`: what is left of the stream
  (`inbox \o net`) is whole frames in the order of the jobs, but for the head
  that was read. `Aligned`: without a cause of misreading the thread is at the
  start of a frame, or at a body whose size is the one it waits for (`AtBody`),
  or waits for ever for the rest of a body shorter than a header (`Short`).
* `StaysAligned` (`AlignedReads`) assumes `Whole`: parts arrive whole and no body
  is as long as a header. The code has no defence against either; `NeverMisread`
  says that then there is no cause.
* `SafeSession` (`NoUndefinedBehaviour`) assumes `Whole`, no calls at run time,
  since a `Broadcast` frees what the read/write thread may be writing from, and
  that the initial functions fit into the registry, since growth leaves slots
  uncleared. A job that does not decode is excepted by the property itself.
* `AnswersInOrder == Spec => []NoDuplicateReply`, from
  `Order`: every reply on the wire is for a job up to the one whose result
  `a->Req` holds, strictly below it while that is still to be written, and
  what is left of the stream is beyond it. Whatever the writes do.
* `NoReplyMissing` (`RepliesInOrder`) assumes whole writes and what `SafeSession`
  assumes. `Cover` is the converse of `Order`: each job was run, or is
  being run, or still has its last byte ahead, or the thread is stuck; and
  each that was run is answered, the last one when `a->Req` has been written.
* `AllAnnouncedAtGrab` (`AnnouncedBeforeGrab`) assumes that no write comes to
  nothing. `Announced`: until a `DelFunction`, each initial function whose key
  `Work`'s loop is past is on the wire or has lost its slot, and so it is with
  the one the loop has just found.
* `FramesStayWhole` (`FramesWhole`) assumes whole writes. `Paired`: the wire
  ends in a header only after the grab, and unless there were run-time calls
  the read/write thread is about to write its body.

### The client's calls

From `ClientAssumption`: for any functions, sizes, number of calls, connections
and answers, unless a theorem says otherwise.

* `TypeCorrect == Spec => []TypeOK`; `Typed` adds that `cur` is the last call.
* `TableAlwaysCall` (`TableIsCall`) assumes `Nesting = FALSE`; `Tabled` also
  says what the table holds while a `RespHandler`'s own call is in progress,
  which the other theorems need.
* `EachRequestOnce == Spec => []RequestOnce`. `Sent`: what is on the wire is in
  the order of the calls; a call goes on until its body is out, and a body that
  is out ends its writing.
* `NeverMisdelivered == Spec => []MisdeliveredOnlyIf`. `Owned`: as long as no
  request was answered twice, no call nested and none given bytes that are no
  answer (`Clean`), each call that has returned was given its own answer
  (`Rightly`), and all there is to read is the rest of the current call's
  answer (`Ahead`). The proof showed that "answered twice or nested" is not
  enough: a call that returns on a piece of its answer leaves the rest to the
  next, and so on. It takes three calls, which `client_faults` has.
* `EachOwnAnswer` (`OwnAnswer`) assumes one answer to a request, parts that
  arrive whole and no nesting, and nothing of the writes. `Intact`: nobody is
  ever misled, since an answer is read as one header and one body of the sizes
  it has.

### The client's hash table

`HashTableProofs`, from `TableAssumption`: for any names, whatever `hash()` makes
of them, any sizes of the table, any number of insertions and any calls of the
handler of `hash_foreach`.

* `HashTableTyped` (`TypeOK`) and `HashTableWellLinked` (`WellLinked`). Neither is
  inductive alone: what a step does to the chains has the right shape only if
  they hold each node once, and they do only if all indices are in range. The
  proof splits the chains off as `Placed`: each live node is once in the bucket
  of its hash. For the insertion and the removal this is read off the one chain
  that changes. For the rebuilding it is not: `hash_resize` walks bucket by
  bucket and pushes each node on its new chain, and the new chain is given by
  the order of that walk. `Precedes` is shown to be a strict total order on the
  nodes (`WalkOrders`); that a finite set with such an order has one sequence
  going through it, each element once, follows by induction on its size.
* `HashTableNewestFound` (`NewestFound`) needs `NewestFirst`: before the first
  rebuilding each chain goes from the newest node to the oldest. Rebuilding
  turns pairs of nodes round, which is why the property ends there.
* `HashTableVisitsAll` (`VisitsAll`): the list is in the order of insertion
  (`WellLinked`), so an insertion by the handler comes after the node at hand and
  a removal takes the same node from the list and from what is still to come.
* `HashTableIsNameTable == Spec => ImplementsNameTable`, step by step: every
  insertion adds one entry to the bag, every removal and lookup answers with an
  entry whose key is a prefix, and misses only if none has the key itself,
  since equal keys have equal hashes and so one bucket; rebuilding stutters.

### The parameters of jobs

`ParamsCodecProofs`, from `InputAssumption`: any characters, any sequence of jobs
with up to 255 parameters of up to 255 characters.

* `ParamsTyped` (`TypeOK`) and `ParamsUndefinedOnlyIf` (`UndefinedOnlyIf`), from one
  invariant, which holds of every job, whether its text was cut or not. It says
  of jobs whose text `Fits` and whose parameters have a colon each at most
  (`Regular`): the text still to be cut has as many colons as values are missing,
  a comma between any two of them, and the bracket at its end (`Aligned`), so the
  stop of each value is there and lies before the next colon; and past the loop
  all slots are filled (`Filled`). `NothingKept`: with no array of its own a job
  reaches `FreeParamsArr` only if it had no colon at all. That the printed text
  is `Aligned` at the start is an induction over its pieces (`PiecesJoined`):
  each but the first begins with the comma.
* `ParamsDecodedIff` (`DecodedIff`, for jobs whose text `Fits`; what comes through
  of a text that was cut is checked by `params` only): which parameters come
  through, in both directions. The layout of the printed text is proved piece by piece (`Laid`,
  `Shaped`): `Offset(p)[i]` characters stand before the `i`-th parameter, the quote
  and either comma, space, quote or the last bracket after it, and every colon
  is inside a parameter. So the colons are as many as parameters with a colon
  exactly if none has two (`ColonsCounted`, by an injection); else the number of
  slots is wrong. With one colon each, `Positioned` says that the loop is at a
  place of the text before which as many colons lie as slots are filled, hence
  that the next colon is that of the parameter of the next rank, and `Kept` that
  each filled slot has what one round takes from the text after that colon
  (`Got`). `MiddleTaken`, `LastTaken` and `OnlyTaken` work out what this is by
  where the first comma or bracket is; `TakenIff` puts the values together.

Inductions in these two modules are by least counterexample: the natural numbers
are well-founded (`NatLessThanWellFounded`, `WFMin`), so a set of numbers of which
something fails has a least one.

### Only model-checked

All liveness (`JobAnswered`, `CloseEndsWorker`, `NextServed`, `CallReturns`) is
beyond the proof system. So far `DecodedIff` is only model-checked for jobs whose
text was cut.

## 6. Not modelled, and why

* `worker/array.c`: unused. `run/` and the CMake files: examples and builds.
* Sockets' options, address parsing and failing allocations other than the
  array's: I/O with no state of the program behind it; an allocation that fails
  ends most callers with a null pointer.
* msgpack packing and unpacking: payloads are opaque, but for the text
  parameters are cut from and the lengths of their headers. Numbers and maps
  print without quotation marks and are left out, and so are more than 255
  parameters and strings longer than 255 characters.
* Where the printing of variables never set reads, beyond the fact that it may
  crash on any job (`PrintUnset`): what it prints is used by nothing.
* Calls at run time together with the end of the connection, and together with
  jobs that do not decode, in one run: the theorems have both.
* `hash()`, `Hash()`: constants, since any function may be asked to clash.
* The helpers of `worker/util.c` that keep no state and that nobody calls or
  whose result nobody uses.
* The bytes of two threads' writes inside one `write` call: a call is one step.
* Any state after undefined behaviour.

## 7. Plan

1. *Done:* `WorkerSession`, `FuncMap` refining `Registry`, `ClientCall`,
   `AgentPool`, `HashTable` refining `NameTable`, `ParamsCodec`; every invariant
   proved, `DecodedIff` for jobs whose text fits; and both refinements: that
   `FuncMap` implements `Registry` for a tidy application, and `HashTable`
   `NameTable`.
2. *Left:* `DecodedIff` for a text that was cut, which needs the places of the
   stops in a proper prefix of the printed text.
