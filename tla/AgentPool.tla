----------------------------- MODULE AgentPool -----------------------------
(***************************************************************************)
(* A worker's servers: the array of agents, one for each server            *)
(* (worker/agent.c), and the calls of worker/worker.c that go through it:  *)
(* AddServer, Ready, Work and the loop at the end of AddFunction and       *)
(* DelFunction.  Work serves the connections one after the other; what one *)
(* of them carries is in WorkerSession, here a connection only ends.       *)
(*                                                                         *)
(* Three threads: main calls AddServer, Ready and Work; app calls          *)
(* AddServer and AddFunction at any time; the read/write thread belongs to *)
(* the agent that is served and removes it from the array when it closes.  *)
(***************************************************************************)
EXTENDS Integers, Sequences

CONSTANTS
    ArraySize,      \* slots the array starts with (ARRAY_SIZE)
    MaxServers,     \* bound: calls of AddServer
    MaxLoops,       \* bound: calls of AddFunction or DelFunction by app
    StdoutBuffered  \* whether printf output can be pending when exit runs

ASSUME PoolAssumption ==
    /\ ArraySize \in Nat \ {0} /\ MaxServers \in Nat /\ MaxLoops \in Nat
    /\ StdoutBuffered \in BOOLEAN

VARIABLES
    proc,     \* the process: "run", or how it ended
    size,     \* agentArr->size
    cur,      \* agentArr->cur
    slot,     \* agentArr->a: in each place an agent, Null, or Junk
    lock,     \* agentArr->lock: "free", "held" by DelAgent, or "lost"
    arrNum,   \* w->arrNum
    agent,    \* the agents allocated: curIndex, ready and running of each
    freed,    \* those that were freed
    conn,     \* the connection of each: "none", "open", "ended" by the server,
              \* or "closed" by Close
    adding,   \* where main and app are in AddServer, and what they have read
    main,     \* where main is: "setup", "ready", "work", "join" or "sleep"
    i,        \* its index into the array
    rw,       \* where the read/write thread is
    serving,  \* the agent it belongs to
    eof,      \* whether it closes because read returned 0
    app,      \* where app is in the loop of AddFunction
    loops,    \* how many it has started
    served,   \* history: the agents Start was called with, in this order
    overlap   \* history: two calls of AddServer counted at the same time

array == <<size, cur, slot, lock, arrNum>>
agents == <<agent, freed, conn>>
mainVars == <<main, i>>
rwVars == <<rw, serving, eof>>
appVars == <<app, loops>>
history == <<served, overlap>>
vars == <<proc, array, agents, adding, mainVars, rwVars, appVars, history>>

-----------------------------------------------------------------------------
Callers == {"main", "app"}
Agents == 1 .. MaxServers
Null == 0
Junk == -1

\* A pointer read from the array is used.
Usable(x) == x \in Agents /\ x \notin freed

Init ==
    /\ proc = "run"
    /\ size = ArraySize /\ cur = 0 /\ slot = [p \in 0 .. MaxServers |-> Junk]
    /\ lock = "free" /\ arrNum = 0
    /\ agent = <<>> /\ freed = {} /\ conn = <<>>
    /\ adding = [t \in Callers |-> [at |-> "idle", read |-> 0]]
    /\ main = "setup" /\ i = 0
    /\ rw = "none" /\ serving = Null /\ eof = TRUE
    /\ app = [at |-> "idle", place |-> 0, got |-> Null] /\ loops = 0
    /\ served = <<>> /\ overlap = FALSE

-----------------------------------------------------------------------------
(* AddServer.                                                              *)

MayAdd(t) ==
    /\ adding[t].at = "idle" /\ lock = "free" /\ Len(agent) < MaxServers
    /\ IF t = "main" THEN main = "setup" ELSE app.at = "idle"

New(place) == [index |-> place, ready |-> FALSE, running |-> FALSE]

FullOneLate == cur > size
Full == cur >= size

AddAgent(t) ==
    /\ MayAdd(t) /\ ~Full
    /\ agent' = Append(agent, New(cur)) /\ conn' = Append(conn, "none")
    /\ slot' = [slot EXCEPT ![cur] = Len(agent')]
    /\ cur' = cur + 1
    /\ adding' = [adding EXCEPT ![t].at = "load"]
    /\ overlap' = (overlap \/ \E u \in Callers : adding[u].at # "idle")
    /\ UNCHANGED <<proc, size, lock, arrNum, freed, mainVars, rwVars, appVars, served>>

\* reNewAgentArr doubles size whether or not memory is found. If it is, memset
\* writes through the first slot that nobody has written; if not, AddAgent
\* returns without unlocking.
AddToFull(t) ==
    /\ MayAdd(t) /\ Full
    /\ size' = 2 * size
    /\ agent' = Append(agent, New(-1)) /\ conn' = Append(conn, "none")
    /\ \/ proc' = "ub" /\ lock' = lock
       \/ proc' = proc /\ lock' = "lost"
    /\ UNCHANGED <<cur, slot, arrNum, freed, adding, mainVars, rwVars, appVars, history>>

\* w->arrNum++, without a lock.
Load(t) ==
    /\ adding[t].at = "load"
    /\ adding' = [adding EXCEPT ![t] = [at |-> "store", read |-> arrNum]]
    /\ UNCHANGED <<proc, array, agents, mainVars, rwVars, appVars, history>>

NotCounted(t) == adding[t].read
Counted(t) == adding[t].read + 1

Store(t) ==
    /\ adding[t].at = "store"
    /\ arrNum' = Counted(t)
    /\ adding' = [adding EXCEPT ![t] = [at |-> "idle", read |-> 0]]
    /\ UNCHANGED <<proc, size, cur, slot, lock, agents, mainVars, rwVars, appVars, history>>

-----------------------------------------------------------------------------
(* main: Ready and Work. The functions' part of their checks is FuncMap's. *)

Refused == arrNum = 0 \/ cur # arrNum

Proceed(from, to) ==
    /\ main = from /\ adding["main"].at = "idle"
    /\ IF Refused
         THEN proc' = "refused" /\ UNCHANGED mainVars
         ELSE main' = to /\ i' = 0 /\ proc' = proc
    /\ UNCHANGED <<array, agents, adding, rwVars, appVars, history>>

Ready == Proceed("setup", "ready")

\* One round of Ready's loop; nobody looks at what Connect returns.
Connect ==
    /\ main = "ready" /\ i < arrNum
    /\ i' = i + 1
    /\ IF slot[i] = Null
         THEN UNCHANGED <<proc, agent, conn>>
         ELSE IF ~Usable(slot[i])
           THEN proc' = "ub" /\ UNCHANGED <<agent, conn>>
           ELSE /\ proc' = proc
                /\ \/ UNCHANGED <<agent, conn>>
                   \/ /\ agent' = [agent EXCEPT ![slot[i]].ready = TRUE]
                      /\ conn' = [conn EXCEPT ![slot[i]] = "open"]
    /\ UNCHANGED <<array, freed, adding, main, rwVars, appVars, history>>

Work == i >= arrNum /\ Proceed("ready", "work")

\* One round of Work's loop, up to Start's pthread_create.
Skip ==
    /\ main = "work" /\ i < arrNum
    /\ slot[i] = Null \/ (Usable(slot[i]) /\ ~agent[slot[i]].ready)
    /\ i' = i + 1
    /\ UNCHANGED <<proc, array, agents, adding, main, rwVars, appVars, history>>

UseDangling ==
    /\ main = "work" /\ i < arrNum
    /\ slot[i] # Null /\ ~Usable(slot[i])
    /\ proc' = "ub"
    /\ UNCHANGED <<array, agents, adding, mainVars, rwVars, appVars, history>>

\* The announcements and the grab may find the connection closed.
Start ==
    /\ main = "work" /\ i < arrNum
    /\ Usable(slot[i]) /\ agent[slot[i]].ready
    /\ \/ /\ main' = "join" /\ rw' = "new" /\ serving' = slot[i]
          /\ served' = Append(served, slot[i]) /\ proc' = proc
       \/ /\ conn[slot[i]] = "ended" /\ proc' = "sigpipe"
          /\ UNCHANGED <<main, rw, serving, served>>
    /\ UNCHANGED <<array, agents, adding, i, eof, appVars, overlap>>

SameAgain == i
AgentAfterNext == i + 2
NextAgent == i + 1

Join ==
    /\ main = "join" /\ rw = "gone"
    /\ main' = "work" /\ rw' = "none" /\ serving' = Null
    /\ i' = NextAgent
    /\ UNCHANGED <<proc, array, agents, adding, eof, appVars, history>>

Sleep ==
    /\ main = "work" /\ i >= arrNum
    /\ main' = "sleep"
    /\ UNCHANGED <<proc, array, agents, adding, i, rwVars, appVars, history>>

-----------------------------------------------------------------------------
(* The read/write thread. When read returns 0 it closes and exits. When    *)
(* read fails, or something taken for a header is none, it closes, returns *)
(* to rw_handler, which uses the agent's watcher, and is cancelled in the  *)
(* event loop.                                                             *)

Run ==
    /\ rw = "new" /\ rw' = "serve"
    /\ agent' = [agent EXCEPT ![serving].running = TRUE]
    /\ UNCHANGED <<proc, array, freed, conn, adding, mainVars, serving, eof, appVars, history>>

Close ==
    /\ rw = "serve" /\ rw' = "close"
    /\ eof' \in IF conn[serving] = "ended" THEN BOOLEAN ELSE {FALSE}
    /\ conn' = [conn EXCEPT ![serving] = "closed"]
    /\ UNCHANGED <<proc, array, agent, freed, adding, mainVars, serving, appVars, history>>

\* DelAgent: every agent from the removed one to the last but one is freed, and
\* the slots take what was in the next one; the last agent is then in two.
Place == agent[serving].index
Last == cur - 1
MovedAndLast == IF Place < cur THEN Place .. Last ELSE {}
Moved == IF Place < cur THEN Place .. Last - 1 ELSE {}

DelBegin ==
    /\ rw = "close" /\ lock = "free"
    /\ LET dropped == {slot[p] : p \in Moved}
           \* a double free, or curIndex read again from the freed agent
           bad == \/ \E x \in dropped : ~Usable(x)
                  \/ serving \in dropped /\ Place + 1 < Last
       IN proc' = (IF bad THEN "ub" ELSE proc) /\ freed' = freed \cup dropped
    /\ rw' = "shift" /\ lock' = "held"
    /\ slot' = [p \in DOMAIN slot |-> IF p \in Moved THEN slot[p + 1] ELSE slot[p]]
    /\ cur' = IF Place < cur THEN Last ELSE cur
    /\ UNCHANGED <<size, arrNum, agent, conn, adding, mainVars, serving, eof, appVars, history>>

Cancelled == rw' = "gone" /\ proc' = proc

DelEnd ==
    /\ rw = "shift" /\ lock' = "free"
    /\ IF eof
         THEN \/ proc' = "exit" /\ rw' = rw
              \/ StdoutBuffered /\ Cancelled
         ELSE \/ serving \in freed /\ proc' = "ub" /\ rw' = rw
              \/ serving \notin freed /\ Cancelled
    /\ UNCHANGED <<size, cur, slot, arrNum, agents, adding, mainVars, serving, eof, appVars, history>>

-----------------------------------------------------------------------------
(* app: the loop over the agents that ends AddFunction and DelFunction.    *)

StartLoop ==
    /\ app.at = "idle" /\ adding["app"].at = "idle" /\ loops < MaxLoops
    /\ app' = [at |-> "fetch", place |-> 0, got |-> Null]
    /\ loops' = loops + 1
    /\ UNCHANGED <<proc, array, agents, adding, mainVars, rwVars, history>>

\* Between the free and the store DelAgent has NULL in the slot.
Fetch ==
    /\ app.at = "fetch"
    /\ IF app.place < arrNum
         THEN \E x \in {slot[app.place]} \cup (IF rw = "shift" /\ Place <= app.place /\ app.place < cur
                                               THEN {Null} ELSE {}) :
                  app' = [app EXCEPT !.at = "use", !.got = x]
         ELSE app' = [at |-> "idle", place |-> 0, got |-> Null]
    /\ UNCHANGED <<proc, array, agents, adding, mainVars, rwVars, loops, history>>

\* if(a->running) Broadcast.
Use ==
    /\ app.at = "use"
    /\ app' = [at |-> "fetch", place |-> app.place + 1, got |-> Null]
    /\ IF ~Usable(app.got)
         THEN proc' = "ub"
         ELSE \/ proc' = proc
              \/ agent[app.got].running /\ conn[app.got] = "ended" /\ proc' = "sigpipe"
    /\ UNCHANGED <<array, agents, adding, mainVars, rwVars, loops, history>>

-----------------------------------------------------------------------------
ServerClose ==
    /\ \E x \in DOMAIN conn : conn[x] = "open" /\ conn' = [conn EXCEPT ![x] = "ended"]
    /\ UNCHANGED <<proc, array, agent, freed, adding, mainVars, rwVars, appVars, history>>

AddServer == \E t \in Callers : AddAgent(t) \/ AddToFull(t) \/ Load(t) \/ Store(t)
MainSteps == Connect \/ Work \/ Skip \/ UseDangling \/ Start \/ Join \/ Sleep
ReadWrite == Run \/ Close \/ DelBegin \/ DelEnd

Next ==
    /\ proc = "run"
    /\ AddServer \/ Ready \/ MainSteps \/ ReadWrite
       \/ StartLoop \/ Fetch \/ Use \/ ServerClose

Spec == Init /\ [][Next]_vars

\* The threads are scheduled, once main has called Ready; that a connection
\* ends is not taken for granted.
FairSpec ==
    /\ Spec
    /\ WF_vars(proc = "run" /\ MainSteps)
    /\ WF_vars(proc = "run" /\ ReadWrite /\ (rw = "serve" => conn[serving] = "ended"))

-----------------------------------------------------------------------------
(* Properties.                                                             *)

\* The shape of every variable.
TypeOK ==
    /\ proc \in {"run", "refused", "exit", "sigpipe", "ub"}
    /\ size \in Nat /\ cur \in 0 .. MaxServers /\ cur <= size
    /\ slot \in [0 .. MaxServers -> Agents \cup {Null, Junk}]
    /\ lock \in {"free", "held", "lost"} /\ arrNum \in 0 .. MaxServers
    /\ agent \in Seq([index : -1 .. MaxServers, ready : BOOLEAN, running : BOOLEAN])
    /\ Len(agent) <= MaxServers /\ freed \subseteq Agents
    /\ conn \in Seq({"none", "open", "ended", "closed"}) /\ Len(conn) = Len(agent)
    /\ adding \in [Callers -> [at : {"idle", "load", "store"}, read : 0 .. MaxServers]]
    /\ main \in {"setup", "ready", "work", "join", "sleep"} /\ i \in 0 .. MaxServers
    /\ rw \in {"none", "new", "serve", "close", "shift", "gone"}
    /\ serving \in Agents \cup {Null} /\ eof \in BOOLEAN
    /\ app \in [at : {"idle", "fetch", "use"}, place : 0 .. MaxServers,
                got : Agents \cup {Null, Junk}]
    /\ loops \in 0 .. MaxLoops /\ served \in Seq(Agents) /\ overlap \in BOOLEAN

Removing == \E x \in DOMAIN conn : conn[x] = "closed"
Quiet == \A t \in Callers : adding[t].at = "idle"
Grown == Len(agent) > ArraySize

\* Until a connection ends, the agents are in the array at the places they have
\* noted, in the order AddServer was called, and when nobody is adding one and
\* no two calls have overlapped, Ready and Work count all of them.
ArrayAgrees ==
    ~Removing /\ ~Grown =>
        /\ cur = Len(agent)
        /\ \A x \in DOMAIN agent : agent[x].index = x - 1 /\ slot[x - 1] = x
        /\ Quiet /\ ~overlap => arrNum = cur

\* An agent is used that was freed or never added, or one is freed twice, only
\* if there were more servers than the array has room for, or if one of at
\* least two connections has ended: DelAgent then frees agents that it keeps.
UndefinedOnlyAfter == proc = "ub" => Grown \/ (Removing /\ Len(agent) > 1)

\* Although the array shifts under Work's loop when a connection ends, no
\* server is served twice, and none after one that was added later.
ServedInOrder == \A k, l \in DOMAIN served : k < l => served[k] < served[l]

Waiting(x) ==
    x \in DOMAIN agent /\ agent[x].ready /\ main \in {"work", "join"} /\ ~\E k \in DOMAIN served : served[k] = x
Stays == rw = "serve" /\ conn[serving] = "open"

\* AddServer was called after a removal and has taken the agent's place or an
\* earlier one: the array has the last agent twice and counts it once.
Displaced(x) == \E y \in DOMAIN agent : y > x /\ agent[y].index \in 0 .. agent[x].index

\* If no connection stays open for ever, every connected server is served in
\* the end, unless the process ends - as it does when the first server closes
\* and no output is pending -, an AddServer has left the lock held, or one has
\* displaced the agent.
NextServed ==
    []<>~Stays =>
        \A x \in Agents :
            Waiting(x) ~> \/ \E k \in DOMAIN served : served[k] = x
                          \/ proc # "run" \/ lock = "lost"
                          \/ x \in DOMAIN agent /\ Displaced(x)
=============================================================================
