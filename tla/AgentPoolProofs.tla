-------------------------- MODULE AgentPoolProofs --------------------------
(***************************************************************************)
(* Theorems of AgentPool, for any number of servers and any size of the    *)
(* array: the shape of the variables, what the array is good for until a   *)
(* connection ends, what has to happen before an agent is used that was    *)
(* freed or never added, and the order in which agents are served.         *)
(***************************************************************************)
EXTENDS AgentPool, SequenceTheorems, TLAPS

\* The calls of AddServer that have added their agent and not yet counted it.
Busy(t) == IF adding[t].at = "idle" THEN 0 ELSE 1
Pending == Busy("main") + Busy("app")
Placed(x) == x \in DOMAIN agent /\ agent[x].index >= 0

\* No removal has moved or freed anything, and the array has not grown.
Safe == ~Grown /\ (~Removing \/ Len(agent) <= 1)

\* What the array and the threads hold are agents that were added.
Holders ==
    /\ \A p \in 0 .. MaxServers : slot[p] \in Agents => Placed(slot[p])
    /\ \A p \in 0 .. MaxServers : p < cur => slot[p] \in Agents
    /\ main \in {"setup", "ready"} => ~Removing
    /\ rw # "none" => main = "join" /\ Placed(serving)
    /\ rw \in {"close", "shift", "gone"} => conn[serving] = "closed"
    /\ main = "join" => i < MaxServers
    /\ app.at = "use" => app.place < MaxServers

\* w->arrNum never counts an agent that is not there, whoever overlaps.
Counts ==
    /\ arrNum + Pending <= Len(agent) /\ cur <= Len(agent) /\ ArraySize <= size
    /\ \A t \in Callers : adding[t].at = "store" => adding[t].read + Pending <= Len(agent)

\* Until then nothing undefined has happened, and each agent is where it belongs.
InPlace ==
    Safe =>
        /\ proc # "ub" /\ freed = {} /\ (rw = "shift" => cur = 0)
        /\ \A x \in DOMAIN agent : agent[x].index = x - 1 /\ slot[x - 1] = x
        /\ app.at = "use" => app.got \in DOMAIN agent

\* Until a connection ends the array holds all agents, and unless two calls of
\* AddServer have overlapped the counter is behind by the calls still pending.
Exact ==
    ~Removing /\ ~Grown =>
        /\ cur = Len(agent)
        /\ ~overlap => /\ arrNum + Pending = cur /\ Pending <= 1
                       /\ \A t \in Callers : adding[t].at = "store" => adding[t].read = arrNum

\* The inductive invariant.
IInv == TypeOK /\ Holders /\ Counts /\ InPlace /\ Exact

Record == [index : -1 .. MaxServers, ready : BOOLEAN, running : BOOLEAN]

-----------------------------------------------------------------------------
(* Sequences.                                                              *)

\* What a sequence becomes when an element is appended.
LEMMA Appended ==
    ASSUME NEW S, NEW s \in Seq(S), NEW e \in S
    PROVE  /\ Append(s, e) \in Seq(S) /\ Len(Append(s, e)) = Len(s) + 1
           /\ DOMAIN Append(s, e) = 1 .. Len(s) + 1 /\ DOMAIN s = 1 .. Len(s)
           /\ \A x \in DOMAIN s : Append(s, e)[x] = s[x]
           /\ Append(s, e)[Len(s) + 1] = e
  OBVIOUS

\* A sequence in which one element is replaced keeps its length.
LEMMA Replaced ==
    ASSUME NEW S, NEW s \in Seq(S), NEW x \in DOMAIN s, NEW e \in S
    PROVE  /\ [s EXCEPT ![x] = e] \in Seq(S)
           /\ Len([s EXCEPT ![x] = e]) = Len(s)
           /\ DOMAIN [s EXCEPT ![x] = e] = DOMAIN s
  BY ExceptSeq

-----------------------------------------------------------------------------
(* Every step keeps the invariant.                                         *)

\* AddServer puts the new agent in the first free slot: nobody has been moved,
\* or a removal and a second agent have put the array out of the invariant's promise.
LEMMA AddAgentKeeps ==
    ASSUME IInv, NEW t \in Callers, AddAgent(t)
    PROVE  IInv'
<1> USE PoolAssumption DEF Agents, Null, Junk, Callers
<1>0. /\ agent \in Seq(Record) /\ conn \in Seq({"none", "open", "ended", "closed"})
      /\ Len(conn) = Len(agent) /\ cur \in Nat /\ cur < size /\ Len(agent) < MaxServers
      /\ cur <= Len(agent) /\ New(cur) \in Record
  <2>1. /\ agent \in Seq(Record) /\ conn \in Seq({"none", "open", "ended", "closed"})
        /\ Len(conn) = Len(agent) /\ cur \in 0 .. MaxServers /\ size \in Nat
    BY DEF IInv, TypeOK, Record
  <2>2. cur <= Len(agent)
    BY DEF IInv, Counts
  <2>3. Len(agent) < MaxServers /\ cur < size
    BY <2>1 DEF AddAgent, MayAdd, Full
  <2>4. New(cur) \in Record
    BY <2>1 DEF New, Record
  <2> QED  BY <2>1, <2>2, <2>3, <2>4
<1>a. /\ agent' \in Seq(Record) /\ Len(agent') = Len(agent) + 1
      /\ DOMAIN agent' = 1 .. Len(agent) + 1 /\ DOMAIN agent = 1 .. Len(agent)
      /\ \A x \in DOMAIN agent : agent'[x] = agent[x]
      /\ agent'[Len(agent) + 1] = New(cur)
  BY <1>0, Appended DEF AddAgent
<1>b. /\ conn' \in Seq({"none", "open", "ended", "closed"}) /\ Len(conn') = Len(agent')
      /\ DOMAIN conn' = DOMAIN agent' /\ DOMAIN conn = DOMAIN agent
      /\ \A x \in DOMAIN conn : conn'[x] = conn[x]
      /\ conn'[Len(agent) + 1] = "none"
  BY <1>0, <1>a, Appended DEF AddAgent
<1>c. /\ \A p \in 0 .. MaxServers : slot'[p] = IF p = cur THEN Len(agent) + 1 ELSE slot[p]
      /\ slot' \in [0 .. MaxServers -> Agents \cup {Null, Junk}]
  <2>1. slot \in [0 .. MaxServers -> Agents \cup {Null, Junk}]
    BY DEF IInv, TypeOK
  <2>2. slot' = [slot EXCEPT ![cur] = Len(agent) + 1] /\ Len(agent) + 1 \in Agents
    BY <1>0, <1>a DEF AddAgent
  <2> QED  BY <2>1, <2>2
<1>d. /\ Pending' = Pending + 1 /\ Pending \in Nat
      /\ adding' \in [Callers -> [at : {"idle", "load", "store"}, read : 0 .. MaxServers]]
      /\ \A u \in Callers : adding'[u].at = "store" => adding[u].at = "store" /\ adding'[u] = adding[u]
      /\ (\A u \in Callers : adding[u].at = "idle") => Pending = 0
  <2>1. /\ adding \in [Callers -> [at : {"idle", "load", "store"}, read : 0 .. MaxServers]]
        /\ adding[t].at = "idle" /\ adding' = [adding EXCEPT ![t].at = "load"]
    BY DEF IInv, TypeOK, AddAgent, MayAdd
  <2>2. adding' \in [Callers -> [at : {"idle", "load", "store"}, read : 0 .. MaxServers]]
    BY <2>1
  <2>3. adding'[t].at = "load" /\ \A u \in Callers : u # t => adding'[u] = adding[u]
    BY <2>1
  <2>4. Pending' = Pending + 1 /\ Pending \in Nat
    BY <2>1, <2>3 DEF Pending, Busy
  <2> QED  BY <2>1, <2>2, <2>3, <2>4 DEF Pending, Busy
<1>e. Placed(Len(agent))' /\ \A x : Placed(x) => x \in DOMAIN agent' /\ agent'[x].index >= 0
  BY <1>0, <1>a DEF Placed, New
<1>f. /\ proc' = proc /\ size' = size /\ cur' = cur + 1 /\ lock' = lock /\ arrNum' = arrNum
      /\ freed' = freed /\ main' = main /\ i' = i /\ rw' = rw /\ serving' = serving
      /\ eof' = eof /\ app' = app /\ loops' = loops /\ served' = served
  BY DEF AddAgent, appVars, rwVars, mainVars
<1>g. overlap' \in BOOLEAN /\ (~overlap' => ~overlap /\ Pending = 0)
  BY <1>d DEF IInv, TypeOK, AddAgent
<1>1. TypeOK'
  <2>1. /\ size' \in Nat /\ cur' \in 0 .. MaxServers /\ cur' <= size' /\ Len(agent') <= MaxServers
    <3>1. size \in Nat
      BY DEF IInv, TypeOK
    <3> QED  BY <1>0, <1>a, <1>f, <3>1
  <2> QED
    BY <1>a, <1>b, <1>c, <1>d, <1>f, <1>g, <2>1 DEF IInv, TypeOK, Record
<1>2. Holders'
  <2>1. \A p \in 0 .. MaxServers : slot'[p] \in Agents => Placed(slot[p])'
    BY <1>0, <1>a, <1>c, <1>e DEF IInv, Holders, Placed
  <2>2. \A p \in 0 .. MaxServers : p < cur' => slot'[p] \in Agents
    BY <1>0, <1>c DEF IInv, Holders, AddAgent
  <2>3. rw' # "none" => main' = "join" /\ Placed(serving)'
    BY <1>e, <1>f DEF IInv, Holders, Placed
  <2>5. main' \in {"setup", "ready"} => ~Removing'
    BY <1>0, <1>a, <1>b, <1>f DEF IInv, Holders, Removing
  <2>4. rw' \in {"close", "shift", "gone"} => conn'[serving'] = "closed"
    BY <1>b DEF IInv, Holders, AddAgent, rwVars, Placed
  <2> QED  BY <1>f, <2>1, <2>2, <2>3, <2>4, <2>5 DEF IInv, Holders
<1>3. Counts'
  <2>1. \A u \in Callers : adding[u].read \in Nat
    BY DEF IInv, TypeOK
  <2>2. arrNum \in Nat /\ arrNum + Pending <= Len(agent) /\ ArraySize <= size
    BY DEF IInv, TypeOK, Counts
  <2>3. arrNum' + Pending' <= Len(agent') /\ cur' <= Len(agent') /\ ArraySize <= size'
    BY <1>0, <1>a, <1>d, <1>f, <2>2
  <2>4. \A u \in Callers : adding'[u].at = "store" => adding[u].read + Pending <= Len(agent)
    BY <1>d DEF IInv, Counts
  <2>5. \A u \in Callers : adding'[u].at = "store" => adding'[u].read + Pending' <= Len(agent')
    BY <1>0, <1>a, <1>d, <2>1, <2>4
  <2> QED  BY <2>3, <2>5 DEF Counts
<1>4. InPlace'
  <2> SUFFICES ASSUME Safe'  PROVE  InPlace'
    BY DEF InPlace
  <2>1. Safe /\ ~Removing
    BY <1>0, <1>a, <1>b DEF Safe, Grown, Removing, IInv, Holders
  <2>2. cur = Len(agent) /\ ~Grown
    BY <2>1 DEF IInv, Exact, Safe
  <2>3. proc' # "ub" /\ freed' = {}
    BY <1>f, <2>1 DEF IInv, InPlace
  <2>8. ~(rw' = "shift")
    BY <1>b, <1>f, <2>1 DEF IInv, Holders, Placed, Removing
  <2>4. \A x \in DOMAIN agent : agent'[x].index = x - 1 /\ slot'[x - 1] = x
    BY <1>0, <1>a, <1>c, <2>1, <2>2 DEF IInv, InPlace
  <2>5. agent'[Len(agent')].index = cur /\ slot'[cur] = Len(agent')
    BY <1>0, <1>a, <1>c DEF New
  <2>6. \A x \in DOMAIN agent' : agent'[x].index = x - 1 /\ slot'[x - 1] = x
    BY <1>0, <1>a, <2>2, <2>4, <2>5
  <2>7. app'.at = "use" => app'.got \in DOMAIN agent'
    BY <1>0, <1>a, <1>f, <2>1 DEF IInv, InPlace
  <2> QED  BY <2>3, <2>6, <2>7, <2>8 DEF InPlace
<1>5. Exact'
  <2> SUFFICES ASSUME ~Removing', ~Grown'  PROVE  Exact'
    BY DEF Exact
  <2>1. ~Removing /\ ~Grown /\ arrNum \in Nat
    BY <1>0, <1>a, <1>b DEF Removing, Grown, IInv, TypeOK
  <2>2. cur = Len(agent) /\ (~overlap => arrNum + Pending = cur)
    BY <2>1 DEF IInv, Exact
  <2>3. \A u \in Callers : ~overlap /\ adding[u].at = "store" => adding[u].read = arrNum
    BY <2>1 DEF IInv, Exact
  <2> QED  BY <1>0, <1>a, <1>d, <1>f, <1>g, <2>1, <2>2, <2>3 DEF Exact
<1> QED  BY <1>1, <1>2, <1>3, <1>4, <1>5 DEF IInv

\* AddServer finds the array full: from here on it has more agents than slots.
LEMMA AddToFullKeeps ==
    ASSUME IInv, NEW t \in Callers, AddToFull(t)
    PROVE  IInv'
<1> USE PoolAssumption DEF Agents, Null, Junk, Callers
<1>0. /\ agent \in Seq(Record) /\ conn \in Seq({"none", "open", "ended", "closed"})
      /\ Len(conn) = Len(agent) /\ cur \in Nat /\ size \in Nat /\ cur >= size
      /\ Len(agent) < MaxServers /\ cur <= Len(agent) /\ New(-1) \in Record
  BY DEF IInv, TypeOK, Counts, AddToFull, MayAdd, Full, New, Record
<1>a. /\ agent' \in Seq(Record) /\ Len(agent') = Len(agent) + 1
      /\ DOMAIN agent' = 1 .. Len(agent) + 1 /\ DOMAIN agent = 1 .. Len(agent)
      /\ \A x \in DOMAIN agent : agent'[x] = agent[x]
  BY <1>0, Appended DEF AddToFull
<1>b. /\ conn' \in Seq({"none", "open", "ended", "closed"}) /\ Len(conn') = Len(agent')
      /\ DOMAIN conn' = DOMAIN agent' /\ DOMAIN conn = DOMAIN agent
      /\ \A x \in DOMAIN conn : conn'[x] = conn[x]
  BY <1>0, <1>a, Appended DEF AddToFull
<1>c. Grown' /\ size' = 2 * size /\ ArraySize <= size
  BY <1>0, <1>a DEF Grown, AddToFull, IInv, Counts, TypeOK
<1>d. Pending' = Pending /\ Pending \in Nat
  BY DEF IInv, TypeOK, AddToFull, Pending, Busy
<1>e. \A x : Placed(x) => x \in DOMAIN agent' /\ agent'[x].index >= 0
  BY <1>0, <1>a DEF Placed
<1>1. TypeOK'
  <2>1. size' \in Nat /\ cur' \in 0 .. MaxServers /\ cur' <= size' /\ Len(agent') <= MaxServers
    BY <1>0, <1>a, <1>c DEF IInv, TypeOK, AddToFull
  <2>2. slot' \in [0 .. MaxServers -> Agents \cup {Null, Junk}] /\ freed' \subseteq Agents
    BY DEF IInv, TypeOK, AddToFull
  <2>3. proc' \in {"run", "refused", "exit", "sigpipe", "ub"} /\ lock' \in {"free", "held", "lost"}
    BY DEF IInv, TypeOK, AddToFull
  <2>4. served' \in Seq(Agents) /\ adding' = adding /\ app' = app /\ arrNum' = arrNum
    BY DEF IInv, TypeOK, AddToFull, appVars, history
  <2> QED
    BY <1>a, <1>b, <2>1, <2>2, <2>3, <2>4
    DEF IInv, TypeOK, AddToFull, appVars, rwVars, mainVars, history, Record
<1>2. Holders'
  BY <1>0, <1>a, <1>b, <1>e DEF IInv, Holders, Removing, Placed, AddToFull, appVars, rwVars, mainVars
<1>3. Counts'
  <2>1. adding' = adding /\ arrNum' = arrNum /\ cur' = cur
    BY DEF AddToFull
  <2>2. arrNum \in Nat /\ \A u \in Callers : adding[u].read \in Nat
    BY DEF IInv, TypeOK
  <2>3. arrNum' + Pending' <= Len(agent') /\ cur' <= Len(agent') /\ ArraySize <= size'
    BY <1>0, <1>a, <1>c, <1>d, <2>1, <2>2 DEF IInv, Counts
  <2>4. \A u \in Callers : adding[u].at = "store" => adding[u].read + Pending <= Len(agent)
    BY DEF IInv, Counts
  <2>5. \A u \in Callers : adding'[u].at = "store" => adding'[u].read + Pending' <= Len(agent')
    BY <1>0, <1>a, <1>d, <2>1, <2>2, <2>4
  <2> QED  BY <2>3, <2>5 DEF Counts
<1>4. InPlace'
  BY <1>c DEF InPlace, Safe
<1>5. Exact'
  BY <1>c DEF Exact
<1> QED  BY <1>1, <1>2, <1>3, <1>4, <1>5 DEF IInv

\* AddServer reads the counter.
LEMMA LoadKeeps ==
    ASSUME IInv, NEW t \in Callers, Load(t)
    PROVE  IInv'
<1>1. TypeOK'
  BY PoolAssumption DEF IInv, Load, array, agents, mainVars, rwVars, appVars,
    history, TypeOK, Agents, Null, Junk, Callers
<1>2. Holders'
  BY PoolAssumption DEF IInv, TypeOK, Load, array, agents, mainVars, rwVars,
    appVars, history, Holders, Agents, Placed, Removing
<1>3. Counts'
  BY PoolAssumption DEF IInv, TypeOK, Load, array, agents, mainVars, rwVars,
    appVars, history, Counts, Pending, Busy, Callers
<1>4. InPlace'
  BY PoolAssumption DEF IInv, TypeOK, Load, array, agents, mainVars, rwVars,
    appVars, history, InPlace, Safe, Grown, Removing
<1>5. Exact'
  BY PoolAssumption DEF IInv, TypeOK, Load, array, agents, mainVars, rwVars,
    appVars, history, Exact, Removing, Grown, Pending, Busy, Callers
<1> QED  BY <1>1, <1>2, <1>3, <1>4, <1>5 DEF IInv

\* AddServer writes the counter: one call less is pending, and the value is at
\* most one above what was read.
LEMMA StoreKeeps ==
    ASSUME IInv, NEW t \in Callers, Store(t)
    PROVE  IInv'
<1> USE PoolAssumption DEF Callers
<1>0. /\ adding \in [Callers -> [at : {"idle", "load", "store"}, read : 0 .. MaxServers]]
      /\ adding[t].at = "store" /\ adding[t].read \in 0 .. MaxServers
      /\ adding' = [adding EXCEPT ![t] = [at |-> "idle", read |-> 0]]
      /\ arrNum' = adding[t].read + 1 /\ Len(agent) \in 0 .. MaxServers
      /\ agent' = agent /\ cur' = cur /\ size' = size
  BY DEF IInv, TypeOK, Store, Counted, agents
<1>a. /\ adding'[t].at = "idle"
      /\ \A u \in Callers : u # t => adding'[u] = adding[u]
  BY <1>0
<1>b. Pending' = Pending - 1 /\ Pending \in Nat \ {0}
  BY <1>0, <1>a DEF Pending, Busy
<1>c. arrNum' + Pending' <= Len(agent) /\ arrNum' \in 0 .. MaxServers
  BY <1>0, <1>b DEF IInv, Counts
<1>d. adding' \in [Callers -> [at : {"idle", "load", "store"}, read : 0 .. MaxServers]]
  BY <1>0
<1>1. TypeOK'
  BY <1>0, <1>c, <1>d DEF IInv, TypeOK, Store, agents, mainVars, rwVars, appVars, history
<1>2. Holders'
  BY PoolAssumption DEF IInv, TypeOK, Store, Counted, agents, mainVars, rwVars,
    appVars, history, Holders, Agents, Placed, Removing
<1>3. Counts'
  <2>1. \A u \in Callers : adding[u].read \in Nat
    BY <1>0
  <2>2. \A u \in Callers : adding'[u].at = "store" => adding'[u].read + Pending' <= Len(agent)
    BY <1>0, <1>a, <1>b, <2>1 DEF IInv, Counts
  <2> QED  BY <1>0, <1>c, <2>2 DEF IInv, Counts
<1>4. InPlace'
  BY PoolAssumption DEF IInv, TypeOK, Store, Counted, agents, mainVars, rwVars,
    appVars, history, InPlace, Safe, Grown, Removing
<1>5. Exact'
  <2> SUFFICES ASSUME ~Removing, ~Grown  PROVE  Exact'
    BY DEF Exact, Removing, Grown, Store, agents
  <2>1. cur = Len(agent) /\ overlap' = overlap
    BY DEF IInv, Exact, Store, history
  <2>2. ~overlap => /\ arrNum + Pending = cur /\ Pending <= 1 /\ adding[t].read = arrNum
    BY <1>0 DEF IInv, Exact
  <2>3. ~overlap => Pending' = 0 /\ arrNum' + Pending' = cur
    BY <1>0, <1>b, <2>1, <2>2 DEF IInv, TypeOK
  <2>4. Pending' = 0 => \A u \in Callers : adding'[u].at # "store"
    BY DEF Pending, Busy
  <2> QED  BY <1>0, <2>1, <2>3, <2>4 DEF Exact
<1> QED  BY <1>1, <1>2, <1>3, <1>4, <1>5 DEF IInv

\* main enters Ready, or is refused.
LEMMA ReadyKeeps ==
    ASSUME IInv, Ready
    PROVE  IInv'
<1>1. TypeOK'
  BY PoolAssumption DEF IInv, Ready, Proceed, Refused, mainVars, array, agents,
    rwVars, appVars, history, TypeOK, Agents, Null, Junk, Callers
<1>2. Holders'
  BY PoolAssumption DEF IInv, TypeOK, Ready, Proceed, Refused, mainVars, array,
    agents, rwVars, appVars, history, Holders, Agents, Placed, Removing
<1>3. Counts'
  BY PoolAssumption DEF IInv, TypeOK, Ready, Proceed, Refused, mainVars, array,
    agents, rwVars, appVars, history, Counts, Pending, Busy, Callers
<1>4. InPlace'
  BY PoolAssumption DEF IInv, TypeOK, Ready, Proceed, Refused, mainVars, array,
    agents, rwVars, appVars, history, InPlace, Safe, Grown, Removing
<1>5. Exact'
  BY PoolAssumption DEF IInv, TypeOK, Ready, Proceed, Refused, mainVars, array,
    agents, rwVars, appVars, history, Exact, Removing, Grown, Pending, Busy,
    Callers
<1> QED  BY <1>1, <1>2, <1>3, <1>4, <1>5 DEF IInv

\* One round of Ready's loop: the slot it reads is below the counter, so it holds
\* an agent.
LEMMA ConnectKeeps ==
    ASSUME IInv, Connect
    PROVE  IInv'
<1> USE PoolAssumption DEF Agents, Null, Junk
<1>0. /\ agent \in Seq(Record) /\ conn \in Seq({"none", "open", "ended", "closed"})
      /\ Len(conn) = Len(agent) /\ Len(agent) \in 0 .. MaxServers
      /\ DOMAIN agent = 1 .. Len(agent) /\ DOMAIN conn = 1 .. Len(agent)
  BY DEF IInv, TypeOK, Record
<1>a. Pending \in Nat /\ Pending' = Pending
  BY DEF Pending, Busy, Connect
<1>b. i \in Nat /\ i < Len(agent) /\ i' = i + 1 /\ main = "ready" /\ ~Removing
  BY <1>a, <1>0 DEF IInv, TypeOK, Counts, Holders, Connect
<1>c. /\ size' = size /\ cur' = cur /\ slot' = slot /\ lock' = lock /\ arrNum' = arrNum
      /\ freed' = freed /\ adding' = adding /\ main' = main /\ rw' = rw /\ serving' = serving
      /\ eof' = eof /\ app' = app /\ loops' = loops /\ served' = served /\ overlap' = overlap
  BY DEF Connect, array, rwVars, appVars, history
<1>d. /\ agent' \in Seq(Record) /\ conn' \in Seq({"none", "open", "ended", "closed"})
      /\ Len(agent') = Len(agent) /\ Len(conn') = Len(agent)
      /\ DOMAIN agent' = DOMAIN agent /\ DOMAIN conn' = DOMAIN agent
      /\ \A x \in DOMAIN agent : agent'[x].index = agent[x].index
      /\ \A x \in DOMAIN agent : conn'[x] # "closed"
  <2>1. CASE agent' = agent /\ conn' = conn
    BY <1>0, <1>b, <2>1 DEF Removing
  <2>2. CASE /\ Usable(slot[i]) /\ agent' = [agent EXCEPT ![slot[i]].ready = TRUE]
             /\ conn' = [conn EXCEPT ![slot[i]] = "open"]
    <3>1. slot[i] \in DOMAIN agent
      BY <1>0, <1>b, <2>2 DEF IInv, Holders, Placed, Usable
    <3>0. agent[slot[i]] \in Record
      BY <1>0, <3>1
    <3>2. [agent[slot[i]] EXCEPT !.ready = TRUE] \in Record
      BY <3>0 DEF Record
    <3>3. /\ agent' \in Seq(Record) /\ Len(agent') = Len(agent) /\ DOMAIN agent' = DOMAIN agent
      BY <1>0, <2>2, <3>1, <3>2, Replaced
    <3>4. /\ conn' \in Seq({"none", "open", "ended", "closed"}) /\ Len(conn') = Len(agent)
          /\ DOMAIN conn' = DOMAIN agent
      BY <1>0, <2>2, <3>1, Replaced
    <3>5. \A x \in DOMAIN agent : agent'[x].index = agent[x].index
      BY <1>0, <2>2, <3>1 DEF Record
    <3>6. \A x \in DOMAIN agent : conn'[x] # "closed"
      BY <1>0, <1>b, <2>2, <3>1 DEF Removing
    <3> QED  BY <3>3, <3>4, <3>5, <3>6
  <2> QED  BY <2>1, <2>2 DEF Connect
<1>e. proc' = proc \/ (proc' = "ub" /\ slot[i] # Null /\ ~Usable(slot[i]))
  BY DEF Connect
<1>f. ~Removing' /\ Grown' = Grown
  BY <1>d DEF Removing, Grown
<1>1. TypeOK'
  BY <1>0, <1>b, <1>c, <1>d, <1>e DEF IInv, TypeOK, Record
<1>2. Holders'
  BY <1>0, <1>b, <1>c, <1>d, <1>f DEF IInv, TypeOK, Holders, Placed
<1>3. Counts'
  BY <1>a, <1>c, <1>d DEF IInv, Counts
<1>4. InPlace'
  <2> SUFFICES ASSUME ~Grown  PROVE  InPlace'
    BY <1>f DEF InPlace, Safe
  <2>1. /\ proc # "ub" /\ freed = {} /\ (rw = "shift" => cur = 0)
        /\ \A x \in DOMAIN agent : agent[x].index = x - 1 /\ slot[x - 1] = x
        /\ app.at = "use" => app.got \in DOMAIN agent
    BY <1>b DEF IInv, InPlace, Safe
  <2>3. i + 1 \in DOMAIN agent /\ i + 1 \in Agents /\ (i + 1) - 1 = i
    BY <1>0, <1>b
  <2>2. slot[i] = i + 1 /\ Usable(slot[i])
    BY <2>1, <2>3 DEF Usable
  <2> QED  BY <1>c, <1>d, <1>e, <2>1, <2>2 DEF InPlace
<1>5. Exact'
  BY <1>a, <1>b, <1>c, <1>d, <1>f DEF IInv, Exact
<1> QED  BY <1>1, <1>2, <1>3, <1>4, <1>5 DEF IInv

\* main enters Work, or is refused.
LEMMA WorkKeeps ==
    ASSUME IInv, Work
    PROVE  IInv'
<1>1. TypeOK'
  BY PoolAssumption DEF IInv, Work, Proceed, Refused, mainVars, array, agents,
    rwVars, appVars, history, TypeOK, Agents, Null, Junk, Callers
<1>2. Holders'
  BY PoolAssumption DEF IInv, TypeOK, Work, Proceed, Refused, mainVars, array,
    agents, rwVars, appVars, history, Holders, Agents, Placed, Removing
<1>3. Counts'
  BY PoolAssumption DEF IInv, TypeOK, Work, Proceed, Refused, mainVars, array,
    agents, rwVars, appVars, history, Counts, Pending, Busy, Callers
<1>4. InPlace'
  BY PoolAssumption DEF IInv, TypeOK, Work, Proceed, Refused, mainVars, array,
    agents, rwVars, appVars, history, InPlace, Safe, Grown, Removing
<1>5. Exact'
  BY PoolAssumption DEF IInv, TypeOK, Work, Proceed, Refused, mainVars, array,
    agents, rwVars, appVars, history, Exact, Removing, Grown, Pending, Busy,
    Callers
<1> QED  BY <1>1, <1>2, <1>3, <1>4, <1>5 DEF IInv

\* Work passes over an agent that has not connected.
LEMMA SkipKeeps ==
    ASSUME IInv, Skip
    PROVE  IInv'
<1>1. TypeOK'
  BY PoolAssumption DEF IInv, Skip, Null, Usable, Agents, array, agents,
    rwVars, appVars, history, TypeOK, Junk, Callers
<1>2. Holders'
  BY PoolAssumption DEF IInv, TypeOK, Skip, Null, Usable, Agents, array,
    agents, rwVars, appVars, history, Holders, Placed, Removing
<1>3. Counts'
  BY PoolAssumption DEF IInv, TypeOK, Skip, Null, Usable, Agents, array,
    agents, rwVars, appVars, history, Counts, Pending, Busy, Callers
<1>4. InPlace'
  BY PoolAssumption DEF IInv, TypeOK, Skip, Null, Usable, Agents, array,
    agents, rwVars, appVars, history, InPlace, Safe, Grown, Removing
<1>5. Exact'
  BY PoolAssumption DEF IInv, TypeOK, Skip, Null, Usable, Agents, array,
    agents, rwVars, appVars, history, Exact, Removing, Grown, Pending, Busy,
    Callers
<1> QED  BY <1>1, <1>2, <1>3, <1>4, <1>5 DEF IInv

\* Work reads a slot that holds no agent: some agent has been moved.
LEMMA UseDanglingKeeps ==
    ASSUME IInv, UseDangling
    PROVE  IInv'
<1>1. TypeOK'
  BY PoolAssumption DEF IInv, UseDangling, Null, Usable, Agents, array, agents,
    mainVars, rwVars, appVars, history, TypeOK, Junk, Callers
<1>2. Holders'
  BY PoolAssumption DEF IInv, TypeOK, UseDangling, Null, Usable, Agents, array,
    agents, mainVars, rwVars, appVars, history, Holders, Placed, Removing
<1>3. Counts'
  BY PoolAssumption DEF IInv, TypeOK, UseDangling, Null, Usable, Agents, array,
    agents, mainVars, rwVars, appVars, history, Counts, Pending, Busy, Callers
<1>4. InPlace'
  <2> SUFFICES ASSUME Safe  PROVE  FALSE
    BY DEF InPlace, Safe, Removing, Grown, UseDangling, array, agents
  <2>1. Pending \in Nat /\ Len(agent) \in 0 .. MaxServers /\ DOMAIN agent = 1 .. Len(agent)
    BY DEF Pending, Busy, IInv, TypeOK
  <2>2. i \in Nat /\ i < Len(agent)
    BY <2>1 DEF IInv, TypeOK, Counts, UseDangling
  <2>3. i + 1 \in DOMAIN agent /\ (i + 1) - 1 = i
    BY <2>1, <2>2
  <2>4. freed = {} /\ slot[i] = i + 1
    BY <2>3 DEF IInv, InPlace
  <2> QED  BY PoolAssumption, <2>1, <2>2, <2>3, <2>4 DEF UseDangling, Usable, Agents
<1>5. Exact'
  BY PoolAssumption DEF IInv, TypeOK, UseDangling, Null, Usable, Agents, array,
    agents, mainVars, rwVars, appVars, history, Exact, Removing, Grown,
    Pending, Busy, Callers
<1> QED  BY <1>1, <1>2, <1>3, <1>4, <1>5 DEF IInv

\* Work starts the read/write thread of the agent in the slot, or is killed.
LEMMA StartKeeps ==
    ASSUME IInv, Start
    PROVE  IInv'
<1>0. slot[i] \in Agents /\ Placed(slot[i]) /\ i \in Nat /\ i < MaxServers
  <2>1. slot[i] \in Agents /\ i < arrNum
    BY DEF Start, Usable
  <2>2. i \in Nat /\ i < MaxServers
    BY PoolAssumption, <2>1 DEF IInv, TypeOK
  <2>3. Placed(slot[i])
    BY PoolAssumption, <2>1, <2>2 DEF IInv, Holders
  <2> QED  BY <2>1, <2>2, <2>3
<1>a. /\ size' = size /\ cur' = cur /\ slot' = slot /\ lock' = lock /\ arrNum' = arrNum
      /\ agent' = agent /\ freed' = freed /\ conn' = conn /\ adding' = adding
      /\ i' = i /\ eof' = eof /\ app' = app /\ loops' = loops /\ overlap' = overlap
      /\ main = "work"
      /\ \/ main' = "join" /\ rw' = "new" /\ serving' = slot[i] /\ proc' = proc
         \/ main' = main /\ rw' = rw /\ serving' = serving /\ proc' = "sigpipe"
  BY DEF Start, array, agents, appVars
<1>1. TypeOK'
  <2>1. served \in Seq(Agents)
    BY DEF IInv, TypeOK
  <2>2. served' = served \/ served' = Append(served, slot[i])
    BY DEF Start
  <2>3. served' \in Seq(Agents)
    BY <1>0, <2>1, <2>2, Appended
  <2> QED
    BY <1>0, <1>a, <2>3 DEF IInv, TypeOK
<1>2. Holders'
  BY <1>0, <1>a DEF IInv, Holders, Placed, Removing
<1>3. Counts'
  BY PoolAssumption DEF IInv, TypeOK, Start, Usable, Agents, array, agents,
    appVars, Counts, Pending, Busy, Callers
<1>4. InPlace'
  BY PoolAssumption DEF IInv, TypeOK, Start, Usable, Agents, array, agents,
    appVars, InPlace, Safe, Grown, Removing
<1>5. Exact'
  BY PoolAssumption DEF IInv, TypeOK, Start, Usable, Agents, array, agents,
    appVars, Exact, Removing, Grown, Pending, Busy, Callers
<1> QED  BY <1>1, <1>2, <1>3, <1>4, <1>5 DEF IInv

\* Work goes on to the next slot.
LEMMA JoinKeeps ==
    ASSUME IInv, Join
    PROVE  IInv'
<1>1. TypeOK'
  <2>1. i' \in 0 .. MaxServers
    BY PoolAssumption DEF IInv, TypeOK, Holders, Join, NextAgent
  <2> QED  BY <2>1 DEF IInv, TypeOK, Join, array, agents, appVars, history
<1>2. Holders'
  BY PoolAssumption DEF IInv, TypeOK, Join, Null, NextAgent, array, agents,
    appVars, history, Holders, Agents, Placed, Removing
<1>3. Counts'
  BY PoolAssumption DEF IInv, TypeOK, Join, Null, NextAgent, array, agents,
    appVars, history, Counts, Pending, Busy, Callers
<1>4. InPlace'
  BY PoolAssumption DEF IInv, TypeOK, Join, Null, NextAgent, array, agents,
    appVars, history, InPlace, Safe, Grown, Removing
<1>5. Exact'
  BY PoolAssumption DEF IInv, TypeOK, Join, Null, NextAgent, array, agents,
    appVars, history, Exact, Removing, Grown, Pending, Busy, Callers
<1> QED  BY <1>1, <1>2, <1>3, <1>4, <1>5 DEF IInv

\* Work has been through the array.
LEMMA SleepKeeps ==
    ASSUME IInv, Sleep
    PROVE  IInv'
<1>1. TypeOK'
  BY PoolAssumption DEF IInv, Sleep, array, agents, rwVars, appVars, history,
    TypeOK, Agents, Null, Junk, Callers
<1>2. Holders'
  BY PoolAssumption DEF IInv, TypeOK, Sleep, array, agents, rwVars, appVars,
    history, Holders, Agents, Placed, Removing
<1>3. Counts'
  BY PoolAssumption DEF IInv, TypeOK, Sleep, array, agents, rwVars, appVars,
    history, Counts, Pending, Busy, Callers
<1>4. InPlace'
  BY PoolAssumption DEF IInv, TypeOK, Sleep, array, agents, rwVars, appVars,
    history, InPlace, Safe, Grown, Removing
<1>5. Exact'
  BY PoolAssumption DEF IInv, TypeOK, Sleep, array, agents, rwVars, appVars,
    history, Exact, Removing, Grown, Pending, Busy, Callers
<1> QED  BY <1>1, <1>2, <1>3, <1>4, <1>5 DEF IInv

\* The read/write thread marks its agent as running.
LEMMA RunKeeps ==
    ASSUME IInv, Run
    PROVE  IInv'
<1>0. /\ serving \in DOMAIN agent /\ agent \in Seq(Record)
  BY DEF IInv, TypeOK, Holders, Run, Placed, Record
<1>a. agent[serving] \in Record /\ DOMAIN agent = 1 .. Len(agent)
  BY <1>0
<1>b. [agent[serving] EXCEPT !.running = TRUE] \in Record
  BY <1>a DEF Record
<1>c. agent' \in Seq(Record) /\ Len(agent') = Len(agent) /\ DOMAIN agent' = DOMAIN agent
  BY <1>0, <1>b, Replaced DEF Run
<1>d. \A x \in DOMAIN agent : agent'[x].index = agent[x].index
  BY <1>0, <1>a DEF Run, Record
<1>e. /\ proc' = proc /\ size' = size /\ cur' = cur /\ slot' = slot /\ lock' = lock
      /\ arrNum' = arrNum /\ freed' = freed /\ conn' = conn /\ adding' = adding
      /\ main' = main /\ i' = i /\ rw = "new" /\ rw' = "serve" /\ serving' = serving
      /\ eof' = eof /\ app' = app /\ loops' = loops /\ served' = served /\ overlap' = overlap
  BY DEF Run, array, mainVars, appVars, history
<1>1. TypeOK'
  BY <1>c, <1>e DEF IInv, TypeOK, Record
<1>2. Holders'
  BY <1>c, <1>d, <1>e DEF IInv, Holders, Placed, Removing
<1>3. Counts'
  BY <1>c, <1>e DEF IInv, Counts, Pending, Busy
<1>4. InPlace'
  BY <1>c, <1>d, <1>e DEF IInv, InPlace, Safe, Grown, Removing
<1>5. Exact'
  BY <1>c, <1>e DEF IInv, Exact, Grown, Removing, Pending, Busy
<1> QED  BY <1>1, <1>2, <1>3, <1>4, <1>5 DEF IInv

\* The read/write thread closes its connection: from here on a removal is under
\* way.
LEMMA CloseKeeps ==
    ASSUME IInv, Close
    PROVE  IInv'
<1>1. TypeOK'
  <2>1. serving \in DOMAIN conn /\ conn \in Seq({"none", "open", "ended", "closed"})
    BY DEF IInv, TypeOK, Holders, Close, Placed
  <2>2. conn' \in Seq({"none", "open", "ended", "closed"}) /\ Len(conn') = Len(conn)
    BY <2>1, Replaced DEF Close
  <2>3. eof' \in BOOLEAN
    BY DEF Close
  <2> QED  BY <2>2, <2>3 DEF IInv, TypeOK, Close, array, mainVars, appVars, history
<1>2. Holders'
  BY PoolAssumption DEF IInv, TypeOK, Close, array, mainVars, appVars, history,
    Holders, Agents, Placed, Removing
<1>3. Counts'
  BY PoolAssumption DEF IInv, TypeOK, Close, array, mainVars, appVars, history,
    Counts, Pending, Busy, Callers
<1>4. InPlace'
  BY PoolAssumption DEF IInv, TypeOK, Close, array, mainVars, appVars, history,
    InPlace, Safe, Grown, Removing
<1>5. Exact'
  BY PoolAssumption DEF IInv, TypeOK, Close, array, mainVars, appVars, history,
    Exact, Removing, Grown, Pending, Busy, Callers
<1> QED  BY <1>1, <1>2, <1>3, <1>4, <1>5 DEF IInv

\* DelAgent moves the agents down: with one agent there is none to move.
LEMMA DelBeginKeeps ==
    ASSUME IInv, DelBegin
    PROVE  IInv'
<1> USE PoolAssumption DEF Agents, Null, Junk
<1>h. Place \in 0 .. MaxServers
  <2>1. serving \in DOMAIN agent /\ agent \in Seq(Record) /\ agent[serving].index >= 0
    BY DEF IInv, TypeOK, Holders, DelBegin, Placed, Record
  <2>2. agent[serving] \in Record
    BY <2>1
  <2> QED  BY <2>1, <2>2 DEF Record, Place
<1>0. /\ rw = "close" /\ Placed(serving) /\ conn[serving] = "closed" /\ main = "join"
      /\ cur \in 0 .. MaxServers /\ Place \in 0 .. MaxServers /\ cur <= Len(agent)
      /\ slot \in [0 .. MaxServers -> Agents \cup {Null, Junk}]
      /\ DOMAIN agent = 1 .. Len(agent) /\ DOMAIN conn = DOMAIN agent /\ Len(agent) <= MaxServers
  BY <1>h DEF IInv, TypeOK, Holders, Counts, DelBegin, Placed
<1>a. /\ Moved \subseteq 0 .. MaxServers
      /\ \A p \in Moved : p + 1 \in 0 .. MaxServers /\ p + 1 < cur
      /\ cur' \in 0 .. cur /\ cur' <= cur /\ (cur' = cur => Moved = {})
      /\ \A p \in Moved : p < cur
  <2>1. \A p \in Moved : p \in Nat /\ p < cur - 1
    BY <1>0 DEF Moved, Last
  <2>2. cur' = IF Place < cur THEN cur - 1 ELSE cur
    BY DEF DelBegin, Last
  <2>3. cur' \in 0 .. cur /\ (cur' = cur => Moved = {})
    BY <1>0, <2>2 DEF Moved
  <2> QED  BY <1>0, <2>1, <2>3
<1>b. \A p \in 0 .. MaxServers : slot'[p] = IF p \in Moved THEN slot[p + 1] ELSE slot[p]
  BY <1>0 DEF DelBegin
<1>c. slot' \in [0 .. MaxServers -> Agents \cup {Null, Junk}]
  BY <1>0, <1>a DEF DelBegin
<1>d. Removing /\ Removing' /\ Grown' = Grown /\ (Safe' => Safe)
  BY <1>0 DEF Removing, Grown, Safe, DelBegin, Placed
<1>e. /\ size' = size /\ lock' = "held" /\ arrNum' = arrNum /\ agent' = agent /\ conn' = conn
      /\ adding' = adding /\ main' = main /\ i' = i /\ rw' = "shift" /\ serving' = serving
      /\ eof' = eof /\ app' = app /\ loops' = loops /\ served' = served /\ overlap' = overlap
  BY DEF DelBegin, mainVars, appVars, history
<1>1. TypeOK'
  <2>1. freed' = freed \cup {slot[p] : p \in Moved} /\ proc' \in {proc, "ub"}
    BY DEF DelBegin
  <2>2. freed' \subseteq Agents
    <3>1. \A p \in Moved : slot[p] \in Agents
      BY <1>a DEF IInv, Holders
    <3>2. freed \subseteq Agents
      BY DEF IInv, TypeOK
    <3> QED  BY <2>1, <3>1, <3>2
  <2> QED  BY <1>0, <1>a, <1>c, <1>e, <2>1, <2>2 DEF IInv, TypeOK
<1>2. Holders'
  <2>1. \A p \in 0 .. MaxServers : slot'[p] \in Agents => Placed(slot[p])'
    BY <1>a, <1>b, <1>e DEF IInv, Holders, Placed
  <2>2. \A p \in 0 .. MaxServers : p < cur' => slot'[p] \in Agents
    BY <1>0, <1>a, <1>b DEF IInv, Holders
  <2> QED  BY <1>0, <1>e, <2>1, <2>2 DEF IInv, Holders, Placed
<1>3. Counts'
  BY <1>0, <1>a, <1>e DEF IInv, Counts, Pending, Busy
<1>4. InPlace'
  <2> SUFFICES ASSUME Safe  PROVE  InPlace'
    BY <1>d DEF InPlace
  <2>1. Len(agent) = 1 /\ serving = 1 /\ cur <= 1
    BY <1>0, <1>d DEF Safe, Placed
  <2>4. Place = 0
    BY <1>0, <2>1 DEF IInv, InPlace, Place
  <2>2. Moved = {} /\ cur' = 0
    BY <1>0, <2>1, <2>4 DEF Moved, Last, DelBegin
  <2>3. slot' = slot /\ freed' = freed /\ proc' = proc
    BY <1>0, <2>2 DEF DelBegin
  <2> QED  BY <1>e, <2>2, <2>3 DEF IInv, InPlace
<1>5. Exact'
  BY <1>d DEF Exact
<1> QED  BY <1>1, <1>2, <1>3, <1>4, <1>5 DEF IInv

\* DelAgent returns, and the read/write thread ends or takes the process with it.
LEMMA DelEndKeeps ==
    ASSUME IInv, DelEnd
    PROVE  IInv'
<1>1. TypeOK'
  BY PoolAssumption DEF IInv, DelEnd, Cancelled, agents, mainVars, appVars,
    history, TypeOK, Agents, Null, Junk, Callers
<1>2. Holders'
  BY PoolAssumption DEF IInv, TypeOK, DelEnd, Cancelled, agents, mainVars,
    appVars, history, Holders, Agents, Placed, Removing
<1>3. Counts'
  BY PoolAssumption DEF IInv, TypeOK, DelEnd, Cancelled, agents, mainVars,
    appVars, history, Counts, Pending, Busy, Callers
<1>4. InPlace'
  BY PoolAssumption DEF IInv, TypeOK, DelEnd, Cancelled, agents, mainVars,
    appVars, history, InPlace, Safe, Grown, Removing
<1>5. Exact'
  BY PoolAssumption DEF IInv, TypeOK, DelEnd, Cancelled, agents, mainVars,
    appVars, history, Exact, Removing, Grown, Pending, Busy, Callers
<1> QED  BY <1>1, <1>2, <1>3, <1>4, <1>5 DEF IInv

\* AddFunction or DelFunction begins its loop over the agents.
LEMMA StartLoopKeeps ==
    ASSUME IInv, StartLoop
    PROVE  IInv'
<1>1. TypeOK'
  BY PoolAssumption DEF IInv, StartLoop, Null, array, agents, mainVars, rwVars,
    history, TypeOK, Agents, Junk, Callers
<1>2. Holders'
  BY PoolAssumption DEF IInv, TypeOK, StartLoop, Null, array, agents, mainVars,
    rwVars, history, Holders, Agents, Placed, Removing
<1>3. Counts'
  BY PoolAssumption DEF IInv, TypeOK, StartLoop, Null, array, agents, mainVars,
    rwVars, history, Counts, Pending, Busy, Callers
<1>4. InPlace'
  BY PoolAssumption DEF IInv, TypeOK, StartLoop, Null, array, agents, mainVars,
    rwVars, history, InPlace, Safe, Grown, Removing
<1>5. Exact'
  BY PoolAssumption DEF IInv, TypeOK, StartLoop, Null, array, agents, mainVars,
    rwVars, history, Exact, Removing, Grown, Pending, Busy, Callers
<1> QED  BY <1>1, <1>2, <1>3, <1>4, <1>5 DEF IInv

\* The loop reads a slot below the counter, which holds an agent until one is
\* moved.
LEMMA FetchKeeps ==
    ASSUME IInv, Fetch
    PROVE  IInv'
<1> USE PoolAssumption DEF Agents, Null, Junk
<1>0. /\ app.at = "fetch" /\ app.place \in 0 .. MaxServers /\ arrNum \in 0 .. MaxServers
      /\ slot \in [0 .. MaxServers -> Agents \cup {Null, Junk}]
      /\ app = [at |-> app.at, place |-> app.place, got |-> app.got]
  BY DEF IInv, TypeOK, Fetch
<1>a. /\ proc' = proc /\ size' = size /\ cur' = cur /\ slot' = slot /\ lock' = lock
      /\ arrNum' = arrNum /\ agent' = agent /\ freed' = freed /\ conn' = conn
      /\ adding' = adding /\ main' = main /\ i' = i /\ rw' = rw /\ serving' = serving
      /\ eof' = eof /\ loops' = loops /\ served' = served /\ overlap' = overlap
  BY DEF Fetch, array, agents, mainVars, rwVars, history
<1>b. \/ app' = [at |-> "idle", place |-> 0, got |-> Null]
      \/ /\ app.place < arrNum
         /\ \/ app' = [at |-> "use", place |-> app.place, got |-> slot[app.place]]
            \/ /\ app' = [at |-> "use", place |-> app.place, got |-> Null]
               /\ rw = "shift" /\ Place <= app.place /\ app.place < cur
  BY <1>0 DEF Fetch
<1>c. app' \in [at : {"idle", "fetch", "use"}, place : 0 .. MaxServers, got : Agents \cup {Null, Junk}]
  BY <1>0, <1>b
<1>1. TypeOK'
  BY <1>a, <1>c DEF IInv, TypeOK
<1>2. Holders'
  <2>1. app'.at = "use" => app'.place < MaxServers
    BY <1>0, <1>b
  <2> QED  BY <1>a, <2>1 DEF IInv, Holders, Placed, Removing
<1>3. Counts'
  BY PoolAssumption DEF IInv, TypeOK, Fetch, Place, Null, array, agents,
    mainVars, rwVars, history, Counts, Pending, Busy, Callers
<1>4. InPlace'
  <2> SUFFICES ASSUME Safe  PROVE  InPlace'
    BY <1>a DEF InPlace, Safe, Removing, Grown
  <2>1. Pending \in Nat /\ Len(agent) \in 0 .. MaxServers /\ DOMAIN agent = 1 .. Len(agent)
    BY DEF Pending, Busy, IInv, TypeOK
  <2>2. app'.at = "use" => app.place + 1 \in DOMAIN agent /\ (app.place + 1) - 1 = app.place
    BY <1>0, <1>b, <2>1 DEF IInv, Counts
  <2>3. app'.at = "use" => slot[app.place] = app.place + 1
    BY <2>2 DEF IInv, InPlace
  <2>4. ~(rw = "shift" /\ Place <= app.place /\ app.place < cur)
    BY <1>0 DEF IInv, Holders, InPlace
  <2> QED  BY <1>a, <1>b, <2>2, <2>3, <2>4 DEF IInv, InPlace
<1>5. Exact'
  BY PoolAssumption DEF IInv, TypeOK, Fetch, Place, Null, array, agents,
    mainVars, rwVars, history, Exact, Removing, Grown, Pending, Busy, Callers
<1> QED  BY <1>1, <1>2, <1>3, <1>4, <1>5 DEF IInv

\* The loop uses the agent it has read.
LEMMA UseKeeps ==
    ASSUME IInv, Use
    PROVE  IInv'
<1>1. TypeOK'
  <2>1. app' \in [at : {"idle", "fetch", "use"}, place : 0 .. MaxServers,
                  got : Agents \cup {Null, Junk}]
    BY PoolAssumption DEF IInv, TypeOK, Holders, Use, Null
  <2> QED  BY <2>1 DEF IInv, TypeOK, Use, array, agents, mainVars, rwVars, history
<1>2. Holders'
  BY PoolAssumption DEF IInv, TypeOK, Use, Null, Usable, Agents, array, agents,
    mainVars, rwVars, history, Holders, Placed, Removing
<1>3. Counts'
  BY PoolAssumption DEF IInv, TypeOK, Use, Null, Usable, Agents, array, agents,
    mainVars, rwVars, history, Counts, Pending, Busy, Callers
<1>4. InPlace'
  BY PoolAssumption DEF IInv, TypeOK, Use, Null, Usable, Agents, array, agents,
    mainVars, rwVars, history, InPlace, Safe, Grown, Removing
<1>5. Exact'
  BY PoolAssumption DEF IInv, TypeOK, Use, Null, Usable, Agents, array, agents,
    mainVars, rwVars, history, Exact, Removing, Grown, Pending, Busy, Callers
<1> QED  BY <1>1, <1>2, <1>3, <1>4, <1>5 DEF IInv

\* A server ends a connection.
LEMMA ServerCloseKeeps ==
    ASSUME IInv, ServerClose
    PROVE  IInv'
<1>a. /\ proc' = proc /\ size' = size /\ cur' = cur /\ slot' = slot /\ lock' = lock
      /\ arrNum' = arrNum /\ agent' = agent /\ freed' = freed /\ adding' = adding
      /\ main' = main /\ i' = i /\ rw' = rw /\ serving' = serving /\ eof' = eof
      /\ app' = app /\ loops' = loops /\ served' = served /\ overlap' = overlap
  BY DEF ServerClose, array, mainVars, rwVars, appVars, history
<1>b. DOMAIN conn' = DOMAIN conn /\ \A x \in DOMAIN conn : conn'[x] = "closed" <=> conn[x] = "closed"
  BY DEF ServerClose
<1>c. Removing' = Removing
  BY <1>b DEF Removing
<1>1. TypeOK'
  <2>1. conn \in Seq({"none", "open", "ended", "closed"})
    BY DEF IInv, TypeOK
  <2>2. conn' \in Seq({"none", "open", "ended", "closed"}) /\ Len(conn') = Len(conn)
    BY <2>1, Replaced DEF ServerClose
  <2> QED  BY <2>2 DEF IInv, TypeOK, ServerClose, array, mainVars, rwVars, appVars, history
<1>2. Holders'
  <2>1. DOMAIN conn = DOMAIN agent
    BY DEF IInv, TypeOK
  <2> QED  BY <1>a, <1>b, <1>c, <2>1 DEF IInv, Holders, Placed
<1>3. Counts'
  BY PoolAssumption DEF IInv, TypeOK, ServerClose, array, mainVars, rwVars,
    appVars, history, Counts, Pending, Busy, Callers
<1>4. InPlace'
  BY <1>a, <1>c DEF IInv, InPlace, Safe, Grown
<1>5. Exact'
  BY <1>a, <1>c DEF IInv, Exact, Grown, Pending, Busy
<1> QED  BY <1>1, <1>2, <1>3, <1>4, <1>5 DEF IInv

-----------------------------------------------------------------------------
(* The theorems.                                                           *)

\* The initial states satisfy the invariant: no agent has been added.
LEMMA InitHolds == Init => IInv
  <1> SUFFICES ASSUME Init  PROVE  IInv
    OBVIOUS
  <1> USE PoolAssumption DEF Init
  <1>1. /\ agent = <<>> /\ conn = <<>> /\ Len(agent) = 0 /\ Len(conn) = 0
        /\ DOMAIN agent = {} /\ DOMAIN conn = {}
    OBVIOUS
  <1>2. Pending = 0 /\ \A t \in Callers : adding[t].at = "idle"
    BY DEF Pending, Busy, Callers
  <1>3. TypeOK
    <2>1. /\ agent \in Seq([index : -1 .. MaxServers, ready : BOOLEAN, running : BOOLEAN])
          /\ conn \in Seq({"none", "open", "ended", "closed"}) /\ served \in Seq(Agents)
      OBVIOUS
    <2>2. /\ slot \in [0 .. MaxServers -> Agents \cup {Null, Junk}]
          /\ size \in Nat /\ cur \in 0 .. MaxServers /\ cur <= size /\ arrNum \in 0 .. MaxServers
      BY DEF Junk
    <2>3. adding \in [Callers -> [at : {"idle", "load", "store"}, read : 0 .. MaxServers]]
      OBVIOUS
    <2>4. /\ app \in [at : {"idle", "fetch", "use"}, place : 0 .. MaxServers,
                      got : Agents \cup {Null, Junk}]
          /\ loops \in 0 .. MaxLoops /\ i \in 0 .. MaxServers /\ serving \in Agents \cup {Null}
      OBVIOUS
    <2> QED  BY <1>1, <2>1, <2>2, <2>3, <2>4 DEF TypeOK
  <1>4. Holders
    BY <1>1 DEF Holders, Removing, Agents, Junk
  <1>5. Counts
    BY <1>1, <1>2 DEF Counts
  <1>6. InPlace
    BY <1>1 DEF InPlace
  <1>7. Exact
    BY <1>1, <1>2 DEF Exact
  <1> QED  BY <1>3, <1>4, <1>5, <1>6, <1>7 DEF IInv

\* Every step of the three threads and of the servers keeps the invariant, and
\* so does a step that changes nothing.
LEMMA StepKeeps == IInv /\ [Next]_vars => IInv'
  <1> SUFFICES ASSUME IInv, [Next]_vars  PROVE  IInv'
    OBVIOUS
  <1>1. ASSUME NEW t \in Callers, AddAgent(t)  PROVE  IInv'
    BY <1>1, AddAgentKeeps
  <1>2. ASSUME NEW t \in Callers, AddToFull(t)  PROVE  IInv'
    BY <1>2, AddToFullKeeps
  <1>3. ASSUME NEW t \in Callers, Load(t)  PROVE  IInv'
    BY <1>3, LoadKeeps
  <1>4. ASSUME NEW t \in Callers, Store(t)  PROVE  IInv'
    BY <1>4, StoreKeeps
  <1>5. CASE Ready \/ MainSteps
    BY <1>5, ReadyKeeps, ConnectKeeps, WorkKeeps, SkipKeeps, UseDanglingKeeps,
       StartKeeps, JoinKeeps, SleepKeeps DEF MainSteps
  <1>6. CASE ReadWrite
    BY <1>6, RunKeeps, CloseKeeps, DelBeginKeeps, DelEndKeeps DEF ReadWrite
  <1>7. CASE StartLoop \/ Fetch \/ Use \/ ServerClose
    BY <1>7, StartLoopKeeps, FetchKeeps, UseKeeps, ServerCloseKeeps
  <1>8. CASE UNCHANGED vars
    <2> USE <1>8 DEF vars, array, agents, mainVars, rwVars, appVars, history
    <2>1. TypeOK'
      BY DEF IInv, TypeOK
    <2>2. Holders'
      BY DEF IInv, Holders, Placed, Removing
    <2>3. Counts'
      BY DEF IInv, Counts, Pending, Busy
    <2>4. InPlace'
      BY DEF IInv, InPlace, Safe, Grown, Removing
    <2>5. Exact'
      BY DEF IInv, Exact, Grown, Removing, Pending, Busy
    <2> QED  BY <2>1, <2>2, <2>3, <2>4, <2>5 DEF IInv
  <1> QED
    BY <1>1, <1>2, <1>3, <1>4, <1>5, <1>6, <1>7, <1>8 DEF Next, AddServer

\* The invariant holds always.
LEMMA Invariant == Spec => []IInv
  BY InitHolds, StepKeeps, PTL DEF Spec

\* Every variable keeps its shape, for any number of servers and any array: the
\* indices into the array stay below the number of agents ever allowed.
THEOREM TypeCorrect == Spec => []TypeOK
  <1>1. IInv => TypeOK
    BY DEF IInv
  <1> QED  BY <1>1, Invariant, PTL

\* Until a connection ends or the array is outgrown, every agent AddServer has
\* added is at the place it has noted, and w->arrNum agrees with the array when
\* no call is in progress and no two calls have overlapped - also while app
\* adds servers under Ready and Work.
THEOREM ArrayAlwaysAgrees == Spec => []ArrayAgrees
  <1>1. IInv => ArrayAgrees
    <2> SUFFICES ASSUME IInv, ~Removing, ~Grown  PROVE  ArrayAgrees
      BY DEF ArrayAgrees
    <2>1. cur = Len(agent) /\ (~overlap => arrNum + Pending = cur)
      BY DEF IInv, Exact
    <2>2. \A x \in DOMAIN agent : agent[x].index = x - 1 /\ slot[x - 1] = x
      BY DEF IInv, InPlace, Safe
    <2>3. Quiet => Pending = 0
      BY DEF Quiet, Pending, Busy, Callers
    <2>4. arrNum \in Nat
      BY PoolAssumption DEF IInv, TypeOK
    <2> QED  BY <2>1, <2>2, <2>3, <2>4 DEF ArrayAgrees
  <1> QED  BY <1>1, Invariant, PTL

\* Whatever the interleaving of the three threads and the ends of the
\* connections, no agent is used that was freed or never added, and none is
\* freed twice, before the array is outgrown or one of two connections ends.
THEOREM UndefinedOnlyAfterRemoval == Spec => []UndefinedOnlyAfter
  <1>1. IInv => UndefinedOnlyAfter
    <2>1. IInv => Len(agent) \in Nat
      BY DEF IInv, TypeOK
    <2> QED  BY <2>1 DEF IInv, InPlace, Safe, UndefinedOnlyAfter
  <1> QED  BY <1>1, Invariant, PTL

-----------------------------------------------------------------------------
(* The order in which Work serves.                                         *)

Serving == {"new", "serve", "close"}
IsReady(p) == slot[p] \in Agents /\ agent[slot[p]].ready

\* The slots Work has not looked at yet begin here.
Rest == IF main = "join" THEN i + 1 ELSE i

\* An agent is connected in the order of the array only: before a connection
\* ends each is where it has noted, and none is connected later.
Noted ==
    /\ \A x \in DOMAIN agent : agent[x].ready => agent[x].index = x - 1
    /\ ~Removing =>
           /\ \A p \in 0 .. MaxServers :
                  slot[p] \in Agents => slot[p] = p + 1 /\ agent[slot[p]].index = p
           /\ proc = "run" /\ lock = "free" => cur = Len(agent)
    /\ rw # "none" => serving = i + 1 /\ agent[serving].index = i

\* DelAgent moves a connected agent into none of the slots that are left: it
\* would have to move two of them, and then it frees the agent whose index it
\* reads in its loop.
Ahead ==
    proc = "run" =>
        /\ main \in {"work", "join"} => \A p \in Rest .. MaxServers : IsReady(p) => slot[p] = p + 1
        /\ rw \in Serving => slot[i] = serving \/ \A p \in i + 1 .. cur - 1 : ~IsReady(p)

Ordered ==
    /\ main \in {"setup", "ready"} => served = <<>>
    /\ main \in {"work", "join"} => \A k \in DOMAIN served : served[k] <= Rest
    /\ ServedInOrder

OrderInv == Noted /\ Ahead /\ Ordered

\* What the type invariant says, as the proofs below cite it.
LEMMA Types ==
    ASSUME IInv
    PROVE  /\ agent \in Seq(Record) /\ DOMAIN agent = 1 .. Len(agent) /\ Len(agent) \in Nat
           /\ slot \in [0 .. MaxServers -> Agents \cup {Null, Junk}]
           /\ DOMAIN conn = DOMAIN agent /\ MaxServers \in Nat
           /\ cur \in 0 .. MaxServers /\ i \in 0 .. MaxServers /\ cur <= Len(agent)
           /\ served \in Seq(Agents) /\ DOMAIN served = 1 .. Len(served) /\ Len(served) \in Nat
           /\ \A x \in DOMAIN agent : agent[x].index \in -1 .. MaxServers
<1>1. /\ agent \in Seq(Record) /\ Len(conn) = Len(agent)
      /\ conn \in Seq({"none", "open", "ended", "closed"}) /\ served \in Seq(Agents)
  BY DEF IInv, TypeOK, Record
<1>2. \A x \in DOMAIN agent : agent[x] \in Record
  BY <1>1
<1>3. \A x \in DOMAIN agent : agent[x].index \in -1 .. MaxServers
  BY <1>2 DEF Record
<1> QED
  BY <1>1, <1>3, PoolAssumption DEF IInv, TypeOK, Counts

\* A step that leaves the array, the agents' places and Work's loop alone, or
\* only takes the read/write thread further.
LEMMA SameOrder ==
    ASSUME IInv, OrderInv, proc' = "run" => proc = "run",
           UNCHANGED <<slot, cur, main, i, serving, served>>,
           Len(agent') = Len(agent), DOMAIN agent' = DOMAIN agent,
           \A x \in DOMAIN agent : agent'[x].ready = agent[x].ready /\ agent'[x].index = agent[x].index,
           rw' \in Serving => rw \in Serving, rw' # "none" => rw # "none",
           Removing' \/ (~Removing /\ lock' = lock)
    PROVE  OrderInv'
<1>1. \A p \in 0 .. MaxServers : slot[p] \in Agents => slot[p] \in DOMAIN agent
  BY DEF IInv, Holders, Placed
<1>2. \A p \in 0 .. MaxServers : IsReady(p)' <=> IsReady(p)
  BY <1>1 DEF IsReady
<1>3. Rest' = Rest /\ Rest \in Nat
  BY Types DEF Rest
<1>4. Noted'
  <2>1. rw # "none" => serving \in DOMAIN agent
    BY DEF IInv, Holders, Placed
  <2>2. ~Removing' => ~Removing /\ lock' = lock
    OBVIOUS
  <2> QED
    BY <1>1, <2>1, <2>2 DEF OrderInv, Noted
<1>5. Ahead'
  <2> SUFFICES ASSUME proc' = "run" PROVE Ahead'
    BY DEF Ahead
  <2>1. main \in {"work", "join"} => \A p \in Rest .. MaxServers : IsReady(p) => slot[p] = p + 1
    BY DEF OrderInv, Ahead
  <2>2. rw \in Serving => slot[i] = serving \/ \A p \in i + 1 .. cur - 1 : ~IsReady(p)
    BY DEF OrderInv, Ahead
  <2> QED
    BY <1>2, <1>3, <2>1, <2>2, Types DEF Ahead
<1>6. Ordered'
  BY <1>3 DEF OrderInv, Ordered, ServedInOrder
<1> QED
  BY <1>4, <1>5, <1>6 DEF OrderInv

\* An agent that is added while nobody is removed goes behind all others; later
\* it takes any place, but is never connected.
LEMMA AddAgentOrder ==
    ASSUME IInv, IInv', OrderInv, proc = "run", NEW t \in Callers, AddAgent(t)
    PROVE  OrderInv'
<1> DEFINE n == Len(agent) + 1
<1>1. /\ agent' = Append(agent, New(cur)) /\ conn' = Append(conn, "none")
      /\ slot' = [slot EXCEPT ![cur] = Len(agent')] /\ cur' = cur + 1 /\ lock = "free"
      /\ UNCHANGED <<proc, lock, main, i, rw, serving, served>>
  BY DEF AddAgent, MayAdd, mainVars, rwVars
<1>2. n \in Agents /\ cur < n /\ Len(agent') = n
  <2>1. Len(agent) < MaxServers /\ Len(agent') = Len(agent) + 1
    BY <1>1, Types, Appended DEF AddAgent, MayAdd
  <2> QED
    BY <2>1, Types DEF Agents
<1>3. /\ DOMAIN agent' = 1 .. n /\ agent'[n] = New(cur)
      /\ \A x \in DOMAIN agent : agent'[x] = agent[x]
  BY <1>1, Types DEF New
<1>4. \A p \in 0 .. MaxServers : slot'[p] = IF p = cur THEN n ELSE slot[p]
  BY <1>1, <1>2, Types
<1>5. \A p \in 0 .. MaxServers : slot[p] \in Agents => slot[p] \in DOMAIN agent
  BY DEF IInv, Holders, Placed
<1>6. \A p \in 0 .. MaxServers : IsReady(p)' <=> p # cur /\ IsReady(p)
  BY <1>2, <1>3, <1>4, <1>5 DEF IsReady, New
<1>7. Rest' = Rest /\ Rest \in Nat
  BY <1>1, Types DEF Rest
<1>8. ~Removing' => ~Removing
  BY <1>1, Types DEF Removing
<1>9. Noted'
  <2>1. \A x \in DOMAIN agent' : agent'[x].ready => agent'[x].index = x - 1
    BY <1>3, Types DEF OrderInv, Noted, New
  <2>2. ASSUME ~Removing'
        PROVE  /\ \A p \in 0 .. MaxServers :
                      slot'[p] \in Agents => slot'[p] = p + 1 /\ agent'[slot'[p]].index = p
               /\ cur' = Len(agent')
    <3>1. cur = Len(agent)
      BY <1>1, <1>8, <2>2 DEF OrderInv, Noted
    <3>2. \A p \in 0 .. MaxServers : slot[p] \in Agents => slot[p] = p + 1 /\ agent[slot[p]].index = p
      BY <1>8, <2>2 DEF OrderInv, Noted
    <3> QED
      BY <1>1, <1>2, <1>3, <1>4, <1>5, <3>1, <3>2, Types DEF New
  <2>3. rw' # "none" => serving' = i' + 1 /\ agent'[serving'].index = i'
    BY <1>1, <1>3 DEF OrderInv, Noted, IInv, Holders, Placed
  <2> QED
    BY <2>1, <2>2, <2>3 DEF Noted
<1>10. Ahead'
  <2>1. main \in {"work", "join"} => \A p \in Rest .. MaxServers : IsReady(p) => slot[p] = p + 1
    BY <1>1 DEF OrderInv, Ahead
  <2>2. main' \in {"work", "join"} => \A p \in Rest' .. MaxServers : IsReady(p)' => slot'[p] = p + 1
    BY <1>1, <1>4, <1>6, <1>7, <2>1
  <2>3. ASSUME rw' \in Serving
        PROVE  slot'[i'] = serving' \/ \A p \in i' + 1 .. cur' - 1 : ~IsReady(p)'
    <3>1. slot[i] = serving \/ \A p \in i + 1 .. cur - 1 : ~IsReady(p)
      BY <1>1, <2>3 DEF OrderInv, Ahead
    <3>2. CASE i = cur
      BY <1>1, <3>2, Types
    <3>3. CASE i # cur
      <4>1. CASE slot[i] = serving
        BY <1>1, <1>4, <3>3, <4>1, Types
      <4>2. ASSUME \A p \in i + 1 .. cur - 1 : ~IsReady(p), NEW p \in i' + 1 .. cur' - 1
            PROVE  ~IsReady(p)'
        <5>1. p \in 0 .. MaxServers /\ (p # cur => p \in i + 1 .. cur - 1)
          BY <1>1, Types
        <5> QED
          BY <1>6, <4>2, <5>1
      <4> QED
        BY <3>1, <4>1, <4>2
    <3> QED
      BY <3>2, <3>3
  <2> QED
    BY <2>2, <2>3 DEF Ahead
<1>11. Ordered'
  BY <1>1, <1>7 DEF OrderInv, Ordered, ServedInOrder
<1> QED
  BY <1>9, <1>10, <1>11 DEF OrderInv

\* The agent that finds the array full is in no slot, and nothing is added
\* after it.
LEMMA AddToFullOrder ==
    ASSUME IInv, IInv', OrderInv, proc = "run", NEW t \in Callers, AddToFull(t)
    PROVE  OrderInv'
<1> DEFINE n == Len(agent) + 1
<1>1. /\ agent' = Append(agent, New(-1)) /\ conn' = Append(conn, "none")
      /\ proc' = "ub" \/ lock' = "lost"
      /\ UNCHANGED <<slot, cur, main, i, rw, serving, served>>
  BY DEF AddToFull, mainVars, rwVars, history
<1>2. /\ DOMAIN agent' = 1 .. n /\ agent'[n] = New(-1)
      /\ \A x \in DOMAIN agent : agent'[x] = agent[x]
  BY <1>1, Types DEF New
<1>3. \A p \in 0 .. MaxServers : slot[p] \in Agents => slot[p] \in DOMAIN agent
  BY DEF IInv, Holders, Placed
<1>4. \A p \in 0 .. MaxServers : IsReady(p)' <=> IsReady(p)
  BY <1>1, <1>2, <1>3 DEF IsReady
<1>5. Rest' = Rest /\ Rest \in Nat
  BY <1>1, Types DEF Rest
<1>6. ~Removing' => ~Removing
  BY <1>1, Types DEF Removing
<1>7. Noted'
  <2>1. \A x \in DOMAIN agent' : agent'[x].ready => agent'[x].index = x - 1
    BY <1>2, Types DEF OrderInv, Noted, New
  <2>2. ~Removing' => \A p \in 0 .. MaxServers :
                      slot'[p] \in Agents => slot'[p] = p + 1 /\ agent'[slot'[p]].index = p
    BY <1>1, <1>2, <1>3, <1>6 DEF OrderInv, Noted
  <2>3. rw' # "none" => serving' = i' + 1 /\ agent'[serving'].index = i'
    BY <1>1, <1>2 DEF OrderInv, Noted, IInv, Holders, Placed
  <2> QED
    BY <1>1, <2>1, <2>2, <2>3 DEF Noted
<1>8. Ahead'
  <2>1. main \in {"work", "join"} => \A p \in Rest .. MaxServers : IsReady(p) => slot[p] = p + 1
    BY DEF OrderInv, Ahead
  <2>2. rw \in Serving => slot[i] = serving \/ \A p \in i + 1 .. cur - 1 : ~IsReady(p)
    BY DEF OrderInv, Ahead
  <2>3. \A p \in i + 1 .. cur - 1 : p \in 0 .. MaxServers
    BY Types
  <2>4. \A p \in Rest .. MaxServers : p \in 0 .. MaxServers
    BY <1>5, Types
  <2>5. main' \in {"work", "join"} => \A p \in Rest' .. MaxServers : IsReady(p)' => slot'[p] = p + 1
    BY <1>1, <1>4, <1>5, <2>1, <2>4
  <2>6. rw' \in Serving => slot'[i'] = serving' \/ \A p \in i' + 1 .. cur' - 1 : ~IsReady(p)'
    BY <1>1, <1>4, <2>2, <2>3
  <2> QED
    BY <2>5, <2>6 DEF Ahead
<1>9. Ordered'
  BY <1>1, <1>5 DEF OrderInv, Ordered, ServedInOrder
<1> QED
  BY <1>7, <1>8, <1>9 DEF OrderInv

\* Ready and Work start their loops before any connection has ended: each agent
\* is in its own slot.
LEMMA ProceedOrder ==
    ASSUME IInv, IInv', OrderInv, NEW from, NEW to, Proceed(from, to),
           from \in {"setup", "ready"}, to \in {"ready", "work"}
    PROVE  OrderInv'
<1>1. CASE UNCHANGED mainVars
  BY <1>1, SameOrder DEF Proceed, mainVars, array, agents, rwVars, history, Removing
<1>2. CASE main' = to /\ i' = 0 /\ proc' = proc
  <2>1. /\ UNCHANGED <<proc, slot, cur, lock, agent, conn, rw, serving, served>>
        /\ main \in {"setup", "ready"} /\ main' \in {"ready", "work"}
    BY <1>2 DEF Proceed, array, agents, rwVars, history
  <2>2. ~Removing /\ rw = "none" /\ served = <<>>
    BY <2>1 DEF IInv, Holders, OrderInv, Ordered
  <2>3. Noted'
    BY <2>1, <2>2 DEF OrderInv, Noted, Removing
  <2>4. Rest' = 0
    BY <1>2, <2>1 DEF Rest
  <2>5. \A p \in 0 .. MaxServers : slot'[p] \in Agents => slot'[p] = p + 1
    BY <2>1, <2>2 DEF OrderInv, Noted
  <2>6. Ahead'
    BY <2>1, <2>2, <2>4, <2>5 DEF Ahead, IsReady, Serving
  <2>7. Ordered'
    BY <2>1, <2>2 DEF Ordered, ServedInOrder
  <2> QED
    BY <2>3, <2>6, <2>7 DEF OrderInv
<1> QED
  BY <1>1, <1>2 DEF Proceed

\* Ready's loop connects an agent, which is where it has noted.
LEMMA ConnectOrder ==
    ASSUME IInv, IInv', OrderInv, Connect
    PROVE  OrderInv'
<1>1. /\ main = "ready" /\ UNCHANGED <<slot, cur, lock, main, rw, serving, served>>
      /\ proc' \in {proc, "ub"}
  BY DEF Connect, array, rwVars, history
<1>2. ~Removing /\ rw = "none" /\ served = <<>>
  BY <1>1 DEF IInv, Holders, OrderInv, Ordered
<1>3. \A p \in 0 .. MaxServers : slot[p] \in Agents => slot[p] = p + 1 /\ agent[slot[p]].index = p
  BY <1>2 DEF OrderInv, Noted
<1>4. /\ DOMAIN agent' = DOMAIN agent /\ Len(agent') = Len(agent)
      /\ \A x \in DOMAIN agent :
             /\ agent'[x].index = agent[x].index
             /\ agent'[x].ready => agent[x].ready \/ agent[x].index = x - 1
  <2>1. CASE UNCHANGED agent
    BY <2>1
  <2>2. CASE Usable(slot[i]) /\ agent' = [agent EXCEPT ![slot[i]].ready = TRUE]
    <3>1. slot[i] \in Agents /\ slot[i] \in DOMAIN agent /\ agent[slot[i]].index = slot[i] - 1
      BY <1>3, <2>2, Types DEF Usable, IInv, Holders, Placed
    <3>2. \A x \in DOMAIN agent : agent[x] \in Record
      BY Types
    <3>3. [agent[slot[i]] EXCEPT !.ready = TRUE] \in Record
      BY <3>1, <3>2 DEF Record
    <3>4. DOMAIN agent' = DOMAIN agent /\ Len(agent') = Len(agent)
      BY <2>2, <3>1, <3>3, Types, Replaced
    <3>5. \A x \in DOMAIN agent : agent'[x].index = agent[x].index
      BY <2>2, <3>2 DEF Record
    <3>6. \A x \in DOMAIN agent : x # slot[i] => agent'[x] = agent[x]
      BY <2>2
    <3> QED
      BY <3>1, <3>4, <3>5, <3>6
  <2> QED
    BY <2>1, <2>2 DEF Connect
<1>5. Noted'
  <2>1. ~Removing /\ proc' = "run" /\ lock' = "free" => cur' = Len(agent')
    BY <1>1, <1>2, <1>4 DEF OrderInv, Noted
  <2>2. \A p \in 0 .. MaxServers : slot[p] \in Agents => slot[p] \in DOMAIN agent
    BY DEF IInv, Holders, Placed
  <2> QED
    BY <1>1, <1>2, <1>3, <1>4, <2>1, <2>2 DEF OrderInv, Noted
<1>6. Ahead' /\ Ordered'
  BY <1>1, <1>2 DEF Ahead, Ordered, ServedInOrder, Serving
<1> QED
  BY <1>5, <1>6 DEF OrderInv

\* Work goes past a slot.
LEMMA SkipOrder ==
    ASSUME IInv, IInv', OrderInv, Skip
    PROVE  OrderInv'
<1>1. /\ main = "work" /\ i' = i + 1
      /\ UNCHANGED <<proc, slot, cur, lock, agent, conn, main, rw, serving, served>>
  BY DEF Skip, array, agents, rwVars, history
<1>2. rw = "none" /\ Rest = i /\ Rest' = i + 1
  BY <1>1 DEF IInv, Holders, Rest
<1>3. Noted'
  BY <1>1, <1>2 DEF OrderInv, Noted, Removing
<1>4. Ahead'
  <2>1. \A p \in i + 1 .. MaxServers : p \in i .. MaxServers
    BY Types
  <2> QED
    BY <1>1, <1>2, <2>1 DEF OrderInv, Ahead, IsReady, Serving
<1>5. Ordered'
  <2>1. \A k \in DOMAIN served : served[k] \in Nat
    BY Types DEF Agents
  <2> QED
    BY <1>1, <1>2, <2>1, Types DEF OrderInv, Ordered, ServedInOrder
<1> QED
  BY <1>3, <1>4, <1>5 DEF OrderInv

\* Work serves the agent of a slot: it is later than all that were served.
LEMMA StartOrder ==
    ASSUME IInv, IInv', OrderInv, proc = "run", Start
    PROVE  OrderInv'
<1>1. /\ main = "work" /\ IsReady(i) /\ slot[i] \in DOMAIN agent
      /\ UNCHANGED <<slot, cur, lock, agent, conn, i>>
  BY Types DEF Start, array, agents, IsReady, Usable, IInv, Holders, Placed
<1>2. rw = "none" /\ Rest = i /\ i \in Nat
  BY <1>1, Types DEF IInv, Holders, Rest
<1>3. CASE proc' = "sigpipe" /\ UNCHANGED <<main, rw, serving, served>>
  BY <1>1, <1>3, SameOrder DEF Removing
<1>4. CASE main' = "join" /\ rw' = "new" /\ serving' = slot[i] /\ served' = Append(served, slot[i])
  <2>1. slot[i] = i + 1 /\ Rest' = i + 1
    BY <1>1, <1>2, <1>4, Types DEF OrderInv, Ahead, Rest
  <2>2. Noted'
    <3>1. agent[slot[i]].index = i
      BY <1>1, <1>2, <2>1 DEF OrderInv, Noted, IsReady
    <3>2. proc' = "run" => proc = "run"
      OBVIOUS
    <3> QED
      BY <1>1, <1>4, <2>1, <3>1 DEF OrderInv, Noted, Removing
  <2>3. Ahead'
    <3>1. \A p \in i + 1 .. MaxServers : p \in i .. MaxServers
      BY Types
    <3> QED
      BY <1>1, <1>2, <1>4, <2>1, <3>1 DEF OrderInv, Ahead, IsReady
  <2>4. Ordered'
    <3>1. /\ DOMAIN served' = 1 .. Len(served) + 1 /\ served'[Len(served) + 1] = i + 1
          /\ \A k \in DOMAIN served : served'[k] = served[k] /\ served[k] \in Nat
      BY <1>4, <2>1, Types DEF Agents
    <3>2. \A k \in DOMAIN served : served[k] <= i
      BY <1>1, <1>2 DEF OrderInv, Ordered
    <3>3. ServedInOrder
      BY DEF OrderInv, Ordered
    <3>4. ASSUME NEW k \in DOMAIN served', NEW l \in DOMAIN served', k < l
          PROVE  served'[k] < served'[l]
      <4>1. k \in DOMAIN served
        BY <3>1, <3>4, Types
      <4>2. CASE l \in DOMAIN served
        BY <3>1, <3>3, <3>4, <4>1, <4>2 DEF ServedInOrder
      <4>3. CASE l = Len(served) + 1
        BY <1>2, <3>1, <3>2, <4>1, <4>3
      <4> QED
        BY <3>1, <4>2, <4>3, Types
    <3>5. ASSUME NEW k \in DOMAIN served' PROVE served'[k] <= i + 1
      <4>1. CASE k \in DOMAIN served
        <5>1. served'[k] \in Nat /\ served'[k] <= i
          BY <3>1, <3>2, <4>1
        <5> QED
          BY <1>2, <5>1
      <4>2. CASE k = Len(served) + 1
        BY <1>2, <3>1, <4>2
      <4> QED
        BY <3>1, <4>1, <4>2, Types
    <3> QED
      BY <1>4, <2>1, <3>4, <3>5 DEF Ordered, ServedInOrder
  <2> QED
    BY <2>2, <2>3, <2>4 DEF OrderInv
<1> QED
  BY <1>3, <1>4 DEF Start

\* Work goes on behind the agent it has served.
LEMMA JoinOrder ==
    ASSUME IInv, IInv', OrderInv, Join
    PROVE  OrderInv'
<1>1. /\ main = "join" /\ main' = "work" /\ rw' = "none" /\ i' = i + 1
      /\ UNCHANGED <<proc, slot, cur, lock, agent, conn, served>>
  BY DEF Join, NextAgent, array, agents, history
<1>2. Rest' = Rest
  BY <1>1 DEF Rest
<1>3. Noted'
  BY <1>1 DEF OrderInv, Noted, Removing
<1>4. Ahead'
  BY <1>1, <1>2 DEF OrderInv, Ahead, IsReady, Serving
<1>5. Ordered'
  BY <1>1, <1>2 DEF OrderInv, Ordered, ServedInOrder
<1> QED
  BY <1>3, <1>4, <1>5 DEF OrderInv

LEMMA SleepOrder ==
    ASSUME IInv, IInv', OrderInv, Sleep
    PROVE  OrderInv'
<1>1. /\ main = "work" /\ main' = "sleep"
      /\ UNCHANGED <<proc, slot, cur, lock, agent, conn, i, rw, serving, served>>
  BY DEF Sleep, array, agents, rwVars, history
<1>2. rw = "none"
  BY <1>1 DEF IInv, Holders
<1>3. Noted'
  BY <1>1 DEF OrderInv, Noted, Removing
<1>4. Ahead'
  BY <1>1, <1>2 DEF OrderInv, Ahead, Serving
<1>5. Ordered'
  BY <1>1 DEF OrderInv, Ordered, ServedInOrder
<1> QED
  BY <1>3, <1>4, <1>5 DEF OrderInv

\* DelAgent moves agents one place down. As serving is in slot i, all it can
\* move beyond that slot is agents that were never connected.
LEMMA DelBeginOrder ==
    ASSUME IInv, IInv', OrderInv, proc = "run", DelBegin
    PROVE  OrderInv'
<1>1. /\ rw = "close" /\ rw' = "shift" /\ main = "join" /\ serving \in DOMAIN agent
      /\ conn[serving] = "closed"
      /\ UNCHANGED <<agent, conn, main, i, serving, served>>
  BY DEF DelBegin, mainVars, history, IInv, Holders, Placed
<1>2. Place = i /\ serving = i + 1 /\ serving \in Nat /\ Rest = i + 1 /\ Rest' = i + 1
  BY <1>1, Types DEF OrderInv, Noted, Place, Rest
<1>3. Removing /\ Removing'
  BY <1>1, Types DEF Removing
<1>4. Noted'
  BY <1>1, <1>3 DEF OrderInv, Noted
<1>5. ASSUME proc' = "run", NEW p \in i + 1 .. MaxServers, IsReady(p)'
      PROVE  slot'[p] = p + 1
  <2>1. p \in 0 .. MaxServers /\ slot'[p] = IF p \in Moved THEN slot[p + 1] ELSE slot[p]
    BY Types DEF DelBegin
  <2>2. \A q \in i + 1 .. MaxServers : IsReady(q) => slot[q] = q + 1
    BY <1>1, <1>2 DEF OrderInv, Ahead
  <2>3. CASE p \notin Moved
    BY <1>1, <1>5, <2>1, <2>2, <2>3 DEF IsReady
  <2>4. CASE p \in Moved
    <3>1. p + 1 \in i + 1 .. cur - 1 /\ i \in Moved /\ Place + 1 < Last
      BY <1>2, <2>4, Types DEF Moved, Last
    <3>2. IsReady(p + 1)
      BY <1>1, <1>5, <2>1, <2>4 DEF IsReady
    <3>3. slot[i] = serving
      BY <1>1, <3>1, <3>2 DEF OrderInv, Ahead, Serving
    <3>4. serving \in {slot[q] : q \in Moved}
      BY <3>1, <3>3
    <3>5. proc' = "ub"
      BY <3>1, <3>4 DEF DelBegin
    <3> QED
      BY <1>5, <3>5
  <2> QED
    BY <2>3, <2>4
<1>6. Ahead'
  BY <1>1, <1>2, <1>5 DEF Ahead, Serving
<1>7. Ordered'
  BY <1>1, <1>2 DEF OrderInv, Ordered, ServedInOrder
<1> QED
  BY <1>4, <1>6, <1>7 DEF OrderInv

\* The steps of the other threads, and those of the read/write thread that do
\* not touch the array.
LEMMA OthersOrder ==
    ASSUME IInv, IInv', OrderInv, proc = "run",
           \/ \E t \in Callers : Load(t) \/ Store(t)
           \/ UseDangling \/ Run \/ Close \/ DelEnd \/ StartLoop \/ Fetch \/ Use \/ ServerClose
    PROVE  OrderInv'
<1>1. CASE \/ \E t \in Callers : Load(t) \/ Store(t)
           \/ UseDangling \/ StartLoop \/ Fetch \/ Use
  <2>1. UNCHANGED <<slot, cur, lock, agent, conn, main, i, rw, serving, served>>
    BY <1>1 DEF Load, Store, UseDangling, StartLoop, Fetch, Use, array, agents, mainVars, rwVars, history
  <2> QED
    BY <2>1, SameOrder DEF Removing
<1>2. CASE ServerClose
  <2>1. /\ UNCHANGED <<slot, cur, lock, agent, main, i, rw, serving, served>>
        /\ DOMAIN conn' = DOMAIN conn
        /\ \A x \in DOMAIN conn : conn'[x] = "closed" <=> conn[x] = "closed"
    BY <1>2 DEF ServerClose, array, mainVars, rwVars, history
  <2>2. Removing' = Removing
    BY <2>1 DEF Removing
  <2> QED
    BY <2>1, <2>2, SameOrder
<1>3. CASE Run
  <2>1. /\ rw = "new" /\ rw' = "serve" /\ serving \in DOMAIN agent
        /\ agent' = [agent EXCEPT ![serving].running = TRUE]
        /\ UNCHANGED <<slot, cur, lock, conn, main, i, serving, served>>
    BY <1>3 DEF Run, array, mainVars, history, IInv, Holders, Placed
  <2>2. \A x \in DOMAIN agent : agent[x] \in Record
    BY Types
  <2>3. [agent[serving] EXCEPT !.running = TRUE] \in Record
    BY <2>1, <2>2 DEF Record
  <2>4. DOMAIN agent' = DOMAIN agent /\ Len(agent') = Len(agent)
    BY <2>1, <2>3, Types, Replaced
  <2>5. \A x \in DOMAIN agent : agent'[x].ready = agent[x].ready /\ agent'[x].index = agent[x].index
    BY <2>1, <2>2 DEF Record
  <2> QED
    BY <2>1, <2>4, <2>5, SameOrder DEF Serving, Removing
<1>4. CASE Close
  <2>1. /\ rw = "serve" /\ rw' = "close" /\ serving \in DOMAIN conn
        /\ conn' = [conn EXCEPT ![serving] = "closed"]
        /\ UNCHANGED <<slot, cur, lock, agent, main, i, serving, served>>
    BY <1>4, Types DEF Close, array, mainVars, history, IInv, Holders, Placed
  <2>2. Removing'
    BY <2>1 DEF Removing
  <2> QED
    BY <2>1, <2>2, SameOrder DEF Serving
<1>5. CASE DelEnd
  <2>1. /\ rw = "shift" /\ rw' \in {"shift", "gone"} /\ serving \in DOMAIN conn
        /\ conn[serving] = "closed"
        /\ UNCHANGED <<slot, cur, agent, conn, main, i, serving, served>>
    BY <1>5, Types DEF DelEnd, Cancelled, agents, mainVars, history, IInv, Holders, Placed
  <2>2. Removing'
    BY <2>1 DEF Removing
  <2> QED
    BY <2>1, <2>2, SameOrder DEF Serving
<1> QED
  BY <1>1, <1>2, <1>3, <1>4, <1>5

LEMMA StepOrder == IInv /\ IInv' /\ OrderInv /\ [Next]_vars => OrderInv'
<1> SUFFICES ASSUME IInv, IInv', OrderInv, [Next]_vars PROVE OrderInv'
  OBVIOUS
<1>1. CASE Next
  <2>1. CASE AddServer
    BY <1>1, <2>1, AddAgentOrder, AddToFullOrder, OthersOrder DEF AddServer, Next
  <2>2. CASE Ready \/ Work
    BY <1>1, <2>2, ProceedOrder DEF Ready, Work
  <2>3. CASE Connect \/ Skip \/ UseDangling \/ Start \/ Join \/ Sleep
    BY <1>1, <2>3, ConnectOrder, SkipOrder, OthersOrder, StartOrder, JoinOrder, SleepOrder DEF Next
  <2>4. CASE ReadWrite \/ StartLoop \/ Fetch \/ Use \/ ServerClose
    BY <1>1, <2>4, DelBeginOrder, OthersOrder DEF ReadWrite, Next
  <2> QED
    BY <1>1, <2>1, <2>2, <2>3, <2>4 DEF Next, MainSteps
<1>2. CASE UNCHANGED vars
  BY <1>2, SameOrder DEF vars, array, agents, mainVars, rwVars, history, Removing
<1> QED
  BY <1>1, <1>2

LEMMA InitOrder == Init => OrderInv
<1> SUFFICES ASSUME Init PROVE OrderInv
  OBVIOUS
<1>1. DOMAIN agent = {} /\ Len(agent) = 0 /\ DOMAIN served = {}
  BY DEF Init
<1>2. \A p \in 0 .. MaxServers : slot[p] \notin Agents
  BY PoolAssumption DEF Init, Agents, Junk
<1> QED
  BY <1>1, <1>2 DEF Init, OrderInv, Noted, Ahead, Ordered, ServedInOrder, Serving

\* Work of worker/worker.c goes through an array that DelAgent shifts under its
\* index whenever a connection ends, while AddServer fills the place of what was
\* removed: still no server is served twice and none after one that was added
\* later, for any number of servers and every order of removals and additions.
THEOREM AlwaysServedInOrder == Spec => []ServedInOrder
<1>1. OrderInv => ServedInOrder
  BY DEF OrderInv, Ordered
<1> QED
  BY <1>1, InitOrder, StepOrder, Invariant, PTL DEF Spec
=============================================================================
