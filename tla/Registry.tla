------------------------------ MODULE Registry ------------------------------
(***************************************************************************)
(* What a function registry promises its callers: a set of names.  A call  *)
(* that registers or deletes a name takes effect at one instant between    *)
(* its start and its end and changes that name only; a job runs a function *)
(* only if its name is registered, and a function that runs is not taken   *)
(* away.                                                                   *)
(***************************************************************************)
CONSTANTS Names, Threads

VARIABLES
    registered,  \* the names in the registry
    call         \* the call each thread has in progress, or None

None == [op |-> "none", done |-> FALSE]
Calls == [op : {"add", "del"}, name : Names, done : BOOLEAN]
         \cup [op : {"run"}, name : Names] \cup {None}

TypeOK == registered \subseteq Names /\ call \in [Threads -> Calls]

Init == registered = {} /\ call = [t \in Threads |-> None]

Begin(t, op, n) ==
    /\ call[t] = None
    /\ call' = [call EXCEPT ![t] = [op |-> op, name |-> n, done |-> FALSE]]
    /\ UNCHANGED registered

Register(t) ==
    /\ call[t].op = "add" /\ ~call[t].done
    /\ registered' = registered \cup {call[t].name}
    /\ call' = [call EXCEPT ![t].done = TRUE]

Delete(t) ==
    /\ call[t].op = "del" /\ ~call[t].done
    /\ \A u \in Threads : call[u] # [op |-> "run", name |-> call[t].name]
    /\ registered' = registered \ {call[t].name}
    /\ call' = [call EXCEPT ![t].done = TRUE]

RunJob(t, n) ==
    /\ call[t] = None /\ n \in registered
    /\ call' = [call EXCEPT ![t] = [op |-> "run", name |-> n]]
    /\ UNCHANGED registered

End(t) ==
    /\ call[t].op = "run" \/ call[t].done
    /\ call' = [call EXCEPT ![t] = None]
    /\ UNCHANGED registered

Next == \E t \in Threads :
    \/ \E n \in Names, op \in {"add", "del"} : Begin(t, op, n)
    \/ Register(t) \/ Delete(t) \/ End(t)
    \/ \E n \in Names : RunJob(t, n)

Spec == Init /\ [][Next]_<<registered, call>>
=============================================================================
