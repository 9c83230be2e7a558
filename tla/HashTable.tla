----------------------------- MODULE HashTable -----------------------------
(***************************************************************************)
(* The client's hash table (client/hash.c with client/list.h): chains of   *)
(* nodes in an array of buckets that is rebuilt when it fills up, and one  *)
(* list through all nodes in the order of insertion.  Keys are compared    *)
(* over the length of the stored key, so a stored key matches every key it *)
(* is a prefix of.                                                         *)
(*                                                                         *)
(* The table is used by one thread.  Its calls interleave in one place:    *)
(* the handler that hash_foreach runs for each node may itself call the    *)
(* table.                                                                  *)
(***************************************************************************)
EXTENDS Integers, SequencesExt

CONSTANTS
    Keys,       \* names, sequences of characters
    Hash,       \* hash() of a name
    ByKey,      \* names that hash_insert_bykey is called with
    Garbage,    \* hashes of what hash_insert_bykey hashes instead of the name
    TableSize,  \* tableSize without its final 0: numbers of buckets
    Requested,  \* the size hash_alloc is asked for (MAP_SIZE)
    MaxInserts  \* bound: entries ever inserted

ASSUME TableAssumption ==
    /\ Keys \subseteq Seq(STRING) /\ ByKey \subseteq Keys /\ Hash \in [Keys -> Nat] /\ Garbage \subseteq Nat
    /\ TableSize \in Seq(Nat \ {0, 1}) /\ TableSize # <<>>
    /\ \A i, j \in DOMAIN TableSize : i < j => TableSize[i] < TableSize[j]
    /\ Requested \in Int /\ MaxInserts \in Nat

VARIABLES
    size,     \* htb->size: index of the number of buckets in TableSize
    used,     \* htb->used
    bucket,   \* htb->bucket: the chain of each bucket, first node first
    list,     \* htb->list: all nodes
    node,     \* the nodes ever allocated
    freed,    \* those that were freed
    answer,   \* the key of the call just made and what it gave back in *retval
    position, \* the node hash_foreach is at, or NoNode
    visited,  \* the nodes its handler has been called with
    proc,     \* "run", "gone" after hash_destroy, "ub" after undefined behaviour
    rebuilt   \* history: the buckets were rebuilt

table == <<size, used, bucket, list>>
heap == <<node, freed>>
foreach == <<position, visited>>
vars == <<table, heap, answer, foreach, proc, rebuilt>>

-----------------------------------------------------------------------------
NoNode == 0
None == -1
NoAnswer == [key |-> <<>>, value |-> None]
Buckets(i) == 0 .. TableSize[i] - 1

\* hash_alloc: the first size that is large enough, the last one if none is.
Enough(n) == {i \in DOMAIN TableSize : TableSize[i] >= n}
Allocated == IF Enough(Requested) = {} THEN Len(TableSize) ELSE Min(Enough(Requested))

Init ==
    /\ size = Allocated /\ used = 0
    /\ bucket = [b \in Buckets(Allocated) |-> <<>>]
    /\ list = <<>> /\ node = <<>> /\ freed = {} /\ answer = NoAnswer
    /\ position = NoNode /\ visited = {} /\ proc = "run" /\ rebuilt = FALSE

-----------------------------------------------------------------------------
(* Insertion.                                                              *)

\* hash_try_resize and the sizes hash_resize can choose.
Limit == (TableSize[size] * 4) \div 5
Larger(n) == {i \in size .. Len(TableSize) : TableSize[i] > n}

\* hash_resize goes bucket by bucket, first node first, ...
Precedes(chains, m, n) ==
    \E b, c \in DOMAIN chains : \E p \in DOMAIN chains[b], q \in DOMAIN chains[c] :
        chains[b][p] = m /\ chains[c][q] = n /\ (b < c \/ (b = c /\ p < q))

\* ... and puts each node in front of its new chain.
Pushed(chains, ns) ==
    CHOOSE s \in [1 .. Cardinality(ns) -> ns] :
        \A p, q \in DOMAIN s : p < q => Precedes(chains, s[q], s[p])

OldIndexKept(n, i) == n.h % TableSize[size]
NewIndex(n, i) == n.h % TableSize[i]
Linked(chains) == UNION {ToSet(chains[b]) : b \in DOMAIN chains}
Rebuilt(chains, nodes, i) ==
    [b \in Buckets(i) |-> Pushed(chains, {n \in Linked(chains) : NewIndex(nodes[n], i) = b})]

LinkedLast(chain, n) == Append(chain, n)
LinkedFirst(chain, n) == <<n>> \o chain
ListedFirst(n) == <<n>> \o list
Listed(n) == Append(list, n)

\* The value is the caller's own object: every insertion has another.
Add(k, h) ==
    /\ Len(node) < MaxInserts
    /\ LET n == Len(node) + 1
           chains == [bucket EXCEPT ![h % TableSize[size]] = LinkedFirst(@, n)]
           fits == Larger(used + 1)
       IN /\ node' = Append(node, [key |-> k, value |-> n, h |-> h])
          /\ list' = Listed(n)
          /\ used' = used + 1
          /\ IF used + 1 >= Limit /\ fits # {}
               THEN /\ size' = Min(fits)
                    /\ bucket' = Rebuilt(chains, node', size')
                    /\ rebuilt' = TRUE
               ELSE size' = size /\ bucket' = chains /\ rebuilt' = rebuilt
    /\ answer' = NoAnswer
    /\ UNCHANGED <<freed, foreach, proc>>

Insert(k) == Add(k, Hash[k])

\* hash_insert_bykey passes the structure, not its key, to hash().
InsertByKey(k) == \E h \in Garbage : Add(k, h)

-----------------------------------------------------------------------------
(* Lookup, replacement and removal.                                        *)

\* strncmp over the length of the stored key.
ComparedByGiven(n, k) == IsPrefix(k, node[n].key)
Compared(n, k) == IsPrefix(node[n].key, k)
Place(k) == Hash[k] % TableSize[size]
Found(k) ==
    LET chain == bucket[Place(k)]
        matching == {p \in DOMAIN chain : Compared(chain[p], k)}
    IN IF matching = {} THEN NoNode ELSE chain[Min(matching)]

Answer(k, n) ==
    answer' = [key |-> k, value |-> IF n = NoNode THEN None ELSE node[n].value]

Lookup(k) ==
    /\ Answer(k, Found(k))
    /\ UNCHANGED <<table, heap, foreach, proc, rebuilt>>

\* The new value is a pointer no entry was inserted with.
NewValue == 0

Replace(k) ==
    /\ Answer(k, Found(k))
    /\ node' = IF Found(k) = NoNode THEN node
               ELSE [node EXCEPT ![Found(k)].value = NewValue]
    /\ UNCHANGED <<table, freed, foreach, proc, rebuilt>>

UncountedAlways(n) == used - 1
Uncounted(n) == IF n = NoNode THEN used ELSE used - 1
PlaceOf(s, n) == CHOOSE p \in DOMAIN s : s[p] = n
Without(s, n) == IF n \in ToSet(s) THEN RemoveAt(s, PlaceOf(s, n)) ELSE s
Unlinked(chain, n) == Without(chain, n)
Unlisted(n) == Without(list, n)
Freed == [key |-> <<>>, value |-> NewValue, h |-> 0]

Delete(k) ==
    /\ Answer(k, Found(k))
    /\ bucket' = [bucket EXCEPT ![Place(k)] = Unlinked(@, Found(k))]
    /\ list' = Unlisted(Found(k))
    /\ used' = Uncounted(Found(k))
    /\ freed' = freed \cup ({Found(k)} \ {NoNode})
    /\ node' = IF Found(k) = NoNode THEN node ELSE [node EXCEPT ![Found(k)] = Freed]
    /\ UNCHANGED <<size, foreach, proc, rebuilt>>

\* The nodes go chain by chain; the array of buckets is not freed.
Destroy ==
    /\ position = NoNode
    /\ freed' = freed \cup Linked(bucket)
    /\ proc' = "gone" /\ answer' = NoAnswer
    /\ UNCHANGED <<table, node, foreach, rebuilt>>

-----------------------------------------------------------------------------
(* hash_foreach: the handler runs for the node at position, and calls the  *)
(* table meanwhile.                                                        *)

Begin ==
    /\ position = NoNode /\ list # <<>>
    /\ position' = list[1] /\ visited' = {list[1]}
    /\ answer' = NoAnswer
    /\ UNCHANGED <<table, heap, proc, rebuilt>>

After(n) == PlaceOf(list, n) + 1

\* position->next of a node that the handler removed is read from freed memory.
Advance ==
    /\ position # NoNode
    /\ IF position \in freed
         THEN proc' = "ub" /\ UNCHANGED foreach
         ELSE /\ proc' = proc
              /\ IF After(position) > Len(list)
                   THEN position' = NoNode /\ visited' = {}
                   ELSE /\ position' = list[After(position)]
                        /\ visited' = visited \cup {position'}
    /\ answer' = NoAnswer
    /\ UNCHANGED <<table, heap, rebuilt>>

\* The handler returned -1.
Break ==
    /\ position # NoNode
    /\ position' = NoNode /\ visited' = {} /\ answer' = NoAnswer
    /\ UNCHANGED <<table, heap, proc, rebuilt>>

-----------------------------------------------------------------------------
Next ==
    /\ proc = "run"
    /\ \/ \E k \in Keys : Insert(k) \/ Lookup(k) \/ Replace(k) \/ Delete(k)
       \/ \E k \in ByKey : InsertByKey(k)
       \/ Destroy \/ Begin \/ Advance \/ Break

Spec == Init /\ [][Next]_vars

-----------------------------------------------------------------------------
(* Properties.                                                             *)

Nodes == 1 .. Len(node)

\* The shape of every variable.
TypeOK ==
    /\ size \in DOMAIN TableSize /\ used \in 0 .. MaxInserts
    /\ bucket \in [Buckets(size) -> Seq(Nodes)] /\ list \in Seq(Nodes)
    /\ node \in Seq([key : Keys \cup {<<>>}, value : NewValue .. MaxInserts, h : Nat])
    /\ Len(node) <= MaxInserts /\ freed \subseteq Nodes
    /\ answer \in [key : Keys \cup {<<>>}, value : None .. MaxInserts]
    /\ position \in {NoNode} \cup Nodes /\ visited \subseteq Nodes
    /\ proc \in {"run", "gone", "ub"} /\ rebuilt \in BOOLEAN

Live == Nodes \ freed

\* Through every rebuilding each node that was not freed is in the list once,
\* in the order of insertion, and in one chain once, that of its hash, where
\* lookups will look; hash_destroy, which goes through the chains, frees all.
WellLinked ==
    /\ proc # "gone" =>
        /\ used = Len(list) /\ ToSet(list) = Live
        /\ \A i, j \in DOMAIN list : i < j => list[i] < list[j]
        /\ \A b \in DOMAIN bucket :
               /\ ToSet(bucket[b]) = {n \in Live : node[n].h % TableSize[size] = b}
               /\ IsInjective(bucket[b])
    /\ proc = "gone" => freed = Nodes

\* Until the table has filled to its limit once, of the entries that a lookup
\* could find it finds the newest: a nested call of Do with the same name gets
\* its own handler. Rebuilding turns the chains round.
NewestFound ==
    ~rebuilt => \A k \in Keys : \A n \in ToSet(bucket[Place(k)]) :
        Compared(n, k) => n <= Found(k)

\* The handler of hash_foreach has been called for exactly the nodes up to the
\* one it is at, although it inserts, removes other nodes and has the buckets
\* rebuilt under the iteration: none is left out, none is visited twice.
VisitsAll ==
    position \in Live /\ proc = "run" =>
        \A n \in Live : n \in visited <=> n <= position

\* The bag of entries that callers see. hash_insert_bykey may store an entry
\* where no lookup of its key comes.
Entry(n) == [key |-> node[n].key, value |-> node[n].value, sure |-> node[n].h = Hash[node[n].key]]
Entries == [n \in IF proc = "gone" THEN {} ELSE Live |-> Entry(n)]

Table == INSTANCE NameTable WITH
    Ids <- 1 .. MaxInserts, Values <- NewValue .. MaxInserts, entries <- Entries

\* Every call answers as a bag of entries whose keys match as prefixes does.
ImplementsNameTable == Table!Spec
=============================================================================
