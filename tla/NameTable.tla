----------------------------- MODULE NameTable -----------------------------
(***************************************************************************)
(* What a caller of the client's hash table (client/hash.h) may rely on,   *)
(* whatever the buckets hold and however often they were rebuilt: a bag of *)
(* entries.  Several may have one key, and a call that names a key may     *)
(* take any entry stored under the key or under a prefix of it; it fails   *)
(* only if none was stored under the key itself.                           *)
(***************************************************************************)
EXTENDS SequencesExt

CONSTANTS
    Keys,    \* the names, sequences of characters
    Values,  \* what is stored under them
    Ids      \* identities of entries

VARIABLES
    entries, \* [key, value, sure] of each entry in the table; an entry that is
             \* not sure was stored by hash_insert_bykey and may not be found
    answer   \* the key of the call just made and the value it gave back

vars == <<entries, answer>>

NoAnswer == [key |-> <<>>, value |-> -1]
Answer(k, v) == answer' = [key |-> k, value |-> v]

Matching(k) == {e \in DOMAIN entries : IsPrefix(entries[e].key, k)}
MayMiss(k) == \A e \in DOMAIN entries : entries[e].key = k => ~entries[e].sure

Init == entries = <<>> /\ answer = NoAnswer

Insert(k, v, s) ==
    /\ answer' = NoAnswer
    /\ \E e \in Ids \ DOMAIN entries :
           entries' = [d \in DOMAIN entries \cup {e} |->
                          IF d = e THEN [key |-> k, value |-> v, sure |-> s] ELSE entries[d]]

Miss(k) == MayMiss(k) /\ Answer(k, -1) /\ UNCHANGED entries

Lookup(k) ==
    \/ \E e \in Matching(k) : Answer(k, entries[e].value) /\ UNCHANGED entries
    \/ Miss(k)

Replace(k, v) ==
    \/ \E e \in Matching(k) :
           /\ Answer(k, entries[e].value)
           /\ entries' = [entries EXCEPT ![e].value = v]
    \/ Miss(k)

Delete(k) ==
    \/ \E e \in Matching(k) :
           /\ Answer(k, entries[e].value)
           /\ entries' = [d \in DOMAIN entries \ {e} |-> entries[d]]
    \/ Miss(k)

\* Any other call of the table.
Other == answer' = NoAnswer /\ UNCHANGED entries

Destroy == entries' = <<>> /\ answer' = NoAnswer

Next ==
    \/ \E k \in Keys : Lookup(k) \/ Delete(k)
    \/ \E k \in Keys, v \in Values : Replace(k, v) \/ \E s \in BOOLEAN : Insert(k, v, s)
    \/ Other \/ Destroy

Spec == Init /\ [][Next]_vars
=============================================================================
