---------------------------- MODULE HashTableMC ----------------------------
(* Values for the constants of HashTable: one name is a prefix of another, *)
(* with which it shares a bucket of the smaller table and not of the       *)
(* larger; the third shares one of the larger table with the first.        *)
EXTENDS HashTable

Short == <<"a">>
Long == <<"a", "b">>
Other == <<"b">>
Odd == {Other}
Names == {Short, Long, Other}
HashOf == Short :> 0 @@ Long :> 4 @@ Other :> 5
Sizes == <<4, 5>>
=============================================================================
