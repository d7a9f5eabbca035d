----------------------------- MODULE Dictionary -----------------------------
(* What a hash table is for: a map from keys to data.                       *)
EXTENDS Integers, Sequences

CONSTANTS
  Key, Data(_),
  Missing,   \* KEY_NOT_FOUND
  Files      \* sequences of lines <<key, data>>, or <<>> for a comment

VARIABLE dict

\* the last line for a key counts
Says(file, k) ==
  LET lines == {i \in 1..Len(file) : file[i] # <<>> /\ file[i][1] = k}
  IN IF lines = {} THEN Missing ELSE file[CHOOSE i \in lines : \A j \in lines : j <= i][2]

Init == \E file \in Files \cup {<<>>} : dict = [k \in Key |-> Says(file, k)]

Add(k, d) == dict' = [dict EXCEPT ![k] = d]
Remove(k) == dict' = [dict EXCEPT ![k] = Missing]

Next == \E k \in Key : Remove(k) \/ \E d \in Data(k) : Add(k, d)

Spec == Init /\ [][Next]_dict
=============================================================================
