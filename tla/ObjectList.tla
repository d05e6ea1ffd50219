----------------------------- MODULE ObjectList -----------------------------
(* What a list of objects promises its users: it grows at the end, loses an *)
(* object at any place, the others keep their order, and a place that was   *)
(* left empty can be filled.                                                *)
EXTENDS Integers, Sequences

CONSTANTS Object, NULL
VARIABLE list

Without(s, k) == [n \in 1 .. Len(s) - 1 |-> IF n < k THEN s[n] ELSE s[n + 1]]

Init == list = <<>>
Add == \E o \in Object \cup {NULL} : list' = Append(list, o)
Remove == \E k \in 1 .. Len(list) : list' = Without(list, k)
Fill == \E k \in 1 .. Len(list), o \in Object :
          list[k] = NULL /\ list' = [list EXCEPT ![k] = o]

Spec == Init /\ [][Add \/ Remove \/ Fill]_list
=============================================================================
