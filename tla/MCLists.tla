------------------------------ MODULE MCLists -------------------------------
(* The two lists of DataType/ArrayList.cpp, one of them in a behaviour: the *)
(* linked list, two threads of which one is the consumer and up to four     *)
(* cells; or the array, of two places that grow and shrink by two.          *)
EXTENDS LinkedQueue, ArrayList, TLC

VARIABLE list

MCVars == <<vars, arrayVars, list>>

MCInit == Init /\ ArrayInit /\ list \in {"linked", "array"}

MCNext ==
  /\ \/ list = "linked" /\ Next /\ UNCHANGED arrayVars
     \/ list = "array" /\ ArrayNext /\ UNCHANGED vars
  /\ UNCHANGED list

MCSpec == MCInit /\ [][MCNext]_MCVars

\* Cells, classes and objects are interchangeable.
Symmetry == Permutations(Cell) \cup Permutations(Class) \cup Permutations(Object)
=============================================================================
