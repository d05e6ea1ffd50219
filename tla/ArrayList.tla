----------------------------- MODULE ArrayList ------------------------------
(***************************************************************************)
(* TypeArrayList, the list of objects that every other part uses: an array *)
(* that is allocated anew when it is full and when much of it is unused.   *)
(* Places behind the last object keep what was there.  The list has no     *)
(* lock: this is what it does in one thread.                               *)
(***************************************************************************)
EXTENDS Integers

CONSTANTS
  Object, NULL,
  Growth, \* places allocated at first, and added or given back at a time: 10
  Slack,  \* unused places that are kept: 15
  MaxLen  \* bound: objects

ASSUME ListAssumption ==
  /\ NULL \notin Object /\ Growth \in Nat \ {0} /\ Slack \in Nat /\ MaxLen \in Nat
  /\ Growth <= Slack

VARIABLES ppData, strLength, mallocSize,
  clearing \* is clear() under way?

arrayVars == <<ppData, strLength, mallocSize, clearing>>

Content == Object \cup {NULL}
Places(size) == 0 .. size - 1

ArrayInit ==
  /\ mallocSize = Growth /\ ppData = [k \in Places(Growth) |-> NULL]
  /\ strLength = 0 /\ clearing = FALSE

\* mChangeMem: only the objects are copied.
\* Mutants: one too few is; the new array has the old size.
CopiedFew(data, length, size) ==
  [k \in Places(size) |-> IF k + 1 < length THEN data[k] ELSE NULL]
Copied(data, length, size) ==
  [k \in Places(size) |-> IF k < length THEN data[k] ELSE NULL]

Full(length, size) == length + 1 > size

add(o) ==
  /\ ~clearing /\ strLength < MaxLen
  /\ LET size == IF Full(strLength, mallocSize) THEN mallocSize + Growth ELSE mallocSize
         data == IF Full(strLength, mallocSize)
                 THEN Copied(ppData, strLength, size) ELSE ppData
     IN /\ mallocSize' = size
        /\ ppData' = [data EXCEPT ![strLength] = o]
  /\ strLength' = strLength + 1
  /\ UNCHANGED clearing

update(index, o) ==
  /\ ~clearing /\ index < strLength /\ ppData[index] = NULL
  /\ ppData' = [ppData EXCEPT ![index] = o]
  /\ UNCHANGED <<strLength, mallocSize, clearing>>

\* The objects behind index move up by one.
Moved(index) ==
  [k \in Places(mallocSize) |->
     IF index <= k /\ k + 1 < strLength THEN ppData[k + 1] ELSE ppData[k]]

\* Mutants: places are given back while they are used; never.
SpareAny(length, size) == size > Growth
Spare(length, size) == size - length > Slack

remove(index) ==
  /\ index < strLength
  /\ strLength' = strLength - 1
  /\ LET smaller == Spare(strLength - 1, mallocSize) /\ mallocSize >= 2 * Growth
     IN /\ mallocSize' = IF smaller THEN mallocSize - Growth ELSE mallocSize
        /\ ppData' = IF Spare(strLength - 1, mallocSize)
                     THEN Copied(Moved(index), strLength - 1, mallocSize')
                     ELSE Moved(index)

\* The first place with the object.
removeObject(o) ==
  /\ ~clearing
  /\ \E index \in 0 .. strLength - 1 :
       /\ ppData[index] = o /\ \A k \in 0 .. index - 1 : ppData[k] # o
       /\ remove(index)
  /\ UNCHANGED clearing

clear == ~clearing /\ strLength > 0 /\ clearing' = TRUE
         /\ UNCHANGED <<ppData, strLength, mallocSize>>
clearLast ==
  /\ clearing /\ remove(strLength - 1)
  /\ clearing' = (strLength > 1)

ArrayNext ==
  \/ clear \/ clearLast
  \/ \E o \in Content : add(o) \/ removeObject(o)
  \/ \E index \in 0 .. strLength - 1, o \in Object : update(index, o)

ArraySpec == ArrayInit /\ [][ArrayNext]_arrayVars

(* Properties                                                              *)

ArrayTypeOK ==
  /\ strLength \in Nat /\ mallocSize \in Nat
  /\ ppData \in [Places(mallocSize) -> Content]
  /\ clearing \in BOOLEAN

\* No object lies outside the array, whatever was added and removed.
Fits == strLength <= mallocSize

\* No more is kept than Slack places behind the last object.
Compact == mallocSize - strLength <= Slack /\ mallocSize >= Growth

\* The array is as long as its counter says, no object lies outside it, and
\* memory is given back (add, remove).
Sized == ArrayTypeOK /\ Fits /\ Compact

\* The list is the list its users expect, though it is moved from array to array.
L == INSTANCE ObjectList WITH list <- [n \in 1 .. strLength |-> ppData[n - 1]]
IsAList == L!Spec
=============================================================================
