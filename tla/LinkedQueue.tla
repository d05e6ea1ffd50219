---------------------------- MODULE LinkedQueue -----------------------------
(***************************************************************************)
(* The linked list under the transmit engine: class TypeLinkedList         *)
(* (DataType/ArrayList.cpp), as the threads of onWriteCMD and the one      *)
(* consumer, onCheckSendCMD, use it.                                       *)
(*                                                                         *)
(* add, get and onDeleteSame run under lockMutex; onGetCount reads count   *)
(* without it.  Inside a critical section the pointer update, the counter  *)
(* and the release are steps of their own, and onDeleteSame moves one cell *)
(* per step.  A cell stands for a TypeLinkedInfo and the command it holds; *)
(* get deletes it, and the allocator may hand it out again.                *)
(***************************************************************************)
EXTENDS Naturals, Sequences

CONSTANTS Thread, Consumer, Cell, Class, None

ASSUME QueueAssumption ==
  /\ Consumer \in Thread
  /\ None \notin Thread /\ None \notin Cell
  /\ None \notin [cls : Class, dead : BOOLEAN]

VARIABLES
  head, tail, next, data, count, lock,  \* the list
  pc, obj,  \* per thread: where it is, and the command it is about to add
  cur,      \* tempLinkedInfo of the running onDeleteSame
  got,      \* what get returned last
  order     \* history: the cells of the list, oldest first

local == <<pc, obj>>
vars == <<head, tail, next, data, count, lock, local, cur, got, order>>

Item == [cls : Class, dead : BOOLEAN]

\* Where a thread holds the mutex.
Inside == {"walk", "walked", "link", "inc", "unlink", "dec", "unlock"}

TypeOK ==
  /\ head \in Cell \cup {None} /\ tail \in Cell \cup {None}
  /\ cur \in Cell \cup {None}
  /\ next \in [Cell -> Cell \cup {None}]
  /\ data \in [Cell -> Item]
  /\ count \in Nat
  /\ lock \in Thread \cup {None}
  /\ pc \in [Thread -> {"idle", "mark", "add", "get"} \cup Inside]
  /\ obj \in [Thread -> Cell \cup {None}]
  /\ got \in Item \cup {None}
  /\ order \in Seq(Cell)

Init ==
  /\ head = None /\ tail = None /\ cur = None /\ lock = None
  /\ next = [c \in Cell |-> None]
  /\ data \in [Cell -> Item]
  /\ count = 0
  /\ pc = [t \in Thread |-> "idle"] /\ obj = [t \in Thread |-> None]
  /\ got = None
  /\ order = <<>>

At(t, here, there) == pc[t] = here /\ pc' = [pc EXCEPT ![t] = there]

Linked(c) == \E i \in DOMAIN order : order[i] = c

-----------------------------------------------------------------------------
(* The callers *)

\* onWriteCMD, for an AF data request: the queued ones of its class are cancelled
\* first (any other command is written to the port at once and never queued).
Write(t, c, cls) ==
  /\ ~ Linked(c) /\ \A u \in Thread : obj[u] # c
  /\ At(t, "idle", "mark")
  /\ obj' = [obj EXCEPT ![t] = c]
  /\ data' = [data EXCEPT ![c] = [cls |-> cls, dead |-> FALSE]]
  /\ next' = [next EXCEPT ![c] = None]
  /\ UNCHANGED <<head, tail, count, lock, cur, got, order>>

\* Fault: get is called without a look at onGetCount.
WantGetBlindly ==
  /\ At(Consumer, "idle", "get")
  /\ UNCHANGED <<head, tail, next, data, count, lock, obj, cur, got, order>>

\* onCheckSendCMD calls get once onGetCount, read outside the mutex, is not 0.
WantGet ==
  /\ count > 0
  /\ At(Consumer, "idle", "get")
  /\ UNCHANGED <<head, tail, next, data, count, lock, obj, cur, got, order>>

\* Fault: the mutex does not exclude.
AcquireUnlocked(t) ==
  /\ lock' = t
  /\ \/ At(t, "mark", "walk") /\ cur' = head
     \/ At(t, "add", "link") /\ UNCHANGED cur
     \/ At(t, "get", "unlink") /\ UNCHANGED cur
  /\ UNCHANGED <<head, tail, next, data, count, obj, got, order>>

Acquire(t) ==
  /\ lock = None /\ lock' = t
  /\ \/ At(t, "mark", "walk") /\ cur' = head
     \/ At(t, "add", "link") /\ UNCHANGED cur
     \/ At(t, "get", "unlink") /\ UNCHANGED cur
  /\ UNCHANGED <<head, tail, next, data, count, obj, got, order>>

\* onWriteCMD goes on from onDeleteSame to add.
Release(t) ==
  /\ lock' = None
  /\ At(t, "walked", "add") \/ At(t, "unlock", "idle")
  /\ UNCHANGED <<head, tail, next, data, count, obj, cur, got, order>>

-----------------------------------------------------------------------------
(* The critical sections *)

Walk(t) ==
  /\ \/ cur = None /\ At(t, "walk", "walked") /\ UNCHANGED <<data, cur>>
     \/ /\ cur # None /\ At(t, "walk", "walk")
        /\ data' = IF data[cur].cls = data[obj[t]].cls
                     THEN [data EXCEPT ![cur].dead = TRUE] ELSE data
        /\ cur' = next[cur]
  /\ UNCHANGED <<head, tail, next, count, lock, obj, got, order>>

\* Fault: the second add leaves pTail as it was.
LinkForgetsTail(t) ==
  /\ At(t, "link", "inc")
  /\ IF head = None
       THEN head' = obj[t] /\ UNCHANGED <<tail, next>>
       ELSE LET prev == IF next[head] = None THEN head ELSE tail
            IN /\ next' = [next EXCEPT ![prev] = obj[t]]
               /\ tail' = IF prev = head THEN tail ELSE obj[t]
               /\ UNCHANGED head
  /\ order' = Append(order, obj[t])
  /\ obj' = [obj EXCEPT ![t] = None]
  /\ UNCHANGED <<data, count, lock, cur, got>>

\* add: pTail is not set by the first add, and get never resets it.
Link(t) ==
  /\ At(t, "link", "inc")
  /\ IF head = None
       THEN head' = obj[t] /\ UNCHANGED <<tail, next>>
       ELSE LET prev == IF next[head] = None THEN head ELSE tail
            IN /\ next' = [next EXCEPT ![prev] = obj[t]]
               /\ tail' = obj[t]
               /\ UNCHANGED head
  /\ order' = Append(order, obj[t])
  /\ obj' = [obj EXCEPT ![t] = None]
  /\ UNCHANGED <<data, count, lock, cur, got>>

CountUp(t) ==
  /\ At(t, "inc", "unlock")
  /\ count' = count + 1
  /\ UNCHANGED <<head, tail, next, data, lock, obj, cur, got, order>>

\* get: the head leaves the list and its cell is deleted; NULL on an empty one.
Unlink(t) ==
  /\ At(t, "unlink", "dec")
  /\ IF head = None
       THEN got' = None /\ UNCHANGED <<head, order>>
       ELSE got' = data[head] /\ head' = next[head] /\ order' = Tail(order)
  /\ UNCHANGED <<tail, next, data, count, lock, obj, cur>>

CountDown(t) ==
  /\ At(t, "dec", "unlock")
  /\ count' = IF count > 0 THEN count - 1 ELSE count
  /\ UNCHANGED <<head, tail, next, data, lock, obj, cur, got, order>>

Step(t) ==
  \/ Acquire(t) \/ Release(t)
  \/ Walk(t)
  \/ Link(t) \/ CountUp(t)
  \/ Unlink(t) \/ CountDown(t)

Next ==
  \/ WantGet
  \/ \E t \in Thread : Step(t) \/ \E c \in Cell, cls \in Class : Write(t, c, cls)

Spec == Init /\ [][Next]_vars

-----------------------------------------------------------------------------
(* Properties *)

\* Whoever holds the mutex is alone inside, and inside as long as it holds it.
Exclusive == \A t \in Thread : pc[t] \in Inside <=> lock = t

\* The pointers spell the history: next links each cell to the one added after
\* it, and pTail is right whenever add is about to follow it.
Chain ==
  /\ head = IF order = <<>> THEN None ELSE order[1]
  /\ \A i \in DOMAIN order :
       next[order[i]] = IF i < Len(order) THEN order[i + 1] ELSE None
  /\ Len(order) > 1 => tail = order[Len(order)]

\* The pointers are right, and only their thread touches them.
PointersRight == TypeOK /\ Exclusive /\ Chain

\* count runs behind the pointers, by the add or the get between its two steps.
Counted ==
  count + (IF \E t \in Thread : pc[t] = "inc" THEN 1 ELSE 0)
    = Len(order) + (IF \E t \in Thread : pc[t] = "dec" THEN 1 ELSE 0)

\* The consumer decides on a count it read outside the mutex, and reads it
\* stale; still get never comes back empty-handed.
GetFindsCommand == pc[Consumer] \in {"get", "unlink"} => head # None

\* A cell the running onDeleteSame has still to visit.
Ahead(i) ==
  \E t \in Thread : /\ pc[t] = "walk"
                    /\ data[obj[t]].cls = data[order[i]].cls
                    /\ \E k \in DOMAIN order : k <= i /\ order[k] = cur

\* The commands of the list, the rest of a running onDeleteSame already done.
Contents ==
  [i \in DOMAIN order |->
     [cls |-> data[order[i]].cls, dead |-> data[order[i]].dead \/ Ahead(i)]]

Abstract == INSTANCE SendQueue WITH q <- Contents, out <- got

\* The list is the FIFO its callers take it for: in particular onDeleteSame,
\* cell by cell as it is, cancels as if in one step, and no command is lost,
\* duplicated or handed out with a status that was not yet complete.
ImplementsSendQueue == Abstract!Spec
=============================================================================
