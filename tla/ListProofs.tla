----------------------------- MODULE ListProofs ------------------------------
(* The lists of DataType/ArrayList.cpp.  The linked list, for any threads,   *)
(* cells and classes: the mutex, the pointers, the counter and the emptiness *)
(* test of the consumer are right, and it refines SendQueue; the induction   *)
(* adds to the checked invariants who may be where (Roles) and that a command*)
(* not yet linked is in no one else's hands (Fresh).  The array, for any     *)
(* objects, any bound and any step of growth that is no more than the slack: *)
(* it is neither too small nor much too large, and implements ObjectList.    *)
EXTENDS MCLists, SequenceTheorems, TLAPS

(* The linked list                                                         *)

\* Only the consumer gets, and a writer holds its command until it is linked.
Roles ==
  \A t \in Thread :
    /\ pc[t] \in {"get", "unlink", "dec"} => t = Consumer
    /\ pc[t] \in {"mark", "walk", "walked", "add", "link"} => obj[t] # None

Fresh ==
  /\ \A i, j \in DOMAIN order : order[i] = order[j] => i = j
  /\ \A t \in Thread :
       obj[t] # None => /\ ~ Linked(obj[t])
                        /\ next[obj[t]] = None
                        /\ ~ data[obj[t]].dead
  /\ \A t, u \in Thread : obj[t] = obj[u] /\ obj[t] # None => t = u

CurLinked == \A t \in Thread : pc[t] = "walk" => cur = None \/ Linked(cur)

Ready == pc[Consumer] \in {"get", "unlink"} => order # <<>>

LockInv == TypeOK /\ Exclusive /\ Roles
ListInv == LockInv /\ Fresh /\ Chain /\ CurLinked
QueueInv == ListInv /\ Counted /\ Ready

-----------------------------------------------------------------------------
LEMMA OrderFacts ==
  ASSUME TypeOK
  PROVE  /\ Len(order) \in Nat /\ DOMAIN order = 1..Len(order)
         /\ \A i \in DOMAIN order : order[i] \in Cell /\ order[i] # None
  BY QueueAssumption DEF TypeOK

LEMMA AppendFacts ==
  ASSUME NEW S, NEW s \in Seq(S), NEW e \in S
  PROVE  /\ Append(s, e) \in Seq(S)
         /\ Len(Append(s, e)) = Len(s) + 1
         /\ DOMAIN Append(s, e) = 1..(Len(s) + 1)
         /\ \A i \in 1..Len(s) : Append(s, e)[i] = s[i]
         /\ Append(s, e)[Len(s) + 1] = e
  OBVIOUS

LEMMA SeqOfLength ==
  ASSUME NEW S, NEW n \in Nat, NEW s \in [1..n -> S]
  PROVE  s \in Seq(S) /\ Len(s) = n
  OBVIOUS

LEMMA TailFacts ==
  ASSUME NEW S, NEW s \in Seq(S), s # <<>>
  PROVE  /\ Tail(s) \in Seq(S)
         /\ Len(s) >= 1
         /\ Len(Tail(s)) = Len(s) - 1
         /\ DOMAIN Tail(s) = 1..(Len(s) - 1)
         /\ \A i \in 1..(Len(s) - 1) : Tail(s)[i] = s[i + 1]
  OBVIOUS

-----------------------------------------------------------------------------
(* The mutex *)

LEMMA LockInit == Init => LockInv
  BY QueueAssumption
  DEF Init, LockInv, TypeOK, Exclusive, Roles, Inside

\* Types, mutual exclusion and roles.
LEMMA LockStep == ListInv /\ [Next]_vars => LockInv'
  <1> SUFFICES ASSUME ListInv, [Next]_vars PROVE LockInv'
    OBVIOUS
  <1> USE QueueAssumption DEF ListInv, LockInv
  <1>1. CASE WantGet
    BY <1>1 DEF WantGet, At, TypeOK, Exclusive, Roles, Inside
  <1>2. ASSUME NEW t \in Thread, NEW c \in Cell, NEW cls \in Class, Write(t, c, cls)
        PROVE  LockInv'
    <2>1. TypeOK'
      <3>1. [cls |-> cls, dead |-> FALSE] \in Item
        BY DEF Item
      <3> QED BY <1>2, <3>1 DEF Write, At, TypeOK
    <2>2. Exclusive'
      BY <1>2 DEF Write, At, TypeOK, Exclusive, Inside
    <2>3. Roles'
      BY <1>2 DEF Write, At, TypeOK, Roles
    <2> QED BY <2>1, <2>2, <2>3
  <1>3. ASSUME NEW t \in Thread, Acquire(t) PROVE LockInv'
    <2>1. TypeOK'
      BY <1>3 DEF Acquire, At, TypeOK, Inside
    <2>2. Exclusive'
      BY <1>3 DEF Acquire, At, TypeOK, Exclusive, Inside
    <2>3. Roles'
      BY <1>3 DEF Acquire, At, TypeOK, Roles
    <2> QED BY <2>1, <2>2, <2>3
  <1>4. ASSUME NEW t \in Thread, Release(t) PROVE LockInv'
    <2>1. TypeOK'
      BY <1>4 DEF Release, At, TypeOK
    <2>2. Exclusive'
      BY <1>4 DEF Release, At, TypeOK, Exclusive, Inside
    <2>3. Roles'
      BY <1>4 DEF Release, At, TypeOK, Roles
    <2> QED BY <2>1, <2>2, <2>3
  <1>5. ASSUME NEW t \in Thread, Walk(t) PROVE LockInv'
    <2>1. data' \in [Cell -> Item]
      <3>1. \A x \in Item : [x EXCEPT !.dead = TRUE] \in Item
        BY DEF Item
      <3>2. CASE data' = data
        BY <3>2 DEF TypeOK
      <3>3. CASE cur \in Cell /\ data' = [data EXCEPT ![cur].dead = TRUE]
        <4>1. data' = [data EXCEPT ![cur] = [data[cur] EXCEPT !.dead = TRUE]]
          BY <3>3
        <4>2. data[cur] \in Item
          BY <3>3 DEF TypeOK
        <4> QED BY <3>1, <4>1, <4>2 DEF TypeOK
      <3> QED BY <1>5, <3>2, <3>3 DEF Walk, TypeOK
    <2>2. TypeOK'
      BY <1>5, <2>1 DEF Walk, At, TypeOK, Inside
    <2>3. Exclusive'
      BY <1>5 DEF Walk, At, TypeOK, Exclusive, Inside
    <2>4. Roles'
      BY <1>5 DEF Walk, At, TypeOK, Roles
    <2> QED BY <2>2, <2>3, <2>4
  <1>6. ASSUME NEW t \in Thread, Link(t) PROVE LockInv'
    <2>1. obj[t] \in Cell
      BY <1>6 DEF Link, At, TypeOK, Roles
    <2>2. TypeOK'
      BY <1>6, <2>1, AppendFacts DEF Link, At, TypeOK, Inside
    <2>3. Exclusive'
      BY <1>6 DEF Link, At, TypeOK, Exclusive, Inside
    <2>4. Roles'
      BY <1>6 DEF Link, At, TypeOK, Roles
    <2> QED BY <2>2, <2>3, <2>4
  <1>7. ASSUME NEW t \in Thread, CountUp(t) \/ CountDown(t) PROVE LockInv'
    <2>1. TypeOK'
      BY <1>7 DEF CountUp, CountDown, At, TypeOK, Inside
    <2>2. Exclusive'
      BY <1>7 DEF CountUp, CountDown, At, TypeOK, Exclusive, Inside
    <2>3. Roles'
      BY <1>7 DEF CountUp, CountDown, At, TypeOK, Roles
    <2> QED BY <2>1, <2>2, <2>3
  <1>8. ASSUME NEW t \in Thread, Unlink(t) PROVE LockInv'
    <2>1. order' \in Seq(Cell)
      <3>1. CASE head = None
        BY <1>8, <3>1 DEF Unlink, TypeOK
      <3>2. CASE head # None
        <4>1. order \in Seq(Cell) /\ order # <<>>
          BY <3>2 DEF Chain, TypeOK
        <4>2. Tail(order) \in Seq(Cell)
          BY <4>1, TailFacts
        <4> QED BY <1>8, <3>2, <4>2 DEF Unlink
      <3> QED BY <3>1, <3>2
    <2>2. TypeOK'
      BY <1>8, <2>1 DEF Unlink, At, TypeOK, Inside
    <2>3. Exclusive'
      BY <1>8 DEF Unlink, At, TypeOK, Exclusive, Inside
    <2>4. Roles'
      BY <1>8 DEF Unlink, At, TypeOK, Roles
    <2> QED BY <2>2, <2>3, <2>4
  <1>9. CASE UNCHANGED vars
    BY <1>9 DEF vars, local, TypeOK, Exclusive, Roles
  <1> QED BY <1>1, <1>2, <1>3, <1>4, <1>5, <1>6, <1>7, <1>8, <1>9 DEF Next, Step

-----------------------------------------------------------------------------
(* The pointers *)

\* A critical section is entered by one thread at a time.
LEMMA Alone ==
  ASSUME LockInv, NEW t \in Thread, NEW u \in Thread,
         pc[t] \in Inside, pc[u] \in Inside
  PROVE  t = u
  BY QueueAssumption DEF LockInv, Exclusive

LEMMA ListInit == Init => ListInv
  BY LockInit DEF Init, ListInv, LockInv, Fresh, Chain, CurLinked, Linked

\* Steps that touch neither the list nor a command to be added.
LEMMA ListUntouched ==
  ASSUME ListInv, LockInv', UNCHANGED <<head, tail, next, data, obj, order>>,
         CurLinked'
  PROVE  ListInv'
  BY DEF ListInv, Fresh, Chain, Linked

LEMMA ListStep == ListInv /\ [Next]_vars => ListInv'
  <1> SUFFICES ASSUME ListInv, [Next]_vars PROVE ListInv'
    OBVIOUS
  <1>0. LockInv /\ LockInv' /\ TypeOK /\ TypeOK'
    BY LockStep DEF ListInv, LockInv
  <1>1. CASE WantGet
    <2>1. CurLinked'
      BY <1>0, <1>1 DEF WantGet, At, TypeOK, ListInv, CurLinked, Linked
    <2> QED BY <1>0, <1>1, <2>1, ListUntouched DEF WantGet
  <1>2. ASSUME NEW t \in Thread, NEW c \in Cell, NEW cls \in Class, Write(t, c, cls)
        PROVE  ListInv'
    <2>1. /\ order' = order /\ head' = head /\ tail' = tail /\ cur' = cur
          /\ obj'[t] = c /\ next'[c] = None /\ ~ data'[c].dead
          /\ \A u \in Thread \ {t} : obj'[u] = obj[u]
          /\ \A d \in Cell \ {c} : next'[d] = next[d] /\ data'[d] = data[d]
          /\ ~ Linked(c) /\ \A u \in Thread : obj[u] # c
      BY <1>0, <1>2 DEF Write, TypeOK
    <2>2. Fresh'
      BY <1>0, <2>1 DEF Fresh, Linked, ListInv, TypeOK
    <2>3. Chain'
      BY <1>0, <2>1, OrderFacts DEF Chain, Linked, ListInv
    <2>4. CurLinked'
      BY <1>0, <1>2, <2>1 DEF Write, At, TypeOK, CurLinked, Linked, ListInv
    <2> QED BY <1>0, <2>2, <2>3, <2>4 DEF ListInv
  <1>3. ASSUME NEW t \in Thread, Acquire(t) PROVE ListInv'
    <2>1. head = None \/ Linked(head)
      BY <1>0, OrderFacts DEF ListInv, Chain, Linked
    <2>2. \A u \in Thread : pc[u] # "walk"
      BY <1>0, <1>3, QueueAssumption DEF Acquire, LockInv, Exclusive, Inside
    <2>3. CurLinked'
      BY <1>0, <1>3, <2>1, <2>2 DEF Acquire, At, TypeOK, CurLinked, Linked
    <2> QED BY <1>0, <1>3, <2>3, ListUntouched DEF Acquire
  <1>4. ASSUME NEW t \in Thread, Release(t) \/ CountUp(t) \/ CountDown(t)
        PROVE  ListInv'
    <2>1. CurLinked'
      BY <1>0, <1>4
      DEF Release, CountUp, CountDown, At, TypeOK, CurLinked, Linked, ListInv
    <2> QED BY <1>0, <1>4, <2>1, ListUntouched DEF Release, CountUp, CountDown
  <1>5. ASSUME NEW t \in Thread, Walk(t) PROVE ListInv'
    <2>1. /\ UNCHANGED <<head, tail, next, obj, order>>
          /\ pc[t] = "walk"
          /\ \A u \in Thread \ {t} : pc'[u] = pc[u]
      BY <1>0, <1>5 DEF Walk, At, TypeOK
    <2>2. \A u \in Thread : obj[u] # None => data'[obj[u]] = data[obj[u]]
      <3>1. \A u \in Thread : obj[u] # None => obj[u] # cur
        BY <2>1 DEF ListInv, CurLinked, Fresh
      <3> QED BY <1>0, <1>5, <3>1 DEF Walk, TypeOK
    <2>3. Fresh' /\ Chain'
      BY <2>1, <2>2 DEF ListInv, Fresh, Chain, Linked
    <2>4. CASE cur = None
      BY <1>0, <1>5, <2>1, <2>3, <2>4
      DEF Walk, At, TypeOK, CurLinked, Linked, ListInv
    <2>5. CASE cur # None
      <3>1. cur' = None \/ Linked(cur')
        <4>1. PICK k \in DOMAIN order : order[k] = cur
          BY <2>1, <2>5 DEF ListInv, CurLinked, Linked
        <4>2. cur' = next[order[k]]
          BY <1>5, <2>5, <4>1 DEF Walk
        <4> QED BY <1>0, <4>1, <4>2, OrderFacts DEF ListInv, Chain, Linked
      <3>2. CurLinked'
        BY <2>1, <3>1 DEF CurLinked, Linked
      <3> QED BY <1>0, <2>3, <3>2 DEF ListInv
    <2> QED BY <2>4, <2>5
  <1>6. ASSUME NEW t \in Thread, Link(t) PROVE ListInv'
    <2> DEFINE c == obj[t]
               n == Len(order)
    <2>1. /\ c \in Cell /\ c # None /\ pc[t] = "link"
          /\ n \in Nat /\ DOMAIN order = 1..n
          /\ \A i \in 1..n : order[i] # c
          /\ next[c] = None
      BY <1>0, <1>6, OrderFacts
      DEF Link, At, TypeOK, LockInv, Roles, ListInv, Fresh, Linked
    <2>2. /\ DOMAIN order' = 1..(n + 1) /\ Len(order') = n + 1
          /\ order'[n + 1] = c
          /\ \A i \in 1..n : order'[i] = order[i]
      BY <1>0, <1>6, <2>1, AppendFacts DEF Link, TypeOK
    <2>3. /\ data' = data /\ cur' = cur
          /\ obj'[t] = None
          /\ \A u \in Thread \ {t} : obj'[u] = obj[u]
      BY <1>0, <1>6 DEF Link, TypeOK
    <2>4. \A u \in Thread : pc'[u] # "walk"
      BY <1>0, <1>6, <2>1, Alone DEF Link, At, TypeOK, Inside
    <2>5. CASE head = None
      <3>1. n = 0 /\ head' = c /\ next' = next
        BY <1>0, <1>6, <2>1, <2>5, OrderFacts DEF Link, ListInv, Chain
      <3>2. Chain'
        BY <2>1, <2>2, <3>1 DEF Chain
      <3>3. Fresh'
        BY <1>0, <2>1, <2>2, <2>3, <3>1 DEF Fresh, Linked, ListInv
      <3> QED BY <1>0, <2>4, <3>2, <3>3 DEF ListInv, CurLinked
    <2>6. CASE head # None
      <3>1. n > 0 /\ head = order[1]
        BY <1>0, <2>1, <2>6, OrderFacts DEF ListInv, Chain
      <3>2. next' = [next EXCEPT ![order[n]] = c] /\ tail' = c /\ head' = head
        <4>1. CASE n = 1
          BY <1>6, <2>1, <2>6, <3>1, <4>1 DEF Link, ListInv, Chain
        <4>2. CASE n > 1
          <5>1. next[head] # None /\ tail = order[n]
            BY <1>0, <2>1, <3>1, <4>2, OrderFacts DEF ListInv, Chain
          <5> QED BY <1>6, <2>6, <5>1 DEF Link
        <4> QED BY <2>1, <3>1, <4>1, <4>2
      <3>3. /\ next'[order[n]] = c /\ next'[c] = None
            /\ \A d \in Cell \ {order[n]} : next'[d] = next[d]
        BY <1>0, <2>1, <3>1, <3>2 DEF TypeOK
      <3>4. Chain'
        <4>1. \A i \in 1..n : i # n => order[i] \in Cell /\ order[i] # order[n]
          <5>1. n \in DOMAIN order
            BY <2>1, <3>1
          <5>2. \A i \in 1..n : order[i] \in Cell
            BY <1>0, <2>1, OrderFacts
          <5> QED BY <2>1, <5>1, <5>2 DEF ListInv, Fresh
        <4>2. ASSUME NEW i \in 1..(n + 1)
              PROVE  next'[order'[i]] = IF i < n + 1 THEN order'[i + 1] ELSE None
          <5>1. CASE i = n + 1
            BY <2>2, <3>3, <5>1
          <5>2. CASE i = n
            BY <2>1, <2>2, <3>1, <3>3, <5>2
          <5>3. CASE i < n
            <6>1. next'[order[i]] = next[order[i]]
              <7>1. i \in 1..n /\ i # n
                <8>1. n \in Nat
                  BY <2>1
                <8> QED BY <5>3, <8>1
              <7>2. order[i] \in Cell \ {order[n]}
                BY <4>1, <7>1
              <7> QED BY <3>3, <7>2
            <6>2. next[order[i]] = order[i + 1]
              BY <2>1, <5>3 DEF ListInv, Chain
            <6> QED BY <2>1, <2>2, <5>3, <6>1, <6>2
          <5>4. i = n + 1 \/ i = n \/ i < n
            <6>1. n \in Nat
              BY <2>1
            <6> HIDE DEF n
            <6> QED BY <6>1
          <5> QED BY <5>1, <5>2, <5>3, <5>4
        <4>3. head' = order'[1] /\ order' # <<>>
          BY <2>1, <2>2, <3>1, <3>2
        <4> QED BY <2>1, <2>2, <3>2, <4>2, <4>3 DEF Chain
      <3>5. Fresh'
        <4>1. \A u \in Thread : obj'[u] # None =>
                /\ u # t /\ obj[u] # c /\ obj[u] \in Cell
                /\ ~ Linked(obj[u]) /\ next'[obj[u]] = None
          BY <1>0, <2>1, <2>3, <3>1, <3>3 DEF ListInv, Fresh, Linked, TypeOK
        <4> QED BY <2>1, <2>2, <2>3, <4>1 DEF Fresh, Linked, ListInv
      <3> QED BY <1>0, <2>4, <3>4, <3>5 DEF ListInv, CurLinked
    <2> QED BY <2>5, <2>6
  <1>7. ASSUME NEW t \in Thread, Unlink(t) PROVE ListInv'
    <2>1. \A u \in Thread : pc'[u] # "walk"
      BY <1>0, <1>7, Alone DEF Unlink, At, TypeOK, Inside
    <2>2. CurLinked'
      BY <2>1 DEF CurLinked
    <2>3. CASE head = None
      BY <1>0, <1>7, <2>2, <2>3, ListUntouched DEF Unlink
    <2>4. CASE head # None
      <3>1. order # <<>> /\ head = order[1]
        BY <2>4 DEF ListInv, Chain
      <3>2. order' = Tail(order) /\ head' = next[head]
            /\ UNCHANGED <<tail, next, data, obj>>
        BY <1>7, <2>4 DEF Unlink
      <3>3. /\ Len(order) \in Nat /\ Len(order) >= 1
            /\ DOMAIN order = 1..Len(order)
            /\ Len(order') = Len(order) - 1
            /\ DOMAIN order' = 1..(Len(order) - 1)
            /\ \A i \in 1..(Len(order) - 1) : order'[i] = order[i + 1]
        BY <1>0, <3>1, <3>2, OrderFacts, TailFacts DEF TypeOK
      <3>4. Fresh'
        BY <3>2, <3>3 DEF ListInv, Fresh, Linked
      <3>5. Chain'
        <4>1. next[order[1]] = IF 1 < Len(order) THEN order[2] ELSE None
          BY <3>3 DEF ListInv, Chain
        <4>2. head' = IF order' = <<>> THEN None ELSE order'[1]
          <5>1. order' = <<>> <=> Len(order) = 1
            BY <1>0, <3>3 DEF TypeOK
          <5>2. Len(order) > 1 => order'[1] = order[2]
            BY <3>3
          <5> QED BY <3>1, <3>2, <3>3, <4>1, <5>1, <5>2
        <4>3. \A i \in DOMAIN order' :
                next[order'[i]] = IF i < Len(order') THEN order'[i + 1] ELSE None
          BY <3>3 DEF ListInv, Chain
        <4>4. Len(order') > 1 => tail = order'[Len(order')]
          BY <3>3 DEF ListInv, Chain
        <4> QED BY <3>2, <4>2, <4>3, <4>4 DEF Chain
      <3> QED BY <1>0, <2>2, <3>4, <3>5 DEF ListInv
    <2> QED BY <2>3, <2>4
  <1>8. CASE UNCHANGED vars
    <2>1. CurLinked'
      BY <1>8 DEF vars, local, CurLinked, Linked, ListInv
    <2> QED BY <1>0, <1>8, <2>1, ListUntouched DEF vars, local
  <1> QED BY <1>1, <1>2, <1>3, <1>4, <1>5, <1>6, <1>7, <1>8 DEF Next, Step

-----------------------------------------------------------------------------
(* The counter *)

LEMMA CountStep == QueueInv /\ [Next]_vars => QueueInv'
  <1> SUFFICES ASSUME QueueInv, [Next]_vars PROVE QueueInv'
    OBVIOUS
  <1> DEFINE Adding == \E t \in Thread : pc[t] = "inc"
             Getting == \E t \in Thread : pc[t] = "dec"
  <1>0. /\ ListInv /\ ListInv' /\ LockInv /\ LockInv' /\ TypeOK /\ TypeOK'
        /\ Len(order) \in Nat /\ Len(order') \in Nat
        /\ order = <<>> <=> Len(order) = 0
        /\ order' = <<>> <=> Len(order') = 0
        /\ Consumer \in Thread
    BY ListStep, QueueAssumption DEF QueueInv, ListInv, LockInv, TypeOK
  \* Everything but the four steps below leaves the counter, the list and the
  \* steps between them alone.
  <1>1. ASSUME UNCHANGED <<count, order>>, Adding' <=> Adding,
               Getting' <=> Getting
        PROVE  Counted'
    BY <1>1 DEF Counted, QueueInv
  <1>2. ASSUME NEW t \in Thread, pc[t] \in Inside
        PROVE  /\ Adding <=> pc[t] = "inc"
               /\ Getting <=> pc[t] = "dec"
    BY <1>0, <1>2, Alone DEF Inside
  <1>3. ASSUME NEW t \in Thread, NEW here, NEW there, At(t, here, there),
               here \notin {"inc", "dec"}, there \notin {"inc", "dec"}
        PROVE  (Adding' <=> Adding) /\ (Getting' <=> Getting)
    BY <1>0, <1>3 DEF At, TypeOK
  <1>4. CASE WantGet
    <2>1. ~ Getting
      BY <1>0, <1>4 DEF WantGet, At, LockInv, Roles
    <2>2. Counted'
      BY <1>0, <1>1, <1>3, <1>4 DEF WantGet
    <2>3. order # <<>>
      BY <1>0, <1>4, <2>1 DEF WantGet, QueueInv, Counted, TypeOK
    <2> QED BY <1>0, <1>4, <2>2, <2>3 DEF WantGet, QueueInv, Ready
  <1>5. ASSUME NEW t \in Thread, NEW c \in Cell, NEW cls \in Class, Write(t, c, cls)
        PROVE  QueueInv'
    <2>1. Counted'
      BY <1>1, <1>3, <1>5 DEF Write
    <2>2. Ready'
      BY <1>0, <1>5 DEF Write, At, TypeOK, QueueInv, Ready
    <2> QED BY <1>0, <2>1, <2>2 DEF QueueInv
  <1>6. ASSUME NEW t \in Thread, Acquire(t) \/ Release(t) \/ Walk(t)
        PROVE  QueueInv'
    <2>1. Counted'
      BY <1>1, <1>3, <1>6 DEF Acquire, Release, Walk
    <2>2. Ready'
      BY <1>0, <1>6 DEF Acquire, Release, Walk, At, TypeOK, QueueInv, Ready
    <2> QED BY <1>0, <2>1, <2>2 DEF QueueInv
  <1>7. ASSUME NEW t \in Thread, Link(t) PROVE QueueInv'
    <2>1. ~ Adding /\ ~ Getting /\ Adding' /\ ~ Getting'
      BY <1>0, <1>2, <1>7 DEF Link, At, TypeOK, Inside
    <2>2. Len(order') = Len(order) + 1
      BY <1>0, <1>7 DEF Link, TypeOK, At, LockInv, Roles
    <2>3. Counted'
      BY <1>0, <1>7, <2>1, <2>2 DEF Link, Counted, QueueInv, TypeOK
    <2> QED BY <1>0, <2>2, <2>3 DEF QueueInv, Ready
  <1>8. ASSUME NEW t \in Thread, CountUp(t) PROVE QueueInv'
    <2>1. Adding /\ ~ Getting /\ ~ Adding' /\ ~ Getting'
      <3>1. pc[t] = "inc" /\ pc' = [pc EXCEPT ![t] = "unlock"]
        BY <1>8 DEF CountUp, At
      <3>2. Adding /\ ~ Getting
        BY <1>2, <3>1 DEF Inside
      <3>3. \A u \in Thread \ {t} : pc[u] \notin {"inc", "dec"}
        BY <1>0, <3>1, Alone DEF Inside
      <3>4. \A u \in Thread : pc'[u] \notin {"inc", "dec"}
        BY <1>0, <3>1, <3>3 DEF TypeOK
      <3> QED BY <3>2, <3>4
    <2>2. Counted'
      BY <1>0, <1>8, <2>1 DEF CountUp, Counted, QueueInv, TypeOK
    <2>3. Ready'
      BY <1>0, <1>8 DEF CountUp, At, TypeOK, QueueInv, Ready
    <2> QED BY <1>0, <2>2, <2>3 DEF QueueInv
  <1>9. ASSUME NEW t \in Thread, Unlink(t) PROVE QueueInv'
    <2>1. ~ Adding /\ ~ Getting /\ ~ Adding' /\ Getting'
      BY <1>0, <1>2, <1>9 DEF Unlink, At, TypeOK, Inside
    <2>2. t = Consumer /\ order # <<>> /\ pc'[t] = "dec"
      BY <1>0, <1>9 DEF Unlink, At, TypeOK, LockInv, Roles, QueueInv, Ready
    <2>3. order' = Tail(order) /\ count' = count
      BY <1>0, <1>9, <2>2, OrderFacts DEF Unlink, ListInv, Chain
    <2>4. Len(order') = Len(order) - 1
      BY <1>0, <2>2, <2>3, TailFacts DEF TypeOK
    <2>5. Counted'
      BY <1>0, <2>1, <2>3, <2>4 DEF Counted, QueueInv, TypeOK
    <2>6. Ready'
      BY <2>2 DEF Ready
    <2> QED BY <1>0, <2>5, <2>6 DEF QueueInv
  <1>10. ASSUME NEW t \in Thread, CountDown(t) PROVE QueueInv'
    <2>1. ~ Adding /\ Getting /\ ~ Adding' /\ ~ Getting'
      <3>1. pc[t] = "dec" /\ pc' = [pc EXCEPT ![t] = "unlock"]
        BY <1>10 DEF CountDown, At
      <3>2. ~ Adding /\ Getting
        BY <1>2, <3>1 DEF Inside
      <3>3. \A u \in Thread \ {t} : pc[u] \notin {"inc", "dec"}
        BY <1>0, <3>1, Alone DEF Inside
      <3>4. \A u \in Thread : pc'[u] \notin {"inc", "dec"}
        BY <1>0, <3>1, <3>3 DEF TypeOK
      <3> QED BY <3>2, <3>4
    <2>2. Counted'
      BY <1>0, <1>10, <2>1 DEF CountDown, Counted, QueueInv, TypeOK
    <2>3. Ready'
      BY <1>0, <1>10 DEF CountDown, At, TypeOK, QueueInv, Ready
    <2> QED BY <1>0, <2>2, <2>3 DEF QueueInv
  <1>11. CASE UNCHANGED vars
    BY <1>0, <1>11 DEF vars, local, QueueInv, Counted, Ready
  <1> QED BY <1>4, <1>5, <1>6, <1>7, <1>8, <1>9, <1>10, <1>11 DEF Next, Step

LEMMA QueueInvariant == Spec => []QueueInv
  <1>1. Init => QueueInv
    BY ListInit, QueueAssumption DEF Init, QueueInv, Counted, Ready
  <1> QED BY <1>1, CountStep, PTL DEF Spec

\* The pointers of TypeLinkedList stay consistent, pTail included, although
\* get never touches it and the first add never sets it.
THEOREM PointersCorrect == Spec => []PointersRight
  <1>1. QueueInv => PointersRight
    BY DEF QueueInv, ListInv, LockInv, PointersRight
  <1> QED BY <1>1, QueueInvariant, PTL

\* onGetCount, read outside the mutex, never sends the consumer to an empty
\* list: get, in its critical section, finds a command.
THEOREM UnlockedCountIsSafe == Spec => [](Counted /\ GetFindsCommand)
  <1>1. QueueInv => Counted /\ GetFindsCommand
    <2> SUFFICES ASSUME QueueInv PROVE GetFindsCommand
      BY DEF QueueInv
    <2>1. order # <<>> => head # None
      BY OrderFacts DEF QueueInv, ListInv, LockInv, Chain, TypeOK
    <2> QED BY <2>1 DEF QueueInv, Ready, GetFindsCommand
  <1> QED BY <1>1, QueueInvariant, PTL

-----------------------------------------------------------------------------
(* The refinement *)

\* What the callers see of the list depends on the list, on the data of its
\* cells and on the running onDeleteSame.
LEMMA ContentsUnchanged ==
  ASSUME QueueInv, order' = order, cur' = cur,
         \A i \in DOMAIN order : data'[order[i]] = data[order[i]],
         \A t \in Thread : /\ pc'[t] = "walk" <=> pc[t] = "walk"
                           /\ pc[t] = "walk" => data'[obj'[t]] = data[obj[t]]
  PROVE  Contents' = Contents
  <1>1. \A i \in DOMAIN order : Ahead(i)' <=> Ahead(i)
    BY DEF Ahead
  <1> QED BY <1>1 DEF Contents

\* Without a running onDeleteSame the callers see the data as they are.
LEMMA ContentsAtRest ==
  ASSUME TypeOK, \A t \in Thread : pc[t] # "walk"
  PROVE  Contents = [i \in DOMAIN order |-> data[order[i]]]
  <1>1. \A i \in DOMAIN order : data[order[i]] \in Item
    BY OrderFacts DEF TypeOK
  <1>2. \A x \in Item : [cls |-> x.cls, dead |-> x.dead \/ FALSE] = x
    BY DEF Item
  <1>3. \A i \in DOMAIN order : ~ Ahead(i)
    BY DEF Ahead
  <1> QED BY <1>1, <1>2, <1>3 DEF Contents

\* The same of the next state.
LEMMA ContentsAtRestNext ==
  ASSUME TypeOK', \A t \in Thread : pc'[t] # "walk"
  PROVE  Contents' = [i \in DOMAIN order' |-> data'[order'[i]]]
  <1>1. \A i \in DOMAIN order' : data'[order'[i]] \in Item
    BY DEF TypeOK
  <1>2. \A x \in Item : [cls |-> x.cls, dead |-> x.dead \/ FALSE] = x
    BY DEF Item
  <1>3. \A i \in DOMAIN order' : ~ Ahead(i)'
    BY DEF Ahead
  <1> QED BY <1>1, <1>2, <1>3 DEF Contents

LEMMA RefinementStep ==
  QueueInv /\ [Next]_vars => [Abstract!Next]_<<Contents, got>>
  <1> SUFFICES ASSUME QueueInv, [Next]_vars
               PROVE  [Abstract!Next]_<<Contents, got>>
    OBVIOUS
  <1>0. QueueInv' /\ ListInv /\ ListInv' /\ LockInv /\ LockInv' /\ TypeOK /\ TypeOK'
    BY CountStep DEF QueueInv, ListInv, LockInv
  <1>1. CASE WantGet
    BY <1>0, <1>1, ContentsUnchanged DEF WantGet, At, TypeOK
  <1>2. ASSUME NEW t \in Thread, NEW c \in Cell, NEW cls \in Class, Write(t, c, cls)
        PROVE  UNCHANGED <<Contents, got>>
    <2>1. \A i \in DOMAIN order : data'[order[i]] = data[order[i]]
      BY <1>0, <1>2, OrderFacts DEF Write, Linked, TypeOK
    <2>2. \A u \in Thread : /\ pc'[u] = "walk" <=> pc[u] = "walk"
                            /\ pc[u] = "walk" => data'[obj'[u]] = data[obj[u]]
      BY <1>0, <1>2 DEF Write, At, TypeOK, LockInv, Roles
    <2> QED BY <1>2, <2>1, <2>2, ContentsUnchanged DEF Write
  <1>3. ASSUME NEW t \in Thread, Acquire(t)
        PROVE  [Abstract!Next]_<<Contents, got>>
    <2>1. \A u \in Thread : pc[u] # "walk"
      BY <1>0, <1>3, QueueAssumption DEF Acquire, LockInv, Exclusive, Inside
    <2>2. CASE pc[t] # "mark"
      <3>1. UNCHANGED <<cur, order, data, obj, got>>
        BY <1>3, <2>2 DEF Acquire, At
      <3>2. \A u \in Thread : pc'[u] # "walk"
        BY <1>0, <1>3, <2>1, <2>2 DEF Acquire, At, TypeOK
      <3> QED BY <2>1, <3>1, <3>2, ContentsUnchanged
    <2>3. CASE pc[t] = "mark"
      <3> DEFINE k == data[obj[t]].cls
      <3>1. obj[t] \in Cell /\ data[obj[t]] \in Item /\ k \in Class
        BY <1>0, <2>3 DEF TypeOK, LockInv, Roles, Item
      <3>2. /\ UNCHANGED <<order, data, obj, got>>
            /\ cur' = head
            /\ pc'[t] = "walk" /\ \A u \in Thread \ {t} : pc'[u] # "walk"
        BY <1>0, <1>3, <2>1, <2>3 DEF Acquire, At, TypeOK
      <3>3. ASSUME NEW i \in DOMAIN order
            PROVE  Ahead(i)' <=> data[order[i]].cls = k
        <4>1. 1 \in DOMAIN order /\ 1 <= i /\ order[1] = cur'
          BY <1>0, <3>2, OrderFacts DEF ListInv, Chain
        <4> QED BY <3>2, <4>1 DEF Ahead
      <3>4. Contents' = [i \in DOMAIN order |->
                           [cls |-> data[order[i]].cls,
                            dead |-> data[order[i]].dead \/ data[order[i]].cls = k]]
        BY <3>2, <3>3 DEF Contents
      <3>5. \A i \in DOMAIN order : data[order[i]] \in Item
        BY <1>0, OrderFacts DEF TypeOK
      <3>6. \A x \in Item :
              [cls |-> x.cls, dead |-> x.dead \/ x.cls = k]
                = IF x.cls = k THEN [x EXCEPT !.dead = TRUE] ELSE x
        BY DEF Item
      <3>7. Contents = [i \in DOMAIN order |-> data[order[i]]]
        BY <1>0, <2>1, ContentsAtRest
      <3>8. Contents' = Abstract!Cancel(Contents, k)
        BY <3>4, <3>5, <3>6, <3>7 DEF Abstract!Cancel
      <3> QED BY <3>1, <3>2, <3>8 DEF Abstract!Next, Abstract!DeleteSame
    <2> QED BY <2>2, <2>3
  <1>4. ASSUME NEW t \in Thread, Release(t) \/ CountUp(t) \/ CountDown(t)
        PROVE  UNCHANGED <<Contents, got>>
    BY <1>0, <1>4, ContentsUnchanged DEF Release, CountUp, CountDown, At, TypeOK
  <1>5. ASSUME NEW t \in Thread, Walk(t) PROVE UNCHANGED <<Contents, got>>
    <2> DEFINE k == data[obj[t]].cls
    <2>1. /\ UNCHANGED <<order, obj, got, next>>
          /\ pc[t] = "walk" /\ obj[t] # None /\ obj[t] \in Cell
          /\ \A u \in Thread \ {t} : pc[u] # "walk" /\ pc'[u] = pc[u]
      BY <1>0, <1>5, Alone DEF Walk, At, TypeOK, Inside, LockInv, Roles
    <2>2. CASE cur = None
      <3>1. pc'[t] # "walk" /\ data' = data
        BY <1>0, <1>5, <2>2 DEF Walk, At, TypeOK
      <3>2. \A i \in DOMAIN order : ~ Ahead(i)
        BY <1>0, <2>2, OrderFacts DEF Ahead
      <3>3. \A i \in DOMAIN order : ~ Ahead(i)'
        BY <2>1, <3>1 DEF Ahead
      <3> QED BY <2>1, <3>1, <3>2, <3>3 DEF Contents
    <2>3. CASE cur # None
      <3>1. PICK m \in DOMAIN order : order[m] = cur
        BY <1>0, <2>1, <2>3 DEF ListInv, CurLinked, Linked
      <3>2. /\ pc'[t] = "walk"
            /\ cur' = next[cur]
            /\ cur \in Cell /\ data[cur] \in Item
            /\ data' = IF data[cur].cls = k
                         THEN [data EXCEPT ![cur] = [data[cur] EXCEPT !.dead = TRUE]]
                         ELSE data
        BY <1>0, <1>5, <2>3 DEF Walk, At, TypeOK
      <3>3. obj[t] # cur
        BY <1>0, <2>1, <3>1 DEF ListInv, Fresh, Linked
      <3>4. /\ data'[obj[t]] = data[obj[t]]
            /\ \A i \in DOMAIN order : i # m => data'[order[i]] = data[order[i]]
            /\ data'[order[m]].cls = data[order[m]].cls
            /\ data'[order[m]].dead = (data[order[m]].dead \/ data[order[m]].cls = k)
        <4>1. \A i \in DOMAIN order : /\ order[i] \in Cell
                                      /\ i # m => order[i] # cur
          BY <1>0, <3>1, OrderFacts DEF ListInv, Fresh
        <4>2. \A x \in Item : /\ [x EXCEPT !.dead = TRUE].cls = x.cls
                              /\ [x EXCEPT !.dead = TRUE].dead = TRUE
          BY DEF Item
        <4>3. data \in [Cell -> Item] /\ data[cur].dead \in BOOLEAN
          BY <1>0, <3>2 DEF TypeOK, Item
        <4>4. CASE data[cur].cls = k
          <5>1. data' = [data EXCEPT ![cur] = [data[cur] EXCEPT !.dead = TRUE]]
            BY <3>2, <4>4
          <5>2. data'[cur] = [data[cur] EXCEPT !.dead = TRUE]
                /\ \A d \in Cell \ {cur} : data'[d] = data[d]
            BY <3>2, <4>3, <5>1
          <5>3. data'[obj[t]] = data[obj[t]]
            BY <2>1, <3>3, <5>2
          <5>4. \A i \in DOMAIN order : i # m => data'[order[i]] = data[order[i]]
            BY <4>1, <5>2
          <5>5. data'[order[m]].cls = data[order[m]].cls /\ data'[order[m]].dead = TRUE
            <6>1. data'[cur].cls = data[cur].cls /\ data'[cur].dead = TRUE
              <7>1. data'[cur] = [data[cur] EXCEPT !.dead = TRUE]
                BY <5>2
              <7>2. data[cur] \in Item
                BY <3>2
              <7> QED BY <4>2, <7>1, <7>2
            <6> QED BY <3>1, <6>1
          <5> QED BY <3>1, <4>4, <5>3, <5>4, <5>5
        <4>5. CASE data[cur].cls # k
          BY <3>1, <3>2, <4>3, <4>5
        <4> QED BY <4>4, <4>5
      <3>5. \A i, j \in DOMAIN order : order[i] = order[j] => i = j
        BY <1>0 DEF ListInv, Fresh
      <3>6. ASSUME NEW i \in DOMAIN order
            PROVE  /\ Ahead(i) <=> m <= i /\ data[order[i]].cls = k
                   /\ Ahead(i)' <=> m < i /\ data[order[i]].cls = k
        <4>1. Ahead(i) <=> m <= i /\ data[order[i]].cls = k
          BY <2>1, <3>1, <3>5 DEF Ahead
        <4>2. data'[order[i]].cls = data[order[i]].cls
          BY <3>4
        <4>3. (\E j \in DOMAIN order : j <= i /\ order[j] = cur') <=> m < i
          <5>1. cur' = IF m < Len(order) THEN order[m + 1] ELSE None
            BY <1>0, <3>1, <3>2 DEF ListInv, Chain
          <5>2. /\ Len(order) \in Nat /\ DOMAIN order = 1..Len(order)
                /\ \A j \in DOMAIN order : order[j] # None
            BY <1>0, OrderFacts
          <5>3. CASE m < Len(order)
            BY <3>5, <5>1, <5>2, <5>3
          <5>4. CASE ~ (m < Len(order))
            BY <5>1, <5>2, <5>4
          <5> QED BY <5>3, <5>4
        <4>4. Ahead(i)' <=> m < i /\ data[order[i]].cls = k
          BY <2>1, <3>2, <3>4, <4>2, <4>3 DEF Ahead
        <4> QED BY <4>1, <4>4
      <3>7. ASSUME NEW i \in DOMAIN order
            PROVE  /\ data'[order[i]].cls = data[order[i]].cls
                   /\ (data'[order[i]].dead \/ Ahead(i)')
                        = (data[order[i]].dead \/ Ahead(i))
        <4>1. DOMAIN order = 1..Len(order) /\ Len(order) \in Nat
          BY <1>0, OrderFacts
        <4>2. CASE i = m
          <5>1. ~ Ahead(i)'
            BY <3>6, <4>1, <4>2
          <5>2. Ahead(i) <=> data[order[i]].cls = k
            BY <3>6, <4>1, <4>2
          <5>3. data'[order[i]].dead = (data[order[i]].dead \/ data[order[i]].cls = k)
            BY <3>4, <4>2
          <5>4. data'[order[i]].cls = data[order[i]].cls
            BY <3>4, <4>2
          <5>5. (data'[order[i]].dead \/ Ahead(i)') = (data[order[i]].dead \/ Ahead(i))
            BY <5>1, <5>2, <5>3, Zenon
          <5> QED BY <5>4, <5>5
        <4>3. CASE i # m
          <5>1. Ahead(i)' <=> Ahead(i)
            BY <3>6, <4>1, <4>3
          <5> QED BY <3>4, <4>3, <5>1
        <4> QED BY <4>2, <4>3
      <3>8. Contents' = Contents
        BY <2>1, <3>7 DEF Contents
      <3> QED BY <2>1, <3>8
    <2> QED BY <2>2, <2>3
  <1>6. ASSUME NEW t \in Thread, Link(t)
        PROVE  [Abstract!Next]_<<Contents, got>>
    <2> DEFINE c == obj[t]
               n == Len(order)
    <2>1. /\ c \in Cell /\ data[c] \in Item /\ ~ data[c].dead
          /\ data[c].cls \in Class
          /\ \A u \in Thread : pc[u] # "walk" /\ pc'[u] # "walk"
      BY <1>0, <1>6, Alone
      DEF Link, At, TypeOK, Inside, LockInv, Roles, ListInv, Fresh, Item
    <2>2. /\ Contents = [i \in DOMAIN order |-> data[order[i]]]
          /\ Contents' = [i \in DOMAIN order' |-> data[order'[i]]]
      <3>1. Contents = [i \in DOMAIN order |-> data[order[i]]]
        BY <1>0, <2>1, ContentsAtRest
      <3>2. Contents' = [i \in DOMAIN order' |-> data'[order'[i]]]
        BY <1>0, <2>1, ContentsAtRestNext
      <3> QED BY <1>6, <3>1, <3>2 DEF Link
    <2>3. data[c] = [cls |-> data[c].cls, dead |-> FALSE]
      BY <2>1 DEF Item
    <2>4. order' = Append(order, c) /\ got' = got
      BY <1>6 DEF Link
    <2>5. Contents' = Append(Contents, data[c])
      <3>1. n \in Nat /\ DOMAIN order = 1..n /\ Contents \in Seq(Item)
            /\ Len(Contents) = n
        <4>1. n \in Nat /\ DOMAIN order = 1..n
          BY <1>0, OrderFacts
        <4>2. \A i \in 1..n : data[order[i]] \in Item
          BY <1>0, <4>1, OrderFacts DEF TypeOK
        <4> QED BY <2>2, <4>1, <4>2
      <3>2. /\ DOMAIN order' = 1..(n + 1)
            /\ \A i \in 1..n : order'[i] = order[i]
            /\ order'[n + 1] = c
        BY <1>0, <2>1, <2>4, <3>1, AppendFacts DEF TypeOK
      <3>3. Contents' = [i \in 1..(n + 1) |-> IF i <= n THEN data[order[i]] ELSE data[c]]
        BY <2>2, <3>1, <3>2
      <3>4. Append(Contents, data[c])
              = [i \in 1..(n + 1) |-> IF i <= n THEN Contents[i] ELSE data[c]]
        BY <2>1, <3>1
      <3>5. \A i \in 1..n : Contents[i] = data[order[i]]
        BY <2>2, <3>1
      <3> QED BY <3>1, <3>3, <3>4, <3>5
    <2> QED BY <2>1, <2>3, <2>4, <2>5 DEF Abstract!Next, Abstract!Add
  <1>7. ASSUME NEW t \in Thread, Unlink(t)
        PROVE  [Abstract!Next]_<<Contents, got>>
    <2>1. \A u \in Thread : pc[u] # "walk" /\ pc'[u] # "walk"
      BY <1>0, <1>7, Alone DEF Unlink, At, TypeOK, Inside
    <2>2. t = Consumer /\ order # <<>>
      BY <1>0, <1>7 DEF Unlink, At, LockInv, Roles, QueueInv, Ready
    <2>3. head = order[1] /\ head # None
      BY <1>0, <2>2, OrderFacts DEF ListInv, Chain, TypeOK
    <2>4. got' = data[order[1]] /\ order' = Tail(order) /\ data' = data
      BY <1>7, <2>3 DEF Unlink
    <2>5. /\ Contents = [i \in DOMAIN order |-> data[order[i]]]
          /\ Contents' = [i \in DOMAIN order' |-> data[order'[i]]]
      <3>1. Contents = [i \in DOMAIN order |-> data[order[i]]]
        BY <1>0, <2>1, ContentsAtRest
      <3>2. Contents' = [i \in DOMAIN order' |-> data'[order'[i]]]
        BY <1>0, <2>1, ContentsAtRestNext
      <3> QED BY <2>4, <3>1, <3>2
    <2> DEFINE n == Len(order)
    <2>6. /\ n \in Nat /\ n >= 1 /\ DOMAIN order = 1..n
          /\ DOMAIN order' = 1..(n - 1)
          /\ \A i \in 1..(n - 1) : order'[i] = order[i + 1]
      BY <1>0, <2>2, <2>4, OrderFacts, TailFacts DEF TypeOK
    <2>7. Contents \in Seq(Item) /\ Len(Contents) = n
      <3>1. \A i \in 1..n : data[order[i]] \in Item
        BY <1>0, <2>6, OrderFacts DEF TypeOK
      <3> QED BY <2>5, <2>6, <3>1
    <2>8. Contents # <<>> /\ got' = Head(Contents)
      BY <2>4, <2>5, <2>6, <2>7
    <2>9. Contents' = Tail(Contents)
      <3>1. Contents' = [i \in 1..(n - 1) |-> data[order[i + 1]]]
        BY <2>5, <2>6
      <3>2. \A i \in 1..(n - 1) : /\ data[order[i + 1]] \in Item
                                  /\ Contents[i + 1] = data[order[i + 1]]
        BY <1>0, <2>5, <2>6, OrderFacts DEF TypeOK
      <3>3. Contents' \in Seq(Item) /\ Len(Contents') = n - 1
        <4>1. n - 1 \in Nat
          BY <2>6
        <4>2. Contents' \in [1..(n - 1) -> Item]
          BY <3>1, <3>2
        <4> HIDE DEF n
        <4> QED BY <4>1, <4>2, SeqOfLength
      <3>4. /\ Tail(Contents) \in Seq(Item) /\ Len(Tail(Contents)) = n - 1
            /\ \A i \in 1..(n - 1) : Tail(Contents)[i] = Contents[i + 1]
        BY <2>7, <2>8, TailFacts
      <3>5. \A i \in 1..(n - 1) : Contents'[i] = Tail(Contents)[i]
        BY <3>1, <3>2, <3>4
      <3> QED BY <3>3, <3>4, <3>5, SeqEqual
    <2> QED BY <2>8, <2>9 DEF Abstract!Next, Abstract!Get
  <1>8. CASE UNCHANGED vars
    BY <1>8, ContentsUnchanged DEF vars, local
  <1> QED BY <1>1, <1>2, <1>3, <1>4, <1>5, <1>6, <1>7, <1>8 DEF Next, Step

\* TypeLinkedList is the FIFO with one-step cancelling its callers take it for.
THEOREM ListImplementsQueue == Spec => ImplementsSendQueue
  <1>1. Init => Abstract!Init
    BY DEF Init, Abstract!Init, Contents
  <1>2. QueueInv /\ [Next]_vars => [Abstract!Next]_<<Contents, got>>
    BY RefinementStep
  <1> QED BY <1>1, <1>2, QueueInvariant, PTL
      DEF Spec, ImplementsSendQueue, Abstract!Spec

-----------------------------------------------------------------------------
(* The array                                                               *)

\* The array is Growth places, or some more times Growth: what is spare of it is
\* never given back in vain.
InSteps == \E k \in Nat : mallocSize = k * Growth

\* The array and its counters together, and clear() runs only while there is
\* something to remove.
ArrayInv == ArrayTypeOK /\ Fits /\ Compact /\ InSteps /\ (clearing => strLength > 0)

\* What the users see.
Seen == [n \in 1 .. strLength |-> ppData[n - 1]]

-----------------------------------------------------------------------------
\* mChangeMem keeps the objects, if the new array is large enough for them.
LEMMA CopiedFacts ==
  ASSUME NEW places, NEW length \in Nat, NEW size \in Nat,
         \A k \in 0 .. length - 1 : places[k] \in Content
  PROVE  /\ Copied(places, length, size) \in [Places(size) -> Content]
         /\ \A k \in 0 .. length - 1 :
              k < size => Copied(places, length, size)[k] = places[k]
  BY DEF Copied, Places, Content

LEMMA TimesStep ==
  ASSUME NEW k \in Nat
  PROVE  /\ (k + 1) * Growth = k * Growth + Growth
         /\ k >= 2 => k * Growth >= 2 * Growth /\ (k - 1) * Growth = k * Growth - Growth
         /\ k = 0 => k * Growth = 0
         /\ k = 1 => k * Growth = Growth
  BY ListAssumption

\* remove, in numbers: what is left still fits, and no more than Slack is spare.
LEMMA RemoveFits ==
  ASSUME ArrayInv, NEW index \in Int, 0 <= index, remove(index)
  PROVE  /\ strLength' = strLength - 1 /\ strLength' \in Nat
         /\ mallocSize' \in Nat /\ mallocSize' >= Growth
         /\ strLength' <= mallocSize' /\ mallocSize' - strLength' <= Slack
         /\ InSteps'
  <1>1. /\ strLength' = strLength - 1 /\ strLength \in Nat /\ strLength > 0
        /\ mallocSize' = IF strLength - 1 < mallocSize - Slack /\ mallocSize >= 2 * Growth
                         THEN mallocSize - Growth ELSE mallocSize
    <2>1. index < strLength /\ strLength' = strLength - 1
      BY DEF remove
    <2>2. mallocSize' = IF Spare(strLength - 1, mallocSize) /\ mallocSize >= 2 * Growth
                        THEN mallocSize - Growth ELSE mallocSize
      BY DEF remove
    <2>3. Spare(strLength - 1, mallocSize) <=> strLength - 1 < mallocSize - Slack
      BY ListAssumption DEF Spare, ArrayInv, ArrayTypeOK
    <2> QED BY <2>1, <2>2, <2>3 DEF ArrayInv, ArrayTypeOK
  <1>2. /\ mallocSize \in Nat /\ mallocSize >= Growth /\ strLength <= mallocSize
        /\ mallocSize - strLength <= Slack
    BY DEF ArrayInv, ArrayTypeOK, Fits, Compact
  <1>3. PICK k \in Nat : mallocSize = k * Growth
    BY DEF ArrayInv, InSteps
  <1>4. CASE k < 2
    <2>1. k = 1
      BY <1>2, <1>3, <1>4, TimesStep, ListAssumption
    <2>2. mallocSize = Growth /\ mallocSize' = Growth
      BY <1>1, <2>1, <1>3, TimesStep, ListAssumption
    <2> QED BY <1>1, <1>2, <1>3, <2>1, <2>2, ListAssumption DEF InSteps
  <1>5. CASE k >= 2
    <2>1. mallocSize >= 2 * Growth /\ (k - 1) * Growth = mallocSize - Growth
      BY <1>3, <1>5, TimesStep
    <2>2. k - 1 \in Nat
      BY <1>5
    <2>3. InSteps'
      BY <1>1, <1>3, <2>1, <2>2 DEF InSteps
    <2> QED BY <1>1, <1>2, <2>1, <2>3, ListAssumption
  <1> QED BY <1>4, <1>5

\* remove, in objects: those behind index move up, the others stay.
LEMMA RemoveMoves ==
  ASSUME ArrayInv, NEW index \in Int, 0 <= index, remove(index)
  PROVE  /\ ppData' \in [Places(mallocSize') -> Content]
         /\ \A k \in 0 .. strLength - 2 :
              ppData'[k] = IF index <= k THEN ppData[k + 1] ELSE ppData[k]
  <1>1. /\ Moved(index) \in [Places(mallocSize) -> Content]
        /\ \A k \in 0 .. strLength - 2 :
             Moved(index)[k] = IF index <= k THEN ppData[k + 1] ELSE ppData[k]
    BY DEF ArrayInv, ArrayTypeOK, Fits, Moved, Places
  <1>2. CASE Spare(strLength - 1, mallocSize)
    <2>1. ppData' = Copied(Moved(index), strLength - 1, mallocSize')
      BY <1>2 DEF remove
    <2>2. /\ strLength - 1 \in Nat /\ mallocSize' \in Nat
          /\ strLength - 1 <= mallocSize' /\ strLength - 1 <= mallocSize
      BY RemoveFits DEF ArrayInv, ArrayTypeOK, Fits
    <2>3. \A k \in 0 .. (strLength - 1) - 1 : Moved(index)[k] \in Content
      BY <1>1, <2>2 DEF Places, ArrayInv, ArrayTypeOK
    <2>4. /\ ppData' \in [Places(mallocSize') -> Content]
          /\ \A k \in 0 .. (strLength - 1) - 1 : k < mallocSize' => ppData'[k] = Moved(index)[k]
      BY <2>1, <2>2, <2>3, CopiedFacts
    <2> QED BY <1>1, <2>2, <2>4 DEF ArrayInv, ArrayTypeOK
  <1>3. CASE ~ Spare(strLength - 1, mallocSize)
    BY <1>1, <1>3 DEF remove
  <1> QED BY <1>2, <1>3

\* add: the objects stay, the new one is behind them.
LEMMA AddFacts ==
  ASSUME ArrayInv, NEW o \in Content, add(o)
  PROVE  /\ mallocSize' \in Nat /\ mallocSize' >= Growth /\ InSteps'
         /\ strLength' <= mallocSize' /\ mallocSize' - strLength' <= Slack
         /\ ppData' \in [Places(mallocSize') -> Content]
         /\ ppData'[strLength] = o
         /\ \A k \in 0 .. strLength - 1 : ppData'[k] = ppData[k]
  <1> DEFINE full == Full(strLength, mallocSize)
             size == IF full THEN mallocSize + Growth ELSE mallocSize
             places == IF full THEN Copied(ppData, strLength, size) ELSE ppData
  <1>1. /\ mallocSize' = size /\ ppData' = [places EXCEPT ![strLength] = o]
        /\ strLength' = strLength + 1
    BY DEF add
  <1>2. /\ size \in Nat /\ size >= Growth /\ strLength + 1 <= size
        /\ size - (strLength + 1) <= Slack /\ mallocSize <= size
    BY ListAssumption DEF ArrayInv, ArrayTypeOK, Fits, Compact, Full
  <1>3. /\ places \in [Places(size) -> Content]
        /\ \A k \in 0 .. strLength - 1 : places[k] = ppData[k]
    <2>1. \A k \in 0 .. strLength - 1 : ppData[k] \in Content
      BY DEF ArrayInv, ArrayTypeOK, Fits, Places
    <2>2. CASE full
      <3>1. places = Copied(ppData, strLength, size)
        BY <2>2
      <3>2. /\ Copied(ppData, strLength, size) \in [Places(size) -> Content]
            /\ \A k \in 0 .. strLength - 1 :
                 k < size => Copied(ppData, strLength, size)[k] = ppData[k]
        BY <1>2, <2>1, CopiedFacts DEF ArrayInv, ArrayTypeOK
      <3> HIDE DEF size
      <3> QED BY <1>2, <3>1, <3>2 DEF ArrayInv, ArrayTypeOK
    <2>3. CASE ~ full
      BY <2>3 DEF ArrayInv, ArrayTypeOK
    <2> QED BY <2>2, <2>3
  <1>4. strLength \in Places(size)
    BY <1>2 DEF Places, ArrayInv, ArrayTypeOK
  <1>5. InSteps'
    <2>1. PICK k \in Nat : mallocSize = k * Growth
      BY DEF ArrayInv, InSteps
    <2>2. k + 1 \in Nat /\ (k + 1) * Growth = mallocSize + Growth
      BY <2>1, TimesStep
    <2> QED BY <1>1, <2>1, <2>2 DEF InSteps
  <1> HIDE DEF size, places
  <1> QED BY <1>1, <1>2, <1>3, <1>4, <1>5 DEF Places, ArrayInv, ArrayTypeOK

-----------------------------------------------------------------------------
LEMMA ArrayInitInv == ArrayInit => ArrayInv
  <1> SUFFICES ASSUME ArrayInit PROVE ArrayInv
    OBVIOUS
  <1>1. ppData \in [Places(mallocSize) -> Content]
    BY DEF ArrayInit, Content
  <1>2. strLength = 0 /\ mallocSize = Growth /\ ~ clearing /\ clearing \in BOOLEAN
    BY DEF ArrayInit
  <1>3. InSteps
    <2>1. 1 \in Nat /\ 1 * Growth = Growth
      BY TimesStep
    <2> QED BY <1>2, <2>1 DEF InSteps
  <1>4. Fits /\ Compact
    BY <1>2, ListAssumption DEF Fits, Compact
  <1>5. strLength \in Nat /\ mallocSize \in Nat
    BY <1>2, ListAssumption
  <1> QED BY <1>1, <1>2, <1>3, <1>4, <1>5 DEF ArrayInv, ArrayTypeOK

LEMMA ArrayStepInv == ArrayInv /\ [ArrayNext]_arrayVars => ArrayInv'
  <1> SUFFICES ASSUME ArrayInv, [ArrayNext]_arrayVars PROVE ArrayInv'
    OBVIOUS
  <1> USE DEF ArrayInv, ArrayTypeOK, Fits, Compact
  <1>1. ASSUME NEW o \in Content, add(o) PROVE ArrayInv'
    <2>1. clearing' = FALSE /\ strLength' \in Nat
      BY <1>1 DEF add
    <2>2. ArrayTypeOK' /\ Fits' /\ Compact' /\ InSteps'
      BY <1>1, <2>1, AddFacts
    <2> QED BY <2>1, <2>2 DEF ArrayInv
  <1>2. ASSUME NEW o \in Content, removeObject(o) PROVE ArrayInv'
    <2>1. PICK index \in 0 .. strLength - 1 : remove(index)
      BY <1>2 DEF removeObject
    <2>2. clearing' = FALSE
      BY <1>2 DEF removeObject
    <2>3. ArrayTypeOK' /\ Fits' /\ Compact' /\ InSteps'
      <3>1. index \in Int /\ 0 <= index
        OBVIOUS
      <3> QED BY <2>1, <2>2, <3>1, RemoveFits, RemoveMoves
    <2> QED BY <2>2, <2>3 DEF ArrayInv
  <1>3. CASE clear
    BY <1>3 DEF clear, InSteps
  <1>4. CASE clearLast
    <2>1. remove(strLength - 1) /\ clearing' = (strLength > 1) /\ strLength > 0
      BY <1>4 DEF clearLast
    <2>2. strLength - 1 \in Int /\ 0 <= strLength - 1
      BY <2>1
    <2>3. /\ strLength' = strLength - 1 /\ strLength' \in Nat
          /\ mallocSize' \in Nat /\ mallocSize' >= Growth /\ InSteps'
          /\ strLength' <= mallocSize' /\ mallocSize' - strLength' <= Slack
          /\ ppData' \in [Places(mallocSize') -> Content]
      BY <2>1, <2>2, RemoveFits, RemoveMoves
    <2>4. clearing' \in BOOLEAN
      BY <2>1
    <2>5. clearing' => strLength' > 0
      <3>1. clearing' => strLength > 1
        BY <2>1, Zenon
      <3>2. strLength > 1 => strLength' > 0
        BY <2>3
      <3> QED BY <3>1, <3>2, Zenon
    <2> QED BY <2>3, <2>4, <2>5
  <1>5. ASSUME NEW index \in 0 .. strLength - 1, NEW o \in Object, update(index, o)
        PROVE  ArrayInv'
    BY <1>5 DEF update, Content, Places, InSteps
  <1>6. CASE UNCHANGED arrayVars
    BY <1>6 DEF arrayVars, InSteps
  <1> QED BY <1>1, <1>2, <1>3, <1>4, <1>5, <1>6 DEF ArrayNext

LEMMA ArrayInvariant == ArraySpec => []ArrayInv
  BY ArrayInitInv, ArrayStepInv, PTL DEF ArraySpec

\* No object is ever outside the array that add and remove have allocated, and
\* the list gives memory back.
THEOREM SizeRight == ArraySpec => []Sized
  BY ArrayInvariant, PTL DEF ArrayInv, Sized

-----------------------------------------------------------------------------
LEMMA SeenIsList ==
  ASSUME ArrayInv
  PROVE  Seen \in Seq(Content) /\ Len(Seen) = strLength
  <1>1. strLength \in Nat /\ \A n \in 1 .. strLength : ppData[n - 1] \in Content
    BY DEF ArrayInv, ArrayTypeOK, Fits, Places
  <1> QED BY <1>1 DEF Seen

LEMMA RemoveImplements ==
  ASSUME ArrayInv, NEW index \in 0 .. strLength - 1, remove(index)
  PROVE  \E k \in 1 .. Len(Seen) : Seen' = L!Without(Seen, k)
  <1>1. index + 1 \in 1 .. Len(Seen)
    BY SeenIsList DEF ArrayInv, ArrayTypeOK
  <1>2. strLength \in Nat /\ strLength' = strLength - 1 /\ Len(Seen) = strLength
    BY RemoveFits, SeenIsList DEF ArrayInv, ArrayTypeOK
  <1>3. ASSUME NEW n \in 1 .. strLength - 1
        PROVE  ppData'[n - 1] = IF n < index + 1 THEN Seen[n] ELSE Seen[n + 1]
    <2>1. n - 1 \in 0 .. strLength - 2
      BY <1>2
    <2>2. ppData'[n - 1] = IF index <= n - 1 THEN ppData[(n - 1) + 1] ELSE ppData[n - 1]
      BY <2>1, RemoveMoves
    <2>3. Seen[n] = ppData[n - 1] /\ Seen[n + 1] = ppData[(n + 1) - 1]
      BY <1>2 DEF Seen
    <2>4. (n - 1) + 1 = (n + 1) - 1
      OBVIOUS
    <2> QED BY <2>2, <2>3, <2>4
  <1>4. Seen' = [n \in 1 .. strLength - 1 |-> ppData'[n - 1]]
    BY <1>2 DEF Seen
  <1>5. Seen' = L!Without(Seen, index + 1)
    BY <1>2, <1>3, <1>4 DEF L!Without
  <1> QED BY <1>1, <1>5

LEMMA AddImplements ==
  ASSUME ArrayInv, ArrayInv', NEW o \in Content, add(o)
  PROVE  Seen' = Append(Seen, o)
  <1>1. strLength \in Nat /\ strLength' = strLength + 1
    BY DEF ArrayInv, ArrayTypeOK, add
  <1>2. Seen \in Seq(Content) /\ Len(Seen) = strLength
    BY SeenIsList
  <1>3. Seen' \in Seq(Content) /\ Len(Seen') = strLength + 1
    <2>1. ASSUME NEW n \in 1 .. strLength + 1 PROVE ppData'[n - 1] \in Content
      <3>1. n - 1 \in Places(mallocSize')
        BY <1>1, AddFacts DEF Places
      <3> QED BY <3>1, AddFacts
    <2> QED BY <1>1, <2>1 DEF Seen
  <1>4. ASSUME NEW n \in 1 .. strLength + 1
        PROVE  Seen'[n] = Append(Seen, o)[n]
    <2>1. Seen'[n] = ppData'[n - 1]
      BY <1>1 DEF Seen
    <2>2. CASE n <= strLength
      <3>1. n - 1 \in 0 .. strLength - 1 /\ n \in 1 .. strLength
        BY <1>1, <2>2
      <3>2. ppData'[n - 1] = ppData[n - 1] /\ Seen[n] = ppData[n - 1]
        BY <3>1, AddFacts DEF Seen
      <3>3. Append(Seen, o)[n] = Seen[n]
        BY <1>2, <3>1, AppendFacts
      <3> QED BY <2>1, <3>2, <3>3
    <2>3. CASE n = strLength + 1
      <3>1. n - 1 = strLength
        BY <1>1, <2>3
      <3> QED BY <1>2, <2>1, <2>3, <3>1, AddFacts, AppendFacts
    <2>4. n <= strLength \/ n = strLength + 1
      BY <1>1
    <2> QED BY <2>2, <2>3, <2>4, Zenon
  <1>5. Append(Seen, o) \in Seq(Content) /\ Len(Append(Seen, o)) = strLength + 1
    BY <1>2, AppendFacts
  <1> QED BY <1>3, <1>4, <1>5, SeqEqual

LEMMA UpdateImplements ==
  ASSUME ArrayInv, NEW index \in 0 .. strLength - 1, NEW o \in Object, update(index, o)
  PROVE  /\ index + 1 \in 1 .. Len(Seen) /\ Seen[index + 1] = NULL
         /\ Seen' = [Seen EXCEPT ![index + 1] = o]
  <1>1. /\ strLength \in Nat /\ strLength' = strLength /\ Len(Seen) = strLength
        /\ DOMAIN Seen = 1 .. strLength
        /\ ppData \in [Places(mallocSize) -> Content] /\ strLength <= mallocSize
        /\ mallocSize \in Nat
    BY SeenIsList DEF ArrayInv, ArrayTypeOK, Fits, update, Seen
  <1>2. index + 1 \in 1 .. strLength /\ (index + 1) - 1 = index
    BY <1>1
  <1>3. Seen[index + 1] = NULL
    BY <1>1, <1>2 DEF Seen, update
  <1>4. ppData' = [ppData EXCEPT ![index] = o]
    BY DEF update
  <1>5. ASSUME NEW n \in 1 .. strLength
        PROVE  ppData'[n - 1] = IF n = index + 1 THEN o ELSE Seen[n]
    <2>1. n - 1 \in Places(mallocSize)
      BY <1>1 DEF Places
    <2>2. Seen[n] = ppData[n - 1]
      BY DEF Seen
    <2>3. n - 1 = index <=> n = index + 1
      BY <1>1
    <2> QED BY <1>1, <1>4, <2>1, <2>2, <2>3
  <1>6. Seen' = [n \in 1 .. strLength |-> IF n = index + 1 THEN o ELSE Seen[n]]
    BY <1>1, <1>5 DEF Seen
  <1>7. [Seen EXCEPT ![index + 1] = o] = [n \in 1 .. strLength |-> IF n = index + 1 THEN o ELSE Seen[n]]
    BY <1>1
  <1> QED BY <1>1, <1>2, <1>3, <1>6, <1>7

LEMMA StepImplements ==
  ArrayInv /\ [ArrayNext]_arrayVars => [L!Add \/ L!Remove \/ L!Fill]_Seen
  <1> SUFFICES ASSUME ArrayInv, ArrayInv', [ArrayNext]_arrayVars
               PROVE  [L!Add \/ L!Remove \/ L!Fill]_Seen
    BY ArrayStepInv
  <1>1. ASSUME NEW o \in Content, add(o) PROVE L!Add
    BY <1>1, AddImplements DEF L!Add, Content, Seen
  <1>2. ASSUME NEW o \in Content, removeObject(o) PROVE L!Remove
    BY <1>2, RemoveImplements DEF removeObject, L!Remove, Seen
  <1>3. CASE clear
    BY <1>3 DEF clear, Seen
  <1>4. CASE clearLast
    <2>1. strLength - 1 \in 0 .. strLength - 1
      BY <1>4 DEF clearLast, ArrayInv, ArrayTypeOK
    <2> QED BY <1>4, <2>1, RemoveImplements DEF clearLast, L!Remove, Seen
  <1>5. ASSUME NEW index \in 0 .. strLength - 1, NEW o \in Object, update(index, o)
        PROVE  L!Fill
    BY <1>5, UpdateImplements DEF L!Fill, Seen
  <1>6. CASE UNCHANGED arrayVars
    BY <1>6 DEF arrayVars, Seen
  <1> QED BY <1>1, <1>2, <1>3, <1>4, <1>5, <1>6 DEF ArrayNext

\* Whatever arrays it is moved to, the list is the list its users expect.
THEOREM ArrayImplementsList == ArraySpec => IsAList
  <1>1. ArrayInit => L!Init
    BY DEF ArrayInit, L!Init
  <1>2. ArrayInv /\ [ArrayNext]_arrayVars => [L!Add \/ L!Remove \/ L!Fill]_Seen
    BY StepImplements
  <1> QED BY <1>1, <1>2, ArrayInvariant, PTL DEF ArraySpec, IsAList, L!Spec, Seen
=============================================================================
