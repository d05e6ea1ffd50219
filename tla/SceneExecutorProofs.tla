------------------------ MODULE SceneExecutorProofs -------------------------
(* Carrying out scenes, for any scenes and actions, also actions that turn  *)
(* scenes in the list.  A scene has one entry at most, and its status is    *)
(* what the entry turns it to; whoever turns it refills the entry or adds   *)
(* one.  Between an action and its removal the action counts as removed.    *)
EXTENDS SceneExecutor, TLAPS

Totals == {Total(s, v, least, more) : s \in Scene, v \in 0 .. 1,
             least \in {0, ExitNew}, more \in {ExitNew, ExitMore}}

EntrySet ==
  {e \in [scene : Scene, on : 0 .. 1, todo : Seq(Nat), add : 0 .. MaxTime,
          auto : BOOLEAN, total : Totals] :
     IsInjective(e.todo) /\ Range(e.todo) \subseteq DOMAIN Actions[<<e.scene, e.on>>]}

\* A scene has one entry at most.
ListOK(list) ==
  /\ list \in Seq(EntrySet)
  /\ \A k, l \in DOMAIN list : list[k].scene = list[l].scene => k = l

WorldOK(w) ==
  /\ w.status \in [Scene -> 0 .. 1] /\ w.ran \in [Scene -> Seq(Nat)] /\ ListOK(w.list)

\* An entry turns its scene to what its status says, but for downloads; and a
\* scene without entry is what it was last carried out to be.
InStep(w, downloaded) ==
  \A k \in DOMAIN w.list :
    w.list[k].scene \in downloaded \/ w.status[w.list[k].scene] = w.list[k].on

Settled(w, downloaded, done) ==
  \A s \in Scene \ downloaded :
    (\A k \in DOMAIN w.list : w.list[k].scene # s) => done[s] = w.status[s]

Consistent(w, downloaded, done) ==
  WorldOK(w) /\ InStep(w, downloaded) /\ Settled(w, downloaded, done)

-----------------------------------------------------------------------------
(* Sequences                                                               *)

LEMMA ConcatRight ==
  ASSUME NEW M, NEW l \in Seq(M), NEW r \in Seq(M),
         NEW n \in 1 .. (Len(l) + Len(r)), n > Len(l)
  PROVE  (l \o r)[n] = r[n - Len(l)]
  OBVIOUS

LEMMA RemovedAt ==
  ASSUME NEW M, NEW s \in Seq(M), NEW k \in 1 .. Len(s)
  PROVE  /\ RemoveAt(s, k) \in Seq(M) /\ DOMAIN RemoveAt(s, k) = 1 .. (Len(s) - 1)
         /\ \A n \in 1 .. (Len(s) - 1) :
              RemoveAt(s, k)[n] = IF n < k THEN s[n] ELSE s[n + 1]
  <1> DEFINE before == SubSeq(s, 1, k - 1)
             after == SubSeq(s, k + 1, Len(s))
  <1>1. /\ before \in Seq(M) /\ Len(before) = k - 1
        /\ \A n \in 1 .. (k - 1) : before[n] = s[n]
    OBVIOUS
  <1>2. /\ after \in Seq(M) /\ Len(after) = Len(s) - k
        /\ \A n \in 1 .. (Len(s) - k) : after[n] = s[k + n]
    OBVIOUS
  <1>3. RemoveAt(s, k) = before \o after
    BY DEF RemoveAt
  <1> HIDE DEF before, after
  <1>4. before \o after \in Seq(M) /\ DOMAIN (before \o after) = 1 .. (Len(s) - 1)
    BY <1>1, <1>2
  <1>5. ASSUME NEW n \in 1 .. (Len(s) - 1)
        PROVE  (before \o after)[n] = IF n < k THEN s[n] ELSE s[n + 1]
    <2>1. CASE n < k
      BY <1>1, <1>2, <2>1
    <2>2. CASE ~ (n < k)
      <3>1. n \in 1 .. (Len(before) + Len(after)) /\ n > Len(before)
        BY <1>1, <1>2, <2>2
      <3>2. (before \o after)[n] = after[n - (k - 1)]
        BY <1>1, <1>2, <3>1, ConcatRight
      <3>3. n - (k - 1) \in 1 .. (Len(s) - k) /\ k + (n - (k - 1)) = n + 1
        BY <2>2
      <3> QED BY <1>2, <2>2, <3>2, <3>3
    <2> QED BY <2>1, <2>2
  <1> QED BY <1>3, <1>4, <1>5

\* What is left of a sequence comes from the others of its elements, in order.
LEMMA LeftBy ==
  ASSUME NEW M, NEW s \in Seq(M), NEW k \in 1 .. Len(s)
  PROVE  /\ \A n \in DOMAIN RemoveAt(s, k) :
              \E m \in (1 .. Len(s)) \ {k} : RemoveAt(s, k)[n] = s[m]
         /\ \A m \in (1 .. Len(s)) \ {k} :
              \E n \in DOMAIN RemoveAt(s, k) : RemoveAt(s, k)[n] = s[m]
  <1> DEFINE rest == RemoveAt(s, k)
  <1>1. /\ DOMAIN rest = 1 .. (Len(s) - 1)
        /\ \A n \in 1 .. (Len(s) - 1) : rest[n] = IF n < k THEN s[n] ELSE s[n + 1]
    BY RemovedAt
  <1> HIDE DEF rest
  <1>2. ASSUME NEW n \in DOMAIN rest
        PROVE  \E m \in (1 .. Len(s)) \ {k} : rest[n] = s[m]
    <2>1. CASE n < k
      <3>1. n \in (1 .. Len(s)) \ {k} /\ rest[n] = s[n]
        BY <1>1, <2>1
      <3> QED BY <3>1
    <2>2. CASE ~ (n < k)
      <3>1. n + 1 \in (1 .. Len(s)) \ {k} /\ rest[n] = s[n + 1]
        BY <1>1, <2>2
      <3> QED BY <3>1
    <2> QED BY <2>1, <2>2
  <1>3. ASSUME NEW m \in (1 .. Len(s)) \ {k}
        PROVE  \E n \in DOMAIN rest : rest[n] = s[m]
    <2>1. CASE m < k
      <3>1. m \in DOMAIN rest /\ rest[m] = s[m]
        BY <1>1, <2>1
      <3> QED BY <3>1
    <2>2. CASE m > k
      <3>1. m - 1 \in DOMAIN rest /\ rest[m - 1] = s[m]
        BY <1>1, <2>2
      <3> QED BY <3>1
    <2> QED BY <2>1, <2>2
  <1> QED BY <1>2, <1>3 DEF rest

LEMMA RemovedFirst ==
  ASSUME NEW s \in Seq(Nat), IsInjective(s), NEW k \in 1 .. Len(s)
  PROVE  RemoveFirst(s, s[k]) = RemoveAt(s, k)
  <1> DEFINE at == {n \in 1 .. Len(s) : s[n] = s[k]}
  <1>1. k \in at /\ \A n \in at : n = k
    BY DEF IsInjective
  <1>2. RemoveFirst(s, s[k]) = RemoveAt(s, CHOOSE n \in at : \A m \in at : n <= m)
    BY <1>1 DEF RemoveFirst, SelectInSeq, Min
  <1> QED BY <1>1, <1>2

\* Removing an element leaves a sequence injective, with nothing new.
LEMMA RemoveFirstType ==
  ASSUME NEW s \in Seq(Nat), IsInjective(s), NEW m
  PROVE  /\ RemoveFirst(s, m) \in Seq(Nat) /\ IsInjective(RemoveFirst(s, m))
         /\ Range(RemoveFirst(s, m)) \subseteq Range(s)
  <1>1. CASE \E k \in 1 .. Len(s) : s[k] = m
    <2>1. PICK k \in 1 .. Len(s) : s[k] = m
      BY <1>1
    <2> DEFINE rest == RemoveAt(s, k)
    <2>2. RemoveFirst(s, m) = rest
      BY <2>1, RemovedFirst
    <2>3. /\ rest \in Seq(Nat) /\ DOMAIN rest = 1 .. (Len(s) - 1)
          /\ \A n \in 1 .. (Len(s) - 1) : rest[n] = IF n < k THEN s[n] ELSE s[n + 1]
      BY RemovedAt
    <2> HIDE DEF rest
    <2> DEFINE was(n) == IF n < k THEN n ELSE n + 1
    <2>4. ASSUME NEW n \in DOMAIN rest
          PROVE  was(n) \in 1 .. Len(s) /\ rest[n] = s[was(n)]
      <3>1. n \in 1 .. (Len(s) - 1)
        BY <2>3
      <3>2. was(n) \in 1 .. Len(s)
        BY <3>1
      <3> QED BY <2>3, <3>1, <3>2
    <2>5. IsInjective(rest)
      <3>1. ASSUME NEW n \in DOMAIN rest, NEW l \in DOMAIN rest, was(n) = was(l)
            PROVE  n = l
        <4>1. n \in Nat /\ l \in Nat /\ k \in Nat
          BY <2>3
        <4>2. CASE n < k /\ l < k
          BY <3>1, <4>2
        <4>3. CASE n < k /\ ~ (l < k)
          BY <3>1, <4>1, <4>3
        <4>4. CASE ~ (n < k) /\ l < k
          BY <3>1, <4>1, <4>4
        <4>5. CASE ~ (n < k) /\ ~ (l < k)
          BY <3>1, <4>1, <4>5
        <4> QED BY <4>2, <4>3, <4>4, <4>5
      <3> HIDE DEF was
      <3> QED BY <2>4, <3>1 DEF IsInjective
    <2>6. Range(rest) \subseteq Range(s)
      <3> HIDE DEF was
      <3> QED BY <2>4 DEF Range
    <2> QED BY <2>2, <2>3, <2>5, <2>6
  <1>2. CASE ~ \E k \in 1 .. Len(s) : s[k] = m
    BY <1>2 DEF RemoveFirst
  <1> QED BY <1>1, <1>2

\* Every element of D is in one of the sequences, and once.
Parted(r, t, D) ==
  /\ IsInjective(r) /\ IsInjective(t)
  /\ \A x \in DOMAIN r, y \in DOMAIN t : r[x] # t[y]
  /\ \A x \in DOMAIN r : r[x] \in D
  /\ \A y \in DOMAIN t : t[y] \in D
  /\ \A d \in D : (\E x \in DOMAIN r : r[x] = d) \/ (\E y \in DOMAIN t : t[y] = d)

LEMMA PartedOnce ==
  ASSUME NEW r \in Seq(Nat), NEW t \in Seq(Nat), NEW D, Parted(r, t, D)
  PROVE  IsInjective(r \o t) /\ Range(r \o t) = D
  <1> DEFINE both == r \o t
             L == Len(r)
  <1>1. L \in Nat /\ Len(t) \in Nat /\ DOMAIN r = 1 .. L /\ DOMAIN t = 1 .. Len(t)
    OBVIOUS
  <1>2. DOMAIN both = 1 .. (L + Len(t))
    OBVIOUS
  <1>3. \A x \in 1 .. L : both[x] = r[x]
    OBVIOUS
  <1>4. \A x \in 1 .. (L + Len(t)) : x > L => both[x] = t[x - L] /\ x - L \in 1 .. Len(t)
    BY ConcatRight
  <1>5. \A y \in 1 .. Len(t) : L + y \in DOMAIN both /\ both[L + y] = t[y]
    <2>1. ASSUME NEW y \in 1 .. Len(t) PROVE L + y \in DOMAIN both /\ both[L + y] = t[y]
      <3>1. L + y \in 1 .. (L + Len(t)) /\ L + y > L /\ (L + y) - L = y
        BY <1>1
      <3> QED BY <1>2, <1>4, <3>1
    <2> QED BY <2>1
  <1> HIDE DEF both, L
  <1>6. ASSUME NEW x \in DOMAIN both, NEW y \in DOMAIN both, both[x] = both[y]
        PROVE  x = y
    <2>0. x \in Nat /\ y \in Nat
      BY <1>2
    <2>1. CASE x <= L /\ y <= L
      BY <1>1, <1>2, <1>3, <1>6, <2>1 DEF Parted, IsInjective
    <2>2. CASE x <= L /\ y > L
      BY <1>1, <1>2, <1>3, <1>4, <1>6, <2>2 DEF Parted
    <2>3. CASE x > L /\ y <= L
      BY <1>1, <1>2, <1>3, <1>4, <1>6, <2>3 DEF Parted
    <2>4. CASE x > L /\ y > L
      <3>1. x - L = y - L
        <4>1. /\ both[x] = t[x - L] /\ x - L \in DOMAIN t
              /\ both[y] = t[y - L] /\ y - L \in DOMAIN t
          BY <1>1, <1>2, <1>4, <2>4
        <4> QED BY <1>6, <4>1 DEF Parted, IsInjective
      <3> QED BY <1>1, <2>0, <3>1
    <2> QED BY <1>1, <2>0, <2>1, <2>2, <2>3, <2>4
  <1>7. ASSUME NEW x \in DOMAIN both PROVE both[x] \in D
    <2>1. CASE x <= L
      <3>1. x \in 1 .. L
        BY <1>1, <1>2, <1>7, <2>1
      <3>2. r[x] \in D
        BY <1>1, <3>1 DEF Parted
      <3> QED BY <1>3, <3>1, <3>2
    <2>2. CASE ~ (x <= L)
      <3>1. x > L /\ x \in 1 .. (L + Len(t))
        BY <1>1, <1>2, <1>7, <2>2
      <3>2. both[x] = t[x - L] /\ x - L \in DOMAIN t
        BY <1>1, <1>4, <3>1
      <3> QED BY <3>2 DEF Parted
    <2> QED BY <2>1, <2>2
  <1>8. ASSUME NEW d \in D PROVE \E x \in DOMAIN both : both[x] = d
    <2>1. CASE \E x \in DOMAIN r : r[x] = d
      <3>1. PICK x \in DOMAIN r : r[x] = d
        BY <2>1
      <3>2. x \in DOMAIN both /\ both[x] = d
        BY <1>1, <1>2, <1>3, <3>1
      <3> QED BY <3>2
    <2>2. CASE \E y \in DOMAIN t : t[y] = d
      BY <1>1, <1>5, <2>2
    <2> QED BY <2>1, <2>2 DEF Parted
  <1>9. Range(both) = D
    BY <1>7, <1>8 DEF Range
  <1> QED BY <1>6, <1>9 DEF IsInjective, both

\* An action that goes from what is to be run to what was run is the only one of
\* its kind still.
LEMMA PartedMoved ==
  ASSUME NEW r \in Seq(Nat), NEW t \in Seq(Nat), NEW at \in 1 .. Len(t), NEW D,
         Parted(r, t, D)
  PROVE  Parted(Append(r, t[at]), RemoveAt(t, at), D)
  <1> DEFINE rest == RemoveAt(t, at)
             more == Append(r, t[at])
  <1>1. /\ \A n \in DOMAIN rest : \E m \in (1 .. Len(t)) \ {at} : rest[n] = t[m]
        /\ \A m \in (1 .. Len(t)) \ {at} : \E n \in DOMAIN rest : rest[n] = t[m]
    BY LeftBy
  <1>2. IsInjective(rest)
    <2>1. RemoveFirst(t, t[at]) = rest
      BY RemovedFirst DEF Parted
    <2> QED BY <2>1, RemoveFirstType DEF Parted
  <1>3. /\ DOMAIN more = 1 .. (Len(r) + 1) /\ DOMAIN r = 1 .. Len(r) /\ Len(r) \in Nat
        /\ more[Len(r) + 1] = t[at] /\ \A x \in 1 .. Len(r) : more[x] = r[x]
        /\ DOMAIN t = 1 .. Len(t)
    OBVIOUS
  <1> HIDE DEF rest, more
  <1>4. ASSUME NEW x \in DOMAIN more
        PROVE  \/ x \in DOMAIN r /\ more[x] = r[x]
               \/ x = Len(r) + 1 /\ more[x] = t[at]
    BY <1>3
  <1>5. IsInjective(more)
    BY <1>3, <1>4 DEF Parted, IsInjective
  <1>6. ASSUME NEW x \in DOMAIN more, NEW y \in DOMAIN rest PROVE more[x] # rest[y]
    <2>1. PICK m \in (1 .. Len(t)) \ {at} : rest[y] = t[m]
      BY <1>1
    <2>2. t[m] # t[at]
      BY <1>3, <2>1 DEF Parted, IsInjective
    <2>3. CASE x \in DOMAIN r /\ more[x] = r[x]
      <3>1. m \in DOMAIN t
        BY <1>3, <2>1
      <3>2. r[x] # t[m]
        BY <2>3, <3>1 DEF Parted
      <3> QED BY <2>1, <2>3, <3>2
    <2> QED BY <1>4, <2>1, <2>2, <2>3
  <1>7. \A x \in DOMAIN more : more[x] \in D
    BY <1>3, <1>4 DEF Parted
  <1>8. \A y \in DOMAIN rest : rest[y] \in D
    BY <1>1, <1>3 DEF Parted
  <1>9. ASSUME NEW d \in D
        PROVE  (\E x \in DOMAIN more : more[x] = d) \/ (\E y \in DOMAIN rest : rest[y] = d)
    <2>1. CASE \E x \in DOMAIN r : r[x] = d
      <3>1. PICK x \in DOMAIN r : r[x] = d
        BY <2>1
      <3>2. x \in DOMAIN more /\ more[x] = d
        BY <1>3, <3>1
      <3> QED BY <3>2
    <2>2. CASE d = t[at]
      <3>1. Len(r) + 1 \in DOMAIN more
        BY <1>3
      <3> QED BY <1>3, <2>2, <3>1
    <2>3. CASE \E m \in (1 .. Len(t)) \ {at} : t[m] = d
      BY <1>1, <2>3
    <2> QED BY <1>3, <2>1, <2>2, <2>3 DEF Parted
  <1> QED BY <1>2, <1>5, <1>6, <1>7, <1>8, <1>9 DEF Parted, rest, more

-----------------------------------------------------------------------------
(* Turning a scene                                                         *)

\* e is an entry for scene s turned to v, with all its actions to run.
EntryFor(e, s, v) ==
  /\ e \in EntrySet /\ e.scene = s /\ e.on = v
  /\ e.todo = [n \in DOMAIN Actions[<<s, v>>] |-> n]
  /\ e.todo \in Seq(Nat)

LEMMA NewType ==
  ASSUME NEW s \in Scene, NEW v \in 0 .. 1,
         NEW least \in {0, ExitNew}, NEW more \in {ExitNew, ExitMore}
  PROVE  EntryFor(Entry(s, v, Total(s, v, least, more)), s, v)
  <1> DEFINE a == Actions[<<s, v>>]
             todo == [n \in DOMAIN a |-> n]
  <1>1. /\ a \in Seq([delay : Nat, scene : Scene \cup {NoScene}, value : 0 .. 1])
        /\ MaxTime \in Nat
    BY SceneAssumption
  <1>2. todo \in Seq(Nat) /\ DOMAIN todo = DOMAIN a
    <2>1. DOMAIN a = 1 .. Len(a) /\ Len(a) \in Nat
      BY <1>1
    <2> QED BY <2>1
  <1>3. IsInjective(todo) /\ Range(todo) \subseteq DOMAIN a
    BY DEF IsInjective, Range
  <1>4. LeavesAlone(s, v) \in BOOLEAN
    BY DEF LeavesAlone
  <1>5. Total(s, v, least, more) \in Totals
    BY DEF Totals
  <1> HIDE DEF todo
  <1>6. todo = [n \in DOMAIN Actions[<<s, v>>] |-> n]
    BY DEF todo
  <1>7. Entry(s, v, Total(s, v, least, more)) =
          [scene |-> s, on |-> v, todo |-> todo, add |-> 0,
           auto |-> LeavesAlone(s, v), total |-> Total(s, v, least, more)]
    BY <1>6 DEF Entry
  <1> DEFINE e == Entry(s, v, Total(s, v, least, more))
             total == Total(s, v, least, more)
             auto == LeavesAlone(s, v)
  <1>8. e = [scene |-> s, on |-> v, todo |-> todo, add |-> 0, auto |-> auto, total |-> total]
    BY <1>7
  <1> HIDE DEF e, total, auto, a
  <1>9. /\ e.scene = s /\ e.on = v /\ e.todo = todo
        /\ e \in [scene : Scene, on : 0 .. 1, todo : Seq(Nat), add : 0 .. MaxTime,
                  auto : BOOLEAN, total : Totals]
    BY <1>1, <1>2, <1>4, <1>5, <1>8 DEF total, auto
  <1>10. e \in EntrySet
    BY <1>3, <1>9 DEF EntrySet, a
  <1>11. EntryFor(e, s, v)
    BY <1>2, <1>6, <1>9, <1>10 DEF EntryFor
  <1> QED BY <1>11 DEF e

LEMMA NewEntries ==
  ASSUME NEW s \in Scene, NEW v \in 0 .. 1
  PROVE  EntryFor(New(s, v), s, v) /\ EntryFor(Refilled(s, v), s, v)
  <1>1. EntryFor(Entry(s, v, Total(s, v, ExitNew, ExitNew)), s, v)
    BY NewType
  <1>2. EntryFor(Entry(s, v, Total(s, v, 0, ExitMore)), s, v)
    BY NewType
  <1> QED BY <1>1, <1>2 DEF New, Refilled

\* x is w after scene s was turned to v: its entry is at place k.
Turns(w, x, s, v, k) ==
  /\ x.status = [w.status EXCEPT ![s] = v] /\ x.ran = [w.ran EXCEPT ![s] = <<>>]
  /\ x.list \in Seq(EntrySet) /\ DOMAIN x.list = DOMAIN w.list \cup {k}
  /\ k \in DOMAIN w.list => w.list[k].scene = s /\ w.list[k].on # v
  /\ \A n \in DOMAIN w.list \ {k} : x.list[n] = w.list[n] /\ w.list[n].scene # s
  /\ k \in DOMAIN x.list /\ x.list[k].scene = s /\ x.list[k].on = v
  /\ x.list[k].todo = [n \in DOMAIN Actions[<<s, v>>] |-> n] /\ x.list[k].todo \in Seq(Nat)

LEMMA TurnedTurns ==
  ASSUME NEW w, WorldOK(w), NEW s \in Scene, NEW v \in 0 .. 1
  PROVE  Turned(w, s, v) = w \/ \E k : Turns(w, Turned(w, s, v), s, v, k)
  <1> DEFINE here == {k \in DOMAIN w.list : w.list[k].scene = s}
             x == Turned(w, s, v)
             list == IF here = {} THEN Append(w.list, New(s, v))
                     ELSE [k \in DOMAIN w.list |-> IF k \in here THEN Refilled(s, v) ELSE w.list[k]]
  <1>1. CASE \E k \in here : w.list[k].on = v
    BY <1>1 DEF Turned
  <1>2. CASE ~ \E k \in here : w.list[k].on = v
    <2>1. /\ x.status = [w.status EXCEPT ![s] = v] /\ x.ran = [w.ran EXCEPT ![s] = <<>>]
          /\ x.list = list
      BY <1>2 DEF Turned
    <2>2. w.list \in Seq(EntrySet) /\ DOMAIN w.list = 1 .. Len(w.list) /\ Len(w.list) \in Nat
      BY DEF WorldOK, ListOK
    <2> HIDE DEF x
    <2>3. CASE here = {}
      <3> DEFINE e == New(s, v)
      <3>1. /\ e \in EntrySet /\ e.scene = s /\ e.on = v /\ e.todo \in Seq(Nat)
            /\ e.todo = [n \in DOMAIN Actions[<<s, v>>] |-> n]
        <4>1. EntryFor(e, s, v)
          BY NewEntries
        <4> QED BY <4>1 DEF EntryFor
      <3> HIDE DEF e
      <3>2. x.list = Append(w.list, e)
        BY <2>1, <2>3 DEF e
      <3> DEFINE k == Len(w.list) + 1
      <3>3. /\ x.list \in Seq(EntrySet) /\ DOMAIN x.list = 1 .. k
            /\ x.list[k] = e /\ \A n \in DOMAIN w.list : x.list[n] = w.list[n]
        BY <2>2, <3>1, <3>2
      <3>4. DOMAIN x.list = DOMAIN w.list \cup {k} /\ k \notin DOMAIN w.list
        BY <2>2, <3>3
      <3>5. \A n \in DOMAIN w.list : w.list[n].scene # s
        BY <2>3
      <3> HIDE DEF k
      <3>6. Turns(w, x, s, v, k)
        BY <2>1, <3>1, <3>3, <3>4, <3>5 DEF Turns
      <3> QED BY <3>6 DEF x
    <2>4. CASE here # {}
      <3>1. PICK k \in here : TRUE
        BY <2>4
      <3> DEFINE e == Refilled(s, v)
      <3>2. /\ e \in EntrySet /\ e.scene = s /\ e.on = v /\ e.todo \in Seq(Nat)
            /\ e.todo = [n \in DOMAIN Actions[<<s, v>>] |-> n]
        <4>1. EntryFor(e, s, v)
          BY NewEntries
        <4> QED BY <4>1 DEF EntryFor
      <3> HIDE DEF e
      <3>3. k \in DOMAIN w.list /\ w.list[k].scene = s /\ w.list[k].on # v
        BY <1>2, <3>1
      <3>4. \A n \in DOMAIN w.list \ {k} : w.list[n].scene # s
        BY <3>3 DEF WorldOK, ListOK
      <3>5. /\ DOMAIN x.list = DOMAIN w.list
            /\ \A n \in DOMAIN w.list : x.list[n] = IF n = k THEN e ELSE w.list[n]
        BY <2>1, <2>4, <3>3, <3>4 DEF e
      <3>6. x.list \in Seq(EntrySet)
        <4>1. x.list = [n \in 1 .. Len(w.list) |-> IF n = k THEN e ELSE w.list[n]]
          BY <2>1, <2>2, <2>4, <3>3, <3>4 DEF e
        <4> QED BY <2>2, <3>2, <4>1
      <3>7. Turns(w, x, s, v, k)
        BY <2>1, <3>2, <3>3, <3>4, <3>5, <3>6 DEF Turns
      <3> QED BY <3>7 DEF x
    <2> QED BY <2>3, <2>4
  <1> QED BY <1>1, <1>2

LEMMA SetTurns ==
  ASSUME NEW w, WorldOK(w), NEW s \in Scene, NEW v \in 0 .. 1,
         NEW x \in onSetSceneStatus(w, s, v)
  PROVE  x = w \/ \E k : Turns(w, x, s, v, k)
  <1>1. x = w \/ x = Turned(w, s, v)
    BY DEF onSetSceneStatus
  <1> QED BY <1>1, TurnedTurns

LEMMA TurnsConsistent ==
  ASSUME NEW w, NEW downloaded, NEW done, Consistent(w, downloaded, done),
         NEW s \in Scene, NEW v \in 0 .. 1, NEW x, NEW k, Turns(w, x, s, v, k)
  PROVE  Consistent(x, downloaded, done)
  <1>1. x.status \in [Scene -> 0 .. 1] /\ x.status[s] = v
        /\ \A u \in Scene : u # s => x.status[u] = w.status[u]
    BY DEF Turns, Consistent, WorldOK
  <1>2. x.ran \in [Scene -> Seq(Nat)]
    <2>1. <<>> \in Seq(Nat)
      OBVIOUS
    <2> QED BY <2>1 DEF Turns, Consistent, WorldOK
  <1>3. ASSUME NEW n \in DOMAIN x.list
        PROVE  \/ n = k /\ x.list[n].scene = s /\ x.list[n].on = v
               \/ /\ n # k /\ n \in DOMAIN w.list /\ x.list[n] = w.list[n]
                  /\ w.list[n].scene # s /\ w.list[n].scene \in Scene
    <2>1. \A l \in DOMAIN w.list : w.list[l].scene \in Scene
      <3>1. \A e \in EntrySet : e.scene \in Scene
        BY DEF EntrySet
      <3> QED BY <3>1 DEF Consistent, WorldOK, ListOK
    <2> QED BY <2>1 DEF Turns
  <1>4. ListOK(x.list)
    BY <1>3 DEF Turns, Consistent, WorldOK, ListOK
  <1>5. InStep(x, downloaded)
    BY <1>1, <1>3 DEF Consistent, InStep
  <1>6. Settled(x, downloaded, done)
    <2> SUFFICES ASSUME NEW u \in Scene \ downloaded,
                        \A n \in DOMAIN x.list : x.list[n].scene # u
                 PROVE  done[u] = x.status[u]
      BY DEF Settled
    <2>1. u # s
      BY DEF Turns
    <2>2. \A n \in DOMAIN w.list : w.list[n].scene # u
      <3>1. ASSUME NEW n \in DOMAIN w.list PROVE w.list[n].scene # u
        <4>1. CASE n = k
          BY <2>1, <4>1 DEF Turns
        <4>2. CASE n # k
          BY <4>2 DEF Turns
        <4> QED BY <4>1, <4>2
      <3> QED BY <3>1
    <2> QED BY <1>1, <2>1, <2>2 DEF Consistent, Settled
  <1> QED BY <1>1, <1>2, <1>4, <1>5, <1>6 DEF Consistent, WorldOK

LEMMA SetConsistent ==
  ASSUME NEW w, NEW downloaded, NEW done, Consistent(w, downloaded, done),
         NEW s \in Scene, NEW v \in 0 .. 1, NEW x \in onSetSceneStatus(w, s, v)
  PROVE  Consistent(x, downloaded, done)
  BY SetTurns, TurnsConsistent DEF Consistent

-----------------------------------------------------------------------------
(* What the serial thread does to an entry                                 *)

LEMMA EditedConsistent ==
  ASSUME NEW w, NEW downloaded, NEW done, Consistent(w, downloaded, done),
         NEW k \in DOMAIN w.list, NEW e \in EntrySet,
         e.scene = w.list[k].scene, e.on = w.list[k].on,
         NEW x, x.status = w.status, x.ran \in [Scene -> Seq(Nat)],
         x.list = [w.list EXCEPT ![k] = e]
  PROVE  Consistent(x, downloaded, done)
  <1>1. w.list \in Seq(EntrySet)
    BY DEF Consistent, WorldOK, ListOK
  <1>2. /\ x.list \in Seq(EntrySet) /\ DOMAIN x.list = DOMAIN w.list
        /\ \A n \in DOMAIN w.list :
             x.list[n].scene = w.list[n].scene /\ x.list[n].on = w.list[n].on
    BY <1>1
  <1>3. ListOK(x.list)
    BY <1>2 DEF Consistent, WorldOK, ListOK
  <1>4. InStep(x, downloaded)
    BY <1>2 DEF Consistent, InStep
  <1>5. Settled(x, downloaded, done)
    BY <1>2 DEF Consistent, Settled
  <1> QED BY <1>3, <1>4, <1>5 DEF Consistent, WorldOK

Recorded(done, e) == [done EXCEPT ![e.scene] = e.on]

Removes(w, x, k) ==
  x.status = w.status /\ x.ran = w.ran /\ x.list = RemoveAt(w.list, k)

LEMMA RemovedConsistent ==
  ASSUME NEW w, NEW downloaded, NEW done, Consistent(w, downloaded, done),
         done \in [Scene -> 0 .. 1], NEW k \in DOMAIN w.list,
         NEW x, Removes(w, x, k)
  PROVE  /\ Consistent(x, downloaded, Recorded(done, w.list[k]))
         /\ \A n \in DOMAIN x.list : \E m \in DOMAIN w.list : x.list[n] = w.list[m]
         /\ \A n \in DOMAIN x.list : x.list[n].scene # w.list[k].scene
  <1>1. /\ w.list \in Seq(EntrySet) /\ k \in 1 .. Len(w.list)
        /\ DOMAIN w.list = 1 .. Len(w.list)
    BY DEF Consistent, WorldOK, ListOK
  <1>2. x.list \in Seq(EntrySet) /\ DOMAIN x.list = 1 .. (Len(w.list) - 1)
    BY <1>1, RemovedAt DEF Removes
  <1>3. \A n \in 1 .. (Len(w.list) - 1) :
          x.list[n] = IF n < k THEN w.list[n] ELSE w.list[n + 1]
    BY <1>1, RemovedAt DEF Removes
  <1>4. /\ \A n \in DOMAIN x.list :
             \E m \in (1 .. Len(w.list)) \ {k} : x.list[n] = w.list[m]
        /\ \A m \in (1 .. Len(w.list)) \ {k} :
             \E n \in DOMAIN x.list : x.list[n] = w.list[m]
    <2>1. ASSUME NEW list \in Seq(EntrySet), k \in 1 .. Len(list)
          PROVE  /\ \A n \in DOMAIN RemoveAt(list, k) :
                      \E m \in (1 .. Len(list)) \ {k} : RemoveAt(list, k)[n] = list[m]
                 /\ \A m \in (1 .. Len(list)) \ {k} :
                      \E n \in DOMAIN RemoveAt(list, k) : RemoveAt(list, k)[n] = list[m]
      BY <2>1, LeftBy
    <2> QED BY <1>1, <2>1 DEF Removes
  <1>5. ASSUME NEW n \in DOMAIN x.list, NEW l \in DOMAIN x.list,
               x.list[n].scene = x.list[l].scene
        PROVE  n = l
    <2> DEFINE was(q) == IF q < k THEN q ELSE q + 1
    <2>1. \A q \in DOMAIN x.list : was(q) \in DOMAIN w.list /\ x.list[q] = w.list[was(q)]
      BY <1>1, <1>2, <1>3
    <2>2. was(n) = was(l) => n = l
      BY <1>1, <1>2
    <2> HIDE DEF was
    <2> QED BY <1>5, <2>1, <2>2 DEF Consistent, WorldOK, ListOK
  <1>6. ListOK(x.list)
    BY <1>2, <1>5 DEF ListOK
  <1>7. InStep(x, downloaded)
    BY <1>1, <1>4 DEF Consistent, InStep, Removes
  <1> DEFINE s == w.list[k].scene
             after == Recorded(done, w.list[k])
  <1>8. s \in Scene
    <2>1. \A e \in EntrySet : e.scene \in Scene
      BY DEF EntrySet
    <2> QED BY <1>1, <2>1
  <1>9. Settled(x, downloaded, after)
    <2> SUFFICES ASSUME NEW u \in Scene \ downloaded,
                        \A n \in DOMAIN x.list : x.list[n].scene # u
                 PROVE  after[u] = x.status[u]
      BY DEF Settled
    <2>1. CASE u = s
      BY <1>8, <2>1 DEF Consistent, InStep, Removes, Recorded
    <2>2. CASE u # s
      <3>1. \A m \in DOMAIN w.list : w.list[m].scene # u
        BY <1>1, <1>4, <2>2
      <3>2. done[u] = w.status[u]
        BY <3>1 DEF Consistent, Settled
      <3> QED BY <2>2, <3>2 DEF Removes, Recorded
    <2> QED BY <2>1, <2>2
  <1>10. \A n \in DOMAIN x.list : x.list[n].scene # s
    BY <1>1, <1>4 DEF Consistent, WorldOK, ListOK
  <1> QED BY <1>1, <1>4, <1>6, <1>7, <1>9, <1>10 DEF Consistent, WorldOK, Removes

-----------------------------------------------------------------------------
(* Types, and scenes that settle                                           *)

ThreadOK ==
  /\ pc \in {"idle", "entry", "action", "drop"} /\ i \in Nat \ {0} /\ j \in Nat \ {0}
  /\ pc \in {"action", "drop"} => i \in DOMAIN carried
  /\ running \in [on : 0 .. 1, n : Nat]

HistoryOK ==
  /\ known \subseteq Scene /\ altered \subseteq Scene /\ mixed \subseteq Scene
  /\ last \in [Scene -> 0 .. 1]

SceneInv == ThreadOK /\ HistoryOK /\ Consistent(World, altered, last)

LEMMA WorldFields ==
  World.status = status /\ World.list = carried /\ World.ran = ran
  BY DEF World

LEMMA WorldFieldsAfter ==
  World'.status = status' /\ World'.list = carried' /\ World'.ran = ran'
  BY DEF World

LEMMA BecomesConsistent ==
  ASSUME NEW x, Becomes(x), NEW downloaded, NEW done, Consistent(x, downloaded, done)
  PROVE  Consistent(World', downloaded, done)
  BY DEF Becomes, World, Consistent, WorldOK, InStep, Settled

LEMMA CarriedFacts ==
  ASSUME SceneInv
  PROVE  /\ carried \in Seq(EntrySet) /\ ran \in [Scene -> Seq(Nat)]
         /\ status \in [Scene -> 0 .. 1]
         /\ DOMAIN carried = 1 .. Len(carried) /\ Len(carried) \in Nat
         /\ \A k \in DOMAIN carried :
              /\ carried[k] \in EntrySet /\ carried[k].scene \in Scene
              /\ carried[k].on \in 0 .. 1 /\ carried[k].todo \in Seq(Nat)
              /\ IsInjective(carried[k].todo) /\ carried[k].add \in 0 .. MaxTime
              /\ Range(carried[k].todo)
                   \subseteq DOMAIN Actions[<<carried[k].scene, carried[k].on>>]
  <1>1. carried \in Seq(EntrySet) /\ ran \in [Scene -> Seq(Nat)] /\ status \in [Scene -> 0 .. 1]
    BY WorldFields DEF SceneInv, Consistent, WorldOK, ListOK
  <1>2. \A e \in EntrySet :
          /\ e.scene \in Scene /\ e.on \in 0 .. 1 /\ e.todo \in Seq(Nat)
          /\ e.add \in 0 .. MaxTime /\ IsInjective(e.todo)
          /\ Range(e.todo) \subseteq DOMAIN Actions[<<e.scene, e.on>>]
    BY DEF EntrySet
  <1> QED BY <1>1, <1>2

LEMMA SceneInit == Init => SceneInv
  <1> SUFFICES ASSUME Init PROVE SceneInv
    OBVIOUS
  <1>1. <<>> \in Seq(Nat) /\ <<>> \in Seq(EntrySet)
    OBVIOUS
  <1>2. WorldOK(World)
    BY <1>1, WorldFields DEF Init, WorldOK, ListOK
  <1>3. InStep(World, altered) /\ Settled(World, altered, last)
    BY WorldFields DEF Init, InStep, Settled
  <1>4. running \in [on : 0 .. 1, n : Nat]
    BY DEF Init, None
  <1> QED BY <1>2, <1>3, <1>4 DEF Init, SceneInv, ThreadOK, HistoryOK, Consistent

\* What changes of an entry while it is carried out.
LEMMA EntryEdited ==
  ASSUME NEW e \in EntrySet
  PROVE  /\ \A a \in 0 .. MaxTime :
              LET x == [e EXCEPT !.add = a] IN
                x \in EntrySet /\ x.scene = e.scene /\ x.on = e.on /\ x.todo = e.todo
         /\ \A t \in Seq(Nat) :
              IsInjective(t) /\ Range(t) \subseteq Range(e.todo) =>
                LET x == [e EXCEPT !.todo = t] IN
                  x \in EntrySet /\ x.scene = e.scene /\ x.on = e.on /\ x.todo = t
  <1>1. ASSUME NEW a \in 0 .. MaxTime
        PROVE  LET x == [e EXCEPT !.add = a] IN
                 x \in EntrySet /\ x.scene = e.scene /\ x.on = e.on /\ x.todo = e.todo
    BY DEF EntrySet
  <1>2. ASSUME NEW t \in Seq(Nat), IsInjective(t), Range(t) \subseteq Range(e.todo)
        PROVE  LET x == [e EXCEPT !.todo = t] IN
                 x \in EntrySet /\ x.scene = e.scene /\ x.on = e.on /\ x.todo = t
    BY <1>2 DEF EntrySet
  <1> QED BY <1>1, <1>2

LEMMA VisitScene == SceneInv /\ Visit => SceneInv'
  <1> SUFFICES ASSUME SceneInv, Visit PROVE SceneInv'
    OBVIOUS
  <1>1. i \in DOMAIN carried /\ carried[i] \in EntrySet
    BY CarriedFacts DEF SceneInv, ThreadOK, Visit
  <1> DEFINE a == IF carried[i].add < MaxTime THEN carried[i].add + 1 ELSE carried[i].add
             e == [carried[i] EXCEPT !.add = a]
  <1>2. a \in 0 .. MaxTime
    <2>1. MaxTime \in Nat /\ carried[i].add \in 0 .. MaxTime
      BY <1>1, CarriedFacts, SceneAssumption
    <2> QED BY <2>1
  <1>3. carried' = [carried EXCEPT ![i] = e]
    BY DEF Visit
  <1> HIDE DEF a
  <1>4. e \in EntrySet /\ e.scene = carried[i].scene /\ e.on = carried[i].on
    BY <1>1, <1>2, EntryEdited
  <1> HIDE DEF e
  <1>5. status' = status /\ ran' = ran /\ last' = last /\ altered' = altered
    BY DEF Visit, history
  <1>6. Consistent(World', altered, last)
    <2>1. /\ i \in DOMAIN World.list /\ World'.list = [World.list EXCEPT ![i] = e]
          /\ e.scene = World.list[i].scene /\ e.on = World.list[i].on
          /\ World'.status = World.status /\ World'.ran \in [Scene -> Seq(Nat)]
      BY <1>1, <1>3, <1>4, <1>5, CarriedFacts, WorldFields, WorldFieldsAfter
    <2>2. Consistent(World, altered, last)
      BY DEF SceneInv
    <2> QED BY <1>4, <2>1, <2>2, EditedConsistent
  <1>7. ThreadOK' /\ HistoryOK'
    BY <1>1, <1>3, CarriedFacts DEF Visit, history, SceneInv, ThreadOK, HistoryOK
  <1> QED BY <1>5, <1>6, <1>7 DEF SceneInv

LEMMA SameWorld ==
  ASSUME SceneInv, UNCHANGED <<status, carried, ran>>
  PROVE  Consistent(World', altered, last)
  <1>1. World' = World
    BY DEF World
  <1> QED BY <1>1 DEF SceneInv

LEMMA IdleScene == SceneInv /\ (Begin \/ Rest) => SceneInv'
  <1> SUFFICES ASSUME SceneInv, Begin \/ Rest PROVE SceneInv'
    OBVIOUS
  <1>1. /\ UNCHANGED <<known, status, carried, ran, last, altered, mixed, j, running>>
        /\ pc' \in {"idle", "entry"} /\ i' = 1
    BY DEF Begin, Rest, history
  <1>2. Consistent(World', altered, last)
    BY <1>1, SameWorld
  <1> QED BY <1>1, <1>2 DEF SceneInv, ThreadOK, HistoryOK

\* What of an entry is left after the action that runs.
Rests(e) == IF e.on = running.on THEN RemoveFirst(e.todo, running.n) ELSE e.todo

LEMMA RestsType ==
  ASSUME SceneInv, NEW k \in DOMAIN carried
  PROVE  /\ Rests(carried[k]) \in Seq(Nat) /\ IsInjective(Rests(carried[k]))
         /\ Range(Rests(carried[k])) \subseteq Range(carried[k].todo)
  <1>1. carried[k].todo \in Seq(Nat) /\ IsInjective(carried[k].todo)
    BY CarriedFacts
  <1> QED BY <1>1, RemoveFirstType DEF Rests

LEMMA DropFacts ==
  ASSUME SceneInv, Drop
  PROVE  /\ i \in DOMAIN carried
         /\ carried' = [carried EXCEPT ![i] = [carried[i] EXCEPT !.todo = Rests(carried[i])]]
         /\ [carried[i] EXCEPT !.todo = Rests(carried[i])] \in EntrySet
  <1>1. i \in DOMAIN carried /\ carried[i] \in EntrySet
    BY CarriedFacts DEF SceneInv, ThreadOK, Drop
  <1> DEFINE e == [carried[i] EXCEPT !.todo = Rests(carried[i])]
  <1>2. e \in EntrySet
    BY <1>1, RestsType, EntryEdited
  <1>3. carried' = [carried EXCEPT ![i] = e]
    <2>1. CASE carried[i].on = running.on
      BY <1>1, <2>1 DEF Drop, Dropped, Rests
    <2>2. CASE carried[i].on # running.on
      <3>1. e = carried[i]
        BY <1>1, <2>2 DEF Rests, EntrySet
      <3>2. carried' = carried
        BY <2>2 DEF Drop, Dropped
      <3>3. carried \in Seq(EntrySet)
        BY CarriedFacts
      <3> HIDE DEF e
      <3> QED BY <1>1, <3>1, <3>2, <3>3
    <2> QED BY <2>1, <2>2
  <1> QED BY <1>1, <1>2, <1>3

LEMMA DropScene == SceneInv /\ Drop => SceneInv'
  <1> SUFFICES ASSUME SceneInv, Drop PROVE SceneInv'
    OBVIOUS
  <1> DEFINE e == [carried[i] EXCEPT !.todo = Rests(carried[i])]
  <1>1. i \in DOMAIN carried /\ carried' = [carried EXCEPT ![i] = e] /\ e \in EntrySet
    BY DropFacts
  <1>2. e.scene = carried[i].scene /\ e.on = carried[i].on
    <2>1. carried[i] \in EntrySet
      BY <1>1, CarriedFacts
    <2> QED BY <2>1 DEF EntrySet
  <1> HIDE DEF e
  <1>3. UNCHANGED <<known, status, i, j, ran, last, altered, mixed>>
    BY DEF Drop, history
  <1>4. Consistent(World', altered, last)
    <2>1. /\ i \in DOMAIN World.list /\ World'.list = [World.list EXCEPT ![i] = e]
          /\ e.scene = World.list[i].scene /\ e.on = World.list[i].on
          /\ World'.status = World.status /\ World'.ran \in [Scene -> Seq(Nat)]
      BY <1>1, <1>2, <1>3, CarriedFacts, WorldFields, WorldFieldsAfter
    <2>2. Consistent(World, altered, last)
      BY DEF SceneInv
    <2> QED BY <1>1, <2>1, <2>2, EditedConsistent
  <1>5. running' \in [on : 0 .. 1, n : Nat]
    BY DEF Drop, None
  <1>6. ThreadOK' /\ HistoryOK'
    <2>1. carried \in Seq(EntrySet)
      BY CarriedFacts
    <2>2. DOMAIN carried' = DOMAIN carried
      BY <1>1, <2>1
    <2> QED BY <1>1, <1>3, <1>5, <2>2 DEF Drop, SceneInv, ThreadOK, HistoryOK
  <1> QED BY <1>3, <1>4, <1>6 DEF SceneInv

\* The scene of the thread's entry has one action more behind it.
WorldRan == [World EXCEPT !.ran[carried[i].scene] = Append(@, carried[i].todo[j])]

LEMMA WorldRanFacts ==
  ASSUME SceneInv, i \in DOMAIN carried, j \in 1 .. Len(carried[i].todo)
  PROVE  /\ WorldRan.status = status /\ WorldRan.list = carried
         /\ WorldRan.ran = [ran EXCEPT ![carried[i].scene] = Append(@, carried[i].todo[j])]
         /\ Consistent(WorldRan, altered, last)
  <1>1. /\ WorldRan.status = status /\ WorldRan.list = carried
        /\ WorldRan.ran = [ran EXCEPT ![carried[i].scene] = Append(@, carried[i].todo[j])]
    BY DEF WorldRan, World
  <1>2. ran \in [Scene -> Seq(Nat)] /\ carried[i].scene \in Scene /\ carried[i].todo[j] \in Nat
    <2>1. /\ ran \in [Scene -> Seq(Nat)] /\ carried[i].scene \in Scene
          /\ carried[i].todo \in Seq(Nat)
      BY CarriedFacts
    <2> QED BY <2>1
  <1>3. Append(ran[carried[i].scene], carried[i].todo[j]) \in Seq(Nat)
    BY <1>2
  <1>4. WorldRan.ran \in [Scene -> Seq(Nat)]
    BY <1>1, <1>2, <1>3
  <1>5. Consistent(World, altered, last)
    BY DEF SceneInv
  <1>6. Consistent(WorldRan, altered, last)
    BY <1>1, <1>4, <1>5, WorldFields DEF Consistent, WorldOK, InStep, Settled
  <1> QED BY <1>1, <1>6

\* An action is passed over, or it is run and may have turned a scene.
Runs(x) ==
  /\ Becomes(x) /\ pc' = "drop" /\ j' = j
  /\ running' = [on |-> carried[i].on, n |-> carried[i].todo[j]]
  /\ x = WorldRan \/ \E s \in Scene, v \in 0 .. 1 : \E k : Turns(WorldRan, x, s, v, k)

LEMMA ActFacts ==
  ASSUME SceneInv, Act
  PROVE  /\ pc = "action" /\ i \in DOMAIN carried /\ j \in 1 .. Len(carried[i].todo)
         /\ UNCHANGED <<known, i, last, altered, mixed>>
         /\ \/ \E x : Runs(x)
            \/ j' = j + 1 /\ UNCHANGED <<status, carried, pc, running, ran>>
  <1>1. /\ pc = "action" /\ i \in DOMAIN carried /\ j \in 1 .. Len(carried[i].todo)
        /\ UNCHANGED <<known, i, last, altered, mixed>>
    <2>1. pc = "action" /\ j <= Len(carried[i].todo)
      BY DEF Act
    <2>2. i \in DOMAIN carried /\ j \in Nat \ {0}
      BY <2>1 DEF SceneInv, ThreadOK
    <2>3. carried[i].todo \in Seq(Nat)
      BY <2>2, CarriedFacts
    <2> QED BY <2>1, <2>2, <2>3 DEF Act
  <1> DEFINE all == Actions[<<carried[i].scene, carried[i].on>>]
             a == all[carried[i].todo[j]]
             id == [on |-> carried[i].on, n |-> carried[i].todo[j]]
             after == IF a.scene = NoScene THEN {WorldRan}
                      ELSE onSetSceneStatus(WorldRan, a.scene, a.value)
  <1>2. a \in [delay : Nat, scene : Scene \cup {NoScene}, value : 0 .. 1]
    <2>1. carried[i].todo[j] \in DOMAIN all
      BY <1>1, CarriedFacts DEF Range
    <2>2. all \in Seq([delay : Nat, scene : Scene \cup {NoScene}, value : 0 .. 1])
      <3>1. carried[i].scene \in Scene /\ carried[i].on \in 0 .. 1
        BY <1>1, CarriedFacts
      <3> QED BY <3>1, SceneAssumption
    <2> DEFINE kind == [delay : Nat, scene : Scene \cup {NoScene}, value : 0 .. 1]
               n == carried[i].todo[j]
    <2>3. n \in DOMAIN all /\ all \in Seq(kind)
      BY <2>1, <2>2
    <2> HIDE DEF all, kind, n
    <2>4. all[n] \in kind
      BY <2>3
    <2> QED BY <2>4 DEF kind, n
  <1> HIDE DEF all
  <1>3. WorldOK(WorldRan)
    BY <1>1, WorldRanFacts DEF Consistent
  <1>4. \/ /\ \E x \in after : Becomes(x)
           /\ pc' = "drop" /\ running' = id /\ UNCHANGED j
        \/ j' = j + 1 /\ UNCHANGED <<status, carried, pc, running, ran>>
    BY DEF Act, WorldRan, all
  <1>5. ASSUME NEW x \in after
        PROVE  x = WorldRan \/ \E s \in Scene, v \in 0 .. 1 : \E k : Turns(WorldRan, x, s, v, k)
    <2>1. CASE a.scene = NoScene
      BY <2>1, <1>5
    <2>2. CASE a.scene # NoScene
      <3>1. a.scene \in Scene /\ a.value \in 0 .. 1
        BY <1>2, <2>2
      <3>2. x \in onSetSceneStatus(WorldRan, a.scene, a.value)
        BY <1>5, <2>2
      <3> HIDE DEF a
      <3> QED BY <1>3, <3>1, <3>2, SetTurns
    <2> QED BY <2>1, <2>2
  <1> HIDE DEF after
  <1>6. CASE \E x \in after : Becomes(x)
        /\ pc' = "drop" /\ running' = id /\ UNCHANGED j
    <2>1. PICK x \in after : Becomes(x)
      BY <1>6
    <2>2. Runs(x)
      BY <1>5, <1>6, <2>1 DEF Runs
    <2> QED BY <1>1, <2>2
  <1>7. CASE j' = j + 1 /\ UNCHANGED <<status, carried, pc, running, ran>>
    BY <1>1, <1>7
  <1> QED BY <1>4, <1>6, <1>7

LEMMA ActScene == SceneInv /\ Act => SceneInv'
  <1> SUFFICES ASSUME SceneInv, Act PROVE SceneInv'
    OBVIOUS
  <1>1. /\ pc = "action" /\ i \in DOMAIN carried /\ j \in 1 .. Len(carried[i].todo)
        /\ UNCHANGED <<known, i, last, altered, mixed>>
    BY ActFacts
  <1>2. HistoryOK'
    BY <1>1 DEF SceneInv, HistoryOK
  <1>3. ASSUME NEW x, Runs(x) PROVE SceneInv'
    <2>1. Consistent(WorldRan, altered, last) /\ WorldRan.list = carried
      BY <1>1, WorldRanFacts
    <2>2. Consistent(x, altered, last)
      BY <1>3, <2>1, TurnsConsistent DEF Runs
    <2>3. Consistent(World', altered, last)
      BY <1>3, <2>2, BecomesConsistent DEF Runs
    <2>4. DOMAIN carried \subseteq DOMAIN carried'
      BY <1>3, <2>1 DEF Runs, Becomes, Turns
    <2>5. running' \in [on : 0 .. 1, n : Nat]
      <3>1. carried[i].on \in 0 .. 1 /\ carried[i].todo \in Seq(Nat)
        BY <1>1, CarriedFacts
      <3>2. carried[i].todo[j] \in Nat
        BY <1>1, <3>1
      <3> QED BY <1>3, <3>1, <3>2 DEF Runs
    <2>6. ThreadOK'
      BY <1>1, <1>3, <2>4, <2>5 DEF Runs, SceneInv, ThreadOK
    <2> QED BY <1>1, <1>2, <2>3, <2>6 DEF SceneInv
  <1>4. CASE j' = j + 1 /\ UNCHANGED <<status, carried, pc, running, ran>>
    <2>1. Consistent(World', altered, last)
      BY <1>4, SameWorld
    <2>2. ThreadOK'
      BY <1>1, <1>4 DEF SceneInv, ThreadOK
    <2> QED BY <1>1, <1>2, <2>1, <2>2 DEF SceneInv
  <1> QED BY <1>3, <1>4, ActFacts

\* The entry leaves, and something may turn its scene again; or it stays.
FinishedTo(x) ==
  /\ x.status = status /\ x.ran = ran /\ x.list = RemoveAt(carried, i)
  /\ last' = Recorded(last, carried[i])

LEMMA FinishFacts ==
  ASSUME SceneInv, Finish
  PROVE  /\ pc = "action" /\ pc' = "entry" /\ i \in DOMAIN carried /\ i' \in {i, i + 1}
         /\ UNCHANGED <<known, j, running, altered, mixed>>
         /\ \/ \E x : FinishedTo(x) /\ Becomes(x)
            \/ \E x : /\ FinishedTo(x)
                      /\ \E y \in onSetSceneStatus(x, carried[i].scene, 0) : Becomes(y)
            \/ UNCHANGED <<status, carried, ran, last>>
  <1>1. pc = "action" /\ i \in DOMAIN carried
    BY DEF Finish, SceneInv, ThreadOK
  <1>2. /\ pc' = "entry" /\ i' \in {i, i + 1}
        /\ UNCHANGED <<known, j, running, altered, mixed>>
    BY DEF Finish
  <1> DEFINE e == carried[i]
             over == Leaves(e) /\ e.auto /\ e.add >= e.total /\ e.scene \in known
             x == [World EXCEPT !.list = Removed]
  <1>3. x.status = status /\ x.ran = ran /\ x.list = RemoveAt(carried, i)
    BY DEF World, Removed
  <1>4. CASE /\ Leaves(e) /\ ~e.auto
             /\ carried' = Removed /\ i' = i + 1
             /\ last' = [last EXCEPT ![e.scene] = e.on]
             /\ UNCHANGED <<status, ran>>
    <2>1. FinishedTo(x)
      BY <1>3, <1>4 DEF FinishedTo, Recorded
    <2>2. Becomes(x)
      BY <1>3, <1>4 DEF Becomes, Removed
    <2> HIDE DEF x
    <2> QED BY <1>1, <1>2, <2>1, <2>2
  <1>5. CASE /\ over
             /\ \E w \in onSetSceneStatus([World EXCEPT !.list = Removed], e.scene, 0) : Becomes(w)
             /\ last' = [last EXCEPT ![e.scene] = e.on]
             /\ UNCHANGED i
    <2>1. FinishedTo(x)
      BY <1>3, <1>5 DEF FinishedTo, Recorded
    <2>2. \E y \in onSetSceneStatus(x, carried[i].scene, 0) : Becomes(y)
      BY <1>5
    <2> HIDE DEF x
    <2> QED BY <1>1, <1>2, <2>1, <2>2
  <1>6. CASE /\ ~over /\ ~(Leaves(e) /\ ~e.auto)
             /\ i' = i + 1
             /\ UNCHANGED <<status, carried, ran, last>>
    BY <1>1, <1>2, <1>6
  <1> QED BY <1>4, <1>5, <1>6 DEF Finish

LEMMA FinishedRemoved ==
  ASSUME SceneInv, i \in DOMAIN carried, NEW x, FinishedTo(x)
  PROVE  /\ Consistent(x, altered, last') /\ last' \in [Scene -> 0 .. 1]
         /\ \A n \in DOMAIN x.list : \E m \in DOMAIN carried : x.list[n] = carried[m]
         /\ \A n \in DOMAIN x.list : x.list[n].scene # carried[i].scene
  <1>1. Consistent(World, altered, last) /\ last \in [Scene -> 0 .. 1]
    BY DEF SceneInv, HistoryOK
  <1>2. i \in DOMAIN World.list /\ Removes(World, x, i)
    BY WorldFields DEF FinishedTo, Removes
  <1>3. last' = Recorded(last, World.list[i])
    BY WorldFields DEF FinishedTo
  <1>4. /\ Consistent(x, altered, Recorded(last, World.list[i]))
        /\ \A n \in DOMAIN x.list : \E m \in DOMAIN World.list : x.list[n] = World.list[m]
        /\ \A n \in DOMAIN x.list : x.list[n].scene # World.list[i].scene
    BY <1>1, <1>2, RemovedConsistent
  <1>5. last' \in [Scene -> 0 .. 1]
    <2>1. carried[i].on \in 0 .. 1
      BY CarriedFacts
    <2> QED BY <1>1, <2>1 DEF FinishedTo, Recorded
  <1> QED BY <1>3, <1>4, <1>5, WorldFields

LEMMA FinishScene == SceneInv /\ Finish => SceneInv'
  <1> SUFFICES ASSUME SceneInv, Finish PROVE SceneInv'
    OBVIOUS
  <1>1. /\ pc = "action" /\ pc' = "entry" /\ i \in DOMAIN carried /\ i' \in {i, i + 1}
        /\ UNCHANGED <<known, j, running, altered, mixed>>
    BY FinishFacts
  <1>2. ThreadOK'
    BY <1>1 DEF SceneInv, ThreadOK
  <1>3. ASSUME NEW x, FinishedTo(x), Becomes(x)
        PROVE  Consistent(World', altered, last') /\ last' \in [Scene -> 0 .. 1]
    BY <1>1, <1>3, FinishedRemoved, BecomesConsistent
  <1>4. ASSUME NEW x, FinishedTo(x),
               NEW y \in onSetSceneStatus(x, carried[i].scene, 0), Becomes(y)
        PROVE  Consistent(World', altered, last') /\ last' \in [Scene -> 0 .. 1]
    <2>1. /\ Consistent(x, altered, last') /\ last' \in [Scene -> 0 .. 1]
          /\ carried[i].scene \in Scene
      BY <1>1, <1>4, FinishedRemoved, CarriedFacts
    <2>2. Consistent(y, altered, last')
      BY <2>1, SetConsistent
    <2> QED BY <1>4, <2>1, <2>2, BecomesConsistent
  <1>5. CASE UNCHANGED <<status, carried, ran, last>>
    <2>1. Consistent(World', altered, last)
      BY <1>5, SameWorld
    <2> QED BY <1>1, <1>2, <1>5, <2>1 DEF SceneInv, HistoryOK
  <1>6. CASE Consistent(World', altered, last') /\ last' \in [Scene -> 0 .. 1]
    BY <1>1, <1>2, <1>6 DEF SceneInv, HistoryOK
  <1> QED BY <1>3, <1>4, <1>5, <1>6, FinishFacts

LEMMA TriggerFacts ==
  ASSUME NEW s \in Scene, NEW v \in 0 .. 1, Trigger(s, v)
  PROVE  /\ UNCHANGED <<known, pc, i, j, running, last, altered>>
         /\ mixed' = IF carried' = carried THEN mixed
                     ELSE IF pc = "drop" /\ carried[i].scene = s /\ running.on = v
                       THEN mixed \cup {s} ELSE mixed \ {s}
  BY DEF Trigger, serial

\* x is what the world becomes when a thread turns a scene.
TriggeredTo(x, s, v) ==
  /\ Becomes(x) /\ Consistent(x, altered, last)
  /\ x = World \/ \E k : Turns(World, x, s, v, k)

LEMMA TriggerTurns ==
  ASSUME SceneInv, NEW s \in Scene, NEW v \in 0 .. 1, Trigger(s, v)
  PROVE  \E x : TriggeredTo(x, s, v)
  <1>1. PICK x \in onSetSceneStatus(World, s, v) : Becomes(x)
    BY DEF Trigger
  <1>2. Consistent(World, altered, last) /\ WorldOK(World)
    BY DEF SceneInv, Consistent
  <1>3. Consistent(x, altered, last)
    BY <1>2, SetConsistent
  <1>4. x = World \/ \E k : Turns(World, x, s, v, k)
    BY <1>2, SetTurns
  <1> QED BY <1>1, <1>3, <1>4 DEF TriggeredTo

LEMMA TriggerScene ==
  ASSUME NEW s \in Scene, NEW v \in 0 .. 1 PROVE SceneInv /\ Trigger(s, v) => SceneInv'
  <1> SUFFICES ASSUME SceneInv, Trigger(s, v) PROVE SceneInv'
    OBVIOUS
  <1>1. UNCHANGED <<known, pc, i, j, running, last, altered>> /\ mixed' \subseteq mixed \cup {s}
    BY TriggerFacts
  <1>2. PICK x : TriggeredTo(x, s, v)
    BY TriggerTurns
  <1>3. Consistent(World', altered, last)
    BY <1>2, BecomesConsistent DEF TriggeredTo
  <1>4. DOMAIN carried \subseteq DOMAIN carried'
    BY <1>2, WorldFields DEF TriggeredTo, Becomes, Turns
  <1> QED BY <1>1, <1>3, <1>4 DEF SceneInv, ThreadOK, HistoryOK

LEMMA AddSceneScene ==
  ASSUME NEW s \in Scene PROVE SceneInv /\ AddScene(s) => SceneInv'
  <1> SUFFICES ASSUME SceneInv, AddScene(s) PROVE SceneInv'
    OBVIOUS
  <1>1. /\ UNCHANGED <<carried, pc, i, j, running, ran, last, mixed>>
        /\ known' = known \cup {s} /\ altered' = altered \cup {s}
        /\ status' = [status EXCEPT ![s] = 1 - @]
    BY DEF AddScene, serial
  <1>2. ThreadOK' /\ HistoryOK'
    BY <1>1 DEF SceneInv, ThreadOK, HistoryOK
  <1>3. WorldOK(World) /\ InStep(World, altered) /\ Settled(World, altered, last)
    BY DEF SceneInv, Consistent
  <1>4. status' \in [Scene -> 0 .. 1] /\ \A u \in Scene \ {s} : status'[u] = status[u]
    <2>1. status \in [Scene -> 0 .. 1] /\ 1 - status[s] \in 0 .. 1
      BY CarriedFacts
    <2> QED BY <1>1, <2>1
  <1>5. WorldOK(World')
    BY <1>1, <1>3, <1>4, WorldFields, WorldFieldsAfter DEF WorldOK
  <1>6. \A k \in DOMAIN carried : carried[k].scene \in Scene
    BY CarriedFacts
  <1>7. InStep(World', altered') /\ Settled(World', altered', last)
    BY <1>1, <1>3, <1>4, <1>6, WorldFields, WorldFieldsAfter DEF InStep, Settled
  <1> QED BY <1>1, <1>2, <1>5, <1>7 DEF SceneInv, Consistent

LEMMA DeleteSceneScene ==
  ASSUME NEW s \in Scene PROVE SceneInv /\ DeleteScene(s) => SceneInv'
  <1> SUFFICES ASSUME SceneInv, DeleteScene(s) PROVE SceneInv'
    OBVIOUS
  <1>1. /\ UNCHANGED <<status, carried, pc, i, j, running, ran, last, altered, mixed>>
        /\ known' = known \ {s}
    BY DEF DeleteScene, serial, history
  <1>2. Consistent(World', altered, last)
    BY <1>1, SameWorld
  <1> QED BY <1>1, <1>2 DEF SceneInv, ThreadOK, HistoryOK

LEMMA SceneStep == SceneInv /\ [Next]_vars => SceneInv'
  <1> SUFFICES ASSUME SceneInv, [Next]_vars PROVE SceneInv'
    OBVIOUS
  <1>1. CASE Serial
    BY <1>1, IdleScene, VisitScene, ActScene, DropScene, FinishScene DEF Serial
  <1>2. ASSUME NEW s \in Scene, AddScene(s) PROVE SceneInv'
    BY <1>2, AddSceneScene
  <1>3. ASSUME NEW s \in Scene, DeleteScene(s) PROVE SceneInv'
    BY <1>3, DeleteSceneScene
  <1>4. ASSUME NEW s \in Scene, NEW v \in 0 .. 1, Trigger(s, v) PROVE SceneInv'
    BY <1>4, TriggerScene
  <1>5. CASE UNCHANGED vars
    <2>1. UNCHANGED <<known, status, carried, pc, i, j, running, ran, last, altered, mixed>>
      BY <1>5 DEF vars, serial, history
    <2>2. Consistent(World', altered, last)
      BY <2>1, SameWorld
    <2> QED BY <2>1, <2>2 DEF SceneInv, ThreadOK, HistoryOK
  <1> QED BY <1>1, <1>2, <1>3, <1>4, <1>5 DEF Next

-----------------------------------------------------------------------------
(* Each action once                                                        *)

\* The actions of a scene that is turned to v, and what of entry k is to be run.
ActionsOf(s, v) == DOMAIN Actions[<<s, v>>]
Pending(k) == IF pc = "drop" /\ k = i THEN Rests(carried[k]) ELSE carried[k].todo

OnceAt(e, r, t, mx) == e.scene \in mx \/ Parted(r[e.scene], t, ActionsOf(e.scene, e.on))

EachOnce == \A k \in DOMAIN carried : OnceAt(carried[k], ran, Pending(k), mixed)

LEMMA FreshParted ==
  ASSUME NEW D, NEW t, t = [n \in D |-> n] PROVE Parted(<<>>, t, D)
  <1>1. DOMAIN t = D /\ \A n \in D : t[n] = n
    OBVIOUS
  <1>2. DOMAIN <<>> = {}
    OBVIOUS
  <1> QED BY <1>1, <1>2 DEF Parted, IsInjective

\* Entry n of x, made from w by a turn of scene s at place k: the turned scene
\* starts afresh, and the others are not touched.
FreshOrKept(w, x, s, k, n, mx) ==
  \/ n = k /\ x.list[n].scene = s /\ OnceAt(x.list[n], x.ran, x.list[n].todo, mx)
  \/ /\ n # k /\ n \in DOMAIN w.list /\ x.list[n] = w.list[n]
     /\ w.list[n].scene # s /\ x.ran[w.list[n].scene] = w.ran[w.list[n].scene]

LEMMA TurnsOnce ==
  ASSUME NEW w, WorldOK(w), NEW s \in Scene, NEW v \in 0 .. 1, NEW x, NEW k,
         Turns(w, x, s, v, k), NEW mx, NEW n \in DOMAIN x.list
  PROVE  FreshOrKept(w, x, s, k, n, mx)
  <1>1. w.ran \in [Scene -> Seq(Nat)] /\ x.ran = [w.ran EXCEPT ![s] = <<>>]
    BY DEF WorldOK, Turns
  <1>2. CASE n = k
    <2>1. x.list[n].scene = s /\ x.list[n].on = v /\ x.ran[s] = <<>>
      BY <1>1, <1>2 DEF Turns
    <2>2. x.list[n].todo = [m \in ActionsOf(s, v) |-> m]
      BY <1>2 DEF Turns, ActionsOf
    <2>3. Parted(<<>>, x.list[n].todo, ActionsOf(s, v))
      BY <2>2, FreshParted
    <2> QED BY <1>2, <2>1, <2>3 DEF OnceAt, FreshOrKept
  <1>3. CASE n # k
    <2>1. n \in DOMAIN w.list /\ x.list[n] = w.list[n] /\ w.list[n].scene # s
      BY <1>3 DEF Turns
    <2>2. w.list[n].scene \in Scene
      <3>1. \A e \in EntrySet : e.scene \in Scene
        BY DEF EntrySet
      <3> QED BY <2>1, <3>1 DEF WorldOK, ListOK
    <2> QED BY <1>1, <1>3, <2>1, <2>2 DEF FreshOrKept
  <1> QED BY <1>2, <1>3

LEMMA SameOnce ==
  ASSUME EachOnce, UNCHANGED <<carried, ran, mixed>>,
         \/ pc # "drop" /\ pc' # "drop"
         \/ UNCHANGED <<pc, i, running>>
  PROVE  EachOnce'
  <1>1. ASSUME NEW k \in DOMAIN carried PROVE Pending(k)' = Pending(k)
    BY DEF Pending, Rests
  <1> QED BY <1>1 DEF EachOnce

LEMMA VisitOnce == SceneInv /\ EachOnce /\ Visit => EachOnce'
  <1> SUFFICES ASSUME SceneInv, EachOnce, Visit PROVE EachOnce'
    OBVIOUS
  <1>1. pc = "entry" /\ pc' = "action" /\ UNCHANGED <<ran, mixed>>
    BY DEF Visit, history
  <1>2. i \in DOMAIN carried /\ carried[i] \in EntrySet
    BY CarriedFacts DEF SceneInv, ThreadOK, Visit
  <1>3. DOMAIN carried' = DOMAIN carried
    BY DEF Visit
  <1>4. ASSUME NEW k \in DOMAIN carried
        PROVE  /\ carried'[k].scene = carried[k].scene /\ carried'[k].on = carried[k].on
               /\ carried'[k].todo = carried[k].todo
    <2>1. carried[k] \in EntrySet
      BY CarriedFacts
    <2> QED BY <2>1 DEF Visit, EntrySet
  <1>5. ASSUME NEW k \in DOMAIN carried
        PROVE  Pending(k) = carried[k].todo /\ Pending(k)' = carried[k].todo
    BY <1>1, <1>4 DEF Pending
  <1> QED BY <1>1, <1>3, <1>4, <1>5 DEF EachOnce, OnceAt

LEMMA DropOnce == SceneInv /\ EachOnce /\ Drop => EachOnce'
  <1> SUFFICES ASSUME SceneInv, EachOnce, Drop PROVE EachOnce'
    OBVIOUS
  <1> DEFINE e == [carried[i] EXCEPT !.todo = Rests(carried[i])]
  <1>1. pc = "drop" /\ pc' = "action" /\ UNCHANGED <<ran, mixed, i>>
    BY DEF Drop, history
  <1>2. /\ i \in DOMAIN carried /\ carried' = [carried EXCEPT ![i] = e]
        /\ carried[i] \in EntrySet /\ carried \in Seq(EntrySet)
    BY DropFacts, CarriedFacts
  <1>3. /\ e.scene = carried[i].scene /\ e.on = carried[i].on
        /\ e.todo = Rests(carried[i])
    BY <1>2 DEF EntrySet
  <1> HIDE DEF e
  <1>4. DOMAIN carried' = DOMAIN carried
    BY <1>2
  <1>5. ASSUME NEW k \in DOMAIN carried
        PROVE  /\ carried'[k].scene = carried[k].scene /\ carried'[k].on = carried[k].on
               /\ carried'[k].todo = Pending(k)
    <2>1. CASE k = i
      BY <1>1, <1>2, <1>3, <2>1 DEF Pending
    <2>2. CASE k # i
      BY <1>2, <2>2 DEF Pending
    <2> QED BY <2>1, <2>2
  <1>6. ASSUME NEW k \in DOMAIN carried PROVE Pending(k)' = Pending(k)
    BY <1>1, <1>5 DEF Pending
  <1> QED BY <1>1, <1>4, <1>5, <1>6 DEF EachOnce, OnceAt

\* What of an entry is left after an action.
Without(e, id) == IF e.on = id.on THEN RemoveFirst(e.todo, id.n) ELSE e.todo

\* The action that runs goes from the entry to what was run.
LEMMA RanOnce ==
  ASSUME SceneInv, EachOnce, pc = "action", i \in DOMAIN carried,
         j \in 1 .. Len(carried[i].todo), NEW k \in DOMAIN carried, NEW id,
         id = [on |-> carried[i].on, n |-> carried[i].todo[j]]
  PROVE  OnceAt(carried[k], WorldRan.ran,
                IF k = i THEN Without(carried[k], id) ELSE carried[k].todo, mixed)
  <1>1. /\ ran \in [Scene -> Seq(Nat)]
        /\ WorldRan.ran = [ran EXCEPT ![carried[i].scene] = Append(@, carried[i].todo[j])]
    BY CarriedFacts, WorldRanFacts
  <1>2. carried[i].scene \in Scene /\ carried[k].scene \in Scene
    BY CarriedFacts
  <1>3. OnceAt(carried[k], ran, carried[k].todo, mixed)
    BY DEF EachOnce, Pending
  <1>4. CASE k = i
    <2> DEFINE s == carried[i].scene
               t == carried[i].todo
               r == ran[s]
               D == ActionsOf(carried[i].scene, carried[i].on)
    <2>1. t \in Seq(Nat) /\ IsInjective(t) /\ j \in 1 .. Len(t) /\ r \in Seq(Nat)
      BY <1>1, <1>2, CarriedFacts
    <2>2. Without(carried[k], id) = RemoveFirst(t, t[j])
      BY <1>4 DEF Without
    <2>3. WorldRan.ran[s] = Append(r, t[j])
      BY <1>1, <1>2
    <2>4. s \in mixed \/ Parted(r, t, D)
      BY <1>3, <1>4 DEF OnceAt
    <2> HIDE DEF t, r, D
    <2>5. RemoveFirst(t, t[j]) = RemoveAt(t, j)
      BY <2>1, RemovedFirst
    <2>6. Parted(r, t, D) => Parted(Append(r, t[j]), RemoveAt(t, j), D)
      BY <2>1, PartedMoved
    <2> QED BY <1>4, <2>2, <2>3, <2>4, <2>5, <2>6 DEF OnceAt, D
  <1>5. CASE k # i
    <2>1. carried[k].scene # carried[i].scene
      BY <1>5, WorldFields DEF SceneInv, Consistent, WorldOK, ListOK
    <2>2. WorldRan.ran[carried[k].scene] = ran[carried[k].scene]
      BY <1>1, <1>2, <2>1
    <2> QED BY <1>3, <1>5, <2>2 DEF OnceAt
  <1> QED BY <1>4, <1>5

LEMMA ActOnce == SceneInv /\ EachOnce /\ Act => EachOnce'
  <1> SUFFICES ASSUME SceneInv, EachOnce, Act PROVE EachOnce'
    OBVIOUS
  <1>1. /\ pc = "action" /\ i \in DOMAIN carried /\ j \in 1 .. Len(carried[i].todo)
        /\ UNCHANGED <<known, i, last, altered, mixed>>
    BY ActFacts
  <1>2. CASE j' = j + 1 /\ UNCHANGED <<status, carried, pc, running, ran>>
    BY <1>1, <1>2, SameOnce
  <1>4. ASSUME NEW x, Runs(x), NEW n \in DOMAIN x.list
        PROVE  OnceAt(carried[n], ran, Pending(n), mixed)'
    <2> DEFINE id == [on |-> carried[i].on, n |-> carried[i].todo[j]]
    <2>1. /\ carried' = x.list /\ ran' = x.ran /\ pc' = "drop" /\ running' = id
          /\ i' = i /\ mixed' = mixed
      BY <1>1, <1>4 DEF Runs, Becomes
    <2> HIDE DEF id
    <2>2. Pending(n)' = IF n = i THEN Without(x.list[n], id) ELSE x.list[n].todo
      BY <2>1 DEF Pending, Rests, Without
    <2>3. \A k \in DOMAIN carried :
            OnceAt(carried[k], WorldRan.ran,
                   IF k = i THEN Without(carried[k], id) ELSE carried[k].todo, mixed)
      BY <1>1, RanOnce DEF id
    <2>4. WorldRan.list = carried /\ WorldOK(WorldRan)
      BY <1>1, WorldRanFacts DEF Consistent
    <2>5. CASE x = WorldRan
      BY <2>1, <2>2, <2>3, <2>4, <2>5, <1>4
    <2>6. ASSUME NEW s \in Scene, NEW v \in 0 .. 1, NEW k, Turns(WorldRan, x, s, v, k)
          PROVE  OnceAt(carried[n], ran, Pending(n), mixed)'
      <3>1. CASE /\ n = k /\ x.list[n].scene = s
                 /\ OnceAt(x.list[n], x.ran, x.list[n].todo, mixed)
        <4>1. n = i => Without(x.list[n], id) = x.list[n].todo
          <5>1. n = i => carried[i].on # v
            BY <1>1, <2>4, <2>6, <3>1 DEF Turns
          <5>2. x.list[n].on = v
            BY <2>6, <3>1 DEF Turns
          <5> QED BY <5>1, <5>2 DEF Without, id
        <4> QED BY <2>1, <2>2, <3>1, <4>1
      <3>2. CASE /\ n # k /\ n \in DOMAIN carried /\ x.list[n] = carried[n]
                 /\ x.ran[carried[n].scene] = WorldRan.ran[carried[n].scene]
        BY <2>1, <2>2, <2>3, <3>2 DEF OnceAt
      <3>3. \/ /\ n = k /\ x.list[n].scene = s
               /\ OnceAt(x.list[n], x.ran, x.list[n].todo, mixed)
            \/ /\ n # k /\ n \in DOMAIN WorldRan.list /\ x.list[n] = WorldRan.list[n]
               /\ WorldRan.list[n].scene # s
               /\ x.ran[WorldRan.list[n].scene] = WorldRan.ran[WorldRan.list[n].scene]
        <4>1. FreshOrKept(WorldRan, x, s, k, n, mixed)
          BY <1>4, <2>4, <2>6, TurnsOnce
        <4> QED BY <4>1 DEF FreshOrKept
      <3> QED BY <2>4, <3>1, <3>2, <3>3
    <2> QED BY <1>4, <2>5, <2>6 DEF Runs
  <1>5. ASSUME NEW x, Runs(x) PROVE EachOnce'
    <2>1. carried' = x.list
      BY <1>5 DEF Runs, Becomes
    <2> QED BY <1>4, <1>5, <2>1 DEF EachOnce
  <1> QED BY <1>2, <1>5, ActFacts

LEMMA FinishOnce == SceneInv /\ EachOnce /\ Finish => EachOnce'
  <1> SUFFICES ASSUME SceneInv, EachOnce, Finish PROVE EachOnce'
    OBVIOUS
  <1>1. /\ pc = "action" /\ pc' = "entry" /\ i \in DOMAIN carried
        /\ UNCHANGED <<known, j, running, altered, mixed>>
    BY FinishFacts
  <1>2. CASE UNCHANGED <<status, carried, ran, last>>
    BY <1>1, <1>2, SameOnce
  <1>3. ASSUME NEW x, FinishedTo(x), NEW n \in DOMAIN x.list
        PROVE  OnceAt(x.list[n], x.ran, x.list[n].todo, mixed)
    <2>1. PICK m \in DOMAIN carried : x.list[n] = carried[m]
      BY <1>1, <1>3, FinishedRemoved
    <2>2. OnceAt(carried[m], ran, carried[m].todo, mixed)
      BY <1>1 DEF EachOnce, Pending
    <2> QED BY <1>3, <2>1, <2>2 DEF FinishedTo
  <1>4. ASSUME NEW x, Becomes(x),
               \A n \in DOMAIN x.list : OnceAt(x.list[n], x.ran, x.list[n].todo, mixed)
        PROVE  EachOnce'
    <2>1. carried' = x.list /\ ran' = x.ran
      BY <1>4 DEF Becomes
    <2>2. ASSUME NEW n PROVE Pending(n)' = x.list[n].todo
      BY <1>1, <2>1 DEF Pending
    <2> QED BY <1>1, <1>4, <2>1, <2>2 DEF EachOnce
  <1>5. ASSUME NEW x, FinishedTo(x),
               NEW y \in onSetSceneStatus(x, carried[i].scene, 0), Becomes(y)
        PROVE  EachOnce'
    <2> DEFINE s == carried[i].scene
    <2>1. WorldOK(x) /\ s \in Scene
      BY <1>1, <1>5, FinishedRemoved, CarriedFacts DEF Consistent
    <2>2. y = x \/ \E k : Turns(x, y, s, 0, k)
      BY <1>5, <2>1, SetTurns
    <2> HIDE DEF s
    <2>3. ASSUME NEW k, Turns(x, y, s, 0, k), NEW n \in DOMAIN y.list
          PROVE  OnceAt(y.list[n], y.ran, y.list[n].todo, mixed)
      <3>1. \/ /\ n = k /\ y.list[n].scene = s
               /\ OnceAt(y.list[n], y.ran, y.list[n].todo, mixed)
            \/ /\ n # k /\ n \in DOMAIN x.list /\ y.list[n] = x.list[n]
               /\ x.list[n].scene # s
               /\ y.ran[x.list[n].scene] = x.ran[x.list[n].scene]
        <4>1. FreshOrKept(x, y, s, k, n, mixed)
          BY <2>1, <2>3, TurnsOnce
        <4> QED BY <4>1 DEF FreshOrKept
      <3> QED BY <1>3, <1>5, <3>1 DEF OnceAt
    <2>4. \A n \in DOMAIN y.list : OnceAt(y.list[n], y.ran, y.list[n].todo, mixed)
      BY <1>3, <1>5, <2>2, <2>3
    <2> QED BY <1>4, <1>5, <2>4
  <1> QED BY <1>2, <1>3, <1>4, <1>5, FinishFacts

\* A scene that is turned between an action of it and the action's removal is
\* excepted if the removal applies to the new actions.
LEMMA TriggerOnce ==
  ASSUME NEW s \in Scene, NEW v \in 0 .. 1
  PROVE  SceneInv /\ EachOnce /\ Trigger(s, v) => EachOnce'
  <1> SUFFICES ASSUME SceneInv, EachOnce, Trigger(s, v) PROVE EachOnce'
    OBVIOUS
  <1>1. UNCHANGED <<pc, i, running>>
    BY TriggerFacts
  <1>2. mixed' = IF carried' = carried THEN mixed
                ELSE IF pc = "drop" /\ carried[i].scene = s /\ running.on = v
                  THEN mixed \cup {s} ELSE mixed \ {s}
    BY TriggerFacts
  <1>3. PICK x : TriggeredTo(x, s, v)
    BY TriggerTurns
  <1>4. carried' = x.list /\ ran' = x.ran
    BY <1>3 DEF TriggeredTo, Becomes
  <1>5. CASE x = World
    <2>1. carried' = carried /\ ran' = ran
      BY <1>4, <1>5, WorldFields
    <2>2. mixed' = mixed
      BY <1>2, <2>1
    <2> QED BY <1>1, <2>1, <2>2, SameOnce
  <1>6. ASSUME NEW k, Turns(World, x, s, v, k) PROVE EachOnce'
    <2>1. carried' # carried
      BY <1>4, <1>6, WorldFields DEF Turns
    <2>2. mixed' = IF pc = "drop" /\ carried[i].scene = s /\ running.on = v
                     THEN mixed \cup {s} ELSE mixed \ {s}
      BY <1>2, <2>1
    <2>3. ASSUME NEW n \in DOMAIN x.list PROVE OnceAt(carried[n], ran, Pending(n), mixed)'
      <3>1. \/ /\ n = k /\ x.list[n].scene = s
               /\ OnceAt(x.list[n], x.ran, x.list[n].todo, mixed')
            \/ /\ n # k /\ n \in DOMAIN carried /\ x.list[n] = carried[n]
               /\ carried[n].scene # s /\ x.ran[carried[n].scene] = ran[carried[n].scene]
        <4>1. WorldOK(World)
          BY DEF SceneInv, Consistent
        <4>2. ASSUME NEW mx PROVE FreshOrKept(World, x, s, k, n, mx)
          BY <1>6, <4>1, TurnsOnce
        <4>3. World.list = carried /\ World.ran = ran
          BY WorldFields
        <4>4. FreshOrKept(World, x, s, k, n, mixed')
          BY <4>2
        <4> QED BY <4>3, <4>4 DEF FreshOrKept
      <3>2. CASE /\ n # k /\ n \in DOMAIN carried /\ x.list[n] = carried[n]
                 /\ carried[n].scene # s /\ x.ran[carried[n].scene] = ran[carried[n].scene]
        <4>1. Pending(n)' = Pending(n)
          BY <1>1, <1>4, <3>2 DEF Pending, Rests
        <4>2. OnceAt(carried[n], ran, Pending(n), mixed)
          BY <3>2 DEF EachOnce
        <4> QED BY <1>4, <2>2, <3>2, <4>1, <4>2 DEF OnceAt
      <3>3. CASE /\ n = k /\ x.list[n].scene = s
                 /\ OnceAt(x.list[n], x.ran, x.list[n].todo, mixed')
        <4>1. CASE s \in mixed'
          BY <1>4, <3>3, <4>1 DEF OnceAt
        <4>2. CASE s \notin mixed'
          <5>1. x.list[n].on = v /\ (k \in DOMAIN carried => carried[k].scene = s)
            BY <1>6, <3>3, WorldFields DEF Turns
          <5>2. pc = "drop" /\ n = i => running.on # v
            <6>1. pc = "drop" => i \in DOMAIN carried
              BY DEF SceneInv, ThreadOK
            <6> QED BY <2>2, <3>3, <4>2, <5>1, <6>1
          <5>3. Pending(n)' = x.list[n].todo
            BY <1>1, <1>4, <5>1, <5>2 DEF Pending, Rests
          <5> QED BY <1>4, <3>3, <5>3
        <4> QED BY <4>1, <4>2
      <3> QED BY <3>1, <3>2, <3>3
    <2> QED BY <1>4, <2>3 DEF EachOnce
  <1> QED BY <1>3, <1>5, <1>6 DEF TriggeredTo

LEMMA OnceStep == SceneInv /\ EachOnce /\ [Next]_vars => EachOnce'
  <1> SUFFICES ASSUME SceneInv, EachOnce, [Next]_vars PROVE EachOnce'
    OBVIOUS
  <1>1. CASE Begin \/ Rest
    BY <1>1, SameOnce DEF Begin, Rest, history
  <1>2. CASE Visit \/ Act \/ Drop \/ Finish
    BY <1>2, VisitOnce, ActOnce, DropOnce, FinishOnce
  <1>3. ASSUME NEW s \in Scene, AddScene(s) \/ DeleteScene(s) PROVE EachOnce'
    BY <1>3, SameOnce DEF AddScene, DeleteScene, serial, history
  <1>4. ASSUME NEW s \in Scene, NEW v \in 0 .. 1, Trigger(s, v) PROVE EachOnce'
    BY <1>4, TriggerOnce
  <1>5. CASE UNCHANGED vars
    BY <1>5, SameOnce DEF vars, serial, history
  <1> QED BY <1>1, <1>2, <1>3, <1>4, <1>5 DEF Next, Serial

-----------------------------------------------------------------------------
(* Theorems                                                                *)

LEMMA SceneAlways == Spec => [](SceneInv /\ EachOnce)
  <1>1. Init => SceneInv /\ EachOnce
    <2>1. Init => EachOnce
      BY DEF Init, EachOnce
    <2> QED BY <2>1, SceneInit
  <1>2. SceneInv /\ EachOnce /\ [Next]_vars => (SceneInv /\ EachOnce)'
    BY SceneStep, OnceStep
  <1> QED BY <1>1, <1>2, PTL DEF Spec

LEMMA SceneTypes == SceneInv => TypeOK
  <1> SUFFICES ASSUME SceneInv PROVE TypeOK
    OBVIOUS
  <1>1. ASSUME NEW k \in DOMAIN carried
        PROVE  LET e == carried[k] IN
                 /\ e.scene \in Scene /\ e.on \in 0 .. 1 /\ e.add \in 0 .. MaxTime
                 /\ Range(e.todo) \subseteq DOMAIN Actions[<<e.scene, e.on>>]
    BY CarriedFacts
  <1>2. status \in [Scene -> 0 .. 1]
    BY CarriedFacts
  <1> QED BY <1>1, <1>2 DEF TypeOK, SceneInv, ThreadOK, HistoryOK

\* Types are right, and a scene that is not being carried out is what it was
\* last carried out to be, unless a download changed its status.
THEOREM ScenesSettle == Spec => []SettledAsCarriedOut
  <1>1. SceneInv => SettledAsCarriedOut
    <2> SUFFICES ASSUME SceneInv PROVE SettledAsCarriedOut
      OBVIOUS
    <2>1. TypeOK
      BY SceneTypes
    <2>2. Settled(World, altered, last) /\ known \subseteq Scene
      BY DEF SceneInv, Consistent, HistoryOK
    <2> QED BY <2>1, <2>2, WorldFields DEF SettledAsCarriedOut, Settled
  <1> QED BY <1>1, SceneAlways, PTL

\* Each action of a scene in the list was run since the scene was turned or is
\* still to be run, and once, though actions turn scenes of the list.
THEOREM ActionsRunOnce == Spec => []EachActionOnce
  <1>1. SceneInv /\ EachOnce => EachActionOnce
    <2> SUFFICES ASSUME SceneInv, EachOnce, NEW k \in DOMAIN carried,
                        carried[k].scene \notin mixed, ~ (pc = "drop" /\ k = i)
                 PROVE  LET e == carried[k] IN
                          /\ IsInjective(ran[e.scene] \o e.todo)
                          /\ Range(ran[e.scene] \o e.todo) = DOMAIN Actions[<<e.scene, e.on>>]
      BY DEF EachActionOnce
    <2>1. Parted(ran[carried[k].scene], carried[k].todo,
                 DOMAIN Actions[<<carried[k].scene, carried[k].on>>])
      BY DEF EachOnce, OnceAt, Pending, ActionsOf
    <2>2. ran[carried[k].scene] \in Seq(Nat) /\ carried[k].todo \in Seq(Nat)
      <3>1. ran \in [Scene -> Seq(Nat)] /\ carried[k].scene \in Scene
        BY CarriedFacts
      <3> QED BY <3>1, CarriedFacts
    <2> QED BY <2>1, <2>2, PartedOnce
  <1> QED BY <1>1, SceneAlways, PTL
=============================================================================
