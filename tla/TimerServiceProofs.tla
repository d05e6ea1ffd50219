------------------------- MODULE TimerServiceProofs -------------------------
(* What the timer thread guarantees for any timers, periods and numbers of *)
(* operations of the other threads: the handler of a one-shot timer runs   *)
(* once for each start, and no handler before its time.  The first counts  *)
(* where a start has gone: into the list, to the handler being called, or   *)
(* taken back.  The second weighs what a timer has still to be charged, in  *)
(* this turn and from the clock, against what is left of its time.  Then    *)
(* what the handler that keeps screens up to date guarantees for any        *)
(* endpoints and whatever the radio loses.                                  *)
EXTENDS MCDeviceEvents, TLAPS, FiniteSetTheorems, WellFoundedInduction

Elem == [id : Timer, value : Nat \ {0}, repeat : Nat]

\* TypeOK is about the list and about the rest.
ListOK(list) ==
  /\ list \in Seq(Elem)
  /\ \A m, n \in DOMAIN list : list[m].id = list[n].id => m = n
  /\ \A n \in DOMAIN list :
       list[n].repeat = IF list[n].id \in Repeating THEN Period[list[n].id] ELSE 0

RestOK ==
  /\ created \in BOOLEAN /\ dropped \subseteq Timer /\ (timers # <<>> => created)
  /\ i \in Nat \ {0} /\ charge \in 0 .. Sec /\ call \in Timer \cup {None}
  /\ call # None => charge > 0
  /\ slept \in BOOLEAN /\ since \in 0 .. MaxStall
  /\ left \in [Timer -> Nat] /\ grace \in [Timer -> Nat] /\ owed \in [Timer -> Int]
  /\ ops \in 0 .. MaxOps

LEMMA TypeParts == TypeOK <=> ListOK(timers) /\ RestOK
  BY DEF TypeOK, ListOK, RestOK, Elem

-----------------------------------------------------------------------------
(* The operations on the list                                              *)

LEMMA EntryType ==
  ASSUME NEW t \in Timer
  PROVE  /\ Entry(t) \in Elem /\ Entry(t).id = t /\ Entry(t).value = Period[t]
         /\ Entry(t).repeat = IF t \in Repeating THEN Period[t] ELSE 0
         /\ Period[t] \in Nat \ {0}
  <1>1. Period[t] \in Nat \ {0}
    BY TimerAssumption
  <1> QED BY <1>1 DEF Entry, Elem

LEMMA SearchFacts ==
  ASSUME ListOK(timers), NEW n \in DOMAIN timers
  PROVE  Search(timers[n].id) = n
  <1>1. Search(timers[n].id) \in DOMAIN timers
        /\ timers[Search(timers[n].id)].id = timers[n].id
    BY DEF Search
  <1> QED BY <1>1 DEF ListOK

LEMMA ConcatRight ==
  ASSUME NEW M, NEW l \in Seq(M), NEW r \in Seq(M),
         NEW n \in 1 .. (Len(l) + Len(r)), n > Len(l)
  PROVE  (l \o r)[n] = r[n - Len(l)]
  OBVIOUS

LEMMA RemovedAt ==
  ASSUME NEW M, NEW s \in Seq(M), NEW k \in 1 .. Len(s)
  PROVE  /\ RemoveAt(s, k) \in Seq(M) /\ DOMAIN RemoveAt(s, k) = 1 .. (Len(s) - 1)
         /\ \A n \in 1 .. (Len(s) - 1) :
              RemoveAt(s, k)[n] = IF n < k THEN s[n] ELSE s[n + 1]
  <1> DEFINE before == SubSeq(s, 1, k - 1)
             after == SubSeq(s, k + 1, Len(s))
  <1>1. /\ before \in Seq(M) /\ Len(before) = k - 1
        /\ \A n \in 1 .. (k - 1) : before[n] = s[n]
    OBVIOUS
  <1>2. /\ after \in Seq(M) /\ Len(after) = Len(s) - k
        /\ \A n \in 1 .. (Len(s) - k) : after[n] = s[k + n]
    OBVIOUS
  <1>3. RemoveAt(s, k) = before \o after
    BY DEF RemoveAt
  <1> HIDE DEF before, after
  <1>4. before \o after \in Seq(M) /\ DOMAIN (before \o after) = 1 .. (Len(s) - 1)
    BY <1>1, <1>2
  <1>5. ASSUME NEW n \in 1 .. (Len(s) - 1)
        PROVE  (before \o after)[n] = IF n < k THEN s[n] ELSE s[n + 1]
    <2>1. CASE n < k
      BY <1>1, <1>2, <2>1
    <2>2. CASE ~ (n < k)
      <3>1. n \in 1 .. (Len(before) + Len(after)) /\ n > Len(before)
        BY <1>1, <1>2, <2>2
      <3>2. (before \o after)[n] = after[n - (k - 1)]
        BY <1>1, <1>2, <3>1, ConcatRight
      <3>3. n - (k - 1) \in 1 .. (Len(s) - k) /\ k + (n - (k - 1)) = n + 1
        BY <2>2
      <3> QED BY <1>2, <2>2, <3>2, <3>3
    <2> QED BY <2>1, <2>2
  <1> QED BY <1>3, <1>4, <1>5

\* The entries after the one that is removed move up by one.
LEMMA WithoutFacts ==
  ASSUME ListOK(timers), NEW k \in DOMAIN timers
  PROVE  LET rest == Without(timers[k].id) IN
         /\ ListOK(rest) /\ DOMAIN rest = 1 .. (Len(timers) - 1)
         /\ \A n \in DOMAIN rest :
              rest[n] = IF n < k THEN timers[n] ELSE timers[n + 1]
         /\ \A n \in DOMAIN rest : rest[n].id # timers[k].id
         /\ \A n \in DOMAIN timers : n # k =>
              \E m \in DOMAIN rest : rest[m] = timers[n]
  <1> DEFINE rest == Without(timers[k].id)
  <1>1. timers \in Seq(Elem) /\ k \in 1 .. Len(timers)
    BY DEF ListOK
  <1>2. rest = RemoveAt(timers, k)
    BY SearchFacts DEF Without, Armed
  <1> HIDE DEF rest
  <1>3. /\ rest \in Seq(Elem) /\ DOMAIN rest = 1 .. (Len(timers) - 1)
        /\ \A n \in 1 .. (Len(timers) - 1) :
             rest[n] = IF n < k THEN timers[n] ELSE timers[n + 1]
    BY <1>1, <1>2, RemovedAt
  <1>4. ListOK(rest) /\ \A n \in DOMAIN rest : rest[n].id # timers[k].id
    <2> DEFINE was(n) == IF n < k THEN n ELSE n + 1
    <2>1. ASSUME NEW n \in DOMAIN rest
          PROVE  was(n) \in DOMAIN timers /\ was(n) # k /\ rest[n] = timers[was(n)]
      BY <1>1, <1>3
    <2>2. ASSUME NEW m \in DOMAIN rest, NEW n \in DOMAIN rest, was(m) = was(n)
          PROVE  m = n
      BY <1>3, <2>2
    <2> HIDE DEF was
    <2>3. \A m, n \in DOMAIN timers : timers[m].id = timers[n].id => m = n
      BY DEF ListOK
    <2>4. \A m, n \in DOMAIN rest : rest[m].id = rest[n].id => m = n
      BY <2>1, <2>2, <2>3
    <2>5. \A n \in DOMAIN rest :
            rest[n].repeat = IF rest[n].id \in Repeating THEN Period[rest[n].id] ELSE 0
      BY <2>1 DEF ListOK
    <2>6. \A n \in DOMAIN rest : rest[n].id # timers[k].id
      BY <1>1, <2>1, <2>3
    <2>7. rest \in Seq(Elem)
      BY <1>3
    <2>8. ListOK(rest)
      BY <2>4, <2>5, <2>7 DEF ListOK
    <2> QED BY <2>6, <2>8
  <1>5. ASSUME NEW n \in DOMAIN timers, n # k
        PROVE  \E m \in DOMAIN rest : rest[m] = timers[n]
    <2>1. CASE n < k
      <3>1. n \in DOMAIN rest /\ rest[n] = timers[n]
        BY <1>1, <1>3, <2>1
      <3> QED BY <3>1
    <2>2. CASE n > k
      <3>1. n - 1 \in 1 .. (Len(timers) - 1) /\ ~ (n - 1 < k) /\ (n - 1) + 1 = n
        BY <1>1, <2>2
      <3>2. n - 1 \in DOMAIN rest /\ rest[n - 1] = timers[n]
        BY <1>3, <3>1
      <3> QED BY <3>2
    <2> QED BY <1>1, <1>5, <2>1, <2>2
  <1> QED BY <1>3, <1>4, <1>5 DEF rest

LEMMA RestartedFacts ==
  ASSUME ListOK(timers), NEW t \in Timer
  PROVE  /\ ListOK(Restarted(t)) /\ DOMAIN Restarted(t) = DOMAIN timers
         /\ \A n \in DOMAIN timers :
              /\ Restarted(t)[n].id = timers[n].id
              /\ timers[n].id # t => Restarted(t)[n] = timers[n]
              /\ timers[n].id = t => Restarted(t)[n].value = Period[t]
  <1>1. Entry(t) \in Elem /\ timers \in Seq(Elem)
    BY EntryType DEF ListOK
  <1>2. Restarted(t) \in Seq(Elem) /\ DOMAIN Restarted(t) = DOMAIN timers
    BY <1>1 DEF Restarted
  <1>3. \A n \in DOMAIN timers :
          Restarted(t)[n] = IF timers[n].id = t THEN Entry(t) ELSE timers[n]
    BY DEF Restarted
  <1> QED BY <1>2, <1>3, EntryType DEF ListOK

LEMMA AppendFacts ==
  ASSUME ListOK(timers), NEW t \in Timer, ~ Armed(t)
  PROVE  LET more == Append(timers, Entry(t)) IN
         /\ ListOK(more) /\ DOMAIN more = 1 .. (Len(timers) + 1)
         /\ DOMAIN timers = 1 .. Len(timers)
         /\ \A n \in DOMAIN timers : more[n] = timers[n]
         /\ more[Len(timers) + 1] = Entry(t) /\ more # <<>>
  <1> DEFINE more == Append(timers, Entry(t))
  <1>1. Entry(t) \in Elem /\ timers \in Seq(Elem) /\ DOMAIN timers = 1 .. Len(timers)
    BY EntryType DEF ListOK
  <1>2. /\ more \in Seq(Elem) /\ DOMAIN more = 1 .. (Len(timers) + 1)
        /\ \A n \in DOMAIN timers : more[n] = timers[n]
        /\ more[Len(timers) + 1] = Entry(t) /\ more # <<>>
    BY <1>1
  <1> HIDE DEF more
  <1>3. \A n \in DOMAIN timers : timers[n].id # t
    BY DEF Armed
  <1>4. ListOK(more)
    BY <1>1, <1>2, <1>3, EntryType DEF ListOK
  <1> QED BY <1>1, <1>2, <1>4 DEF more

\* What a turn takes from an entry that is not due.
LEMMA ChargedFacts ==
  ASSUME ListOK(timers), NEW k \in DOMAIN timers, NEW v \in Nat \ {0}
  PROVE  LET less == [timers EXCEPT ![k].value = v] IN
         /\ ListOK(less) /\ DOMAIN less = DOMAIN timers
         /\ \A n \in DOMAIN timers :
              /\ less[n].id = timers[n].id
              /\ n # k => less[n] = timers[n]
         /\ less[k].value = v
  <1> DEFINE less == [timers EXCEPT ![k].value = v]
             e == [timers[k] EXCEPT !.value = v]
  <1>1. timers \in Seq(Elem) /\ timers[k] \in Elem
    BY DEF ListOK
  <1>2. e \in Elem /\ e.id = timers[k].id /\ e.value = v /\ e.repeat = timers[k].repeat
    BY <1>1 DEF Elem
  <1>3. less = [timers EXCEPT ![k] = e]
    OBVIOUS
  <1> HIDE DEF less, e
  <1>4. /\ less \in Seq(Elem) /\ DOMAIN less = DOMAIN timers
        /\ \A n \in DOMAIN timers : less[n] = IF n = k THEN e ELSE timers[n]
    BY <1>1, <1>2, <1>3
  <1>5. ListOK(less)
    BY <1>2, <1>4 DEF ListOK
  <1> QED BY <1>2, <1>4, <1>5 DEF less

-----------------------------------------------------------------------------
(* Types                                                                   *)

LEMMA ElapsedType ==
  ASSUME NEW s \in Nat, NEW e \in Elapsed(s)
  PROVE  e \in 0 .. Sec /\ (s >= 1 => e <= s)
  <1>1. Sec \in Nat /\ Sec > 1
    BY TimerAssumption
  <1>2. s % Sec \in 0 .. (Sec - 1) /\ s % Sec <= s
    BY <1>1
  <1>3. s % Sec = 0 /\ s >= 1 => s >= Sec
    BY <1>1
  <1> QED BY <1>1, <1>2, <1>3 DEF Elapsed

LEMMA OweType ==
  ASSUME owed \in [Timer -> Int], NEW t \in Timer, NEW n \in Int
  PROVE  /\ Owe(t, n) \in [Timer -> Int]
         /\ \A u \in Timer :
              Owe(t, n)[u] = IF u = t /\ t \notin Repeating THEN owed[u] + n ELSE owed[u]
  BY DEF Owe

LEMMA BoundsType ==
  MaxStall \in Nat /\ Sec \in Nat /\ 1 < Sec /\ MaxOps \in Nat
  BY TimerAssumption

LEMMA TypeInit == Init => TypeOK
  <1> SUFFICES ASSUME Init PROVE TypeOK
    OBVIOUS
  <1>1. <<>> \in Seq(Elem)
    OBVIOUS
  <1>2. ListOK(timers)
    BY <1>1 DEF Init, ListOK
  <1>3. RestOK
    <2>1. created \in BOOLEAN /\ slept \in BOOLEAN
      BY DEF Init
    <2>2. charge \in 0 .. Sec /\ since \in 0 .. MaxStall /\ ops \in 0 .. MaxOps
      BY BoundsType DEF Init
    <2> QED BY <2>1, <2>2 DEF Init, RestOK
  <1> QED BY <1>2, <1>3, TypeParts

\* What the walk does to the list and to the call.
LEMMA VisitType == TypeOK /\ Visit => TypeOK'
  <1> SUFFICES ASSUME TypeOK, Visit PROVE ListOK(timers') /\ RestOK'
    BY DEF TypeOK, ListOK, RestOK, Elem
  <1>1. ListOK(timers) /\ RestOK
    BY TypeParts
  <1>2. i \in DOMAIN timers /\ timers[i] \in Elem /\ timers # <<>> /\ charge \in Nat
    BY <1>1 DEF ListOK, RestOK, Visit
  <1>3. CASE timers[i].value > charge
    <2>1. timers[i].value - charge \in Nat \ {0}
      BY <1>2, <1>3 DEF Elem
    <2>2. ListOK([timers EXCEPT ![i].value = timers[i].value - charge])
      BY <1>1, <1>2, <2>1, ChargedFacts
    <2>3. /\ timers' = [timers EXCEPT ![i].value = timers[i].value - charge]
          /\ i' = i + 1 /\ UNCHANGED <<call, left, grace>>
      BY <1>2, <1>3 DEF Visit, Elem
    <2> QED BY <1>1, <1>2, <2>2, <2>3 DEF Visit, RestOK
  <1>4. CASE timers[i].value <= charge
    <2>1. /\ call' = timers[i].id /\ i' = i
          /\ timers' = IF timers[i].repeat > 0
                       THEN [timers EXCEPT ![i].value = timers[i].repeat]
                       ELSE Without(timers[i].id)
          /\ left' = [left EXCEPT ![timers[i].id] = timers[i].repeat]
          /\ grace' = [grace EXCEPT ![timers[i].id] =
                         IF timers[i].repeat > 0 THEN since ELSE 0]
      BY <1>2, <1>4 DEF Visit, Elem
    <2>2. ListOK(timers')
      BY <1>1, <1>2, <2>1, ChargedFacts, WithoutFacts DEF Elem
    <2>3. left' \in [Timer -> Nat] /\ grace' \in [Timer -> Nat]
      BY <1>1, <1>2, <2>1, TimerAssumption DEF RestOK, Elem
    <2> QED BY <1>1, <1>2, <2>1, <2>2, <2>3 DEF Visit, RestOK, Elem
  <1> QED BY <1>1, <1>2, <1>3, <1>4 DEF Elem

LEMMA HandlerType == TypeOK /\ RunHandler => TypeOK'
  <1> SUFFICES ASSUME TypeOK, RunHandler PROVE ListOK(timers') /\ RestOK'
    BY DEF TypeOK, ListOK, RestOK, Elem
  <1>1. ListOK(timers) /\ RestOK /\ call \in Timer
    BY TypeParts DEF RestOK, RunHandler
  <1>2. timers' = timers \/ (timers' = Without(call) /\ Armed(call))
    BY DEF RunHandler, Without
  <1>3. ListOK(timers') /\ (timers' # <<>> => timers # <<>>)
    <2>1. ASSUME timers' = Without(call), NEW k \in DOMAIN timers, timers[k].id = call
          PROVE  ListOK(timers') /\ timers # <<>>
      <3>1. ListOK(timers')
        BY <1>1, <2>1, WithoutFacts
      <3> QED BY <1>1, <2>1, <3>1 DEF ListOK
    <2> QED BY <1>1, <1>2, <2>1 DEF Armed
  <1>4. owed' \in [Timer -> Int]
    BY <1>1, OweType DEF RunHandler, RestOK
  <1> QED BY <1>1, <1>3, <1>4 DEF RunHandler, RestOK

LEMMA StartType ==
  ASSUME RestOK, NEW t \in Timer, Start(t)
  PROVE  /\ left' \in [Timer -> Nat] /\ grace' \in [Timer -> Nat]
         /\ left'[t] = Period[t] /\ grace'[t] = since + charge
         /\ \A u \in Timer : u # t => left'[u] = left[u] /\ grace'[u] = grace[u]
  <1>1. Period[t] \in Nat /\ since + charge \in Nat
    BY EntryType, BoundsType DEF RestOK
  <1> QED BY <1>1 DEF Start, RestOK

LEMMA OthersType == TypeOK /\ Others => TypeOK'
  <1> SUFFICES ASSUME TypeOK, Others PROVE ListOK(timers') /\ RestOK'
    BY DEF TypeOK, ListOK, RestOK, Elem
  <1>1. ListOK(timers) /\ RestOK /\ UNCHANGED <<created, walk>> /\ ops' \in 0 .. MaxOps
    BY TypeParts, TimerAssumption DEF Others, RestOK
  <1>2. SUFFICES ASSUME NEW t \in Timer,
                        \/ onTimerAddEarly(t) \/ onTimerAdd(t)
                        \/ onTimerUpdate(t) \/ onTimerDelete(t)
                 PROVE  /\ ListOK(timers') /\ (timers' # <<>> => created)
                        /\ dropped' \subseteq Timer /\ owed' \in [Timer -> Int]
                        /\ left' \in [Timer -> Nat] /\ grace' \in [Timer -> Nat]
    BY <1>1 DEF Others, RestOK, walk
  <1>3. CASE onTimerAddEarly(t)
    BY <1>1, <1>3 DEF onTimerAddEarly, RestOK
  <1>4. CASE onTimerAdd(t)
    <2>1. ListOK(timers')
      BY <1>1, <1>4, RestartedFacts, AppendFacts DEF onTimerAdd
    <2>2. owed' \in [Timer -> Int]
      <3>1. Owe(t, 1) \in [Timer -> Int]
        BY <1>1, OweType DEF RestOK
      <3> QED BY <1>1, <1>4, <3>1 DEF onTimerAdd, RestOK
    <2> QED BY <1>1, <1>4, <2>1, <2>2, StartType DEF onTimerAdd, RestOK
  <1>5. CASE onTimerUpdate(t)
    <2>1. ListOK(timers')
      BY <1>1, <1>5, RestartedFacts DEF onTimerUpdate
    <2>2. timers # <<>>
      BY <1>5 DEF onTimerUpdate, Armed
    <2> QED BY <1>1, <1>5, <2>1, <2>2, StartType DEF onTimerUpdate, RestOK
  <1>6. CASE onTimerDelete(t)
    <2>1. PICK k \in DOMAIN timers : timers[k].id = t
      BY <1>6 DEF onTimerDelete, Armed
    <2>2. ListOK(timers') /\ timers # <<>>
      BY <1>1, <1>6, <2>1, WithoutFacts DEF onTimerDelete
    <2>3. owed' \in [Timer -> Int]
      BY <1>1, <1>6, OweType DEF onTimerDelete, RestOK
    <2> QED BY <1>1, <1>6, <2>2, <2>3 DEF onTimerDelete, RestOK
  <1> QED BY <1>2, <1>3, <1>4, <1>5, <1>6

LEMMA TypeStep == TypeOK /\ [Next]_vars => TypeOK'
  <1> SUFFICES ASSUME TypeOK, [Next]_vars PROVE TypeOK'
    OBVIOUS
  <1>1. ListOK(timers) /\ RestOK
    BY TypeParts
  <1>2. CASE Pass \/ Create \/ Wake \/ EndTurn \/ UNCHANGED vars
    <2>1. UNCHANGED timers /\ RestOK'
      <3>1. CASE Pass
        BY <1>1, <3>1, TimerAssumption DEF Pass, RestOK
      <3>2. CASE Wake
        <4>1. charge' \in 0 .. Sec /\ since' \in 0 .. MaxStall
          BY <1>1, <3>2, ElapsedType, BoundsType DEF Wake, RestOK
        <4>2. created' \in BOOLEAN /\ slept' \in BOOLEAN
          BY <1>1, <3>2 DEF Wake, RestOK
        <4>3. call' = None
          BY <1>1, <3>2 DEF Wake, RestOK
        <4> QED BY <1>1, <3>2, <4>1, <4>2, <4>3 DEF Wake, RestOK
      <3>3. CASE Create \/ EndTurn \/ UNCHANGED vars
        <4>1. created' \in BOOLEAN /\ slept' \in BOOLEAN /\ (created => created')
          BY <1>1, <3>3 DEF Create, EndTurn, vars, walk, RestOK
        <4>2. charge' \in 0 .. Sec /\ i' \in Nat \ {0} /\ (call' # None => charge' > 0)
          BY <1>1, <3>3, BoundsType DEF Create, EndTurn, vars, walk, RestOK
        <4> QED BY <1>1, <3>3, <4>1, <4>2
                DEF Create, EndTurn, vars, walk, RestOK
      <3>4. UNCHANGED timers
        BY <1>2 DEF Pass, Create, Wake, EndTurn, vars
      <3> QED BY <1>2, <3>1, <3>2, <3>3, <3>4
    <2> QED BY <1>1, <2>1 DEF TypeOK, ListOK, RestOK, Elem
  <1>3. CASE Visit \/ RunHandler \/ Others
    BY <1>3, VisitType, HandlerType, OthersType
  <1> QED BY <1>2, <1>3 DEF Next, Dispatch

\* A timer is in the list at most once, its time to go is never 0, and nobody is
\* called between turns (mTimerCheckValue, onTimerAdd, onTimerDelete).
THEOREM TypeCorrect == Spec => []TypeOK
  BY TypeInit, TypeStep, PTL DEF Spec

-----------------------------------------------------------------------------
(* Where the starts of a one-shot timer have gone                          *)

Listed(list, t) == \E n \in DOMAIN list : list[n].id = t

Counted ==
  \A t \in Timer :
    owed[t] = IF t \in Repeating THEN 0
              ELSE (IF Listed(timers, t) THEN 1 ELSE 0) + (IF call = t THEN 1 ELSE 0)

LEMMA ListedWithout ==
  ASSUME ListOK(timers), NEW t, Armed(t)
  PROVE  \A u : Listed(Without(t), u) <=> u # t /\ Listed(timers, u)
  <1>1. PICK k \in DOMAIN timers : timers[k].id = t
    BY DEF Armed
  <1> DEFINE rest == Without(t)
  <1>2. /\ DOMAIN rest = 1 .. (Len(timers) - 1)
        /\ \A n \in DOMAIN rest :
             rest[n] = IF n < k THEN timers[n] ELSE timers[n + 1]
        /\ \A n \in DOMAIN rest : rest[n].id # t
        /\ \A n \in DOMAIN timers : n # k => \E m \in DOMAIN rest : rest[m] = timers[n]
    BY <1>1, WithoutFacts
  <1> HIDE DEF rest
  <1>3. DOMAIN timers = 1 .. Len(timers) /\ Len(timers) \in Nat
    BY DEF ListOK
  <1>4. ASSUME NEW u, Listed(rest, u) PROVE u # t /\ Listed(timers, u)
    <2>1. PICK n \in DOMAIN rest : rest[n].id = u
      BY <1>4 DEF Listed
    <2>2. \E m \in DOMAIN timers : timers[m] = rest[n]
      BY <1>2, <1>3, <2>1
    <2> QED BY <1>2, <2>1, <2>2 DEF Listed
  <1>5. ASSUME NEW u, u # t, Listed(timers, u) PROVE Listed(rest, u)
    BY <1>1, <1>2, <1>5 DEF Listed
  <1> QED BY <1>4, <1>5 DEF rest

\* The same timers are in lists whose entries have the same ids.
LEMMA ListedSame ==
  ASSUME NEW l, NEW m, DOMAIN l = DOMAIN m, \A n \in DOMAIN m : l[n].id = m[n].id
  PROVE  \A u : Listed(l, u) <=> Listed(m, u)
  BY DEF Listed

LEMMA ListedAppend ==
  ASSUME ListOK(timers), NEW t \in Timer, ~ Armed(t)
  PROVE  \A u : Listed(Append(timers, Entry(t)), u) <=> u = t \/ Listed(timers, u)
  <1> DEFINE more == Append(timers, Entry(t))
  <1>1. /\ DOMAIN more = 1 .. (Len(timers) + 1) /\ DOMAIN timers = 1 .. Len(timers)
        /\ \A n \in DOMAIN timers : more[n] = timers[n]
        /\ more[Len(timers) + 1] = Entry(t)
    BY AppendFacts
  <1>2. Entry(t).id = t /\ Len(timers) \in Nat
    BY EntryType DEF ListOK
  <1> HIDE DEF more
  <1>3. Listed(more, t)
    <2>1. Len(timers) + 1 \in DOMAIN more
      BY <1>1, <1>2
    <2> QED BY <1>1, <1>2, <2>1 DEF Listed
  <1>4. ASSUME NEW u, u # t PROVE Listed(more, u) <=> Listed(timers, u)
    BY <1>1, <1>2, <1>4 DEF Listed
  <1> QED BY <1>3, <1>4 DEF more

LEMMA CountInit == Init => Counted
  <1>1. \A t : ~ Listed(<<>>, t)
    BY DEF Listed
  <1>2. \A t \in Timer : t # None
    BY TimerAssumption
  <1> QED BY <1>1, <1>2 DEF Init, Counted

LEMMA CountVisit == TypeOK /\ Counted /\ Visit => Counted'
  <1> SUFFICES ASSUME TypeOK, Counted, Visit PROVE Counted'
    OBVIOUS
  <1>1. ListOK(timers) /\ call = None /\ UNCHANGED owed /\ i \in DOMAIN timers
        /\ timers[i] \in Elem /\ charge \in Nat
    BY TypeParts DEF ListOK, RestOK, Visit
  <1> DEFINE t == timers[i].id
  <1>2. t \in Timer /\ t # None /\ Listed(timers, t) /\ Armed(t)
    BY <1>1, TimerAssumption DEF Elem, Listed, Armed
  <1>3. timers[i].repeat > 0 <=> t \in Repeating
    BY <1>1, <1>2, EntryType DEF ListOK
  <1>4. CASE timers[i].value > charge
    <2>1. /\ timers' = [timers EXCEPT ![i].value = timers[i].value - charge]
          /\ call' = call
      BY <1>1, <1>4 DEF Visit, Elem
    <2>2. timers[i].value - charge \in Nat \ {0}
      BY <1>1, <1>4 DEF Elem
    <2>3. DOMAIN timers' = DOMAIN timers /\ \A n \in DOMAIN timers : timers'[n].id = timers[n].id
      BY <1>1, <2>1, <2>2, ChargedFacts
    <2>4. \A u : Listed(timers', u) <=> Listed(timers, u)
      BY <2>3, ListedSame
    <2> QED BY <1>1, <2>1, <2>4 DEF Counted
  <1>5. CASE timers[i].value <= charge
    <2>1. /\ call' = t
          /\ timers' = IF timers[i].repeat > 0
                       THEN [timers EXCEPT ![i].value = timers[i].repeat]
                       ELSE Without(t)
      BY <1>1, <1>5 DEF Visit, Elem
    <2>2. CASE t \in Repeating
      <3>1. /\ DOMAIN timers' = DOMAIN timers
            /\ \A n \in DOMAIN timers : timers'[n].id = timers[n].id
        <4>1. timers[i].repeat \in Nat \ {0}
          BY <1>1, <1>3, <2>2 DEF Elem
        <4> QED BY <1>1, <1>3, <2>1, <2>2, <4>1, ChargedFacts
      <3>2. \A u : Listed(timers', u) <=> Listed(timers, u)
        BY <3>1, ListedSame
      <3>3. \A u \in Timer : u \notin Repeating => (call' = u <=> call = u)
        BY <1>1, <2>1, <2>2, TimerAssumption
      <3> QED BY <1>1, <3>2, <3>3 DEF Counted
    <2>3. CASE t \notin Repeating
      <3>1. timers' = Without(t)
        BY <1>3, <2>1, <2>3
      <3>2. \A u : Listed(timers', u) <=> u # t /\ Listed(timers, u)
        BY <1>1, <1>2, <3>1, ListedWithout
      <3>3. \A u \in Timer : u # None
        BY TimerAssumption
      <3> HIDE DEF t
      <3>4. call' = t /\ t \in Timer /\ t \notin Repeating /\ Listed(timers, t)
        BY <1>2, <2>1, <2>3
      <3>5. ASSUME NEW u \in Timer
            PROVE  owed'[u] = IF u \in Repeating THEN 0
                     ELSE (IF Listed(timers', u) THEN 1 ELSE 0)
                          + (IF call' = u THEN 1 ELSE 0)
        <4> HIDE DEF t
        <4>1. owed[u] = IF u \in Repeating THEN 0
                ELSE (IF Listed(timers, u) THEN 1 ELSE 0) + (IF call = u THEN 1 ELSE 0)
          BY DEF Counted
        <4> QED BY <1>1, <3>2, <3>3, <3>4, <4>1
      <3> QED BY <3>5 DEF Counted
    <2> QED BY <2>2, <2>3
  <1> QED BY <1>1, <1>4, <1>5 DEF Elem

LEMMA CountHandler == TypeOK /\ Counted /\ RunHandler => Counted'
  <1> SUFFICES ASSUME TypeOK, Counted, RunHandler PROVE Counted'
    OBVIOUS
  <1>1. /\ ListOK(timers) /\ call \in Timer /\ call' = None
        /\ owed' = Owe(call, -1) /\ owed \in [Timer -> Int]
    BY TypeParts DEF RestOK, RunHandler
  <1>2. \A u \in Timer : owed'[u] = IF u = call /\ call \notin Repeating
                                    THEN owed[u] - 1 ELSE owed[u]
    BY <1>1, OweType
  <1>3. \A u \in Timer \ Repeating : Listed(timers', u) <=> Listed(timers, u)
    <2>1. CASE timers' = timers
      BY <2>1
    <2>2. CASE timers' = Without(call) /\ Armed(call) /\ call \in Repeating
      BY <1>1, <2>2, ListedWithout
    <2> QED BY <2>1, <2>2, TimerAssumption DEF RunHandler, Without
  <1>4. \A u \in Timer : u # None
    BY TimerAssumption
  <1>5. ASSUME NEW u \in Timer
        PROVE  owed'[u] = IF u \in Repeating THEN 0
                 ELSE (IF Listed(timers', u) THEN 1 ELSE 0) + (IF call' = u THEN 1 ELSE 0)
    <2>1. owed[u] = IF u \in Repeating THEN 0
            ELSE (IF Listed(timers, u) THEN 1 ELSE 0) + (IF call = u THEN 1 ELSE 0)
      BY DEF Counted
    <2> QED BY <1>1, <1>2, <1>3, <1>4, <2>1
  <1> QED BY <1>5 DEF Counted

LEMMA CountOthers == TypeOK /\ Counted /\ Others => Counted'
  <1> SUFFICES ASSUME TypeOK, Counted, Others PROVE Counted'
    OBVIOUS
  <1>1. ListOK(timers) /\ owed \in [Timer -> Int] /\ UNCHANGED call
    BY TypeParts DEF RestOK, Others, walk
  <1>2. PICK t \in Timer : \/ onTimerAddEarly(t) \/ onTimerAdd(t)
                           \/ onTimerUpdate(t) \/ onTimerDelete(t)
    BY DEF Others
  <1>3. CASE onTimerAddEarly(t)
    BY <1>1, <1>3 DEF onTimerAddEarly, Counted
  <1>4. CASE timers' = Restarted(t) /\ UNCHANGED owed
    <2>1. \A u : Listed(timers', u) <=> Listed(timers, u)
      BY <1>1, <1>4, RestartedFacts, ListedSame
    <2> QED BY <1>1, <1>4, <2>1 DEF Counted
  <1>5. CASE onTimerAdd(t) /\ ~ Armed(t)
    <2>1. timers' = Append(timers, Entry(t)) /\ owed' = Owe(t, 1)
      BY <1>5 DEF onTimerAdd
    <2>2. \A u : Listed(timers', u) <=> u = t \/ Listed(timers, u)
      BY <1>1, <1>5, <2>1, ListedAppend
    <2>3. ~ Listed(timers, t)
      BY <1>5 DEF Armed, Listed
    <2>4. \A u \in Timer : owed'[u] = IF u = t /\ t \notin Repeating
                                      THEN owed[u] + 1 ELSE owed[u]
      BY <1>1, <2>1, OweType
    <2> QED BY <1>1, <2>2, <2>3, <2>4 DEF Counted
  <1>6. CASE onTimerDelete(t)
    <2>1. timers' = Without(t) /\ Armed(t) /\ owed' = Owe(t, -1)
      BY <1>6 DEF onTimerDelete
    <2>2. \A u : Listed(timers', u) <=> u # t /\ Listed(timers, u)
      BY <1>1, <2>1, ListedWithout
    <2>3. Listed(timers, t)
      BY <2>1 DEF Armed, Listed
    <2>4. \A u \in Timer : owed'[u] = IF u = t /\ t \notin Repeating
                                      THEN owed[u] - 1 ELSE owed[u]
      BY <1>1, <2>1, OweType
    <2> QED BY <1>1, <2>2, <2>3, <2>4 DEF Counted
  <1> QED BY <1>2, <1>3, <1>4, <1>5, <1>6 DEF onTimerAdd, onTimerUpdate

LEMMA CountStep == TypeOK /\ Counted /\ [Next]_vars => Counted'
  <1>1. TypeOK /\ Counted /\ (Pass \/ Create \/ Wake \/ EndTurn \/ UNCHANGED vars) => Counted'
    BY DEF Pass, Create, Wake, EndTurn, vars, walk, Counted
  <1> QED BY <1>1, CountVisit, CountHandler, CountOthers DEF Next, Dispatch

\* The handler of a one-shot timer runs once for each start that nobody took
\* back, however many timers there are and whatever the other threads do between
\* the turn's decision that it is due and the call (mTimerCheckValue).
THEOREM OneShotsRunOnce == Spec => []OneShotOnce
  <1>1. TypeOK /\ Counted => OneShotOnce
    BY DEF OneShotOnce, Counted
  <1> QED BY <1>1, TypeCorrect, CountInit, CountStep, PTL DEF Spec

-----------------------------------------------------------------------------
(* What a timer has still to be charged                                    *)

\* What the n-th entry is charged in this turn yet, and what the clock holds.
Pending(n) == since + IF n > i \/ (n = i /\ call \notin Repeating) THEN charge ELSE 0

Weighed(n) ==
  LET t == timers[n].id IN
  left[t] <= grace[t] \/ left[t] + Pending(n) <= timers[n].value + grace[t]

Balanced == (slept => since >= 1) /\ \A n \in DOMAIN timers : Weighed(n)

\* The pending time is the clock's, or that and the turn's.
LEMMA PendingIs ==
  \A n : Pending(n) = since + (IF n > i \/ (n = i /\ call \notin Repeating)
                               THEN charge ELSE 0)
  BY DEF Pending

LEMMA ElemType ==
  ASSUME NEW list, ListOK(list), NEW n \in DOMAIN list
  PROVE  /\ list[n] \in Elem /\ list[n].id \in Timer /\ list[n].value \in Nat \ {0}
         /\ n \in Nat \ {0} /\ DOMAIN list = 1 .. Len(list) /\ Len(list) \in Nat
  <1>1. list[n] \in Elem
    BY DEF ListOK
  <1> QED BY <1>1 DEF ListOK, Elem

\* An entry that is charged less, or moves up in the list, weighs no more.
LEMMA Lighter ==
  ASSUME NEW l \in Nat, NEW g \in Nat, NEW v \in Nat, NEW p \in Nat, NEW q \in Nat,
         l <= g \/ l + p <= v + g, q <= p
  PROVE  l <= g \/ l + q <= v + g
  OBVIOUS

LEMMA NumberTypes ==
  ASSUME TypeOK
  PROVE  /\ since \in Nat /\ charge \in Nat /\ i \in Nat
         /\ \A t \in Timer : left[t] \in Nat /\ grace[t] \in Nat
         /\ \A n : Pending(n) \in Nat /\ since <= Pending(n) /\ Pending(n) <= since + charge
         /\ ListOK(timers)
  <1>1. since \in Nat /\ charge \in Nat /\ i \in Nat
    BY BoundsType DEF TypeOK
  <1>2. \A t \in Timer : left[t] \in Nat /\ grace[t] \in Nat
    BY DEF TypeOK
  <1>3. ASSUME NEW n PROVE Pending(n) \in Nat /\ since <= Pending(n) /\ Pending(n) <= since + charge
    <2>1. Pending(n) = since \/ Pending(n) = since + charge
      BY <1>1 DEF Pending
    <2> QED BY <1>1, <2>1
  <1> QED BY <1>1, <1>2, <1>3, TypeParts

\* Steps of the walk other than a charge move no entry to one that is charged more.
LEMMA Moved ==
  ASSUME TypeOK, NEW m \in DOMAIN timers, Weighed(m), NEW n,
         timers'[n].id = timers[m].id, timers'[n].value = timers[m].value,
         left'[timers[m].id] = left[timers[m].id],
         grace'[timers[m].id] = grace[timers[m].id],
         Pending(n)' \in Nat, Pending(n)' <= Pending(m)
  PROVE  Weighed(n)'
  <1> DEFINE t == timers[m].id
             q == Pending(n)'
  <1>1. timers[m].value \in Nat /\ left[t] \in Nat /\ grace[t] \in Nat /\ Pending(m) \in Nat
    BY NumberTypes, ElemType
  <1>2. left[t] <= grace[t] \/ left[t] + Pending(m) <= timers[m].value + grace[t]
    BY DEF Weighed
  <1>3. q \in Nat /\ q <= Pending(m)
    OBVIOUS
  <1> HIDE DEF q
  <1>4. left[t] <= grace[t] \/ left[t] + q <= timers[m].value + grace[t]
    BY <1>1, <1>2, <1>3, Lighter
  <1>5. \/ left'[timers'[n].id] <= grace'[timers'[n].id]
        \/ left'[timers'[n].id] + q <= timers'[n].value + grace'[timers'[n].id]
    BY <1>4
  <1> QED BY <1>5 DEF Weighed, q

LEMMA BalancedInit == Init => Balanced
  BY DEF Init, Balanced

LEMMA BalancedPass == TypeOK /\ Balanced /\ Pass => Balanced'
  <1> SUFFICES ASSUME TypeOK, Balanced, Pass PROVE Balanced'
    OBVIOUS
  <1>0. slept' => since' >= 1
    <2>1. since \in Nat /\ since' = since + 1
      BY NumberTypes DEF Pass
    <2> QED BY <2>1
  <1> SUFFICES ASSUME NEW n \in DOMAIN timers PROVE Weighed(n)'
    BY <1>0 DEF Balanced, Pass
  <1> DEFINE t == timers[n].id
  <1>1. /\ t \in Timer /\ timers[n].value \in Nat
        /\ left[t] \in Nat /\ grace[t] \in Nat /\ Pending(n) \in Nat
    BY NumberTypes, ElemType
  <1>2. left[t] <= grace[t] \/ left[t] + Pending(n) <= timers[n].value + grace[t]
    BY DEF Balanced, Weighed
  <1>3. Pending(n)' = Pending(n) + 1 /\ UNCHANGED <<timers, grace>>
    <2>1. /\ since' = since + 1 /\ charge' = charge /\ i' = i /\ call' = call
          /\ UNCHANGED <<timers, grace>>
      BY DEF Pass
    <2>2. since \in Nat /\ charge \in Nat
      BY NumberTypes
    <2> QED BY <2>1, <2>2 DEF Pending
  <1>4. left'[t] = IF left[t] > 0 THEN left[t] - 1 ELSE 0
    BY <1>1 DEF Pass
  <1>5. left'[t] <= grace[t] \/ left'[t] + (Pending(n) + 1) <= timers[n].value + grace[t]
    BY <1>1, <1>2, <1>4
  <1> QED BY <1>3, <1>5 DEF Weighed

\* What the thread charges is no more than what has passed.
LEMMA BalancedWake == TypeOK /\ Balanced /\ Wake => Balanced'
  <1> SUFFICES ASSUME TypeOK, Balanced, Wake PROVE Balanced'
    OBVIOUS
  <1>1. /\ slept /\ charge = 0 /\ call' = call /\ i' = i /\ ~ slept'
        /\ UNCHANGED <<timers, left, grace>>
    BY DEF Wake
  <1>2. PICK e \in Elapsed(since) : charge' = e /\ since' = IF e > 0 THEN 0 ELSE since
    BY DEF Wake
  <1>3. since \in Nat /\ since >= 1
    BY <1>1, NumberTypes DEF Balanced
  <1>4. e \in Nat /\ e <= since
    BY <1>2, <1>3, ElapsedType, BoundsType
  <1>5. ASSUME NEW n \in DOMAIN timers PROVE Weighed(n)'
    <2>1. Pending(n) = since
      BY <1>1, <1>3 DEF Pending
    <2>2. Pending(n)' \in Nat /\ Pending(n)' <= since
      <3>1. Pending(n)' = since' \/ Pending(n)' = since' + charge'
        BY <1>2, <1>3, <1>4 DEF Pending
      <3> QED BY <1>2, <1>3, <1>4, <3>1
    <2>3. Weighed(n)
      BY DEF Balanced
    <2> QED BY <1>1, <2>1, <2>2, <2>3, Moved
  <1> QED BY <1>1, <1>5 DEF Balanced

LEMMA VisitFacts ==
  ASSUME TypeOK, Visit
  PROVE  /\ i \in DOMAIN timers /\ call = None /\ call \notin Repeating
         /\ charge' = charge /\ since' = since /\ charge \in Nat /\ since \in Nat
         /\ i \in Nat /\ ListOK(timers) /\ timers[i].id \in Timer
         /\ timers[i].value \in Nat /\ timers[i].repeat \in Nat
         /\ (timers[i].repeat > 0 <=> timers[i].id \in Repeating)
         /\ left[timers[i].id] \in Nat /\ grace[timers[i].id] \in Nat
  <1>1. charge \in Nat /\ since \in Nat /\ i \in Nat \ {0} /\ ListOK(timers)
    BY NumberTypes, TypeParts DEF RestOK
  <1>2. call = None /\ charge' = charge /\ since' = since /\ i <= Len(timers)
    BY DEF Visit
  <1>3. i \in DOMAIN timers
    BY <1>1, <1>2 DEF ListOK
  <1>4. timers[i] \in Elem /\ timers[i].id \in Timer
    BY <1>1, <1>3, ElemType
  <1>5. timers[i].repeat > 0 <=> timers[i].id \in Repeating
    BY <1>1, <1>3, <1>4, EntryType DEF ListOK
  <1>6. call \notin Repeating
    BY <1>2, TimerAssumption
  <1> QED BY <1>1, <1>2, <1>3, <1>4, <1>5, <1>6, NumberTypes DEF Elem

\* A timer is due when what it has left is less than what it is charged.
LEMMA DueMeansDue ==
  ASSUME TypeOK, Balanced, Visit, timers[i].value <= charge
  PROVE  left[timers[i].id] <= grace[timers[i].id]
  <1>1. Weighed(i)
    BY VisitFacts DEF Balanced
  <1>2. Pending(i) = since + charge
    BY VisitFacts DEF Pending
  <1>3. /\ timers[i].value \in Nat /\ left[timers[i].id] \in Nat
        /\ grace[timers[i].id] \in Nat /\ charge \in Nat /\ since \in Nat
    BY VisitFacts
  <1> QED BY <1>1, <1>2, <1>3 DEF Weighed

LEMMA BalancedVisit == TypeOK /\ Balanced /\ Visit => Balanced'
  <1> SUFFICES ASSUME TypeOK, Balanced, Visit, NEW n \in DOMAIN timers' PROVE Weighed(n)'
    BY DEF Balanced, Visit
  <1>1. /\ i \in DOMAIN timers /\ call = None /\ charge' = charge /\ since' = since
        /\ since \in Nat /\ charge \in Nat /\ i \in Nat /\ ListOK(timers)
    BY VisitFacts
  <1>2. /\ timers[i].id \in Timer /\ timers[i].value \in Nat /\ timers[i].repeat \in Nat
        /\ (timers[i].repeat > 0 <=> timers[i].id \in Repeating)
        /\ left[timers[i].id] \in Nat /\ grace[timers[i].id] \in Nat
    BY VisitFacts
  <1>3. call \notin Repeating
    BY VisitFacts
  <1>4. \A k \in DOMAIN timers : k \in Nat /\ timers[k].id = timers[i].id => k = i
    BY <1>1, ElemType DEF ListOK
  <1>5. CASE timers[i].value > charge
    <2>0. ~ (timers[i].value <= charge)
      BY <1>1, <1>2, <1>5
    <2>1. /\ timers' = [timers EXCEPT ![i].value = timers[i].value - charge]
          /\ i' = i + 1 /\ call' = call /\ UNCHANGED <<left, grace>>
      BY <2>0 DEF Visit
    <2>2. timers[i].value - charge \in Nat \ {0}
      BY <1>1, <1>2, <1>5
    <2>3. /\ DOMAIN timers' = DOMAIN timers
          /\ timers'[n].id = timers[n].id /\ (n # i => timers'[n] = timers[n])
          /\ timers'[i].value = timers[i].value - charge
      BY <1>1, <2>1, <2>2, ChargedFacts
    <2>4. CASE n = i
      <3>1. Pending(i) = since + charge /\ Pending(n)' = since
        BY <1>1, <1>3, <2>1, <2>4 DEF Pending
      <3>2. Weighed(i)
        BY <1>1 DEF Balanced
      <3> DEFINE id == timers[i].id
                 v == timers[i].value
      <3>3. left[id] <= grace[id] \/ left[id] + (since + charge) <= v + grace[id]
        BY <3>1, <3>2 DEF Weighed
      <3>4. left[id] <= grace[id] \/ left[id] + since <= (v - charge) + grace[id]
        BY <1>1, <1>2, <3>3
      <3>5. timers'[n].id = id /\ timers'[n].value = v - charge
        BY <2>3, <2>4
      <3> HIDE DEF id, v
      <3> QED BY <2>1, <3>1, <3>4, <3>5 DEF Weighed
    <2>5. CASE n # i
      <3>1. n \in Nat
        BY <1>1, <2>3, ElemType
      <3>2. Pending(n)' = Pending(n)
        BY <1>1, <1>3, <2>1, <2>5, <3>1 DEF Pending
      <3>3. Pending(n) \in Nat /\ Weighed(n)
        BY <2>3, NumberTypes DEF Balanced
      <3> QED BY <2>1, <2>3, <2>5, <3>2, <3>3, Moved
    <2> QED BY <2>4, <2>5
  <1>6. CASE timers[i].value <= charge /\ timers[i].repeat > 0
    <2>1. /\ timers' = [timers EXCEPT ![i].value = timers[i].repeat]
          /\ i' = i /\ call' = timers[i].id
          /\ left' = [left EXCEPT ![timers[i].id] = timers[i].repeat]
          /\ grace' = [grace EXCEPT ![timers[i].id] = since]
      BY <1>1, <1>2, <1>6 DEF Visit
    <2>2. /\ DOMAIN timers' = DOMAIN timers
          /\ timers'[n].id = timers[n].id /\ (n # i => timers'[n] = timers[n])
          /\ timers'[i].value = timers[i].repeat
      BY <1>1, <1>2, <1>6, <2>1, ChargedFacts
    <2>3. call' \in Repeating
      BY <1>1, <1>6, <2>1 DEF ListOK
    <2>4. /\ left'[timers[i].id] = timers[i].repeat /\ grace'[timers[i].id] = since
          /\ \A t \in Timer : t # timers[i].id => left'[t] = left[t] /\ grace'[t] = grace[t]
      BY <1>2, <2>1 DEF TypeOK
    <2>5. CASE n = i
      <3>1. Pending(n)' = since
        BY <1>1, <2>1, <2>3, <2>5 DEF Pending
      <3>2. /\ left'[timers'[n].id] = timers[i].repeat
            /\ timers'[n].value = timers[i].repeat /\ grace'[timers'[n].id] = since
        BY <2>2, <2>4, <2>5
      <3>3. left'[timers'[n].id] + Pending(n)' <= timers'[n].value + grace'[timers'[n].id]
        BY <1>1, <1>2, <3>1, <3>2
      <3> QED BY <3>3 DEF Weighed
    <2>6. CASE n # i
      <3>1. n \in Nat /\ timers[n].id \in Timer /\ timers[n].id # timers[i].id
        BY <1>1, <1>4, <2>2, <2>6, ElemType
      <3>2. Pending(n)' = Pending(n)
        BY <1>1, <1>3, <2>1, <2>6, <3>1 DEF Pending
      <3>3. Pending(n) \in Nat /\ Weighed(n)
        BY <2>2, NumberTypes DEF Balanced
      <3> QED BY <2>2, <2>4, <2>6, <3>1, <3>2, <3>3, Moved
    <2> QED BY <2>5, <2>6
  <1>7. CASE timers[i].value <= charge /\ timers[i].repeat = 0
    <2>1. /\ timers' = Without(timers[i].id)
          /\ i' = i /\ call' = timers[i].id
          /\ left' = [left EXCEPT ![timers[i].id] = timers[i].repeat]
          /\ grace' = [grace EXCEPT ![timers[i].id] = 0]
      BY <1>1, <1>2, <1>7 DEF Visit
    <2>2. call' \notin Repeating
      BY <1>1, <1>2, <1>7, <2>1, EntryType DEF ListOK
    <2>3. /\ DOMAIN timers' = 1 .. (Len(timers) - 1) /\ timers'[n].id # timers[i].id
          /\ timers'[n] = IF n < i THEN timers[n] ELSE timers[n + 1]
      BY <1>1, <2>1, WithoutFacts
    <2>4. \A t \in Timer : t # timers[i].id => left'[t] = left[t] /\ grace'[t] = grace[t]
      BY <2>1 DEF TypeOK
    <2> DEFINE m == IF n < i THEN n ELSE n + 1
    <2>5. /\ m \in DOMAIN timers /\ n \in Nat /\ n <= m /\ timers'[n] = timers[m]
          /\ (n >= i => m > i)
      BY <1>1, <2>3 DEF ListOK
    <2> HIDE DEF m
    <2>6. m \in Nat /\ timers[m].id \in Timer
      BY <1>1, <2>5, ElemType
    <2>7. Pending(n)' <= Pending(m) /\ Pending(n)' \in Nat
      BY <1>1, <1>3, <2>1, <2>2, <2>5, <2>6 DEF Pending
    <2>8. Weighed(m)
      BY <2>5 DEF Balanced
    <2> QED BY <2>3, <2>4, <2>5, <2>6, <2>7, <2>8, Moved
  <1> QED BY <1>1, <1>2, <1>5, <1>6, <1>7

LEMMA BalancedRemoved ==
  ASSUME TypeOK, Balanced, NEW k \in DOMAIN timers, timers' = Without(timers[k].id),
         \A t \in Timer \ {timers[k].id} : left'[t] = left[t] /\ grace'[t] = grace[t],
         NEW n \in DOMAIN timers', Pending(n)' \in Nat,
         Pending(n)' <= Pending(n), Pending(n)' <= Pending(n + 1)
  PROVE  Weighed(n)'
  <1>1. ListOK(timers)
    BY NumberTypes
  <1>2. /\ DOMAIN timers' = 1 .. (Len(timers) - 1) /\ timers'[n].id # timers[k].id
        /\ timers'[n] = IF n < k THEN timers[n] ELSE timers[n + 1]
    BY <1>1, WithoutFacts
  <1> DEFINE m == IF n < k THEN n ELSE n + 1
  <1>3. m \in DOMAIN timers /\ timers'[n] = timers[m] /\ (m = n \/ m = n + 1)
    BY <1>1, <1>2 DEF ListOK
  <1>4. Pending(n)' <= Pending(m)
    BY <1>3
  <1> HIDE DEF m
  <1>5. timers[m].id \in Timer /\ Weighed(m)
    BY <1>1, <1>3, ElemType DEF Balanced
  <1> QED BY <1>2, <1>3, <1>4, <1>5, Moved

LEMMA BalancedHandler == TypeOK /\ Balanced /\ RunHandler => Balanced'
  <1> SUFFICES ASSUME TypeOK, Balanced, RunHandler PROVE Balanced'
    OBVIOUS
  <1>0. UNCHANGED <<slept, since>>
    BY DEF RunHandler
  <1> SUFFICES ASSUME NEW n \in DOMAIN timers' PROVE Weighed(n)'
    BY <1>0 DEF Balanced
  <1>1. /\ call' = None /\ i' = (IF call \in Repeating THEN i + 1 ELSE i)
        /\ charge' = charge /\ since' = since /\ left' = left /\ grace' = grace
    BY DEF RunHandler
  <1>2. \/ timers' = timers
        \/ call \in Repeating /\ \E k \in DOMAIN timers :
             timers[k].id = call /\ timers' = Without(call)
    <2>1. timers' = timers \/ (call \in Repeating /\ timers' = Without(call))
      BY TimerAssumption DEF RunHandler
    <2> QED BY <2>1 DEF Without, Armed
  <1>3. since \in Nat /\ charge \in Nat /\ i \in Nat /\ ListOK(timers)
    BY NumberTypes
  <1>4. n \in Nat
    <2>1. CASE timers' = timers
      BY <1>3, <2>1, ElemType
    <2>2. CASE \E k \in DOMAIN timers : timers' = Without(timers[k].id)
      BY <1>3, <2>2, WithoutFacts
    <2> QED BY <1>2, <2>1, <2>2
  <1>5. None \notin Repeating
    BY TimerAssumption
  <1>6. /\ Pending(n)' \in Nat /\ Pending(n)' <= Pending(n)
        /\ call \in Repeating => Pending(n)' <= Pending(n + 1)
    BY <1>1, <1>3, <1>4, <1>5 DEF Pending
  <1>7. CASE timers' = timers
    BY <1>1, <1>6, <1>7, Moved DEF Balanced
  <1>8. ASSUME call \in Repeating, NEW k \in DOMAIN timers,
               timers' = Without(timers[k].id)
        PROVE  Weighed(n)'
    BY <1>1, <1>6, <1>8, BalancedRemoved
  <1> QED BY <1>2, <1>7, <1>8

LEMMA BalancedEnd == TypeOK /\ Balanced /\ EndTurn => Balanced'
  <1> SUFFICES ASSUME TypeOK, Balanced, EndTurn, NEW n \in DOMAIN timers PROVE Weighed(n)'
    BY DEF Balanced, EndTurn
  <1>1. charge' = 0 /\ since' = since /\ UNCHANGED <<timers, left, grace>>
    BY DEF EndTurn
  <1>2. Pending(n)' = since
    BY <1>1, NumberTypes DEF Pending
  <1>3. Pending(n)' \in Nat /\ Pending(n)' <= Pending(n)
    BY <1>2, NumberTypes
  <1> QED BY <1>1, <1>3, Moved DEF Balanced

\* A timer that is started has its period left, and what is pending as grace.
LEMMA StartedWeighed ==
  ASSUME RestOK, NEW t \in Timer, Start(t), UNCHANGED walk, NEW n,
         timers'[n].id = t, timers'[n].value = Period[t]
  PROVE  Weighed(n)'
  <1>1. left'[t] = Period[t] /\ grace'[t] = since + charge /\ Period[t] \in Nat
    BY StartType, EntryType
  <1>2. since \in Nat /\ charge \in Nat
    BY BoundsType DEF RestOK
  <1>3. Pending(n)' = since \/ Pending(n)' = since + charge
    BY <1>2 DEF Pending, walk
  <1>4. left'[t] + Pending(n)' <= Period[t] + grace'[t]
    BY <1>1, <1>2, <1>3
  <1> QED BY <1>4 DEF Weighed

LEMMA BalancedOthers == TypeOK /\ Balanced /\ Others => Balanced'
  <1> SUFFICES ASSUME TypeOK, Balanced, Others, NEW n \in DOMAIN timers' PROVE Weighed(n)'
    BY DEF Balanced, Others, walk
  <1>1. PICK t \in Timer : \/ onTimerAddEarly(t) \/ onTimerAdd(t)
                           \/ onTimerUpdate(t) \/ onTimerDelete(t)
    BY DEF Others
  <1>2. ListOK(timers) /\ RestOK /\ UNCHANGED walk
    BY TypeParts DEF Others
  <1>3. \A k : Pending(k)' = Pending(k)
    BY <1>2 DEF Pending, walk
  <1>4. ASSUME n \in DOMAIN timers, timers'[n] = timers[n], timers[n].id # t,
               \A u \in Timer \ {t} : left'[u] = left[u] /\ grace'[u] = grace[u]
        PROVE  Weighed(n)'
    <2>1. timers[n].id \in Timer \ {t}
      BY <1>2, <1>4, ElemType
    <2>2. Pending(n)' \in Nat /\ Pending(n)' <= Pending(n) /\ Weighed(n)
      BY <1>3, <1>4, NumberTypes DEF Balanced
    <2> QED BY <1>4, <2>1, <2>2, Moved
  <1>5. CASE onTimerAddEarly(t)
    <2>1. UNCHANGED <<timers, left, grace>>
      BY <1>5 DEF onTimerAddEarly
    <2>2. Pending(n)' \in Nat /\ Pending(n)' <= Pending(n) /\ Weighed(n)
      BY <1>3, <2>1, NumberTypes DEF Balanced
    <2> QED BY <2>1, <2>2, Moved
  <1>6. CASE timers' = Restarted(t) /\ Start(t)
    <2>1. /\ n \in DOMAIN timers /\ timers'[n].id = timers[n].id
          /\ timers[n].id # t => timers'[n] = timers[n]
          /\ timers[n].id = t => timers'[n].value = Period[t]
      BY <1>2, <1>6, RestartedFacts
    <2>2. CASE timers[n].id = t
      BY <1>2, <1>6, <2>1, <2>2, StartedWeighed
    <2>3. CASE timers[n].id # t
      BY <1>2, <1>4, <1>6, <2>1, <2>3, StartType
    <2> QED BY <2>2, <2>3
  <1>7. CASE timers' = Append(timers, Entry(t)) /\ ~ Armed(t) /\ Start(t)
    <2>1. /\ DOMAIN timers' = 1 .. (Len(timers) + 1) /\ DOMAIN timers = 1 .. Len(timers)
          /\ \A k \in DOMAIN timers : timers'[k] = timers[k]
          /\ timers'[Len(timers) + 1] = Entry(t)
      BY <1>2, <1>7, AppendFacts
    <2>2. CASE n \in DOMAIN timers
      BY <1>2, <1>4, <1>7, <2>1, <2>2, StartType DEF Armed
    <2>3. CASE n \notin DOMAIN timers
      <3>1. timers'[n] = Entry(t)
        BY <1>2, <2>1, <2>3 DEF ListOK
      <3> QED BY <1>2, <1>7, <3>1, EntryType, StartedWeighed
    <2> QED BY <2>2, <2>3
  <1>8. CASE onTimerDelete(t)
    <2>1. PICK k \in DOMAIN timers : timers[k].id = t
      BY <1>8 DEF onTimerDelete, Armed
    <2>2. timers' = Without(t)
          /\ \A u \in Timer \ {t} : left'[u] = left[u] /\ grace'[u] = grace[u]
      BY <1>2, <1>8 DEF onTimerDelete, RestOK
    <2>3. since \in Nat /\ charge \in Nat /\ i \in Nat /\ n \in Nat
      BY <1>2, <2>1, <2>2, NumberTypes, WithoutFacts
    <2>4. /\ Pending(n)' \in Nat /\ Pending(n)' <= Pending(n)
          /\ Pending(n)' <= Pending(n + 1)
      BY <1>3, <2>3 DEF Pending
    <2> QED BY <2>1, <2>2, <2>4, BalancedRemoved
  <1> QED BY <1>1, <1>5, <1>6, <1>7, <1>8 DEF onTimerAdd, onTimerUpdate

LEMMA BalancedStep == TypeOK /\ Balanced /\ [Next]_vars => Balanced'
  <1>1. TypeOK /\ Balanced /\ (Create \/ UNCHANGED vars) => Balanced'
    BY DEF Create, vars, walk, Balanced, Weighed, Pending
  <1> QED BY <1>1, BalancedPass, BalancedWake, BalancedVisit, BalancedHandler, BalancedEnd, BalancedOthers
          DEF Next, Dispatch

\* No handler is called before its time, save for what had gone by before its
\* timer was started: no time is charged twice to any timer, whatever the other
\* threads do to the list while it is walked (mTimerCheckValue).
THEOREM NobodyCalledEarly == Spec => NeverEarly
  <1>1. TypeOK /\ Balanced /\ [Next]_vars
          => [\A t \in Timer : call # t /\ call' = t => left[t] <= grace[t]]_vars
    <2> SUFFICES ASSUME TypeOK, Balanced, [Next]_vars, NEW t \in Timer,
                        call # t, call' = t
                 PROVE  left[t] <= grace[t]
      OBVIOUS
    <2>1. Visit
      BY TimerAssumption DEF Next, Dispatch, Pass, Create, Wake, RunHandler,
                             EndTurn, Others, walk, vars
    <2>2. timers[i].value <= charge /\ call' = timers[i].id
      BY <2>1 DEF Visit
    <2> QED BY <2>1, <2>2, DueMeansDue
  <1> QED BY <1>1, TypeCorrect, BalancedInit, BalancedStep, PTL DEF Spec, NeverEarly

-----------------------------------------------------------------------------
(* The events of a device                                                  *)
(*                                                                         *)
(* For any number of endpoints, changes, losses and delays: an event is    *)
(* listed once, but for two threads that search at the same time, and an   *)
(* icon that is believed to be on the device is there.  What was reported  *)
(* last, what the device has, what is under way to it and what is wanted   *)
(* are never out of order.                                                 *)

Flag == {Kind, "heart", "none"}
Event == [flag : Flag, subs : SUBSET Icons!Sub, delay : 0 .. WriteDelay]

\* At most one event of a kind, at most two.
AtMostOne(list, f) == \A m, n \in DOMAIN list : list[m].flag = f /\ list[n].flag = f => m = n
AtMostTwo(list, f) ==
  \A l, m, n \in DOMAIN list :
    list[l].flag = f /\ list[m].flag = f /\ list[n].flag = f => l = m \/ m = n \/ l = n

\* The network thread has searched the list and found no event of the kind.
Missing == setter.pc = "mark" /\ setter.at = 0

FewEvents(list, missing) ==
  /\ AtMostOne(list, "heart") /\ AtMostTwo(list, Kind)
  /\ missing => AtMostOne(list, Kind)

\* TypeOK, and the places where the threads are.
ValuesOK ==
  /\ want \in [Icons!Sub -> Icons!Value] /\ saved \in [Icons!Sub -> Icons!Value] /\ dev \in [Icons!Sub -> Icons!Value]
  /\ air \in [Icons!Sub -> Seq(Icons!Value \cup {Icons!Read})] /\ replies \in [Icons!Sub -> Seq(Icons!Value)]
  /\ line \in BOOLEAN /\ changes \in 0 .. MaxChanges
  /\ parse \in 0 .. SubCount /\ (Kind = "icon" => parse = 0)

WalkOK ==
  /\ events \in Seq(Event) /\ endPoint \in 0 .. SubCount
  /\ pc \in {"rest", "walk", "clear"} /\ sub \in 0 .. SubCount + 1
  /\ ix \in 1 .. Len(events) + 1 /\ (sub # 0 => ix \in DOMAIN events)
  /\ pc = "clear" => sub \in Icons!Sub
  /\ setter \in [pc : {"rest", "search", "mark"}, sub : Icons!Sub, at : {Icons!Gone} \cup 0 .. Len(events)]

\* What the device reported is no newer than what it has, what it has is no
\* newer than what is under way to it, and that no newer than what is wanted.
Rising(w, v, d, sent, back) ==
  /\ v <= d /\ d <= w
  /\ \A n \in DOMAIN back : back[n] <= d
  /\ \A n \in DOMAIN sent : sent[n] # Icons!Read => d <= sent[n] /\ sent[n] <= w
  /\ \A m, n \in DOMAIN sent : m < n /\ sent[m] # Icons!Read /\ sent[n] # Icons!Read => sent[m] <= sent[n]

RisingOK ==
  Kind = "icon" /\ Fresh =>
    \A s \in Icons!Sub : want[s] <= changes /\ Rising(want[s], saved[s], dev[s], air[s], replies[s])

ScreenInv == ValuesOK /\ WalkOK /\ FewEvents(events, Missing) /\ RisingOK

-----------------------------------------------------------------------------
(* The operations on the list                                              *)

LEMMA SubFacts ==
  /\ SubCount \in Nat /\ SubCount >= 1 /\ WriteDelay \in Nat /\ MaxChanges \in Nat
  /\ Icons!Sub = 1 .. SubCount /\ 1 \in Icons!Sub /\ Icons!Read \notin Icons!Value
  /\ Kind \in Flag /\ "heart" \in Flag /\ "none" \in Flag
  /\ Kind # "heart" /\ Kind # "none"
  BY EventsAssumption DEF Icons!DeviceEventsAssumption, Icons!Sub, Icons!Read, Icons!Value, Flag,
                          Icons!Blank

LEMMA LeastNumber ==
  ASSUME NEW S, S \subseteq Nat, S # {}
  PROVE  \E m \in S : \A k \in S : m <= k
  <1>1. PICK m \in S : \A k \in S : <<k, m>> \notin OpToRel(<, Nat)
    BY NatLessThanWellFounded, WFMin
  <1>2. ASSUME NEW k \in S PROVE m <= k
    <2>1. <<k, m>> \notin OpToRel(<, Nat)
      BY <1>1
    <2>2. ~ (k < m)
      BY <2>1 DEF OpToRel
    <2> QED BY <2>2
  <1> QED BY <1>2

LEMMA FoundFacts ==
  ASSUME NEW list \in Seq(Event), NEW f
  PROVE  /\ Icons!Found(list, f) \in 0 .. Len(list)
         /\ Icons!Found(list, f) = 0 => \A n \in DOMAIN list : list[n].flag # f
         /\ Icons!Found(list, f) # 0 => /\ Icons!Found(list, f) \in DOMAIN list
                                  /\ list[Icons!Found(list, f)].flag = f
  <1> DEFINE at == {n \in 1 .. Len(list) : list[n].flag = f}
  <1>1. Icons!Found(list, f) = IF at # {} THEN CHOOSE x \in at : \A y \in at : x <= y ELSE 0
    BY DEF Icons!Found, Icons!SelectInSeq, Icons!Min
  <1>2. CASE at = {}
    BY <1>1, <1>2
  <1>3. CASE at # {}
    <2>0. at \subseteq Nat
      OBVIOUS
    <2> HIDE DEF at
    <2>1. \E x \in at : \A y \in at : x <= y
      BY <1>3, <2>0, LeastNumber
    <2>2. Icons!Found(list, f) \in at
      BY <1>1, <1>3, <2>1
    <2> QED BY <2>2 DEF at
  <1> QED BY <1>2, <1>3

\* An event keeps its kind, or none is left of it.
Thinner(new, list) ==
  /\ new \in Seq(Event) /\ Len(new) = Len(list)
  /\ \A n \in DOMAIN list : new[n].flag \in {list[n].flag, "none"}

LEMMA ThinnerFew ==
  ASSUME NEW list \in Seq(Event), NEW new, Thinner(new, list), NEW b \in BOOLEAN,
         FewEvents(list, b)
  PROVE  FewEvents(new, b)
  <1>1. DOMAIN new = DOMAIN list
    BY DEF Thinner
  <1>2. ASSUME NEW f, f # "none", NEW n \in DOMAIN new, new[n].flag = f
        PROVE  list[n].flag = f
    BY <1>1, <1>2 DEF Thinner
  <1> QED BY <1>1, <1>2, SubFacts DEF FewEvents, AtMostOne, AtMostTwo

\* An event that was changed in place.
LEMMA Changed ==
  ASSUME NEW list \in Seq(Event), NEW k \in DOMAIN list, NEW e \in Event
  PROVE  /\ [list EXCEPT ![k] = e] \in Seq(Event)
         /\ Len([list EXCEPT ![k] = e]) = Len(list)
         /\ DOMAIN [list EXCEPT ![k] = e] = DOMAIN list
         /\ \A n \in DOMAIN list : [list EXCEPT ![k] = e][n] = IF n = k THEN e ELSE list[n]
         /\ e.flag \in {list[k].flag, "none"} => Thinner([list EXCEPT ![k] = e], list)
  <1> DEFINE new == [list EXCEPT ![k] = e]
  <1>1. /\ new \in Seq(Event) /\ Len(new) = Len(list) /\ DOMAIN new = DOMAIN list
        /\ \A n \in DOMAIN list : new[n] = IF n = k THEN e ELSE list[n]
    OBVIOUS
  <1> HIDE DEF new
  <1>2. e.flag \in {list[k].flag, "none"} => Thinner(new, list)
    BY <1>1 DEF Thinner
  <1> QED BY <1>1, <1>2 DEF new

LEMMA EventChanged ==
  ASSUME NEW r \in Event, NEW S \in SUBSET Icons!Sub
  PROVE  LET e == [r EXCEPT !.subs = r.subs \cup S, !.delay = 0]
         IN  e \in Event /\ e.flag = r.flag
  <1>0. r.subs \in SUBSET Icons!Sub
    BY DEF Event
  <1>1. r.subs \cup S \in SUBSET Icons!Sub
    BY <1>0
  <1>3. 0 \in 0 .. WriteDelay
    BY SubFacts
  <1> DEFINE X == r.subs \cup S
  <1> HIDE DEF X
  <1>2. [r EXCEPT !.subs = X, !.delay = 0] \in Event /\ [r EXCEPT !.subs = X, !.delay = 0].flag = r.flag
    BY <1>1, <1>3 DEF Event, X
  <1> QED BY <1>2 DEF X

LEMMA MarkedFacts ==
  ASSUME NEW list \in Seq(Event), NEW k \in DOMAIN list, NEW S \in SUBSET Icons!Sub
  PROVE  Thinner(Icons!Marked(list, k, S), list)
  <1> DEFINE e == [list[k] EXCEPT !.subs = list[k].subs \cup S, !.delay = 0]
  <1>1. list[k] \in Event
    OBVIOUS
  <1>2. e \in Event /\ e.flag = list[k].flag
    BY <1>1, EventChanged
  <1>3. Icons!Marked(list, k, S) = [list EXCEPT ![k] = e]
    BY DEF Icons!Marked
  <1> HIDE DEF e
  <1>4. Thinner([list EXCEPT ![k] = e], list)
    BY <1>2, Changed
  <1> QED BY <1>3, <1>4

LEMMA ClearedFacts ==
  ASSUME NEW list \in Seq(Event), NEW f, NEW s
  PROVE  Thinner(Icons!onClearDevEventInfo(list, f, s), list)
  <1> DEFINE k == Icons!Found(list, f)
  <1>1. CASE k = 0
    BY <1>1 DEF Icons!onClearDevEventInfo, Thinner
  <1>2. CASE k # 0
    <2> DEFINE e == [list[k] EXCEPT !.subs = @ \ {s},
                                    !.flag = IF list[k].subs \subseteq {s} THEN "none" ELSE @]
    <2>1. k \in DOMAIN list /\ list[k] \in Event
      BY <1>2, FoundFacts
    <2>2. e \in Event /\ e.flag \in {list[k].flag, "none"}
      BY <2>1, SubFacts DEF Event
    <2>3. Icons!onClearDevEventInfo(list, f, s) = [list EXCEPT ![k] = e]
      BY <1>2 DEF Icons!onClearDevEventInfo
    <2> HIDE DEF e, k
    <2>4. Thinner([list EXCEPT ![k] = e], list)
      BY <2>1, <2>2, Changed
    <2> QED BY <2>3, <2>4
  <1> QED BY <1>1, <1>2

LEMMA NewEvent ==
  ASSUME NEW f \in Flag, NEW S \in SUBSET Icons!Sub
  PROVE  Icons!New(f, S) \in Event /\ Icons!New(f, S).flag = f
  BY SubFacts DEF Icons!New, Event

LEMMA AppendedFacts ==
  ASSUME NEW list \in Seq(Event), NEW e \in Event
  PROVE  /\ Append(list, e) \in Seq(Event) /\ Len(Append(list, e)) = Len(list) + 1
         /\ DOMAIN Append(list, e) = DOMAIN list \cup {Len(list) + 1}
         /\ \A n \in DOMAIN list : Append(list, e)[n] = list[n]
         /\ Append(list, e)[Len(list) + 1] = e
  OBVIOUS

\* Another event of the kind, where there was one at most.
LEMMA AppendedFew ==
  ASSUME NEW list \in Seq(Event), NEW e \in Event, e.flag = Kind, FewEvents(list, TRUE)
  PROVE  FewEvents(Append(list, e), FALSE)
  <1> DEFINE new == Append(list, e)
  <1>1. /\ DOMAIN new = DOMAIN list \cup {Len(list) + 1}
        /\ \A n \in DOMAIN list : new[n] = list[n]
        /\ new[Len(list) + 1] = e
    BY AppendedFacts
  <1> HIDE DEF new
  <1>2. AtMostOne(new, "heart")
    BY <1>1, SubFacts DEF AtMostOne, FewEvents
  <1>3. AtMostTwo(new, Kind)
    BY <1>1, SubFacts DEF AtMostOne, AtMostTwo, FewEvents
  <1> QED BY <1>2, <1>3 DEF FewEvents, new

LEMMA AddedFacts ==
  ASSUME NEW list \in Seq(Event), NEW f \in {Kind, "heart"}, NEW S \in SUBSET Icons!Sub,
         NEW b \in BOOLEAN, FewEvents(list, b)
  PROVE  /\ Icons!onAddDevEventInfo(list, f, S) \in Seq(Event)
         /\ Len(Icons!onAddDevEventInfo(list, f, S)) >= Len(list)
         /\ FewEvents(Icons!onAddDevEventInfo(list, f, S), b)
  <1> DEFINE new == Icons!onAddDevEventInfo(list, f, S)
  <1>1. CASE Icons!Found(list, f) # 0
    <2>1. new = Icons!Marked(list, Icons!Found(list, f), S) /\ Icons!Found(list, f) \in DOMAIN list
      BY <1>1, FoundFacts DEF Icons!onAddDevEventInfo
    <2>2. Thinner(new, list)
      BY <2>1, MarkedFacts
    <2> QED BY <2>2, ThinnerFew DEF Thinner
  <1>2. CASE Icons!Found(list, f) = 0
    <2>1. new = Append(list, Icons!New(f, S))
      BY <1>2 DEF Icons!onAddDevEventInfo
    <2>2. \A n \in DOMAIN list : list[n].flag # f
      BY <1>2, FoundFacts
    <2>3. Icons!New(f, S) \in Event /\ Icons!New(f, S).flag = f
      BY NewEvent, SubFacts
    <2>4. /\ new \in Seq(Event) /\ Len(new) = Len(list) + 1
          /\ DOMAIN new = DOMAIN list \cup {Len(list) + 1}
          /\ \A n \in DOMAIN list : new[n] = list[n]
          /\ new[Len(list) + 1].flag = f
      BY <2>1, <2>3, AppendedFacts
    <2> HIDE DEF new
    <2>5. AtMostOne(list, "heart") => AtMostOne(new, "heart")
      BY <2>2, <2>4 DEF AtMostOne
    <2>6. AtMostOne(list, Kind) => AtMostOne(new, Kind)
      BY <2>2, <2>4 DEF AtMostOne
    <2>7. AtMostTwo(list, Kind) => AtMostTwo(new, Kind)
      BY <2>2, <2>4 DEF AtMostTwo
    <2> QED BY <2>4, <2>5, <2>6, <2>7 DEF FewEvents, new
  <1> QED BY <1>1, <1>2

LEMMA RemovedFew ==
  ASSUME NEW list \in Seq(Event), NEW k \in DOMAIN list, NEW b \in BOOLEAN, FewEvents(list, b)
  PROVE  /\ Icons!RemoveAt(list, k) \in Seq(Event) /\ Len(Icons!RemoveAt(list, k)) = Len(list) - 1
         /\ FewEvents(Icons!RemoveAt(list, k), b)
  <1> DEFINE new == Icons!RemoveAt(list, k)
             was(n) == IF n < k THEN n ELSE n + 1
  <1>1. /\ new \in Seq(Event) /\ DOMAIN new = 1 .. (Len(list) - 1)
        /\ \A n \in 1 .. (Len(list) - 1) : new[n] = IF n < k THEN list[n] ELSE list[n + 1]
    <2>1. new = RemoveAt(list, k)
      BY DEF Icons!RemoveAt, RemoveAt
    <2> QED BY <2>1, RemovedAt
  <1>2. Len(new) = Len(list) - 1
    BY <1>1
  <1> HIDE DEF new
  <1>3. ASSUME NEW n \in DOMAIN new
        PROVE  was(n) \in DOMAIN list /\ new[n] = list[was(n)]
    BY <1>1
  <1>4. ASSUME NEW m \in DOMAIN new, NEW n \in DOMAIN new, was(m) = was(n)
        PROVE  m = n
    BY <1>1, <1>4
  <1> HIDE DEF was
  <1>5. \A f : AtMostOne(list, f) => AtMostOne(new, f)
    BY <1>3, <1>4 DEF AtMostOne
  <1>6. \A f : AtMostTwo(list, f) => AtMostTwo(new, f)
    BY <1>3, <1>4 DEF AtMostTwo
  <1> QED BY <1>1, <1>2, <1>5, <1>6 DEF FewEvents, new

-----------------------------------------------------------------------------
(* What is under way                                                       *)

Sent == Seq(Icons!Value \cup {Icons!Read})

LEMMA TailFacts ==
  ASSUME NEW M, NEW s \in Seq(M), s # <<>>
  PROVE  /\ Tail(s) \in Seq(M) /\ Head(s) \in M /\ Head(s) = s[1] /\ 1 \in DOMAIN s
         /\ \A n \in DOMAIN Tail(s) : /\ n \in Nat /\ n >= 1 /\ n + 1 \in DOMAIN s
                                      /\ Tail(s)[n] = s[n + 1]
  OBVIOUS

LEMMA WrittenFacts ==
  ASSUME NEW sent \in Sent, NEW w \in Icons!Value
  PROVE  LET more == sent \o <<w, Icons!Read>> IN
         /\ more \in Sent /\ DOMAIN more = DOMAIN sent \cup {Len(sent) + 1, Len(sent) + 2}
         /\ \A n \in DOMAIN sent : more[n] = sent[n]
         /\ more[Len(sent) + 1] = w /\ more[Len(sent) + 2] = Icons!Read
  BY DEF Sent

LEMMA RisingWanted ==
  ASSUME NEW w \in Icons!Value, NEW x \in Icons!Value, w <= x, NEW v \in Icons!Value, NEW d \in Icons!Value,
         NEW sent \in Sent, NEW back \in Seq(Icons!Value), Rising(w, v, d, sent, back)
  PROVE  Rising(x, v, d, sent, back)
  <1>1. Icons!Value \subseteq Int
    BY SubFacts DEF Icons!Value, Icons!Blank
  <1>2. \A n \in DOMAIN sent : sent[n] # Icons!Read => sent[n] \in Icons!Value
    BY DEF Sent
  <1>3. d <= w /\ \A n \in DOMAIN sent : sent[n] # Icons!Read => sent[n] <= w
    BY DEF Rising
  <1>4. d <= x
    BY <1>1, <1>3
  <1>5. ASSUME NEW n \in DOMAIN sent, sent[n] # Icons!Read PROVE sent[n] <= x
    <2>1. sent[n] \in Int /\ w \in Int /\ x \in Int /\ sent[n] <= w
      BY <1>1, <1>2, <1>3, <1>5
    <2> QED BY <2>1
  <1> QED BY <1>4, <1>5 DEF Rising

LEMMA RisingWritten ==
  ASSUME NEW w \in Icons!Value, NEW v \in Icons!Value, NEW d \in Icons!Value,
         NEW sent \in Sent, NEW back \in Seq(Icons!Value), Rising(w, v, d, sent, back)
  PROVE  Rising(w, v, d, sent \o <<w, Icons!Read>>, back)
  <1> DEFINE more == sent \o <<w, Icons!Read>>
  <1>1. Icons!Value \subseteq Int
    BY SubFacts DEF Icons!Value, Icons!Blank
  <1>2. /\ DOMAIN more = DOMAIN sent \cup {Len(sent) + 1, Len(sent) + 2}
        /\ \A n \in DOMAIN sent : more[n] = sent[n] /\ n \in Nat /\ n <= Len(sent)
        /\ more[Len(sent) + 1] = w /\ more[Len(sent) + 2] = Icons!Read
        /\ Len(sent) \in Nat
    BY WrittenFacts DEF Sent
  <1> HIDE DEF more
  <1>3. \A n \in DOMAIN more : more[n] # Icons!Read => d <= more[n] /\ more[n] <= w
    BY <1>1, <1>2 DEF Rising
  <1>4. ASSUME NEW m \in DOMAIN more, NEW n \in DOMAIN more, m < n, more[m] # Icons!Read, more[n] # Icons!Read
        PROVE  more[m] <= more[n]
    <2>1. CASE n \in DOMAIN sent
      <3>1. m \in DOMAIN sent
        BY <1>2, <1>4, <2>1
      <3> QED BY <1>2, <1>4, <2>1, <3>1 DEF Rising
    <2>2. CASE n \notin DOMAIN sent
      <3>1. more[n] = w
        BY <1>2, <1>4, <2>2
      <3> QED BY <1>3, <1>4, <3>1
    <2> QED BY <2>1, <2>2
  <1> QED BY <1>3, <1>4 DEF Rising, more

LEMMA RisingLost ==
  ASSUME NEW w \in Icons!Value, NEW v \in Icons!Value, NEW d \in Icons!Value,
         NEW sent \in Sent, NEW back \in Seq(Icons!Value), Rising(w, v, d, sent, back)
  PROVE  /\ sent # <<>> => Rising(w, v, d, Tail(sent), back)
         /\ back # <<>> => Rising(w, v, d, sent, Tail(back))
  <1>1. ASSUME sent # <<>> PROVE Rising(w, v, d, Tail(sent), back)
    <2>1. \A n \in DOMAIN Tail(sent) : n \in Nat /\ n + 1 \in DOMAIN sent /\ Tail(sent)[n] = sent[n + 1]
      BY <1>1, TailFacts DEF Sent
    <2> QED BY <2>1 DEF Rising
  <1>2. ASSUME back # <<>> PROVE Rising(w, v, d, sent, Tail(back))
    <2>1. \A n \in DOMAIN Tail(back) : n + 1 \in DOMAIN back /\ Tail(back)[n] = back[n + 1]
      BY <1>2, TailFacts
    <2> QED BY <2>1 DEF Rising
  <1> QED BY <1>1, <1>2

LEMMA RisingTaken ==
  ASSUME NEW w \in Icons!Value, NEW v \in Icons!Value, NEW d \in Icons!Value,
         NEW sent \in Sent, NEW back \in Seq(Icons!Value), Rising(w, v, d, sent, back), sent # <<>>
  PROVE  /\ Head(sent) = Icons!Read => Rising(w, v, d, Tail(sent), Append(back, d))
         /\ Head(sent) # Icons!Read => Rising(w, v, Head(sent), Tail(sent), back)
  <1>1. Icons!Value \subseteq Int
    BY SubFacts DEF Icons!Value, Icons!Blank
  <1>2. /\ Head(sent) = sent[1] /\ 1 \in DOMAIN sent /\ Tail(sent) \in Sent
        /\ Head(sent) # Icons!Read => Head(sent) \in Icons!Value
        /\ \A n \in DOMAIN Tail(sent) : /\ n \in Nat /\ n >= 1 /\ n + 1 \in DOMAIN sent
                                        /\ Tail(sent)[n] = sent[n + 1]
    BY TailFacts DEF Sent
  <1>3. Rising(w, v, d, Tail(sent), back)
    BY <1>2, RisingLost
  <1>4. ASSUME Head(sent) = Icons!Read PROVE Rising(w, v, d, Tail(sent), Append(back, d))
    <2>1. \A n \in DOMAIN Append(back, d) : Append(back, d)[n] = d \/ (n \in DOMAIN back /\ Append(back, d)[n] = back[n])
      OBVIOUS
    <2>2. d <= d
      BY <1>1
    <2> QED BY <1>3, <2>1, <2>2 DEF Rising
  <1>5. ASSUME Head(sent) # Icons!Read PROVE Rising(w, v, Head(sent), Tail(sent), back)
    <2>1. d <= Head(sent) /\ Head(sent) <= w
      BY <1>2, <1>5 DEF Rising
    <2>2. \A n \in DOMAIN Tail(sent) : Tail(sent)[n] # Icons!Read => Head(sent) <= Tail(sent)[n]
      BY <1>2, <1>5 DEF Rising
    <2>3. v <= Head(sent) /\ \A n \in DOMAIN back : back[n] <= Head(sent)
      <3>1. v <= d /\ \A n \in DOMAIN back : back[n] \in Icons!Value /\ back[n] <= d
        BY DEF Rising
      <3>2. ASSUME NEW a \in Icons!Value, a <= d PROVE a <= Head(sent)
        <4>1. a \in Int /\ d \in Int /\ Head(sent) \in Int /\ d <= Head(sent)
          BY <1>1, <1>2, <1>5, <2>1
        <4> QED BY <3>2, <4>1
      <3> QED BY <3>1, <3>2
    <2> QED BY <1>3, <2>1, <2>2, <2>3 DEF Rising
  <1> QED BY <1>4, <1>5

LEMMA RisingReported ==
  ASSUME NEW w \in Icons!Value, NEW v \in Icons!Value, NEW d \in Icons!Value,
         NEW sent \in Sent, NEW back \in Seq(Icons!Value), Rising(w, v, d, sent, back), back # <<>>
  PROVE  Rising(w, Head(back), d, sent, Tail(back))
  <1>1. Head(back) <= d
    BY TailFacts DEF Rising
  <1>2. Rising(w, v, d, sent, Tail(back))
    BY RisingLost
  <1> QED BY <1>1, <1>2 DEF Rising

-----------------------------------------------------------------------------
(* The steps keep the values in range                                      *)

LEMMA InitScreen == Icons!Init => ScreenInv
  <1> SUFFICES ASSUME Icons!Init PROVE ScreenInv
    OBVIOUS
  <1>1. 0 \in Icons!Value /\ 0 \in 0 .. MaxChanges /\ 0 \in 0 .. SubCount
    BY SubFacts DEF Icons!Value, Icons!Blank
  <1>2. ValuesOK
    <2>1. <<>> \in Sent /\ <<>> \in Seq(Icons!Value)
      BY DEF Sent
    <2>2. want = [s \in Icons!Sub |-> 0] /\ air = [s \in Icons!Sub |-> <<>>]
      BY DEF Icons!Init
    <2>3. want \in [Icons!Sub -> Icons!Value] /\ air \in [Icons!Sub -> Sent] /\ air \in [Icons!Sub -> Seq(Icons!Value)]
      BY <1>1, <2>1, <2>2
    <2> QED BY <1>1, <2>3 DEF Icons!Init, ValuesOK, Sent
  <1>3. WalkOK
    <2>1. <<>> \in Seq(Event) /\ Len(<<>>) = 0 /\ 1 \in 1 .. 0 + 1
      OBVIOUS
    <2>2. [pc |-> "rest", sub |-> 1, at |-> 0] \in
            [pc : {"rest", "search", "mark"}, sub : Icons!Sub, at : {Icons!Gone} \cup 0 .. 0]
      BY SubFacts
    <2> QED BY <1>1, <2>1, <2>2, SubFacts DEF Icons!Init, WalkOK
  <1>4. FewEvents(events, Missing)
    BY DEF Icons!Init, FewEvents, AtMostOne, AtMostTwo
  <1>5. RisingOK
    <2>1. ASSUME NEW s \in Icons!Sub PROVE want[s] = 0 /\ saved[s] = 0 /\ dev[s] = 0 /\ air[s] = <<>> /\ replies[s] = <<>>
      BY DEF Icons!Init
    <2>2. Rising(0, 0, 0, <<>>, <<>>)
      BY DEF Rising
    <2> QED BY <2>1, <2>2 DEF RisingOK, Icons!Init
  <1> QED BY <1>2, <1>3, <1>4, <1>5 DEF ScreenInv

\* The steps that have nothing to do with values.
ListStep == Icons!Search \/ Icons!Mark \/ Icons!Heartbeat \/ Icons!Discard \/ Icons!Enter \/ Icons!Pass \/ Icons!Same \/ Icons!Clear
              \/ Icons!NextSub \/ Icons!NextEvent \/ Icons!Rest \/ (\E h \in BOOLEAN : Icons!Second(h))

LEMMA ListStepValues ==
  ListStep \/ UNCHANGED Icons!vars =>
    UNCHANGED <<want, saved, dev, line, parse, air, replies, changes>>
  BY DEF ListStep, Icons!Search, Icons!Mark, Icons!Heartbeat, Icons!Discard, Icons!Enter,
         Icons!Pass, Icons!Same, Icons!Clear, Icons!NextSub,
         Icons!NextEvent, Icons!Rest, Icons!Second, Icons!vars, Icons!radio, Icons!bounds, Icons!timer

LEMMA ValuesStep == ScreenInv /\ [Icons!Next]_Icons!vars => ValuesOK'
  <1> SUFFICES ASSUME ScreenInv, [Icons!Next]_Icons!vars PROVE ValuesOK'
    OBVIOUS
  <1> USE DEF ValuesOK
  <1>0. ValuesOK
    BY DEF ScreenInv
  <1>1. CASE ListStep \/ UNCHANGED Icons!vars
    BY <1>0, <1>1, ListStepValues
  <1>2. ASSUME NEW s \in Icons!Sub, Icons!Change(s) PROVE ValuesOK'
    <2>1. /\ changes < MaxChanges /\ changes' = changes + 1
          /\ UNCHANGED <<saved, dev, line, parse, air, replies>>
      BY <1>2 DEF Icons!Change, Icons!radio
    <2>2. PICK v \in IF Fresh THEN {changes + 1} ELSE {0, 1} \ {want[s]} : want' = [want EXCEPT ![s] = v]
      BY <1>2 DEF Icons!Change
    <2>5. changes + 1 \in 0 .. MaxChanges
      BY <1>0, <2>1, SubFacts
    <2>6. v \in {0, 1, changes + 1}
      BY <2>2
    <2>3. v \in Icons!Value
      BY <2>5, <2>6, SubFacts DEF Icons!Value, Icons!Blank
    <2>4. want' \in [Icons!Sub -> Icons!Value]
      BY <1>0, <2>2, <2>3
    <2> QED BY <1>0, <2>1, <2>4, <2>5
  <1>3. CASE Icons!Write
    <2>1. /\ sub \in Icons!Sub /\ air' = [air EXCEPT ![sub] = air[sub] \o <<want[sub], Icons!Read>>]
          /\ UNCHANGED <<want, saved, dev, line, parse, replies, changes>>
      BY <1>3 DEF Icons!Write, Icons!AtSub, Icons!WriteAndRead, Icons!bounds
    <2>2. air[sub] \o <<want[sub], Icons!Read>> \in Seq(Icons!Value \cup {Icons!Read})
      BY <1>0, <2>1, WrittenFacts DEF Sent
    <2> QED BY <1>0, <2>1, <2>2
  <1>4. ASSUME NEW s \in Icons!Sub, Icons!Serve(s) PROVE ValuesOK'
    <2>1. /\ air[s] # <<>> /\ air' = [air EXCEPT ![s] = Tail(@)]
          /\ UNCHANGED <<want, saved, line, parse, changes>>
      BY <1>4 DEF Icons!Serve, Icons!bounds
    <2>2. air' \in [Icons!Sub -> Seq(Icons!Value \cup {Icons!Read})] /\ Head(air[s]) \in Icons!Value \cup {Icons!Read}
      BY <1>0, <2>1, TailFacts
    <2>3. CASE Head(air[s]) = Icons!Read
      <3>1. replies' = [replies EXCEPT ![s] = Append(@, dev[s])] /\ dev' = dev
        BY <1>4, <2>3 DEF Icons!Serve
      <3>2. replies' \in [Icons!Sub -> Seq(Icons!Value)]
        BY <1>0, <3>1
      <3> QED BY <1>0, <2>1, <2>2, <3>1, <3>2
    <2>4. CASE Head(air[s]) # Icons!Read
      <3>1. dev' = [dev EXCEPT ![s] = Head(air[s])] /\ replies' = replies
        BY <1>4, <2>4 DEF Icons!Serve
      <3>2. dev' \in [Icons!Sub -> Icons!Value]
        BY <1>0, <2>2, <2>4, <3>1
      <3> QED BY <1>0, <2>1, <2>2, <3>1, <3>2
    <2> QED BY <2>3, <2>4
  <1>5. ASSUME NEW s \in Icons!Sub, Icons!LoseCommand(s) PROVE ValuesOK'
    <2>1. /\ air[s] # <<>> /\ air' = [air EXCEPT ![s] = Tail(@)]
          /\ UNCHANGED <<want, saved, dev, line, parse, replies, changes>>
      BY <1>5 DEF Icons!LoseCommand
    <2>2. air' \in [Icons!Sub -> Seq(Icons!Value \cup {Icons!Read})]
      BY <1>0, <2>1, TailFacts
    <2> QED BY <1>0, <2>1, <2>2
  <1>6. ASSUME NEW s \in Icons!Sub, Icons!LoseReport(s) \/ Icons!Report(s) PROVE ValuesOK'
    <2>1. /\ replies[s] # <<>> /\ replies' = [replies EXCEPT ![s] = Tail(@)]
          /\ UNCHANGED <<want, dev, line, air, changes>>
      BY <1>6 DEF Icons!LoseReport, Icons!Report, Icons!bounds
    <2>2. replies' \in [Icons!Sub -> Seq(Icons!Value)] /\ Head(replies[s]) \in Icons!Value
      BY <1>0, <2>1, TailFacts
    <2>3. CASE UNCHANGED <<saved, parse>>
      BY <1>0, <2>1, <2>2, <2>3
    <2>4. CASE Kind = "icon" /\ saved' = [saved EXCEPT ![s] = Head(replies[s])] /\ parse' = parse
      <3>1. saved' \in [Icons!Sub -> Icons!Value]
        BY <1>0, <2>2, <2>4
      <3> QED BY <1>0, <2>1, <2>2, <2>4, <3>1
    <2>5. CASE Kind # "icon" /\ parse' \in {s, 0} /\ saved' = saved
      <3>1. parse' \in 0 .. SubCount
        BY <2>5, SubFacts
      <3> QED BY <1>0, <2>1, <2>2, <2>5, <3>1
    <2>6. Icons!LoseReport(s) => UNCHANGED <<saved, parse>>
      BY DEF Icons!LoseReport
    <2>7. ASSUME Icons!Report(s)
          PROVE  \/ Kind = "icon" /\ saved' = [saved EXCEPT ![s] = Head(replies[s])] /\ parse' = parse
                 \/ Kind # "icon" /\ parse' \in {s, 0} /\ saved' = saved
      <3>1. CASE Kind = "icon"
        BY <2>7, <3>1 DEF Icons!Report, Icons!AsReported
      <3>2. CASE Kind # "icon"
        <4>1. saved' = saved /\ parse' = IF Head(replies[s]) = want[s] THEN s ELSE 0
          BY <2>7, <3>2 DEF Icons!Report, Icons!AsReported
        <4> QED BY <3>2, <4>1
      <3> QED BY <3>1, <3>2
    <2> QED BY <1>6, <2>3, <2>4, <2>5, <2>6, <2>7
  <1>7. CASE Icons!Store
    <2>1. /\ parse # 0 /\ parse' = 0 /\ saved' = [saved EXCEPT ![parse] = want[parse]]
          /\ UNCHANGED <<want, dev, line, air, replies, changes>>
      BY <1>7 DEF Icons!Store, Icons!radio, Icons!bounds
    <2>2. parse \in Icons!Sub /\ 0 \in 0 .. SubCount
      BY <1>0, <2>1, SubFacts
    <2>3. saved' \in [Icons!Sub -> Icons!Value]
      BY <1>0, <2>1, <2>2
    <2> QED BY <1>0, <2>1, <2>2, <2>3
  <1>8. CASE Icons!Offline \/ Icons!Online
    <2>1. line' \in BOOLEAN /\ UNCHANGED <<want, saved, dev, parse, air, replies, changes>>
      BY <1>8 DEF Icons!Offline, Icons!Online, Icons!radio, Icons!bounds
    <2> QED BY <1>0, <2>1
  <1>9. CASE Icons!Announce
    <2>1. /\ dev' \in {dev, [s \in Icons!Sub |-> Icons!Blank]} /\ saved' = [s \in Icons!Sub |-> Icons!Blank]
          /\ UNCHANGED <<want, line, parse, air, replies, changes>>
      BY <1>9 DEF Icons!Announce, Icons!radio
    <2>2. Icons!Blank \in Icons!Value
      BY SubFacts DEF Icons!Value, Icons!Blank
    <2>3. dev' \in [Icons!Sub -> Icons!Value] /\ saved' \in [Icons!Sub -> Icons!Value]
      BY <1>0, <2>1, <2>2
    <2> QED BY <1>0, <2>1, <2>3
  <1> QED BY <1>1, <1>2, <1>3, <1>4, <1>5, <1>6, <1>7, <1>8, <1>9 DEF Icons!Next, Icons!TimerThread,
                                                                      Icons!Set, ListStep

-----------------------------------------------------------------------------
(* The steps keep the list and the places in it                            *)

SetterRange(n) == [pc : {"rest", "search", "mark"}, sub : Icons!Sub, at : {Icons!Gone} \cup 0 .. n]

LEMMA EventDelayed ==
  ASSUME NEW list \in Seq(Event), NEW k \in DOMAIN list, NEW d \in 0 .. WriteDelay
  PROVE  Thinner([list EXCEPT ![k].delay = d], list)
  <1> DEFINE e == [list[k] EXCEPT !.delay = d]
  <1>1. list[k] \in Event
    OBVIOUS
  <1>2. e \in Event /\ e.flag = list[k].flag
    BY <1>1 DEF Event
  <1> HIDE DEF e
  <1>3. Thinner([list EXCEPT ![k] = e], list)
    BY <1>2, Changed
  <1> QED BY <1>3 DEF e

LEMMA ThinnerAgain ==
  ASSUME NEW list \in Seq(Event), NEW mid, NEW new, Thinner(mid, list), Thinner(new, mid)
  PROVE  Thinner(new, list)
  <1>1. DOMAIN mid = DOMAIN list /\ DOMAIN new = DOMAIN list
    BY DEF Thinner
  <1>2. ASSUME NEW n \in DOMAIN list PROVE new[n].flag \in {list[n].flag, "none"}
    <2>1. mid[n].flag \in {list[n].flag, "none"} /\ new[n].flag \in {mid[n].flag, "none"}
      BY <1>1 DEF Thinner
    <2> QED BY <2>1
  <1> QED BY <1>2 DEF Thinner

LEMMA CountedFacts ==
  WalkOK /\ Icons!AtEvent => Thinner(Icons!Counted, events) /\ ix \in DOMAIN events
  <1> SUFFICES ASSUME WalkOK, Icons!AtEvent PROVE Thinner(Icons!Counted, events) /\ ix \in DOMAIN events
    OBVIOUS
  <1>1. events \in Seq(Event) /\ ix \in DOMAIN events
    BY DEF WalkOK, Icons!AtEvent
  <1>4. events[ix] \in Event
    BY <1>1
  <1>2. events[ix].delay \in 0 .. WriteDelay
    BY <1>4 DEF Event
  <1>3. Icons!Waited(ix) \in 0 .. WriteDelay
    BY <1>2, SubFacts DEF Icons!Waited
  <1> QED BY <1>1, <1>3, EventDelayed DEF Icons!Counted

\* The list may have grown, and the other places are as they were.
LEMMA WalkGrown ==
  ASSUME WalkOK, events' \in Seq(Event), Len(events') >= Len(events),
         pc' \in {"rest", "walk", "clear"}, pc' = "clear" => pc = "clear",
         UNCHANGED <<endPoint, sub, ix, setter>>
  PROVE  WalkOK'
  <1>1. DOMAIN events \subseteq DOMAIN events'
    BY DEF WalkOK
  <1>2. SetterRange(Len(events)) \subseteq SetterRange(Len(events'))
    <2>1. {Icons!Gone} \cup 0 .. Len(events) \subseteq {Icons!Gone} \cup 0 .. Len(events')
      BY DEF WalkOK, Icons!Gone
    <2> QED BY <2>1 DEF SetterRange
  <1>3. setter' \in SetterRange(Len(events'))
    BY <1>2 DEF WalkOK, SetterRange
  <1>4. ix' \in 1 .. Len(events') + 1 /\ (sub' # 0 => ix' \in DOMAIN events')
    BY <1>1 DEF WalkOK
  <1> QED BY <1>3, <1>4 DEF WalkOK, SetterRange

LEMMA WalkSet ==
  ASSUME ScreenInv, Icons!Set \/ \E s \in Icons!Sub : Icons!Change(s)
  PROVE  WalkOK' /\ FewEvents(events, Missing)'
  <1>1. /\ WalkOK /\ FewEvents(events, Missing) /\ setter \in SetterRange(Len(events))
        /\ events \in Seq(Event)
    BY DEF ScreenInv, WalkOK, SetterRange
  <1>2. ASSUME NEW s \in Icons!Sub, Icons!Change(s) PROVE WalkOK' /\ FewEvents(events, Missing)'
    <2>1. /\ setter' = [pc |-> "search", sub |-> s, at |-> 0]
          /\ UNCHANGED <<events, endPoint, pc, sub, ix>>
      BY <1>2 DEF Icons!Change, Icons!timer
    <2>2. setter' \in SetterRange(Len(events))
      <3>1. 0 \in 0 .. Len(events)
        BY <1>1
      <3> QED BY <2>1, <3>1 DEF SetterRange
    <2>3. ~Missing'
      BY <2>1 DEF Missing
    <2> QED BY <1>1, <2>1, <2>2, <2>3 DEF WalkOK, FewEvents, SetterRange
  <1>3. CASE Icons!Search
    <2>1. /\ setter' = [setter EXCEPT !.pc = "mark", !.at = Icons!Found(events, Kind)]
          /\ UNCHANGED <<events, endPoint, pc, sub, ix>>
      BY <1>3 DEF Icons!Search, Icons!timer
    <2>2. Icons!Found(events, Kind) \in 0 .. Len(events)
      BY <1>1, FoundFacts
    <2>3. setter' \in SetterRange(Len(events)) /\ setter'.at = Icons!Found(events, Kind)
      BY <1>1, <2>1, <2>2 DEF SetterRange
    <2>4. Missing' => AtMostOne(events, Kind)
      <3>1. Icons!Found(events, Kind) = 0 => AtMostOne(events, Kind)
        BY <1>1, FoundFacts DEF AtMostOne
      <3> QED BY <2>3, <3>1 DEF Missing
    <2> QED BY <1>1, <2>1, <2>3, <2>4 DEF WalkOK, FewEvents, SetterRange
  <1>4. CASE Icons!Mark
    <2>1. /\ setter.pc = "mark" /\ setter' = [setter EXCEPT !.pc = "rest", !.at = 0]
          /\ events' = IF setter.at = 0 THEN Append(events, Icons!New(Kind, {setter.sub}))
                       ELSE IF setter.at = Icons!Gone THEN events
                       ELSE Icons!Marked(events, setter.at, {setter.sub})
          /\ UNCHANGED <<endPoint, pc, sub, ix>>
      BY <1>4 DEF Icons!Mark, Icons!timer
    <2>2. setter.sub \in Icons!Sub /\ setter.at \in {Icons!Gone} \cup 0 .. Len(events)
      BY <1>1 DEF SetterRange
    <2>3. events' \in Seq(Event) /\ Len(events') >= Len(events) /\ FewEvents(events', FALSE)
      <3>1. CASE setter.at = 0
        <4>1. Icons!New(Kind, {setter.sub}) \in Event /\ Icons!New(Kind, {setter.sub}).flag = Kind
          BY <2>2, NewEvent, SubFacts
        <4>2. FewEvents(events, TRUE)
          BY <1>1, <2>1, <3>1 DEF FewEvents, Missing
        <4> DEFINE e == Icons!New(Kind, {setter.sub})
        <4>3. events' = Append(events, e)
          BY <2>1, <3>1
        <4>4. e \in Event /\ e.flag = Kind
          BY <4>1
        <4> HIDE DEF e
        <4>5. Append(events, e) \in Seq(Event) /\ Len(Append(events, e)) = Len(events) + 1
          BY <1>1, <4>4, AppendedFacts
        <4>6. FewEvents(Append(events, e), FALSE)
          BY <1>1, <4>2, <4>4, AppendedFew
        <4>7. FewEvents(events', FALSE)
          BY <4>3, <4>6
        <4>8. events' \in Seq(Event) /\ Len(events') >= Len(events)
          BY <1>1, <4>3, <4>5
        <4> QED BY <4>7, <4>8
      <3>2. CASE setter.at = Icons!Gone
        BY <1>1, <2>1, <3>2 DEF FewEvents, Icons!Gone
      <3>3. CASE setter.at # 0 /\ setter.at # Icons!Gone
        <4> DEFINE new == Icons!Marked(events, setter.at, {setter.sub})
        <4>1. setter.at \in DOMAIN events /\ events' = new
          BY <1>1, <2>1, <2>2, <3>3 DEF Icons!Gone
        <4>2. {setter.sub} \in SUBSET Icons!Sub
          BY <2>2
        <4>3. Thinner(new, events)
          BY <1>1, <4>1, <4>2, MarkedFacts
        <4> HIDE DEF new
        <4>4. FewEvents(events, FALSE)
          BY <1>1 DEF FewEvents
        <4>5. FewEvents(new, FALSE)
          BY <1>1, <4>3, <4>4, ThinnerFew
        <4>6. new \in Seq(Event) /\ Len(new) = Len(events)
          BY <4>3 DEF Thinner
        <4>7. FewEvents(events', FALSE)
          BY <4>1, <4>5
        <4>8. events' \in Seq(Event) /\ Len(events') >= Len(events)
          BY <1>1, <4>1, <4>6
        <4> QED BY <4>7, <4>8
      <3> QED BY <3>1, <3>2, <3>3
    <2>4. setter' \in SetterRange(Len(events')) /\ ~Missing'
      <3>1. 0 \in 0 .. Len(events')
        BY <2>3
      <3> QED BY <1>1, <2>1, <3>1 DEF SetterRange, Missing
    <2>5. ix' \in 1 .. Len(events') + 1 /\ (sub' # 0 => ix' \in DOMAIN events')
      BY <1>1, <2>1, <2>3 DEF WalkOK
    <2>6. FewEvents(events, Missing)'
      BY <2>3, <2>4 DEF FewEvents
    <2> QED BY <1>1, <2>1, <2>3, <2>4, <2>5, <2>6 DEF WalkOK, SetterRange
  <1> QED BY <1>2, <1>3, <1>4 DEF Icons!Set

\* The steps that do no more than count or change events in place, or list one.
LEMMA WalkPlaces ==
  ASSUME ScreenInv, Thinner(events', events), setter' = setter,
         endPoint' \in 0 .. SubCount, pc' \in {"rest", "walk", "clear"},
         sub' \in 0 .. SubCount + 1, ix' \in 1 .. Len(events) + 1,
         sub' # 0 => ix' \in DOMAIN events, pc' = "clear" => sub' \in Icons!Sub
  PROVE  WalkOK' /\ FewEvents(events, Missing)'
  <1>1. /\ events \in Seq(Event) /\ events' \in Seq(Event) /\ Len(events') = Len(events)
        /\ DOMAIN events' = DOMAIN events
    BY DEF Thinner, ScreenInv, WalkOK
  <1>2. Missing \in BOOLEAN /\ Missing' = Missing
    BY DEF Missing
  <1>3. FewEvents(events', Missing)
    BY <1>1, <1>2, ThinnerFew DEF ScreenInv
  <1> QED BY <1>1, <1>2, <1>3 DEF ScreenInv, WalkOK

LEMMA Unthinned == events \in Seq(Event) => Thinner(events, events)
  BY DEF Thinner
LEMMA WalkTimer ==
  ASSUME ScreenInv, Icons!TimerThread
  PROVE  WalkOK' /\ FewEvents(events, Missing)'
  <1>1. /\ WalkOK /\ FewEvents(events, Missing) /\ events \in Seq(Event) /\ Thinner(events, events)
        /\ endPoint \in 0 .. SubCount /\ pc \in {"rest", "walk", "clear"} /\ ix \in Nat
        /\ sub \in 0 .. SubCount + 1 /\ ix \in 1 .. Len(events) + 1 /\ 0 \in 0 .. SubCount + 1
        /\ setter \in SetterRange(Len(events)) /\ Missing \in BOOLEAN
    BY Unthinned, SubFacts DEF ScreenInv, WalkOK, Missing, SetterRange
  <1>2. sub \in Icons!Sub => sub + 1 \in 0 .. SubCount + 1 /\ sub # 0 /\ ix \in DOMAIN events
    BY <1>1, SubFacts DEF WalkOK
  <1>3. ix \in DOMAIN events => ix + 1 \in 1 .. Len(events) + 1
    BY <1>1
  <1>4. Icons!AtEvent => Thinner(Icons!Counted, events) /\ ix \in DOMAIN events /\ pc = "walk" /\ sub = 0
    BY <1>1, CountedFacts DEF Icons!AtEvent
  <1>5. CASE Icons!Heartbeat
    <2> DEFINE mid == IF endPoint # 0 /\ line /\ Icons!Differs(endPoint)
                        THEN Icons!onAddDevEventInfo(Icons!Counted, Kind, {endPoint}) ELSE Icons!Counted
               new == Icons!onClearDevEventInfo(mid, "heart", 1)
    <2>1. /\ Icons!AtEvent /\ events' = new /\ endPoint' = (endPoint + 1) % (SubCount + 1)
          /\ ix' = ix + 1 /\ UNCHANGED <<pc, sub, setter>>
      BY <1>5 DEF Icons!Heartbeat, Icons!DueEvent
    <2>2. Icons!Counted \in Seq(Event) /\ Len(Icons!Counted) = Len(events) /\ FewEvents(Icons!Counted, Missing)
      BY <1>1, <1>4, <2>1, ThinnerFew DEF Thinner
    <2>3. mid \in Seq(Event) /\ Len(mid) >= Len(events) /\ FewEvents(mid, Missing)
      <3>1. CASE endPoint # 0 /\ line /\ Icons!Differs(endPoint)
        <4>1. {endPoint} \in SUBSET Icons!Sub
          BY <1>1, <3>1, SubFacts
        <4>2. /\ Icons!onAddDevEventInfo(Icons!Counted, Kind, {endPoint}) \in Seq(Event)
              /\ Len(Icons!onAddDevEventInfo(Icons!Counted, Kind, {endPoint})) >= Len(Icons!Counted)
              /\ FewEvents(Icons!onAddDevEventInfo(Icons!Counted, Kind, {endPoint}), Missing)
          BY <1>1, <2>2, <4>1, AddedFacts
        <4> QED BY <2>2, <3>1, <4>2
      <3>2. CASE ~ (endPoint # 0 /\ line /\ Icons!Differs(endPoint))
        <4>1. mid = Icons!Counted
          BY <3>2
        <4> HIDE DEF mid
        <4> QED BY <1>1, <2>2, <4>1
      <3> QED BY <3>1, <3>2
    <2> HIDE DEF mid
    <2>4. Thinner(new, mid)
      BY <2>3, ClearedFacts
    <2> HIDE DEF new
    <2>5. new \in Seq(Event) /\ Len(new) = Len(mid)
      BY <2>4 DEF Thinner
    <2>6. FewEvents(new, Missing)
      BY <1>1, <2>3, <2>4, ThinnerFew
    <2>7. endPoint' \in 0 .. SubCount
      BY <1>1, <2>1, SubFacts
    <2>8. ix' \in 1 .. Len(new) + 1
      BY <1>3, <1>4, <2>1, <2>3, <2>5
    <2>9. setter' \in SetterRange(Len(new)) /\ Missing' = Missing
      BY <1>1, <2>1, <2>3, <2>5 DEF SetterRange, Missing, Icons!Gone
    <2>10. FewEvents(events, Missing)'
      BY <2>1, <2>6, <2>9
    <2>11. sub' = 0 /\ pc' = "walk" /\ 0 \in 0 .. SubCount + 1
      BY <1>1, <1>4, <2>1
    <2>12. events' \in Seq(Event) /\ ix' \in 1 .. Len(events') + 1
      BY <2>1, <2>5, <2>8
    <2>13. setter' \in SetterRange(Len(events'))
      BY <2>1, <2>9
    <2>14. WalkOK'
      BY <2>7, <2>11, <2>12, <2>13 DEF WalkOK, SetterRange
    <2> QED BY <2>10, <2>14
  <1>6. CASE Icons!Discard
    <2>1. /\ Icons!AtEvent /\ events' = Icons!RemoveAt(events, ix) /\ setter' = [setter EXCEPT !.at = Icons!Moved(@)]
          /\ UNCHANGED <<endPoint, pc, ix, sub>>
      BY <1>6 DEF Icons!Discard, Icons!DueEvent, Icons!timer
    <2>2. /\ Icons!RemoveAt(events, ix) \in Seq(Event) /\ Len(Icons!RemoveAt(events, ix)) = Len(events) - 1
          /\ FewEvents(Icons!RemoveAt(events, ix), Missing)
      BY <1>1, <1>4, <2>1, RemovedFew
    <2>3. /\ Len(events) \in Nat /\ ix \in 1 .. Len(events) /\ setter.at \in {Icons!Gone} \cup 0 .. Len(events)
          /\ setter.pc \in {"rest", "search", "mark"} /\ setter.sub \in Icons!Sub
      BY <1>1, <1>4, <2>1 DEF SetterRange
    <2>4. Icons!Moved(setter.at) \in {Icons!Gone} \cup 0 .. (Len(events) - 1)
      BY <2>3 DEF Icons!Moved, Icons!Gone
    <2>5. Icons!Moved(setter.at) = 0 <=> setter.at = 0
      BY <2>3 DEF Icons!Moved, Icons!Gone
    <2> DEFINE at == Icons!Moved(setter.at)
    <2> HIDE DEF at
    <2>6. /\ setter' \in SetterRange(Len(events) - 1) /\ setter'.at = at /\ setter'.pc = setter.pc
      BY <1>1, <2>1, <2>4 DEF SetterRange, at
    <2>7. Missing' = Missing
      BY <2>5, <2>6 DEF Missing, at
    <2>8. ix \in 1 .. (Len(events) - 1) + 1
      BY <2>3
    <2> QED BY <1>1, <1>4, <2>1, <2>2, <2>6, <2>7, <2>8 DEF WalkOK, SetterRange
  <1>7. CASE Icons!Enter
    <2>1. /\ Icons!AtEvent /\ events' = Icons!Counted /\ sub' = 1 /\ UNCHANGED <<endPoint, pc, ix, setter>>
      BY <1>7 DEF Icons!Enter, Icons!DueEvent
    <2>2. 1 \in 0 .. SubCount + 1
      BY SubFacts
    <2> QED BY <1>1, <1>4, <2>1, <2>2, WalkPlaces
  <1>8. CASE Icons!Pass
    <2>1. /\ Icons!AtEvent /\ events' = Icons!Counted /\ ix' = ix + 1 /\ UNCHANGED <<endPoint, pc, sub, setter>>
      BY <1>8 DEF Icons!Pass
    <2> QED BY <1>1, <1>3, <1>4, <2>1, WalkPlaces
  <1>9. CASE Icons!Write
    <2>1. /\ sub \in Icons!Sub /\ pc = "walk" /\ events' = [events EXCEPT ![ix].delay = WriteDelay]
          /\ sub' = sub + 1 /\ UNCHANGED <<endPoint, pc, ix, setter>>
      BY <1>9 DEF Icons!Write, Icons!AtSub
    <2>2. WriteDelay \in 0 .. WriteDelay
      BY SubFacts
    <2>3. Thinner(events', events)
      BY <1>1, <1>2, <2>1, <2>2, EventDelayed
    <2> QED BY <1>1, <1>2, <2>1, <2>3, WalkPlaces
  <1>10. CASE Icons!Same
    <2>1. /\ sub \in Icons!Sub /\ pc' = "clear" /\ UNCHANGED <<events, endPoint, sub, ix, setter>>
      BY <1>10 DEF Icons!Same, Icons!AtSub
    <2> QED BY <1>1, <1>2, <2>1, WalkPlaces
  <1>11. CASE Icons!Clear
    <2>1. /\ sub \in Icons!Sub /\ pc' = "walk" /\ sub' = sub + 1
          /\ events' = Icons!onClearDevEventInfo(events, Kind, sub) /\ UNCHANGED <<endPoint, ix, setter>>
      BY <1>1, <1>11 DEF Icons!Clear, WalkOK
    <2>2. Thinner(events', events)
      BY <1>1, <2>1, ClearedFacts
    <2> QED BY <1>1, <1>2, <2>1, <2>2, WalkPlaces
  <1>12. CASE Icons!NextSub
    <2>1. /\ sub \in Icons!Sub /\ pc = "walk" /\ sub' = sub + 1
          /\ UNCHANGED <<events, endPoint, pc, ix, setter>>
      BY <1>12 DEF Icons!NextSub, Icons!AtSub
    <2> QED BY <1>1, <1>2, <2>1, WalkPlaces
  <1>13. CASE Icons!NextEvent
    <2>1. /\ pc = "walk" /\ sub > SubCount /\ sub' = 0 /\ ix' = ix + 1
          /\ UNCHANGED <<events, endPoint, pc, setter>>
      BY <1>13 DEF Icons!NextEvent
    <2>2. ix \in DOMAIN events
      BY <1>1, <2>1, SubFacts DEF WalkOK
    <2> QED BY <1>1, <1>3, <2>1, <2>2, WalkPlaces
  <1>14. CASE Icons!Rest
    <2>1. /\ sub = 0 /\ pc' = "rest" /\ ix' = 1 /\ UNCHANGED <<events, endPoint, sub, setter>>
      BY <1>14 DEF Icons!Rest
    <2>2. 1 \in 1 .. Len(events) + 1
      BY <1>1
    <2> QED BY <1>1, <2>1, <2>2, WalkPlaces
  <1> QED BY <1>5, <1>6, <1>7, <1>8, <1>9, <1>10, <1>11, <1>12, <1>13, <1>14 DEF Icons!TimerThread
LEMMA WalkStep == ScreenInv /\ [Icons!Next]_Icons!vars => WalkOK' /\ FewEvents(events, Missing)'
  <1> SUFFICES ASSUME ScreenInv, [Icons!Next]_Icons!vars PROVE WalkOK' /\ FewEvents(events, Missing)'
    OBVIOUS
  <1>1. WalkOK /\ FewEvents(events, Missing) /\ events \in Seq(Event) /\ Missing \in BOOLEAN
    BY DEF ScreenInv, WalkOK, Missing
  <1>2. CASE Icons!Set \/ \E s \in Icons!Sub : Icons!Change(s)
    BY <1>2, WalkSet
  <1>3. CASE Icons!TimerThread
    BY <1>3, WalkTimer
  <1>4. ASSUME NEW S \in SUBSET Icons!Sub, NEW f \in {Kind, "heart"},
               events' \in {events, Icons!onAddDevEventInfo(events, f, S)},
               pc' \in {"walk", "rest", pc}, UNCHANGED <<endPoint, sub, ix, setter>>
        PROVE  WalkOK' /\ FewEvents(events, Missing)'
    <2>1. /\ Icons!onAddDevEventInfo(events, f, S) \in Seq(Event)
          /\ Len(Icons!onAddDevEventInfo(events, f, S)) >= Len(events)
          /\ FewEvents(Icons!onAddDevEventInfo(events, f, S), Missing)
      BY <1>1, AddedFacts
    <2>2. events' \in Seq(Event) /\ Len(events') >= Len(events)
      BY <1>1, <1>4, <2>1
    <2>3. FewEvents(events', Missing)
      BY <1>1, <1>4, <2>1
    <2>4. Missing' = Missing
      BY <1>4 DEF Missing
    <2>5. WalkOK'
      BY <1>1, <1>4, <2>2, WalkGrown DEF WalkOK
    <2> QED BY <2>3, <2>4, <2>5
  <1>5. ASSUME NEW h \in BOOLEAN, Icons!Second(h) PROVE WalkOK' /\ FewEvents(events, Missing)'
    <2>1. /\ events' \in {events, Icons!onAddDevEventInfo(events, "heart", {1})}
          /\ pc' \in {"walk", "rest", pc} /\ UNCHANGED <<endPoint, sub, ix, setter>>
      BY <1>5 DEF Icons!Second
    <2>2. {1} \in SUBSET Icons!Sub
      BY SubFacts
    <2> QED BY <1>4, <2>1, <2>2
  <1>6. CASE Icons!Online \/ Icons!Announce
    <2>1. /\ events' \in {events, Icons!onAddDevEventInfo(events, Kind, Icons!Sub)}
          /\ UNCHANGED <<endPoint, pc, sub, ix, setter>>
      BY <1>6 DEF Icons!Online, Icons!Announce, Icons!AllListed, Icons!timer
    <2> QED BY <1>4, <2>1
  <1>7. ASSUME NEW s \in Icons!Sub, Icons!Serve(s) \/ Icons!LoseCommand(s) \/ Icons!LoseReport(s) \/ Icons!Report(s)
        PROVE  WalkOK' /\ FewEvents(events, Missing)'
    <2>1. UNCHANGED <<events, endPoint, pc, sub, ix, setter>>
      BY <1>7 DEF Icons!Serve, Icons!LoseCommand, Icons!LoseReport, Icons!Report, Icons!timer
    <2> QED BY <1>1, <2>1 DEF WalkOK, Missing
  <1>8. CASE Icons!Store \/ Icons!Offline \/ UNCHANGED Icons!vars
    <2>1. UNCHANGED <<events, endPoint, pc, sub, ix, setter>>
      BY <1>8 DEF Icons!Store, Icons!Offline, Icons!vars, Icons!timer
    <2> QED BY <1>1, <2>1 DEF WalkOK, Missing
  <1> QED BY <1>2, <1>3, <1>5, <1>6, <1>7, <1>8 DEF Icons!Next

-----------------------------------------------------------------------------
(* The steps keep what is reported behind what is wanted                   *)

LEMMA RisingStep == ScreenInv /\ [Icons!Next]_Icons!vars => RisingOK'
  <1> SUFFICES ASSUME ScreenInv, [Icons!Next]_Icons!vars, Kind = "icon", Fresh,
                      NEW t \in Icons!Sub
               PROVE  want'[t] <= changes' /\ Rising(want'[t], saved'[t], dev'[t], air'[t], replies'[t])
    BY DEF RisingOK
  <1>1. /\ want[t] \in Icons!Value /\ saved[t] \in Icons!Value /\ dev[t] \in Icons!Value
        /\ air[t] \in Sent /\ replies[t] \in Seq(Icons!Value) /\ parse = 0 /\ changes \in Nat
        /\ want[t] <= changes /\ Rising(want[t], saved[t], dev[t], air[t], replies[t])
    BY DEF ScreenInv, ValuesOK, RisingOK, Sent
  <1>2. /\ want \in [Icons!Sub -> Icons!Value] /\ saved \in [Icons!Sub -> Icons!Value] /\ dev \in [Icons!Sub -> Icons!Value]
        /\ air \in [Icons!Sub -> Sent] /\ replies \in [Icons!Sub -> Seq(Icons!Value)]
    BY DEF ScreenInv, ValuesOK, Sent
  <1>3. CASE UNCHANGED <<want[t], saved[t], dev[t], air[t], replies[t], changes>>
    BY <1>1, <1>3
  <1>4. ASSUME NEW s \in Icons!Sub, Icons!Change(s)
        PROVE  want'[t] <= changes' /\ Rising(want'[t], saved'[t], dev'[t], air'[t], replies'[t])
    <2>1. /\ want' = [want EXCEPT ![s] = changes + 1] /\ changes' = changes + 1
          /\ changes < MaxChanges /\ UNCHANGED <<saved, dev, air, replies>>
      BY <1>4 DEF Icons!Change, Icons!radio
    <2>2. CASE s # t
      <3>1. want'[t] = want[t]
        BY <1>2, <2>1, <2>2
      <3>2. want[t] <= changes + 1
        BY <1>1, SubFacts DEF Icons!Value, Icons!Blank
      <3> QED BY <1>1, <2>1, <3>1, <3>2
    <2>3. CASE s = t
      <3>1. want'[t] = changes + 1
        BY <1>2, <2>1, <2>3
      <3>2. changes + 1 \in Icons!Value /\ want[t] <= changes + 1 /\ changes + 1 <= changes + 1
        BY <1>1, <2>1, SubFacts DEF Icons!Value, Icons!Blank
      <3> DEFINE x == changes + 1
      <3> HIDE DEF x
      <3>3. x \in Icons!Value /\ want[t] <= x
        BY <3>2 DEF x
      <3>4. Rising(x, saved[t], dev[t], air[t], replies[t])
        BY <1>1, <3>3, RisingWanted
      <3>5. want'[t] = x /\ x <= changes'
        BY <2>1, <3>1, <3>2 DEF x
      <3> QED BY <2>1, <3>4, <3>5
    <2> QED BY <2>2, <2>3
  <1>5. CASE Icons!Write
    <2>1. /\ sub \in Icons!Sub /\ air' = [air EXCEPT ![sub] = air[sub] \o <<want[sub], Icons!Read>>]
          /\ UNCHANGED <<want, saved, dev, replies, changes>>
      BY <1>5 DEF Icons!Write, Icons!AtSub, Icons!WriteAndRead, Icons!bounds
    <2>2. CASE sub # t
      BY <1>1, <1>2, <2>1, <2>2
    <2>3. CASE sub = t
      <3>1. air'[t] = air[t] \o <<want[t], Icons!Read>>
        BY <1>2, <2>1, <2>3
      <3> QED BY <1>1, <2>1, <3>1, RisingWritten
    <2> QED BY <2>2, <2>3
  <1>6. ASSUME NEW s \in Icons!Sub, Icons!Serve(s)
        PROVE  want'[t] <= changes' /\ Rising(want'[t], saved'[t], dev'[t], air'[t], replies'[t])
    <2>1. /\ air[s] # <<>> /\ air' = [air EXCEPT ![s] = Tail(@)]
          /\ UNCHANGED <<want, saved, changes>>
          /\ IF Head(air[s]) = Icons!Read
               THEN replies' = [replies EXCEPT ![s] = Append(@, dev[s])] /\ dev' = dev
               ELSE dev' = [dev EXCEPT ![s] = Head(air[s])] /\ replies' = replies
      BY <1>6 DEF Icons!Serve, Icons!bounds
    <2>2. CASE s # t
      <3>1. air'[t] = air[t] /\ replies'[t] = replies[t] /\ dev'[t] = dev[t]
        BY <1>2, <2>1, <2>2
      <3> QED BY <1>1, <2>1, <3>1
    <2>3. CASE s = t
      <3>1. air'[t] = Tail(air[t])
        BY <1>2, <2>1, <2>3
      <3>2. CASE Head(air[t]) = Icons!Read
        <4>1. replies'[t] = Append(replies[t], dev[t]) /\ dev'[t] = dev[t]
          BY <1>2, <2>1, <2>3, <3>2
        <4>2. Rising(want[t], saved[t], dev[t], Tail(air[t]), Append(replies[t], dev[t]))
          BY <1>1, <2>1, <2>3, <3>2, RisingTaken
        <4> QED BY <1>1, <2>1, <3>1, <4>1, <4>2
      <3>3. CASE Head(air[t]) # Icons!Read
        <4>1. replies'[t] = replies[t] /\ dev'[t] = Head(air[t])
          BY <1>2, <2>1, <2>3, <3>3
        <4>2. Rising(want[t], saved[t], Head(air[t]), Tail(air[t]), replies[t])
          BY <1>1, <2>1, <2>3, <3>3, RisingTaken
        <4> QED BY <1>1, <2>1, <3>1, <4>1, <4>2
      <3> QED BY <3>2, <3>3
    <2> QED BY <2>2, <2>3
  <1>7. ASSUME NEW s \in Icons!Sub, Icons!LoseCommand(s)
        PROVE  want'[t] <= changes' /\ Rising(want'[t], saved'[t], dev'[t], air'[t], replies'[t])
    <2>1. /\ air[s] # <<>> /\ air' = [air EXCEPT ![s] = Tail(@)]
          /\ UNCHANGED <<want, saved, dev, replies, changes>>
      BY <1>7 DEF Icons!LoseCommand
    <2>2. air'[t] = IF s = t THEN Tail(air[t]) ELSE air[t]
      BY <1>2, <2>1
    <2> QED BY <1>1, <2>1, <2>2, RisingLost
  <1>8. ASSUME NEW s \in Icons!Sub, Icons!LoseReport(s)
        PROVE  want'[t] <= changes' /\ Rising(want'[t], saved'[t], dev'[t], air'[t], replies'[t])
    <2>1. /\ replies[s] # <<>> /\ replies' = [replies EXCEPT ![s] = Tail(@)]
          /\ UNCHANGED <<want, saved, dev, air, changes>>
      BY <1>8 DEF Icons!LoseReport
    <2>2. replies'[t] = IF s = t THEN Tail(replies[t]) ELSE replies[t]
      BY <1>2, <2>1
    <2> QED BY <1>1, <2>1, <2>2, RisingLost
  <1>9. ASSUME NEW s \in Icons!Sub, Icons!Report(s)
        PROVE  want'[t] <= changes' /\ Rising(want'[t], saved'[t], dev'[t], air'[t], replies'[t])
    <2>1. /\ replies[s] # <<>> /\ replies' = [replies EXCEPT ![s] = Tail(@)]
          /\ saved' = [saved EXCEPT ![s] = Head(replies[s])]
          /\ UNCHANGED <<want, dev, air, changes>>
      BY <1>9 DEF Icons!Report, Icons!AsReported, Icons!bounds
    <2>2. CASE s # t
      <3>1. replies'[t] = replies[t] /\ saved'[t] = saved[t]
        BY <1>2, <2>1, <2>2
      <3> QED BY <1>1, <2>1, <3>1
    <2>3. CASE s = t
      <3>1. replies'[t] = Tail(replies[t]) /\ saved'[t] = Head(replies[t])
        BY <1>2, <2>1, <2>3
      <3>2. Rising(want[t], Head(replies[t]), dev[t], air[t], Tail(replies[t]))
        BY <1>1, <2>1, <2>3, RisingReported
      <3> QED BY <1>1, <2>1, <3>1, <3>2
    <2> QED BY <2>2, <2>3
  <1>10. CASE ListStep \/ UNCHANGED Icons!vars
    BY <1>3, <1>10, ListStepValues
  <1>11. CASE Icons!Store \/ Icons!Offline \/ Icons!Online \/ Icons!Announce
    <2>1. UNCHANGED <<want, saved, dev, air, replies, changes>>
      BY <1>1, <1>11 DEF Icons!Store, Icons!Offline, Icons!Online, Icons!Announce, Icons!radio,
                         Icons!bounds
    <2> QED BY <1>3, <2>1
  <1> QED BY <1>4, <1>5, <1>6, <1>7, <1>8, <1>9, <1>10, <1>11 DEF Icons!Next, Icons!TimerThread,
                                                                  Icons!Set, ListStep

-----------------------------------------------------------------------------
LEMMA ScreenStep == ScreenInv /\ [Icons!Next]_Icons!vars => ScreenInv'
  BY ValuesStep, WalkStep, RisingStep DEF ScreenInv

LEMMA FewListed ==
  ASSUME NEW S, IsFiniteSet(S)
  PROVE  /\ (\A m, n \in S : m = n) => Cardinality(S) <= 1
         /\ (\A l, m, n \in S : l = m \/ m = n \/ l = n) => Cardinality(S) <= 2
  <1>1. CASE S = {}
    BY <1>1, FS_EmptySet
  <1>2. CASE S # {}
    <2>1. PICK x \in S : TRUE
      BY <1>2
    <2>2. Cardinality({x}) = 1 /\ IsFiniteSet({x})
      BY FS_Singleton
    <2>3. CASE S = {x}
      BY <2>2, <2>3
    <2>4. CASE S # {x}
      <3>1. PICK y \in S : y # x
        BY <2>1, <2>4
      <3>2. Cardinality({x} \cup {y}) = 2
        BY <2>2, <3>1, FS_AddElement
      <3>3. (\A l, m, n \in S : l = m \/ m = n \/ l = n) => S = {x} \cup {y}
        BY <2>1, <3>1
      <3> QED BY <2>1, <3>1, <3>2, <3>3
    <2> QED BY <2>3, <2>4
  <1> QED BY <1>1, <1>2

LEMMA ScreenTyped == ScreenInv => Icons!TypeOK
  <1> SUFFICES ASSUME ScreenInv PROVE Icons!TypeOK
    OBVIOUS
  <1>1. \A k \in DOMAIN events : events[k] \in Event
    BY DEF ScreenInv, WalkOK
  <1>2. \A k \in DOMAIN events :
          events[k].flag \in {Kind, "heart", "none"} /\ events[k].subs \subseteq Icons!Sub
            /\ events[k].delay \in 0 .. WriteDelay
    BY <1>1 DEF Event, Flag
  <1>3. setter.pc \in {"rest", "search", "mark"} /\ setter.sub \in Icons!Sub
        /\ setter.at \in {Icons!Gone} \cup 0 .. Len(events)
    BY DEF ScreenInv, WalkOK
  <1> QED BY <1>2, <1>3 DEF ScreenInv, ValuesOK, WalkOK, Icons!TypeOK

LEMMA ScreenListed == ScreenInv => Icons!ListedOnce
  <1> SUFFICES ASSUME ScreenInv PROVE Icons!ListedOnce
    OBVIOUS
  <1> DEFINE of(f) == {k \in DOMAIN events : events[k].flag = f}
  <1>1. ASSUME NEW f PROVE IsFiniteSet(of(f))
    <2>1. IsFiniteSet(1 .. Len(events)) /\ DOMAIN events = 1 .. Len(events)
      BY FS_Interval DEF ScreenInv, WalkOK
    <2> QED BY <2>1, FS_Subset
  <1>2. /\ \A m, n \in of("heart") : m = n
        /\ \A l, m, n \in of(Kind) : l = m \/ m = n \/ l = n
    BY DEF ScreenInv, FewEvents, AtMostOne, AtMostTwo
  <1>3. Icons!Listed("heart") = Cardinality(of("heart")) /\ Icons!Listed(Kind) = Cardinality(of(Kind))
    BY DEF Icons!Listed, Icons!Cardinality, Cardinality
  <1> HIDE DEF of
  <1> QED BY <1>1, <1>2, <1>3, FewListed DEF Icons!ListedOnce

LEMMA ScreenBelieved == Kind = "icon" /\ Fresh /\ ScreenInv => Icons!BelievedIsReal
  <1> SUFFICES ASSUME Kind = "icon", Fresh, ScreenInv, NEW s \in Icons!Sub, saved[s] = want[s]
               PROVE  dev[s] = want[s]
    BY ScreenTyped DEF Icons!BelievedIsReal
  <1>1. saved[s] <= dev[s] /\ dev[s] <= want[s]
    BY DEF ScreenInv, RisingOK, Rising
  <1>2. dev[s] \in Int /\ want[s] \in Int
    BY SubFacts DEF ScreenInv, ValuesOK, Icons!Value, Icons!Blank
  <1> QED BY <1>1, <1>2

\* On the screen whose icons never come back the rest stands still.
LEMMA OnlyIcons ==
  ASSUME screen = "icons", [MCNext]_MCVars
  PROVE  screen' = "icons" /\ [Icons!Next]_Icons!vars
  BY DEF MCNext, MCVars, Icons!vars, Icons!timer, Icons!radio, Icons!bounds

LEMMA IconsStep ==
  screen = "icons" /\ ScreenInv /\ [MCNext]_MCVars => (screen = "icons" /\ ScreenInv)'
  BY OnlyIcons, ScreenStep

\* The list of events stays short (onAddDevEventInfo): one heartbeat, and two events
\* of a kind at most, as many as threads that search the list at the same time.
THEOREM EventsAreFew ==
  screen = "icons" => (MCInit /\ [][MCNext]_MCVars => []EventsListedOnce)
  <1>1. MCInit /\ screen = "icons" => ScreenInv
    BY InitScreen DEF MCInit
  <1>2. screen = "icons" /\ ScreenInv => EventsListedOnce
    BY ScreenListed DEF EventsListedOnce
  <1> QED BY <1>1, <1>2, IconsStep, PTL

\* Icons that never come back: one that is believed to be on the device is there,
\* whatever is lost (pSetSysUserIcon, saveIconID).
THEOREM BelievedIconsAreReal ==
  Kind = "icon" /\ Fresh =>
    (screen = "icons" => (MCInit /\ [][MCNext]_MCVars => []IconsBelieved))
  <1> SUFFICES ASSUME Kind = "icon", Fresh
               PROVE  screen = "icons" => (MCInit /\ [][MCNext]_MCVars => []IconsBelieved)
    OBVIOUS
  <1>1. MCInit /\ screen = "icons" => ScreenInv
    BY InitScreen DEF MCInit
  <1>2. screen = "icons" /\ ScreenInv => IconsBelieved
    BY ScreenBelieved DEF IconsBelieved
  <1> QED BY <1>1, <1>2, IconsStep, PTL
=============================================================================
