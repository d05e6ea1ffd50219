-------------------------- MODULE SerialSendProofs --------------------------
(* What holds of the transmit engine for any commands, devices, delays and *)
(* retry counts: its types, and that superseding never loses a command     *)
(* class.  The induction needs one more fact, PuttingLive: what a thread   *)
(* is about to add has not been cancelled.                                 *)
EXTENDS MCSerialSend, TLAPS

LEMMA LowerType == ASSUME NEW m \in Nat, NEW n \in 0..m PROVE Lower(n) \in 0..m
  BY DEF Lower

LEMMA RaiseType ==
  ASSUME NEW n \in 0..ErrLimit PROVE Raise(n) \in 0..ErrLimit
  BY EngineAssumption DEF Raise

LEMMA ResendType ==
  ASSUME NEW list \in Seq(DelayedItem), NEW c \in Cmd,
         NEW rep \in 0..MaxRepeat, NEW delay \in Nat
  PROVE  /\ AddDelayed(list, c, rep, delay) \in Seq(DelayedItem)
         /\ Resend(list, c, rep, delay) \in Seq(DelayedItem)
  <1>1. [cmd |-> c, rep |-> rep, delay |-> delay] \in DelayedItem
    BY DEF DelayedItem
  <1>2. AddDelayed(list, c, rep, delay) \in Seq(DelayedItem)
    BY <1>1 DEF AddDelayed
  <1> QED BY <1>2 DEF Resend

LEMMA BeginPutType ==
  ASSUME TypeOK, NEW t \in Thread, NEW c \in Cmd, NEW rep \in 0..MaxRepeat,
         BeginPut(t, c, rep)
  PROVE  /\ queue' \in Seq(Item)
         /\ putting' \in [Thread -> Item \cup {None}]
  <1>1. queue' \in Seq(Item)
    <2>1. \A i \in 1..Len(queue) :
            (IF Same(queue[i].cmd, c) THEN [queue[i] EXCEPT !.dead = TRUE]
                                      ELSE queue[i]) \in Item
      <3>1. \A x \in Item : [x EXCEPT !.dead = TRUE] \in Item
        BY DEF Item
      <3>2. \A i \in 1..Len(queue) : queue[i] \in Item
        BY DEF TypeOK
      <3> QED BY <3>1, <3>2
    <2>2. Len(queue) \in Nat /\ DOMAIN queue = 1..Len(queue)
      BY DEF TypeOK
    <2> QED BY <2>1, <2>2 DEF BeginPut, MarkSame
  <1>2. [cmd |-> c, rep |-> rep, dead |-> FALSE] \in Item
    BY DEF Item
  <1> QED BY <1>1, <1>2 DEF TypeOK, BeginPut

LEMMA WithoutType ==
  ASSUME NEW S, NEW s \in Seq(S), NEW i \in 1..Len(s)
  PROVE  Without(s, i) \in Seq(S)
  <1>1. SubSeq(s, 1, i - 1) \in Seq(S)
    OBVIOUS
  <1>2. SubSeq(s, i + 1, Len(s)) \in Seq(S)
    OBVIOUS
  <1> QED BY <1>1, <1>2 DEF Without

LEMMA ReplaceType ==
  ASSUME NEW S, NEW s \in Seq(S), NEW i \in 1..Len(s), NEW e \in S
  PROVE  [s EXCEPT ![i] = e] \in Seq(S)
  OBVIOUS

LEMMA CurrentType ==
  ASSUME TypeOK PROVE Current \in Flight \cup {None}
  <1>1. CASE last = None /\ queue # <<>>
    <2>1. Head(queue) \in Item
      BY <1>1 DEF TypeOK
    <2> QED BY <1>1, <2>1 DEF Current, Taken, Flight, Item
  <1>2. CASE ~ (last = None /\ queue # <<>>)
    BY <1>2 DEF Current, TypeOK
  <1> QED BY <1>1, <1>2

LEMMA RetryType ==
  ASSUME TypeOK, last # None, last.rep > 0,
         NEW list \in Seq(DelayedItem), NEW delay \in Nat, NEW gap \in Nat,
         Retry(list, delay, gap)
  PROVE  delayed' \in Seq(DelayedItem) /\ last' \in Flight \cup {None}
  <1>1. last \in Flight /\ last.rep - 1 \in 0..MaxRepeat /\ last.cmd \in Cmd
    <2>1. last \in Flight
      BY DEF TypeOK
    <2>2. last.rep \in 0..MaxRepeat /\ last.cmd \in Cmd
      BY <2>1 DEF Flight
    <2>3. last.rep - 1 \in 0..MaxRepeat
      BY <2>2, EngineAssumption
    <2> QED BY <2>1, <2>2, <2>3
  <1>2. last' \in Flight
    BY <1>1 DEF Retry, Flight
  <1> QED BY <1>1, <1>2, ResendType DEF Retry

LEMMA DropType ==
  ASSUME TypeOK, last # None, Drop(0) PROVE last' \in Flight \cup {None}
  BY DEF TypeOK, Drop, Flight

\* The types of SerialSend, action by action.
LEMMA TypeStep == TypeOK /\ [Next]_vars => TypeOK'
  <1> SUFFICES ASSUME TypeOK, [Next]_vars PROVE TypeOK'
    OBVIOUS
  <1>1. ASSUME NEW c \in Cmd, NEW d \in IssueDelays, Issue(c, d) PROVE TypeOK'
    <2>1. d \in Nat /\ MaxRepeat \in 0..MaxRepeat /\ "upper" \in Thread
      BY EngineAssumption DEF Thread
    <2>2. delayed' \in Seq(DelayedItem)
      <3>1. AddDelayed(delayed, c, MaxRepeat, d) \in Seq(DelayedItem)
        BY <2>1, ResendType DEF TypeOK
      <3> QED BY <1>1, <3>1 DEF Issue, TypeOK
    <2>3. queue' \in Seq(Item) /\ putting' \in [Thread -> Item \cup {None}]
      BY <1>1, <2>1, BeginPutType DEF Issue, TypeOK
    <2>4. issued' \in Seq(Cmd)
      BY <1>1 DEF Issue, TypeOK
    <2> QED BY <1>1, <2>2, <2>3, <2>4 DEF Issue, TypeOK
  <1>2. ASSUME NEW t \in Thread, EndPut(t) PROVE TypeOK'
    <2>1. putting[t] \in Item
      BY <1>2 DEF EndPut, TypeOK
    <2>2. queue' \in Seq(Item)
      BY <1>2, <2>1 DEF EndPut, TypeOK
    <2> QED BY <1>2, <2>2 DEF EndPut, TypeOK
  <1>3. ASSUME NEW r \in ncp, NEW s \in ResStatus, ReceiveRes(r, s) PROVE TypeOK'
    <2>1. ncp' \subseteq Request
      BY <1>3 DEF ReceiveRes, TypeOK, Request
    <2>2. /\ delayed' \in Seq(DelayedItem)
          /\ last' \in Flight \cup {None}
          /\ isError' \in 0..ErrLimit
      <3>1. CASE last = None
        BY <1>3, <3>1 DEF ReceiveRes, SetSendStatusRes, TypeOK
      <3>2. CASE last # None /\ s = "ok"
        <4>1. last' \in Flight
          BY <1>3, <3>2, EngineAssumption
          DEF ReceiveRes, SetSendStatusRes, TypeOK, Flight
        <4> QED BY <1>3, <3>2, <4>1, LowerType, EngineAssumption
            DEF ReceiveRes, SetSendStatusRes, TypeOK
      <3>3. CASE last # None /\ s # "ok"
        <4>1. isError' \in 0..ErrLimit
          BY <1>3, <3>3, RaiseType DEF ReceiveRes, SetSendStatusRes, TypeOK
        <4>2. CASE last.rep > 0
          BY <1>3, <3>3, <4>1, <4>2, RetryType, EngineAssumption
          DEF ReceiveRes, SetSendStatusRes, TypeOK
        <4>3. CASE ~ (last.rep > 0)
          BY <1>3, <3>3, <4>1, <4>3, DropType
          DEF ReceiveRes, SetSendStatusRes, TypeOK
        <4> QED BY <4>2, <4>3
      <3> QED BY <3>1, <3>2, <3>3
    <2> QED BY <1>3, <2>1, <2>2 DEF ReceiveRes, TypeOK
  <1>4. ASSUME NEW r \in ncp, NEW s \in ConfirmStatus, ReceiveConfirm(r, s)
        PROVE  TypeOK'
    <2>1. /\ delayed' \in Seq(DelayedItem)
          /\ last' \in Flight \cup {None}
          /\ isError' \in 0..ErrLimit
          /\ routeHold' \in 0..RouteHold
          /\ checkRoute' \subseteq Dev
      <3>1. CASE last = None
        BY <1>4, <3>1 DEF ReceiveConfirm, SetSendStatusConfirm, TypeOK
      <3>2. CASE last # None /\ s = "ok"
        BY <1>4, <3>2, DropType, LowerType, EngineAssumption
        DEF ReceiveConfirm, SetSendStatusConfirm, TypeOK
      <3>3. CASE last # None /\ s # "ok" /\ ~ (last.rep > 0)
        BY <1>4, <3>3, DropType, RaiseType
        DEF ReceiveConfirm, SetSendStatusConfirm, TypeOK
      <3>4. CASE last # None /\ s # "ok" /\ last.rep > 0
        <4>1. isError' \in 0..ErrLimit
          BY <1>4, <3>4, RaiseType
          DEF ReceiveConfirm, SetSendStatusConfirm, TypeOK
        <4>2. last \in Flight /\ last.cmd \in Cmd /\ last.rep - 1 \in 0..MaxRepeat
          BY <3>4, EngineAssumption DEF TypeOK, Flight
        <4>3. checkRoute' \subseteq Dev /\ routeHold' \in 0..RouteHold
          <5>1. /\ checkRoute' = checkRoute \cup {DevOf[last.cmd]}
                /\ routeHold' = IF s = "noRoute" /\ routeHold = 0 THEN RouteHold ELSE routeHold
            BY <1>4, <3>4 DEF ReceiveConfirm, SetSendStatusConfirm
          <5>2. DevOf[last.cmd] \in Dev /\ checkRoute \subseteq Dev
            BY <4>2, EngineAssumption DEF TypeOK
          <5>3. routeHold \in 0..RouteHold /\ RouteHold \in 0..RouteHold
            BY EngineAssumption DEF TypeOK
          <5> QED BY <5>1, <5>2, <5>3
        <4>4. Resend(delayed, last.cmd, last.rep - 1, ResendNoAck)
                \in Seq(DelayedItem)
          BY <4>2, ResendType, EngineAssumption DEF TypeOK
        <4>5. CASE s = "noRoute"
          <5>1. Retry(delayed, ResendRoute, GapRoute)
            BY <1>4, <3>4, <4>5 DEF ReceiveConfirm, SetSendStatusConfirm
          <5> QED BY <3>4, <4>1, <4>3, <5>1, RetryType, EngineAssumption DEF TypeOK
        <4>6. CASE s = "noAck"
          <5>1. Retry(Resend(delayed, last.cmd, last.rep - 1, ResendNoAck),
                      ResendSoon, GapShort)
            BY <1>4, <3>4, <4>6 DEF ReceiveConfirm, SetSendStatusConfirm
          <5> QED BY <3>4, <4>1, <4>3, <4>4, <5>1, RetryType, EngineAssumption
        <4>7. CASE s \notin {"noRoute", "noAck"}
          <5>1. Retry(delayed, ResendSoon, GapShort)
            BY <1>4, <3>4, <4>7 DEF ReceiveConfirm, SetSendStatusConfirm
          <5> QED BY <3>4, <4>1, <4>3, <5>1, RetryType, EngineAssumption DEF TypeOK
        <4> QED BY <4>5, <4>6, <4>7
      <3> QED BY <3>1, <3>2, <3>3, <3>4
    <2> QED BY <1>4, <2>1 DEF ReceiveConfirm, TypeOK
  <1>5. CASE \E r \in ncp : AnswerLost(r)
    BY <1>5 DEF AnswerLost, TypeOK
  <1>6. CASE StartCheck
    BY <1>6 DEF StartCheck, TypeOK
  <1>7. CASE ScanDelayed
    <2>1. /\ scan \in 1..Len(delayed)
          /\ delayed[scan] \in DelayedItem
          /\ "serial" \in Thread
      BY <1>7 DEF ScanDelayed, TypeOK, Thread
    <2>2. CASE delayed[scan].delay <= 1
      <3>1. BeginPut("serial", delayed[scan].cmd, delayed[scan].rep)
        BY <1>7, <2>2 DEF ScanDelayed
      <3>2. queue' \in Seq(Item) /\ putting' \in [Thread -> Item \cup {None}]
        BY <2>1, <3>1, BeginPutType DEF DelayedItem
      <3>3. delayed' \in Seq(DelayedItem)
        BY <1>7, <2>1, <2>2, WithoutType DEF ScanDelayed, TypeOK
      <3> QED BY <1>7, <2>2, <3>2, <3>3 DEF ScanDelayed, TypeOK
    <2>3. CASE ~ (delayed[scan].delay <= 1)
      <3>1. [delayed[scan] EXCEPT !.delay = @ - 1] \in DelayedItem
        BY <2>1, <2>3 DEF DelayedItem
      <3>2. delayed' \in Seq(DelayedItem)
        <4>1. delayed' = [delayed EXCEPT ![scan] =
                            [delayed[scan] EXCEPT !.delay = @ - 1]]
          BY <1>7, <2>3 DEF ScanDelayed
        <4> QED BY <2>1, <3>1, <4>1, ReplaceType DEF TypeOK
      <3>3. scan' \in Nat \ {0}
        BY <1>7, <2>3 DEF ScanDelayed, TypeOK
      <3> QED BY <1>7, <2>3, <3>2, <3>3 DEF ScanDelayed, TypeOK
    <2> QED BY <2>2, <2>3
  <1>8. CASE EndScan
    BY <1>8 DEF EndScan, TypeOK
  <1>9. CASE CheckSend
    <2>1. queue' \in Seq(Item)
      BY <1>9 DEF CheckSend, TypeOK
    <2>2. Current \in Flight \cup {None}
      BY CurrentType
    <2>3. /\ last' \in Flight \cup {None}
          /\ ncp' \subseteq Request
          /\ writes' \in [Cmd -> Nat]
      <3>1. CASE Current = None
        BY <1>9, <3>1 DEF CheckSend, TypeOK, ncpVars, Advance, WriteData
      <3>2. CASE Current # None /\ Current.delay > 1 /\ UNCHANGED ncpVars
                 /\ last' = [Current EXCEPT !.delay = @ - 1]
        <4>1. Current \in Flight /\ Current.delay \in Nat
          BY <2>2, <3>2 DEF Flight
        <4>2. [Current EXCEPT !.delay = @ - 1] \in Flight
          BY <3>2, <4>1 DEF Flight
        <4> QED BY <3>2, <4>2 DEF TypeOK, ncpVars
      <3>3. CASE Current # None /\ Advance(Current)
        <4>1. CASE WriteData(Current)
          <5>1. last' \in Flight
            BY <2>2, <3>3, <4>1, EngineAssumption DEF WriteData, Flight
          <5>2. Current.cmd \in Cmd /\ writes[Current.cmd] \in Nat
            BY <2>2, <3>3 DEF Flight, TypeOK
          <5>3. ncp' \subseteq Request
            BY <4>1, <5>2 DEF WriteData, TypeOK, Request
          <5> QED BY <4>1, <5>1, <5>2, <5>3 DEF WriteData, TypeOK
        <4>2. CASE /\ last' = [Current EXCEPT !.st = "SEND_DELETE", !.delay = 0]
                   /\ UNCHANGED ncpVars
          BY <2>2, <3>3, <4>2 DEF TypeOK, ncpVars, Flight
        <4>3. CASE last' = None /\ UNCHANGED ncpVars
          BY <4>3 DEF TypeOK, ncpVars
        <4> QED BY <3>3, <4>1, <4>2, <4>3 DEF Advance
      <3> QED BY <1>9, <3>1, <3>2, <3>3 DEF CheckSend
    <2> QED BY <1>9, <2>1, <2>3 DEF CheckSend, TypeOK
  <1>10. CASE SecondTick
    BY <1>10, LowerType, EngineAssumption DEF SecondTick, TypeOK
  <1>11. CASE \E d \in Dev : SourceRoute(d) \/ SetHeartOK(d) \/ HeartMissed(d)
    BY <1>11 DEF SourceRoute, SetHeartOK, HeartMissed, SetOnline, TypeOK
  <1>12. CASE UNCHANGED vars
    BY <1>12 DEF vars, TypeOK
  <1> QED BY <1>1, <1>2, <1>3, <1>4, <1>5, <1>6, <1>7, <1>8, <1>9, <1>10,
             <1>11, <1>12 DEF Next, Receive, SerialStep, Thread

LEMMA InitType == Init => TypeOK
  BY EngineAssumption DEF Init, TypeOK

\* The engine's lists, its command in flight and its counters stay within
\* their types, in particular isError within its ceiling and every retry
\* count between 0 and MaxRepeat.
THEOREM TypeCorrect == Spec => []TypeOK
  BY InitType, TypeStep, PTL DEF Spec

-----------------------------------------------------------------------------
(* Superseding                                                              *)

\* What a thread is about to add is live: onDeleteSame reaches the queue only.
PuttingLive == \A t \in Thread : putting[t] # None => ~ putting[t].dead

\* A live command of entry i's class follows it in the queue, or is on its way.
Successor(i) ==
  \/ \E j \in DOMAIN queue : /\ j > i
                             /\ ~ queue[j].dead
                             /\ Same(queue[j].cmd, queue[i].cmd)
  \/ \E t \in Thread : /\ putting[t] # None
                       /\ Same(putting[t].cmd, queue[i].cmd)

SupersedeInv == TypeOK /\ PuttingLive /\ SupersededHasSuccessor

\* onDeleteSame changes the status of entries only, and the thread that ran it
\* holds the successor of all it cancelled.
LEMMA BeginPutKeeps ==
  ASSUME SupersedeInv, NEW t \in Thread, NEW c \in Cmd,
         NEW rep \in 0..MaxRepeat, putting[t] = None, BeginPut(t, c, rep)
  PROVE  PuttingLive' /\ SupersededHasSuccessor'
  <1>1. /\ putting'[t] = [cmd |-> c, rep |-> rep, dead |-> FALSE]
        /\ \A u \in Thread \ {t} : putting'[u] = putting[u]
        /\ putting'[t] # None
    <2>1. [cmd |-> c, rep |-> rep, dead |-> FALSE]
            \in [cmd : Cmd, rep : 0..MaxRepeat, dead : BOOLEAN]
      OBVIOUS
    <2>2. [cmd |-> c, rep |-> rep, dead |-> FALSE] # None
      BY <2>1, EngineAssumption DEF Item
    <2> QED BY <2>2 DEF SupersedeInv, TypeOK, BeginPut
  <1>2. PuttingLive'
    BY <1>1 DEF PuttingLive, SupersedeInv
  <1>3. /\ DOMAIN queue' = DOMAIN queue
        /\ \A i \in DOMAIN queue :
             /\ queue'[i].cmd = queue[i].cmd
             /\ Same(queue[i].cmd, c) => queue'[i].dead
             /\ ~ Same(queue[i].cmd, c) => queue'[i] = queue[i]
    <2>1. \A x \in Item : /\ [x EXCEPT !.dead = TRUE].cmd = x.cmd
                          /\ [x EXCEPT !.dead = TRUE].dead
      BY DEF Item
    <2>2. \A i \in DOMAIN queue : queue[i] \in Item
      BY DEF SupersedeInv, TypeOK
    <2>3. /\ DOMAIN queue' = DOMAIN queue
          /\ \A i \in DOMAIN queue :
               queue'[i] = IF Same(queue[i].cmd, c)
                             THEN [queue[i] EXCEPT !.dead = TRUE] ELSE queue[i]
      BY DEF BeginPut, MarkSame
    <2> QED BY <2>1, <2>2, <2>3
  <1>4. ASSUME NEW i \in DOMAIN queue', queue'[i].dead PROVE Successor(i)'
    <2>1. i \in DOMAIN queue
      BY <1>3
    <2>2. CASE Same(queue[i].cmd, c)
      BY <1>1, <1>3, <2>1, <2>2 DEF Successor, Same
    <2>3. CASE ~ Same(queue[i].cmd, c)
      <3>1. queue[i].dead
        BY <1>3, <1>4, <2>1, <2>3
      <3>2. CASE \E j \in DOMAIN queue : /\ j > i
                                        /\ ~ queue[j].dead
                                        /\ Same(queue[j].cmd, queue[i].cmd)
        BY <1>3, <2>1, <2>3, <3>2 DEF Successor, Same
      <3>3. CASE \E u \in Thread : /\ putting[u] # None
                                  /\ Same(putting[u].cmd, queue[i].cmd)
        BY <1>1, <1>3, <2>1, <3>3 DEF Successor
      <3> QED BY <2>1, <3>1, <3>2, <3>3 DEF SupersedeInv, SupersededHasSuccessor
    <2> QED BY <2>2, <2>3
  <1> QED BY <1>2, <1>4 DEF SupersededHasSuccessor, Successor

LEMMA SupersedeStep == SupersedeInv /\ [Next]_vars => SupersedeInv'
  <1> SUFFICES ASSUME SupersedeInv, [Next]_vars
               PROVE  PuttingLive' /\ SupersededHasSuccessor'
    BY TypeStep DEF SupersedeInv
  <1>1. CASE UNCHANGED <<queue, putting>>
    BY <1>1 DEF SupersedeInv, PuttingLive, SupersededHasSuccessor
  <1>2. ASSUME NEW c \in Cmd, NEW d \in IssueDelays, Issue(c, d)
        PROVE  PuttingLive' /\ SupersededHasSuccessor'
    <2>1. CASE d > 0
      BY <1>1, <1>2, <2>1 DEF Issue
    <2>2. CASE ~ (d > 0)
      <3>1. MaxRepeat \in 0..MaxRepeat /\ "upper" \in Thread
        BY EngineAssumption DEF Thread
      <3> QED BY <1>2, <2>2, <3>1, BeginPutKeeps DEF Issue
    <2> QED BY <2>1, <2>2
  <1>3. CASE ScanDelayed
    <2>1. /\ scan \in 1..Len(delayed)
          /\ delayed[scan] \in DelayedItem
          /\ "serial" \in Thread
      BY <1>3 DEF ScanDelayed, SupersedeInv, TypeOK, Thread
    <2>2. CASE delayed[scan].delay <= 1
      <3>1. BeginPut("serial", delayed[scan].cmd, delayed[scan].rep)
        BY <1>3, <2>2 DEF ScanDelayed
      <3>2. delayed[scan].cmd \in Cmd /\ delayed[scan].rep \in 0..MaxRepeat
        BY <2>1 DEF DelayedItem
      <3> QED BY <1>3, <2>1, <3>1, <3>2, BeginPutKeeps DEF ScanDelayed
    <2>3. CASE ~ (delayed[scan].delay <= 1)
      BY <1>1, <1>3, <2>3 DEF ScanDelayed
    <2> QED BY <2>2, <2>3
  <1>4. ASSUME NEW t \in Thread, EndPut(t)
        PROVE  PuttingLive' /\ SupersededHasSuccessor'
    <2>1. /\ putting'[t] = None
          /\ \A u \in Thread \ {t} : putting'[u] = putting[u]
      BY <1>4 DEF EndPut, SupersedeInv, TypeOK
    <2>2. PuttingLive'
      BY <2>1 DEF PuttingLive, SupersedeInv
    <2>3. Len(queue) \in Nat /\ DOMAIN queue = 1..Len(queue)
      BY DEF SupersedeInv, TypeOK
    <2>4. /\ putting[t] \in Item /\ ~ putting[t].dead
          /\ DOMAIN queue' = 1..(Len(queue) + 1)
          /\ queue'[Len(queue) + 1] = putting[t]
          /\ \A i \in DOMAIN queue : queue'[i] = queue[i]
      BY <1>4 DEF EndPut, SupersedeInv, TypeOK, PuttingLive
    <2>5. ASSUME NEW i \in DOMAIN queue', queue'[i].dead PROVE Successor(i)'
      <3>1. i \in DOMAIN queue /\ queue[i].dead
        BY <2>3, <2>4, <2>5
      <3>2. CASE \E j \in DOMAIN queue : /\ j > i
                                        /\ ~ queue[j].dead
                                        /\ Same(queue[j].cmd, queue[i].cmd)
        BY <2>3, <2>4, <3>1, <3>2 DEF Successor
      <3>3. CASE \E u \in Thread \ {t} : /\ putting[u] # None
                                        /\ Same(putting[u].cmd, queue[i].cmd)
        BY <2>1, <2>4, <3>1, <3>3 DEF Successor
      <3>4. CASE Same(putting[t].cmd, queue[i].cmd)
        <4>1. /\ Len(queue) + 1 \in DOMAIN queue' /\ Len(queue) + 1 > i
              /\ ~ queue'[Len(queue) + 1].dead
              /\ Same(queue'[Len(queue) + 1].cmd, queue'[i].cmd)
          BY <2>3, <2>4, <3>1, <3>4
        <4> QED BY <4>1 DEF Successor
      <3> QED BY <3>1, <3>2, <3>3, <3>4 DEF SupersedeInv, SupersededHasSuccessor
    <2> QED BY <2>2, <2>5 DEF SupersededHasSuccessor, Successor
  <1>5. CASE CheckSend
    <2>1. CASE ~ (last = None /\ queue # <<>>)
      BY <1>1, <1>5, <2>1 DEF CheckSend
    <2>2. CASE last = None /\ queue # <<>>
      <3>1. queue' = Tail(queue) /\ putting' = putting
        BY <1>5, <2>2 DEF CheckSend
      <3>2. PuttingLive'
        BY <3>1 DEF PuttingLive, SupersedeInv
      <3>3. /\ Len(queue) \in Nat /\ DOMAIN queue = 1..Len(queue)
            /\ DOMAIN queue' = 1..(Len(queue) - 1)
            /\ \A i \in DOMAIN queue' :
                 i \in Nat /\ i + 1 \in DOMAIN queue /\ queue'[i] = queue[i + 1]
        BY <2>2, <3>1 DEF SupersedeInv, TypeOK
      <3>4. ASSUME NEW i \in DOMAIN queue', queue'[i].dead PROVE Successor(i)'
        <4>1. i + 1 \in DOMAIN queue /\ queue[i + 1].dead
          BY <3>3, <3>4
        <4>2. ASSUME NEW j \in DOMAIN queue, j > i + 1, ~ queue[j].dead,
                     Same(queue[j].cmd, queue[i + 1].cmd)
              PROVE  Successor(i)'
          <5>1. /\ j - 1 \in DOMAIN queue' /\ j - 1 > i
                /\ queue'[j - 1] = queue[j]
            BY <3>3, <4>2
          <5> QED BY <3>3, <4>2, <5>1 DEF Successor
        <4>3. CASE \E u \in Thread : /\ putting[u] # None
                                    /\ Same(putting[u].cmd, queue[i + 1].cmd)
          BY <3>1, <3>3, <4>3 DEF Successor
        <4> QED BY <4>1, <4>2, <4>3 DEF SupersedeInv, SupersededHasSuccessor
      <3> QED BY <3>2, <3>4 DEF SupersededHasSuccessor, Successor
    <2> QED BY <2>1, <2>2
  <1>6. CASE Receive
    BY <1>1, <1>6 DEF Receive, ReceiveRes, ReceiveConfirm
  <1>7. CASE \/ \E r \in ncp : AnswerLost(r)
             \/ StartCheck \/ EndScan \/ SecondTick
             \/ \E d \in Dev : SourceRoute(d) \/ SetHeartOK(d) \/ HeartMissed(d)
    BY <1>1, <1>7 DEF AnswerLost, StartCheck, EndScan, SecondTick, SourceRoute,
                      SetHeartOK, HeartMissed, SetOnline
  <1>8. CASE UNCHANGED vars
    BY <1>1, <1>8 DEF vars
  <1> QED BY <1>2, <1>3, <1>4, <1>5, <1>6, <1>7, <1>8
      DEF Next, SerialStep, Thread

\* onWriteCMD's duplicate removal never loses a class of commands: whatever the
\* commands, the retries and the interleaving of the two threads between
\* onDeleteSame and add, a cancelled entry of the queue has a live successor.
THEOREM NothingLostToSuperseding == Spec => []SupersededHasSuccessor
  <1>1. Init => SupersedeInv
    BY InitType DEF Init, SupersedeInv, PuttingLive, SupersededHasSuccessor
  <1>2. SupersedeInv => SupersededHasSuccessor
    BY DEF SupersedeInv
  <1> QED BY <1>1, <1>2, SupersedeStep, PTL DEF Spec

-----------------------------------------------------------------------------
(* Answers and the command in flight                                       *)

\* One answer at most is outstanding: the next request is written when nothing
\* is in flight, and so when nothing is outstanding.
OneOutstanding == ~ LateAnswers => \A r, s \in ncp : r = s

AnswerInv == AnswerMeansLast /\ OneOutstanding

LEMMA FlightIsSome == None \notin Flight
  BY EngineAssumption

LEMMA AnswerStep == TypeOK /\ AnswerInv /\ [Next]_vars => AnswerInv'
  <1> SUFFICES ASSUME TypeOK, AnswerInv, [Next]_vars, ~ LateAnswers PROVE AnswerInv'
    BY DEF AnswerInv, AnswerMeansLast, OneOutstanding
  <1>1. /\ \A r \in ncp : /\ last # None /\ last.cmd = r.cmd
                          /\ last.st = IF r.stage = "srsp" THEN "SEND_WAIT_RES"
                                                           ELSE "SEND_WAIT_CONFIRM"
        /\ \A r, s \in ncp : r = s
        /\ last \in Flight \cup {None}
        /\ ncp \subseteq Request
    BY DEF AnswerInv, AnswerMeansLast, OneOutstanding, InFlight, TypeOK
  <1>2. ASSUME ncp' = {} PROVE AnswerInv'
    BY <1>2 DEF AnswerInv, AnswerMeansLast, OneOutstanding
  <1>3. ASSUME UNCHANGED <<last, ncp>> PROVE AnswerInv'
    BY <1>3 DEF AnswerInv, AnswerMeansLast, OneOutstanding, InFlight
  <1>4. CASE Receive
    <2>1. CASE \E r \in ncp, s \in ResStatus : ReceiveRes(r, s)
      <3>1. PICK r \in ncp, s \in ResStatus : ReceiveRes(r, s)
        BY <2>1
      <3>2. CASE s # "ok"
        BY <1>1, <1>2, <3>1, <3>2 DEF ReceiveRes
      <3>3. CASE s = "ok"
        <4>1. ncp' = {[r EXCEPT !.stage = "confirm"]}
          BY <1>1, <3>1, <3>3 DEF ReceiveRes
        <4>2. /\ last # None
              /\ last' = [last EXCEPT !.st = "SEND_WAIT_CONFIRM", !.delay = ConfirmWait]
          BY <1>1, <3>1, <3>3 DEF ReceiveRes, SetSendStatusRes
        <4>3. /\ last' # None /\ last'.cmd = last.cmd
              /\ last'.st = "SEND_WAIT_CONFIRM"
          BY <1>1, <4>2, FlightIsSome, EngineAssumption DEF Flight
        <4>4. /\ [r EXCEPT !.stage = "confirm"].cmd = last.cmd
              /\ [r EXCEPT !.stage = "confirm"].stage = "confirm"
          BY <1>1 DEF Request
        <4> QED BY <4>1, <4>3, <4>4
            DEF AnswerInv, AnswerMeansLast, OneOutstanding, InFlight
      <3> QED BY <3>2, <3>3
    <2>2. CASE \E r \in ncp, s \in ConfirmStatus : ReceiveConfirm(r, s)
      BY <1>1, <1>2, <2>2 DEF ReceiveConfirm
    <2> QED BY <1>4, <2>1, <2>2 DEF Receive
  <1>5. CASE \E r \in ncp : AnswerLost(r)
    BY <1>1, <1>2, <1>5 DEF AnswerLost
  <1>6. CASE CheckSend
    <2>1. CASE ncp = {}
      <3>1. CASE ncp' = ncp
        BY <1>2, <2>1, <3>1
      <3>2. CASE Current # None /\ WriteData(Current)
        <4>1. /\ ncp' = {[cmd |-> Current.cmd, n |-> writes[Current.cmd], stage |-> "srsp"]}
              /\ last' = [Current EXCEPT !.st = "SEND_WAIT_RES", !.delay = ResWait]
          BY <2>1, <3>2 DEF WriteData
        <4>2. Current \in Flight /\ ResWait \in Nat
          BY <3>2, CurrentType, EngineAssumption
        <4>3. /\ last' # None /\ last'.cmd = Current.cmd
              /\ last'.st = "SEND_WAIT_RES"
          BY <3>2, <4>1, <4>2, FlightIsSome DEF Flight
        <4> QED BY <4>1, <4>3
            DEF AnswerInv, AnswerMeansLast, OneOutstanding, InFlight
      <3> QED BY <1>6, <3>1, <3>2 DEF CheckSend, Advance, ncpVars
    <2>2. CASE ncp # {}
      <3>1. PICK r \in ncp : TRUE
        BY <2>2
      <3>2. /\ last # None /\ Current = last /\ ~ (ncp = {})
            /\ last.st \in {"SEND_WAIT_RES", "SEND_WAIT_CONFIRM"}
        BY <1>1, <3>1 DEF Current
      <3>3. last.delay > 1 /\ ncp' = ncp /\ last' = [last EXCEPT !.delay = @ - 1]
        BY <1>6, <3>2 DEF CheckSend, Advance, ncpVars
      <3>4. last' # None /\ last'.cmd = last.cmd /\ last'.st = last.st
        <4>1. last \in Flight /\ last.delay \in Nat /\ last.delay - 1 \in Nat
          BY <1>1, <3>2, <3>3 DEF Flight
        <4> QED BY <3>3, <4>1, FlightIsSome DEF Flight
      <3> QED BY <1>1, <3>3, <3>4
          DEF AnswerInv, AnswerMeansLast, OneOutstanding, InFlight
    <2> QED BY <2>1, <2>2
  <1>7. CASE \/ \E c \in Cmd, d \in IssueDelays : Issue(c, d)
             \/ EndPut("upper") \/ EndPut("serial")
             \/ StartCheck \/ ScanDelayed \/ EndScan
             \/ SecondTick
             \/ \E d \in Dev : SourceRoute(d) \/ SetHeartOK(d) \/ HeartMissed(d)
    BY <1>3, <1>7 DEF Issue, EndPut, StartCheck, ScanDelayed, EndScan, SecondTick,
                      SourceRoute, SetHeartOK, HeartMissed, SetOnline
  <1>8. CASE UNCHANGED vars
    BY <1>3, <1>8 DEF vars, ncpVars
  <1> QED BY <1>4, <1>5, <1>6, <1>7, <1>8 DEF Next, SerialStep

\* A punctual coordinator's answers are taken for the command they belong to,
\* although nothing in them says so: for any commands, delays and attempts.
THEOREM AnswersMeanLast == Spec => []AnswerMeansLast
  <1>1. Init => AnswerInv
    BY DEF Init, AnswerInv, AnswerMeansLast, OneOutstanding
  <1>2. AnswerInv => AnswerMeansLast
    BY DEF AnswerInv
  <1> QED BY <1>1, <1>2, AnswerStep, TypeCorrect, PTL DEF Spec

\* The same of the behaviours that the run explores, where every second
\* coordinator is a late one (onSetSendStatus).
THEOREM PunctualOfTheRun ==
  MCInit /\ [][MCNext]_MCVars => []PunctualAnswerMeansLast
  <1> DEFINE RunInv == coordinator = "punctual" => TypeOK /\ AnswerInv
  <1>1. MCInit => RunInv
    <2>1. Init => AnswerInv
      BY DEF Init, AnswerInv, AnswerMeansLast, OneOutstanding
    <2> QED BY <2>1, InitType DEF MCInit
  <1>2. RunInv /\ [MCNext]_MCVars => RunInv'
    <2> SUFFICES ASSUME RunInv, [MCNext]_MCVars, coordinator' = "punctual"
                 PROVE  RunInv'
      OBVIOUS
    <2>1. coordinator = "punctual" /\ [Next]_vars
      BY DEF MCNext, MCVars
    <2> QED BY <2>1, TypeStep, AnswerStep
  <1>3. RunInv => PunctualAnswerMeansLast
    BY DEF PunctualAnswerMeansLast, AnswerInv
  <1> QED BY <1>1, <1>2, <1>3, PTL
=============================================================================
