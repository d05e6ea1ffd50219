---------------------------- MODULE CloudProofs -----------------------------
(* What the gateway and the cloud know of each other.  For any number of    *)
(* devices, mains-powered or asleep, whatever is lost and whenever the      *)
(* connection breaks: both show the same devices online at rest, and no     *)
(* device is given up before three rescues.  Then, for any number of        *)
(* changes, broken sessions and failed requests: at rest the gateway's      *)
(* lists are the server's.                                                  *)
EXTENDS MCCloud, TLAPS

Query == [type |-> "list"]
Updates == Message({"update"})
Reports == Message({"status", "list"})
Requests == Updates \cup {Query}

\* Each rescue finds less time left than the one before it.
CountsOK ==
  /\ delay \in [Device -> Nat] /\ check \in [Device -> Nat]
  /\ \A d \in Mains : tries[d] = 0 \/ tries[d] + delay[d] <= Base + 1
  /\ \A d \in Battery : tries[d] = 0

\* No report of the cloud to the gateway of d but the list, if any.
NoStatus(d) == \A k \in DOMAIN down[d] : down[d][k].type # "status"

\* What the gateway takes for the cloud's status of d once it has taken in
\* what is under way is what the cloud has.
Told(d) ==
  \/ \E k \in DOMAIN down[d] :
       /\ down[d][k].type = "status" /\ down[d][k].online = cloud[d]
       /\ \A m \in DOMAIN down[d] : m > k => down[d][m].type # "status"
  \/ NoStatus(d) /\ (IF held.dev = d THEN held.cloud ELSE save[d]) = cloud[d]

\* In a session the gateway is told of the cloud's status, or it asks for the
\* list, or gets it, or the cloud has its status or gets one that is news to it.
Known(d) ==
  \/ Told(d)
  \/ down[d] = <<>> /\ up[d] # <<>> /\ Head(up[d]) = Query /\ Tail(up[d]) \in Seq(Updates)
  \/ down[d] = <<[type |-> "list", online |-> cloud[d]]>> /\ up[d] \in Seq(Updates)
  \/ /\ down[d] = <<>> /\ up[d] \in Seq(Updates) /\ held.dev # d
     /\ cloud[d] = status[d] \/ \E k \in DOMAIN up[d] : up[d][k].online # cloud[d]

AgreeInv ==
  /\ conn => \A d \in Device : Known(d)
  /\ ~ conn => \A d \in Device : up[d] = <<>> /\ down[d] = <<>>

\* Three rescues are behind, or there is time for those that are left.
InTime(d) ==
  \/ tries[d] >= 3
  \/ delay[d] >= (IF check[d] > 1 THEN check[d] ELSE 1) + 1 + (2 - tries[d]) * RescueInterval

\* A device that is online, or is to be written back as online, is in time; one
\* that is offline by now has had its rescues.
RescueInv ==
  \A d \in Mains \ overtaken :
    /\ status[d] => InTime(d)
    /\ held.dev = d /\ held.own /\ ~status[d] => tries[d] >= 3

OnlineInv == TypeOK /\ CountsOK /\ AgreeInv /\ RescueInv

-----------------------------------------------------------------------------
(* Types and counts                                                        *)

LEMMA Devices ==
  /\ N \in Nat /\ Base \in Nat /\ Base >= 3 /\ Boot \in Nat /\ Boot >= 3 * Base
  /\ Day \in Nat /\ Silence \in Nat /\ MaxFaults \in Nat /\ MaxFlips \in Nat
  /\ MaxBreaks \in Nat
  /\ Mains \subseteq Device /\ Battery \subseteq Device /\ Device = Mains \cup Battery
  /\ \A d \in Battery : d \notin Mains
  /\ \A d \in Device : d \in Nat /\ d # 0
  <1>1. /\ N \in Nat /\ Base \in Nat /\ Base >= 3 /\ Boot \in Nat /\ Boot >= 3 * Base
        /\ Day \in Nat /\ Silence \in Nat /\ MaxFaults \in Nat /\ MaxFlips \in Nat
        /\ MaxBreaks \in Nat /\ Battery \subseteq Device
    BY OnlineAssumption
  <1>2. \A d \in Device : d \in Nat /\ d # 0
    BY <1>1 DEF Device
  <1> QED BY <1>1, <1>2 DEF Mains

\* The interval is a third of the base.
LEMMA Interval ==
  RescueInterval \in Nat /\ RescueInterval >= 1 /\ 3 * RescueInterval <= Base
  BY Devices DEF RescueInterval

TypeInv == TypeOK /\ CountsOK

LEMMA UpdateType ==
  ASSUME NEW s \in BOOLEAN
  PROVE  /\ Update(s) \in Seq(Updates)
         /\ conn => Update(s) = <<[type |-> "update", online |-> s]>>
         /\ ~ conn => Update(s) = <<>>
  <1>1. [type |-> "update", online |-> s] \in Updates
    BY DEF Updates, Message
  <1> QED BY <1>1 DEF Update

LEMMA UpType == TypeOK => \A d \in Device : up[d] \in Seq(Requests)
  BY DEF TypeOK, Updates, Requests, Query

LEMMA UpdatesAsk == \A u \in Seq(Updates) : u \in Seq(Requests)
  BY DEF Requests

LEMMA TwoParts ==
  ASSUME NEW S, NEW s \in Seq(S), NEW a \in Seq(S)
  PROVE  s \o a \in Seq(S)
  OBVIOUS

\* What a turn sends of a device, in three parts.
LEMMA Sayings ==
  ASSUME TypeOK, NEW d \in Device
  PROVE  /\ (IF status[d] # save[d] THEN Update(status[d]) ELSE <<>>) \in Seq(Updates)
         /\ (IF d \in Lost THEN Update(FALSE) ELSE <<>>) \in Seq(Updates)
         /\ (IF d \in polled THEN Update(TRUE) ELSE <<>>) \in Seq(Updates)
  <1>1. Update(TRUE) \in Seq(Updates) /\ Update(FALSE) \in Seq(Updates)
    BY UpdateType
  <1>2. Update(status[d]) \in Seq(Updates)
    <2>1. status[d] \in BOOLEAN
      BY DEF TypeOK
    <2> QED BY <2>1, UpdateType
  <1>3. <<>> \in Seq(Updates)
    OBVIOUS
  <1> QED BY <1>1, <1>2, <1>3

LEMMA ThreeParts ==
  ASSUME NEW S, NEW s \in Seq(S), NEW a \in Seq(S), NEW b \in Seq(S), NEW c \in Seq(S)
  PROVE  s \o a \o b \o c \in Seq(S)
  OBVIOUS

LEMMA TypeInit == Init => TypeInv
  <1> SUFFICES ASSUME Init PROVE TypeInv
    OBVIOUS
  <1> USE Devices
  <1>1. /\ status \in [Device -> BOOLEAN] /\ save \in [Device -> BOOLEAN]
        /\ cloud \in [Device -> BOOLEAN] /\ alive \subseteq Device /\ conn \in BOOLEAN
        /\ events = {} /\ polled = {} /\ overtaken = {} /\ held = None
        /\ faults = 0 /\ flips = 0 /\ breaks = 0
    BY DEF Init
  <1>2. up \in [Device -> Seq(Requests)] /\ down \in [Device -> Seq(Reports)]
    BY DEF Init
  <1>3. /\ delay \in [Device -> Nat] /\ check \in [Device -> Nat] /\ tries \in [Device -> 0 .. Base]
        /\ \A d \in Device : check[d] = 0 /\ tries[d] = 0
        /\ \A d \in Device : delay[d] = 0 \/ delay[d] = IF d \in Battery THEN Day ELSE Boot
    BY DEF Init
  <1>4. \A d \in Mains : delay[d] \in 0 .. Boot /\ check[d] \in 0 .. 3 * Base
    BY <1>3
  <1>5. \A d \in Battery : delay[d] \in 0 .. Day \cup 0 .. Silence /\ check[d] = 0
    BY <1>3
  <1> QED BY <1>1, <1>2, <1>3, <1>4, <1>5 DEF TypeInv, TypeOK, CountsOK, Updates, Query, Reports, Requests

LEMMA TickTypes == TypeInv /\ Tick => TypeInv'
  <1> SUFFICES ASSUME TypeInv, Tick PROVE TypeInv'
    OBVIOUS
  <1> USE Devices
  <1>1. PICK early \in SUBSET Spare, sends \in BOOLEAN : Turn(polled, early, sends)
    BY DEF Tick, Soonest
  <1>2. /\ UNCHANGED <<save, held, conn, down, cloud, alive, flips, breaks>>
        /\ faults' = faults \/ (faults < MaxFaults /\ faults' = faults + 1)
    BY DEF Tick
  <1>3. polled \subseteq Mains /\ Silent \subseteq Mains /\ Absent \subseteq Mains /\ early \subseteq Mains
    BY <1>1 DEF TypeInv, TypeOK, Silent, Absent, Spare, Due
  <1>4. events' \subseteq Mains /\ polled' \subseteq Mains /\ overtaken' \subseteq Mains
    BY <1>1, <1>3 DEF Turn, TypeInv, TypeOK
  <1>5. status' \in [Device -> BOOLEAN]
    BY <1>1 DEF Turn, TypeInv, TypeOK
  <1>6. ASSUME NEW d \in Device
        PROVE  /\ Left(d) \in Nat /\ Left(d) = (IF delay[d] > 0 THEN delay[d] - 1 ELSE 0)
               /\ Quiet(d) \in Nat /\ Quiet(d) <= check[d]
    BY DEF TypeInv, CountsOK, Left, Quiet, Less
  <1>7. /\ delay' = [d \in Device |-> IF d \in polled THEN 3 * Base ELSE Left(d)]
        /\ check' = [d \in Device |-> Checked(d, early)]
        /\ tries' = [d \in Device |->
             IF d \in polled THEN 0 ELSE IF d \in Silent THEN tries[d] + 1 ELSE tries[d]]
    BY <1>1 DEF Turn
  <1>8. ASSUME NEW d \in Device
        PROVE  /\ delay'[d] \in Nat /\ check'[d] \in Nat
               /\ d \in Mains => delay'[d] \in 0 .. Boot /\ check'[d] \in 0 .. 3 * Base
               /\ d \in Battery => /\ delay'[d] \in 0 .. Day \cup 0 .. Silence /\ check'[d] = 0
    <2>1. delay'[d] = (IF d \in polled THEN 3 * Base ELSE Left(d)) /\ check'[d] = Checked(d, early)
      BY <1>7
    <2>2. CASE d \in Mains
      <3>1. delay[d] \in 0 .. Boot /\ check[d] \in 0 .. 3 * Base
        BY <2>2 DEF TypeInv, TypeOK
      <3>2. delay'[d] \in 0 .. Boot
        BY <1>6, <2>1, <3>1
      <3>3. check'[d] \in 0 .. 3 * Base
        BY <1>6, <2>1, <3>1, Interval DEF Checked
      <3> QED BY <2>2, <3>2, <3>3
    <2>3. CASE d \in Battery
      <3>1. /\ delay[d] \in 0 .. Day \/ delay[d] \in 0 .. Silence
            /\ check[d] = 0
        BY <2>3 DEF TypeInv, TypeOK
      <3>2. delay'[d] \in 0 .. Day \/ delay'[d] \in 0 .. Silence
        BY <1>3, <1>6, <2>1, <2>3, <3>1
      <3>3. check'[d] = 0
        BY <1>3, <2>1, <2>3, <3>1 DEF Checked, Quiet
      <3> QED BY <2>3, <3>2, <3>3
    <2> QED BY <2>2, <2>3
  <1>9. ASSUME NEW d \in Device
        PROVE  /\ tries'[d] \in 0 .. Base
               /\ d \in Mains => tries'[d] = 0 \/ tries'[d] + delay'[d] <= Base + 1
               /\ d \in Battery => tries'[d] = 0
    <2>1. /\ tries'[d] = IF d \in polled THEN 0 ELSE IF d \in Silent THEN tries[d] + 1 ELSE tries[d]
          /\ delay'[d] = IF d \in polled THEN 3 * Base ELSE Left(d)
      BY <1>7
    <2>2. tries[d] \in 0 .. Base /\ delay[d] \in Nat
      BY DEF TypeInv, TypeOK, CountsOK
    <2>3. CASE d \in Battery
      BY <1>3, <2>1, <2>2, <2>3 DEF TypeInv, CountsOK
    <2>4. CASE d \in Mains
      <3>1. tries[d] = 0 \/ tries[d] + delay[d] <= Base + 1
        BY <2>4 DEF TypeInv, CountsOK
      <3>2. d \in Silent => Left(d) >= 1 /\ Left(d) <= Base
        BY DEF Silent
      <3> QED BY <1>6, <2>1, <2>2, <2>4, <3>1, <3>2
    <2> QED BY <2>3, <2>4
  <1>10. up' \in [Device -> Seq(Requests)]
    <2>1. up' = [d \in Device |-> up[d]
            \o (IF status[d] # save[d] THEN Update(status[d]) ELSE <<>>)
            \o (IF d \in Lost THEN Update(FALSE) ELSE <<>>)
            \o (IF d \in polled THEN Update(TRUE) ELSE <<>>)]
      BY <1>1 DEF Turn
    <2>2. \A d \in Device : up[d] \in Seq(Requests)
      BY UpType DEF TypeInv
    <2>3. ASSUME NEW d \in Device PROVE up'[d] \in Seq(Requests)
      <3> DEFINE a == IF status[d] # save[d] THEN Update(status[d]) ELSE <<>>
                 b == IF d \in Lost THEN Update(FALSE) ELSE <<>>
                 c == IF d \in polled THEN Update(TRUE) ELSE <<>>
      <3>1. up'[d] = up[d] \o a \o b \o c
        BY <2>1
      <3>2. a \in Seq(Updates) /\ b \in Seq(Updates) /\ c \in Seq(Updates)
        BY Sayings DEF TypeInv
      <3> HIDE DEF a, b, c
      <3>3. a \in Seq(Requests) /\ b \in Seq(Requests) /\ c \in Seq(Requests)
        BY <3>2, UpdatesAsk
      <3> QED BY <2>2, <3>1, <3>3, ThreeParts
    <2> QED BY <2>1, <2>3
  <1>11. /\ delay' \in [Device -> Nat] /\ check' \in [Device -> Nat] /\ tries' \in [Device -> 0 .. Base]
    BY <1>7, <1>8, <1>9
  <1>12. TypeOK'
    BY <1>2, <1>4, <1>5, <1>8, <1>10, <1>11 DEF TypeInv, TypeOK, Updates, Query, Requests
  <1>13. CountsOK'
    BY <1>9, <1>11 DEF CountsOK
  <1> QED BY <1>12, <1>13 DEF TypeInv

LEMMA AppendUpdate ==
  ASSUME TypeOK, NEW d \in Device
  PROVE  /\ up[d] \o Update(TRUE) \in Seq(Requests)
         /\ Update(TRUE) \in Seq(Updates)
  <1>1. up[d] \in Seq(Requests)
    BY UpType
  <1>2. Update(TRUE) \in Seq(Updates)
    BY UpdateType
  <1>3. Update(TRUE) \in Seq(Requests)
    BY <1>2, UpdatesAsk
  <1> QED BY <1>1, <1>2, <1>3, TwoParts

LEMMA SerialTypes ==
  ASSUME TypeInv, NEW d \in Device, Serial(d)
  PROVE  TypeInv'
  <1> USE Devices
  <1>1. CASE Answer(d)
    <2>1. d \in polled /\ d \in Mains
      BY <1>1 DEF Answer, TypeInv, TypeOK
    <2>2. /\ delay' = [delay EXCEPT ![d] = 3 * Base] /\ check' = [check EXCEPT ![d] = Base]
          /\ status' = [status EXCEPT ![d] = TRUE] /\ polled' = polled \ {d}
          /\ tries' = [tries EXCEPT ![d] = 0] /\ overtaken' = overtaken \ {d}
          /\ UNCHANGED <<save, events, held, conn, down, cloud, alive, bounds>>
      BY <1>1 DEF Answer, SetHeartOK
    <2>3. up' \in [Device -> Seq(Requests)]
      <3>1. up' = [up EXCEPT ![d] = IF status[d] THEN up[d] ELSE up[d] \o Update(TRUE)]
        BY <1>1 DEF Answer, SetHeartOK
      <3>2. up \in [Device -> Seq(Requests)]
        BY DEF TypeInv, TypeOK, Requests, Updates, Query
      <3>3. (IF status[d] THEN up[d] ELSE up[d] \o Update(TRUE)) \in Seq(Requests)
        BY <3>2, AppendUpdate DEF TypeInv
      <3> QED BY <3>1, <3>2, <3>3
    <2>4. delay' \in [Device -> Nat] /\ check' \in [Device -> Nat] /\ tries' \in [Device -> 0 .. Base]
      BY <2>2 DEF TypeInv, TypeOK, CountsOK
    <2>5. /\ \A e \in Mains : delay'[e] \in 0 .. Boot /\ check'[e] \in 0 .. 3 * Base
          /\ \A e \in Battery : delay'[e] = delay[e] /\ check'[e] = check[e] /\ tries'[e] = tries[e]
      BY <2>1, <2>2 DEF TypeInv, TypeOK, CountsOK
    <2>6. \A e \in Mains : tries'[e] = 0 \/ tries'[e] + delay'[e] <= Base + 1
      BY <2>1, <2>2 DEF TypeInv, TypeOK, CountsOK
    <2> QED BY <2>2, <2>3, <2>4, <2>5, <2>6
        DEF TypeInv, TypeOK, CountsOK, Requests, Updates, Query, bounds
  <1>2. CASE Lose(d)
    <2>1. /\ UNCHANGED <<status, save, delay, check, events, tries, overtaken, held, conn, up, down>>
          /\ UNCHANGED <<cloud, alive, flips, breaks>>
          /\ polled' = polled \ {d}
          /\ faults' = faults \/ (faults < MaxFaults /\ faults' = faults + 1)
      BY <1>2 DEF Lose, net
    <2>2. faults' \in 0 .. MaxFaults /\ polled' \subseteq Mains
      BY <2>1 DEF TypeInv, TypeOK
    <2> QED BY <2>1, <2>2 DEF TypeInv, TypeOK, CountsOK
  <1> QED BY <1>1, <1>2 DEF Serial

LEMMA SpeakTypes ==
  ASSUME TypeInv, NEW d \in Device,
         Speaks(d) \/ \E n \in {Day, Silence} : Wakes(d, n)
  PROVE  TypeInv'
  <1> USE Devices
  <1>1. CASE Speaks(d)
    BY <1>1 DEF Speaks, TypeInv, TypeOK, CountsOK, net, bounds
  <1>2. CASE \E n \in {Day, Silence} : Wakes(d, n)
    <2>1. PICK n \in {Day, Silence} : Wakes(d, n)
      BY <1>2
    <2>2. /\ d \in Battery /\ delay' = [delay EXCEPT ![d] = n]
          /\ status' = [status EXCEPT ![d] = TRUE]
          /\ UNCHANGED <<save, check, events, polled, tries, overtaken, held, conn, down, cloud, alive, bounds>>
      BY <2>1 DEF Wakes
    <2>3. up' \in [Device -> Seq(Requests)]
      <3>1. up' = [up EXCEPT ![d] = IF status[d] THEN up[d] ELSE up[d] \o Update(TRUE)]
        BY <2>1 DEF Wakes
      <3>2. up \in [Device -> Seq(Requests)]
        BY DEF TypeInv, TypeOK, Requests, Updates, Query
      <3>3. (IF status[d] THEN up[d] ELSE up[d] \o Update(TRUE)) \in Seq(Requests)
        BY <3>2, AppendUpdate DEF TypeInv
      <3> QED BY <3>1, <3>2, <3>3
    <2>4. delay' \in [Device -> Nat] /\ \A e \in Mains : delay'[e] = delay[e]
      BY <2>2 DEF TypeInv, CountsOK
    <2>5. \A e \in Battery : delay'[e] \in 0 .. Day \cup 0 .. Silence
      BY <2>2 DEF TypeInv, TypeOK, CountsOK
    <2> QED BY <2>2, <2>3, <2>4, <2>5
        DEF TypeInv, TypeOK, CountsOK, Requests, Updates, Query, bounds
  <1> QED BY <1>1, <1>2

LEMMA HeadTail ==
  ASSUME NEW S, NEW s \in Seq(S), s # <<>>
  PROVE  Head(s) \in S /\ Tail(s) \in Seq(S)
  OBVIOUS

LEMMA QueueTypes ==
  TypeOK => up \in [Device -> Seq(Requests)] /\ down \in [Device -> Seq(Reports)]
  BY DEF TypeOK, Requests, Updates, Query, Reports

\* A report that is taken in.
LEMMA Taken ==
  ASSUME TypeOK, NEW d \in Device, down[d] # <<>>
  PROVE  /\ Head(down[d]) \in Reports /\ Head(down[d]).online \in BOOLEAN
         /\ Head(down[d]).type \in {"status", "list"}
         /\ [down EXCEPT ![d] = Tail(@)] \in [Device -> Seq(Reports)]
  <1>1. down \in [Device -> Seq(Reports)]
    BY QueueTypes
  <1>2. Head(down[d]) \in Reports /\ Tail(down[d]) \in Seq(Reports)
    BY <1>1, HeadTail
  <1> QED BY <1>1, <1>2 DEF Reports, Message

LEMMA NetworkTypes ==
  ASSUME TypeInv, NEW d \in Device, Network(d) \/ Noting(d)
  PROVE  TypeInv'
  <1> USE Devices
  <1>1. CASE Note(d)
    <2>1. /\ save' = [save EXCEPT ![d] = Head(down[d]).online]
          /\ down' = [down EXCEPT ![d] = Tail(@)] /\ down[d] # <<>>
          /\ UNCHANGED <<status, delay, check, events, polled, tries, overtaken, held, conn, up>>
          /\ UNCHANGED <<cloud, alive, bounds>>
      BY <1>1 DEF Note
    <2>2. save' \in [Device -> BOOLEAN] /\ down' \in [Device -> Seq(Reports)]
      BY <2>1, Taken DEF TypeInv, TypeOK
    <2> QED BY <2>1, <2>2 DEF TypeInv, TypeOK, CountsOK, Reports, bounds
  <1>2. CASE Compare(d)
    <2>1. /\ up' = [up EXCEPT ![d] = up[d] \o Compared(d)]
          /\ down' = [down EXCEPT ![d] = Tail(@)] /\ down[d] # <<>>
          /\ UNCHANGED <<own, held, conn, cloud, alive, bounds>>
      BY <1>2 DEF Compare
    <2>2. down' \in [Device -> Seq(Reports)]
      BY <2>1, Taken DEF TypeInv
    <2>3. Compared(d) \in Seq(Requests)
      <3>1. status[d] \in BOOLEAN
        BY DEF TypeInv, TypeOK
      <3>2. Update(status[d]) \in Seq(Updates)
        BY <3>1, UpdateType
      <3> QED BY <3>2 DEF Compared, Requests
    <2>4. up' \in [Device -> Seq(Requests)]
      BY <2>1, <2>3, QueueTypes DEF TypeInv
    <2> QED BY <2>1, <2>2, <2>4
        DEF TypeInv, TypeOK, CountsOK, Reports, Requests, Updates, Query, own, bounds
  <1>3. CASE Noting(d)
    <2>1. /\ held' = [dev |-> d, own |-> status[d], cloud |-> Head(down[d]).online]
          /\ down' = [down EXCEPT ![d] = Tail(@)] /\ down[d] # <<>>
          /\ faults < MaxFaults /\ faults' = faults + 1
          /\ UNCHANGED <<own, conn, up, cloud, alive, flips, breaks>>
      BY <1>3 DEF Noting
    <2>2. down' \in [Device -> Seq(Reports)] /\ Head(down[d]).online \in BOOLEAN
      BY <2>1, Taken DEF TypeInv
    <2>3. held' \in [dev : Device, own : BOOLEAN, cloud : BOOLEAN]
      BY <2>1, <2>2 DEF TypeInv, TypeOK
    <2>4. faults' \in 0 .. MaxFaults
      BY <2>1 DEF TypeInv, TypeOK
    <2>5. UNCHANGED <<status, save, delay, check, events, polled, tries, overtaken>>
      BY <2>1 DEF own
    <2> QED BY <2>1, <2>2, <2>3, <2>4, <2>5 DEF TypeInv, TypeOK, CountsOK, Reports
  <1> QED BY <1>1, <1>2, <1>3 DEF Network

LEMMA NotedTypes == TypeInv /\ Noted => TypeInv'
  <1> SUFFICES ASSUME TypeInv, Noted PROVE TypeInv'
    OBVIOUS
  <1>1. held \in [dev : Device, own : BOOLEAN, cloud : BOOLEAN]
    BY DEF TypeInv, TypeOK, Noted
  <1>2. /\ held' = None
        /\ status' = [status EXCEPT ![held.dev] = held.own]
        /\ save' = [save EXCEPT ![held.dev] = held.cloud]
        /\ UNCHANGED <<delay, check, events, polled, tries, overtaken, conn, up, down>>
        /\ UNCHANGED <<cloud, alive, bounds>>
    BY DEF Noted
  <1>3. status' \in [Device -> BOOLEAN] /\ save' \in [Device -> BOOLEAN]
    BY <1>1, <1>2 DEF TypeInv, TypeOK
  <1> QED BY <1>2, <1>3 DEF TypeInv, TypeOK, CountsOK, bounds

LEMMA ServeTypes ==
  ASSUME TypeInv, NEW d \in Device, Serve(d)
  PROVE  TypeInv'
  <1> DEFINE q == Head(up[d])
  <1>1. /\ up[d] # <<>> /\ up' = [up EXCEPT ![d] = Tail(@)]
        /\ UNCHANGED <<own, held, conn, alive, bounds>>
        /\ \/ UNCHANGED cloud
           \/ q.type = "update" /\ cloud' = [cloud EXCEPT ![d] = q.online]
        /\ \/ UNCHANGED down
           \/ down' = [down EXCEPT ![d] = Append(@, [type |-> "list", online |-> cloud[d]])]
           \/ /\ q.type = "update"
              /\ down' = [down EXCEPT ![d] = Append(@, [type |-> "status", online |-> q.online])]
    BY DEF Serve
  <1>2. up \in [Device -> Seq(Requests)] /\ down \in [Device -> Seq(Reports)]
    BY QueueTypes DEF TypeInv
  <1>3. q \in Requests /\ Tail(up[d]) \in Seq(Requests)
    BY <1>1, <1>2, HeadTail
  <1>4. q.type = "update" => q.online \in BOOLEAN
    BY <1>3 DEF Requests, Updates, Message, Query
  <1>5. up' \in [Device -> Seq(Requests)]
    BY <1>1, <1>2, <1>3
  <1> HIDE DEF q
  <1>6. cloud' \in [Device -> BOOLEAN]
    BY <1>1, <1>4 DEF TypeInv, TypeOK
  <1>7. down' \in [Device -> Seq(Reports)]
    <2>1. cloud[d] \in BOOLEAN
      BY DEF TypeInv, TypeOK
    <2>2. /\ [type |-> "list", online |-> cloud[d]] \in Reports
          /\ q.type = "update" => [type |-> "status", online |-> q.online] \in Reports
      BY <1>4, <2>1 DEF Reports, Message
    <2> HIDE DEF Reports
    <2>3. \A r \in Reports : [down EXCEPT ![d] = Append(@, r)] \in [Device -> Seq(Reports)]
      BY <1>2
    <2> QED BY <1>1, <1>2, <2>2, <2>3
  <1> QED BY <1>1, <1>5, <1>6, <1>7
      DEF TypeInv, TypeOK, CountsOK, Reports, Requests, Updates, Query, own, bounds

LEMMA WorldTypes ==
  TypeInv /\ (Connect \/ Break \/ \E d \in Device : Flip(d)) => TypeInv'
  <1> SUFFICES ASSUME TypeInv, Connect \/ Break \/ \E d \in Device : Flip(d)
               PROVE  TypeInv'
    OBVIOUS
  <1> USE Devices
  <1>1. CASE Connect
    <2>1. /\ conn' = TRUE /\ up' = [d \in Device |-> <<Query>>]
          /\ UNCHANGED <<own, held, down, cloud, alive, bounds>>
      BY <1>1 DEF Connect, Query
    <2>2. up' \in [Device -> Seq(Requests)]
      <3>1. Query \in Requests
        BY DEF Requests
      <3> HIDE DEF Requests, Query
      <3> QED BY <2>1, <3>1
    <2> QED BY <2>1, <2>2 DEF TypeInv, TypeOK, CountsOK, Requests, Updates, Query, own, bounds
  <1>2. CASE Break
    <2>1. /\ conn' = FALSE
          /\ breaks < MaxBreaks /\ breaks' = breaks + 1
          /\ up' = [d \in Device |-> <<>>] /\ down' = [d \in Device |-> <<>>]
          /\ cloud' = cloud \/ cloud' = [d \in Device |-> FALSE]
          /\ UNCHANGED <<own, held, alive, faults, flips>>
      BY <1>2 DEF Break
    <2>2. up' \in [Device -> Seq(Requests)] /\ down' \in [Device -> Seq(Reports)]
      BY <2>1
    <2>3. cloud' \in [Device -> BOOLEAN]
      BY <2>1 DEF TypeInv, TypeOK
    <2>4. breaks' \in 0 .. MaxBreaks
      BY <2>1 DEF TypeInv, TypeOK
    <2> QED BY <2>1, <2>2, <2>3, <2>4
        DEF TypeInv, TypeOK, CountsOK, Reports, Requests, Updates, Query, own
  <1>3. ASSUME NEW d \in Device, Flip(d) PROVE TypeInv'
    <2>1. /\ flips < MaxFlips /\ flips' = flips + 1 /\ alive' \subseteq Device
          /\ UNCHANGED <<own, net, cloud, faults, breaks>>
      BY <1>3 DEF Flip, TypeInv, TypeOK
    <2>2. flips' \in 0 .. MaxFlips
      BY <2>1 DEF TypeInv, TypeOK
    <2> QED BY <2>1, <2>2 DEF TypeInv, TypeOK, CountsOK, own, net
  <1> QED BY <1>1, <1>2, <1>3

LEMMA TypeStep == TypeInv /\ [Next]_vars => TypeInv'
  <1> SUFFICES ASSUME TypeInv, [Next]_vars PROVE TypeInv'
    OBVIOUS
  <1>1. CASE Tick
    BY <1>1, TickTypes
  <1>2. CASE Noted
    BY <1>2, NotedTypes
  <1>3. CASE Connect \/ Break \/ \E d \in Device : Flip(d)
    BY <1>3, WorldTypes
  <1>4. ASSUME NEW d \in Device, Serial(d) PROVE TypeInv'
    BY <1>4, SerialTypes
  <1>5. ASSUME NEW d \in Device, Speaks(d) \/ \E n \in {Day, Silence} : Wakes(d, n)
        PROVE  TypeInv'
    BY <1>5, SpeakTypes
  <1>6. ASSUME NEW d \in Device, Network(d) \/ Noting(d) PROVE TypeInv'
    BY <1>6, NetworkTypes
  <1>7. ASSUME NEW d \in Device, Serve(d) PROVE TypeInv'
    BY <1>7, ServeTypes
  <1>8. CASE UNCHANGED vars
    BY <1>8 DEF TypeInv, TypeOK, CountsOK, vars, own, net, bounds
  <1> QED BY <1>1, <1>2, <1>3, <1>4, <1>5, <1>6, <1>7, <1>8 DEF Next

-----------------------------------------------------------------------------
(* Three rescues                                                           *)

LEMMA RescueInit == Init => RescueInv
  <1> SUFFICES ASSUME Init, NEW d \in Mains
               PROVE  /\ status[d] => InTime(d)
                      /\ held.dev = d /\ held.own /\ ~status[d] => tries[d] >= 3
    BY DEF RescueInv
  <1>1. d \in Device /\ d # 0 /\ d \notin Battery
    BY Devices
  <1>2. held.dev = 0 /\ check[d] = 0 /\ tries[d] = 0 /\ (status[d] => delay[d] = Boot)
    BY <1>1 DEF Init, None
  <1>3. 3 * RescueInterval <= Base /\ RescueInterval \in Nat /\ Base >= 3 /\ Boot >= 3 * Base
        /\ Base \in Nat /\ Boot \in Nat
    BY Interval, Devices
  <1>4. Boot >= 2 + 2 * RescueInterval
    BY <1>3
  <1> QED BY <1>1, <1>2, <1>3, <1>4 DEF InTime

\* A device that was just heard has time for three rescues.
LEMMA HeardInTime == 3 * Base >= (IF Base > 1 THEN Base ELSE 1) + 1 + 2 * RescueInterval
  BY Devices, Interval

LEMMA TurnInTime ==
  ASSUME TypeInv, NEW d \in Mains, NEW early \in SUBSET Spare, NEW sends,
         Turn(polled, early, sends), InTime(d), status[d], d \notin polled
  PROVE  InTime(d)' /\ (d \in Lost => tries[d] >= 3)
  <1> DEFINE I == RescueInterval
             D == delay[d]
             C == check[d]
             t == tries[d]
  <1>0. d \in Device /\ d \notin Battery
    BY Devices
  <1>1. /\ delay'[d] = Left(d) /\ check'[d] = Checked(d, early)
        /\ tries'[d] = IF d \in Silent THEN t + 1 ELSE t
    BY <1>0 DEF Turn
  <1>2. D \in Nat /\ C \in Nat /\ t \in Nat /\ Base \in Nat /\ I \in Nat /\ I >= 1 /\ 3 * I <= Base
    BY <1>0, Devices, Interval DEF TypeInv, TypeOK, CountsOK
  <1>3. /\ Left(d) = (IF D > 0 THEN D - 1 ELSE 0)
        /\ Quiet(d) = (IF C > 0 THEN C - 1 ELSE 0)
    BY <1>0, <1>2 DEF Left, Quiet, Less
  <1>4. d \notin Absent
    BY DEF Absent
  <1>5. /\ d \in Silent <=> Quiet(d) = 0 /\ Left(d) \in 1 .. Base
        /\ d \in Spare <=> Quiet(d) = 0 /\ Left(d) > Base
        /\ d \in Lost <=> Quiet(d) = 0 /\ Left(d) = 0
    BY <1>0 DEF Silent, Spare, Lost, Due
  <1>6. check'[d] = IF d \in Silent \cup early THEN I ELSE Quiet(d)
    BY <1>1, <1>4 DEF Checked
  <1>7. d \in early => d \in Spare
    OBVIOUS
  <1>8. InTime(d)' <=> \/ tries'[d] >= 3
                       \/ delay'[d] >= (IF check'[d] > 1 THEN check'[d] ELSE 1) + 1 + (2 - tries'[d]) * I
    BY DEF InTime, RescueInterval
  <1>9. t >= 3 \/ D >= (IF C > 1 THEN C ELSE 1) + 1 + (2 - t) * I
    BY DEF InTime
  <1>13. t = tries[d]
    OBVIOUS
  <1> HIDE DEF I, D, C, t
  <1>10. CASE t >= 3
    BY <1>1, <1>2, <1>8, <1>10, <1>13
  <1>11. CASE t < 3
    <2>1. t = 0 \/ t = 1 \/ t = 2
      BY <1>2, <1>11
    <2>2. D >= (IF C > 1 THEN C ELSE 1) + 1 + (2 - t) * I
      BY <1>9, <1>11, <1>2
    <2>3. CASE t = 0
      BY <1>1, <1>2, <1>3, <1>5, <1>6, <1>7, <1>8, <2>2, <2>3
    <2>4. CASE t = 1
      BY <1>1, <1>2, <1>3, <1>5, <1>6, <1>7, <1>8, <2>2, <2>4
    <2>5. CASE t = 2
      BY <1>1, <1>2, <1>3, <1>5, <1>6, <1>7, <1>8, <2>2, <2>5
    <2> QED BY <2>1, <2>3, <2>4, <2>5
  <1> QED BY <1>2, <1>10, <1>11

LEMMA RescueKept ==
  ASSUME RescueInv, NEW d \in Mains \ overtaken,
         status'[d] = status[d], delay'[d] = delay[d], check'[d] = check[d], tries'[d] = tries[d],
         held' = held \/ held'.dev # d
  PROVE  /\ status'[d] => InTime(d)'
         /\ held'.dev = d /\ held'.own /\ ~status'[d] => tries'[d] >= 3
  BY DEF RescueInv, InTime, RescueInterval

LEMMA RescueTick == TypeInv /\ RescueInv /\ Tick => RescueInv'
  <1> SUFFICES ASSUME TypeInv, RescueInv, Tick, NEW d \in Mains, d \notin overtaken'
               PROVE  /\ status'[d] => InTime(d)'
                      /\ held'.dev = d /\ held'.own /\ ~status'[d] => tries'[d] >= 3
    BY DEF RescueInv
  <1>1. PICK early \in SUBSET Spare, sends \in BOOLEAN : Turn(polled, early, sends)
    BY DEF Tick, Soonest
  <1>2. d \notin overtaken /\ d \notin polled /\ held' = held
    BY <1>1 DEF Turn, Tick
  <1>3. d \in Device
    BY Devices
  <1>4. /\ status'[d] = (status[d] /\ d \notin Lost)
        /\ tries'[d] = (IF d \in Silent THEN tries[d] + 1 ELSE tries[d])
    BY <1>1, <1>2, <1>3 DEF Turn
  <1>5. status[d] => InTime(d)' /\ (d \in Lost => tries[d] >= 3)
    BY <1>1, <1>2, TurnInTime DEF RescueInv
  <1>6. held.dev = d /\ held.own /\ ~status[d] => tries[d] >= 3
    BY <1>2 DEF RescueInv
  <1>7. tries[d] \in Nat
    BY <1>3 DEF TypeInv, TypeOK
  <1>8. held.dev = d /\ held.own /\ ~(status[d] /\ d \notin Lost) => tries[d] >= 3
    BY <1>5, <1>6
  <1>9. tries[d] >= 3 => tries'[d] >= 3
    BY <1>4, <1>7
  <1> QED BY <1>2, <1>4, <1>5, <1>8, <1>9

LEMMA RescueStep == TypeInv /\ RescueInv /\ [Next]_vars => RescueInv'
  <1> SUFFICES ASSUME TypeInv, RescueInv, [Next]_vars PROVE RescueInv'
    OBVIOUS
  <1>1. CASE Tick
    BY <1>1, RescueTick
  <1>2. ASSUME NEW e \in Device, Answer(e) PROVE RescueInv'
    <2> SUFFICES ASSUME NEW d \in Mains, d \notin overtaken'
                 PROVE  /\ status'[d] => InTime(d)'
                        /\ held'.dev = d /\ held'.own /\ ~status'[d] => tries'[d] >= 3
      BY DEF RescueInv
    <2>1. d \in Device
      BY Devices
    <2>2. /\ delay' = [delay EXCEPT ![e] = 3 * Base] /\ check' = [check EXCEPT ![e] = Base]
          /\ status' = [status EXCEPT ![e] = TRUE]
          /\ tries' = [tries EXCEPT ![e] = 0] /\ overtaken' = overtaken \ {e} /\ held' = held
      BY <1>2 DEF Answer, SetHeartOK
    <2>3. /\ delay \in [Device -> Nat] /\ check \in [Device -> Nat]
          /\ tries \in [Device -> 0 .. Base] /\ status \in [Device -> BOOLEAN]
      BY DEF TypeInv, TypeOK, CountsOK
    <2>4. CASE d = e
      <3>1. delay'[d] = 3 * Base /\ check'[d] = Base /\ tries'[d] = 0 /\ status'[d]
        BY <2>1, <2>2, <2>3, <2>4
      <3>2. InTime(d)' <=> \/ tries'[d] >= 3
                           \/ delay'[d] >= (IF check'[d] > 1 THEN check'[d] ELSE 1) + 1
                                           + (2 - tries'[d]) * RescueInterval
        BY DEF InTime, RescueInterval
      <3>3. InTime(d)'
        BY <3>1, <3>2, HeardInTime, Interval
      <3> QED BY <3>1, <3>3
    <2>5. CASE d # e
      BY <2>1, <2>2, <2>3, <2>5, RescueKept
    <2> QED BY <2>4, <2>5
  <1>3. ASSUME NEW e \in Device, NEW n, Wakes(e, n) PROVE RescueInv'
    <2> SUFFICES ASSUME NEW d \in Mains, d \notin overtaken'
                 PROVE  /\ status'[d] => InTime(d)'
                        /\ held'.dev = d /\ held'.own /\ ~status'[d] => tries'[d] >= 3
      BY DEF RescueInv
    <2>1. d \in Device /\ d # e
      BY <1>3, Devices DEF Wakes
    <2>2. /\ delay' = [delay EXCEPT ![e] = n] /\ status' = [status EXCEPT ![e] = TRUE]
          /\ UNCHANGED <<check, tries, overtaken, held>>
      BY <1>3 DEF Wakes
    <2>3. delay \in [Device -> Nat] /\ status \in [Device -> BOOLEAN]
      BY DEF TypeInv, TypeOK, CountsOK
    <2> QED BY <2>1, <2>2, <2>3, RescueKept
  <1>4. CASE Noted
    <2> SUFFICES ASSUME NEW d \in Mains, d \notin overtaken'
                 PROVE  /\ status'[d] => InTime(d)'
                        /\ held'.dev = d /\ held'.own /\ ~status'[d] => tries'[d] >= 3
      BY DEF RescueInv
    <2>1. d \in Device /\ d # 0
      BY Devices
    <2>2. /\ held'.dev = 0 /\ status' = [status EXCEPT ![held.dev] = held.own]
          /\ UNCHANGED <<delay, check, tries, overtaken>>
      BY <1>4 DEF Noted, None
    <2>3. status'[d] = (IF d = held.dev THEN held.own ELSE status[d])
      BY <2>1, <2>2 DEF TypeInv, TypeOK
    <2>4. status'[d] => InTime(d)
      BY <2>2, <2>3 DEF RescueInv, InTime
    <2>5. InTime(d)' = InTime(d)
      BY <2>2 DEF InTime, RescueInterval
    <2> QED BY <2>1, <2>2, <2>4, <2>5
  <1>5. ASSUME NEW e \in Device, Noting(e) PROVE RescueInv'
    <2>1. /\ UNCHANGED <<status, delay, check, tries, overtaken>>
          /\ held'.dev = e /\ held'.own = status[e]
      BY <1>5 DEF Noting, own
    <2> QED BY <2>1 DEF RescueInv, InTime, RescueInterval
  <1>6. CASE UNCHANGED <<status, delay, check, tries, overtaken, held>>
    BY <1>6 DEF RescueInv, InTime, RescueInterval
  <1>7. ASSUME Connect \/ Break \/ UNCHANGED vars
               \/ \E d \in Device : Lose(d) \/ Speaks(d) \/ Network(d) \/ Serve(d) \/ Flip(d)
        PROVE  UNCHANGED <<status, delay, check, tries, overtaken, held>>
    <2>1. CASE Connect \/ Break \/ UNCHANGED vars
      BY <2>1 DEF Connect, Break, vars, own, net
    <2>2. ASSUME NEW d \in Device, Lose(d) \/ Speaks(d) \/ Flip(d)
          PROVE  UNCHANGED <<status, delay, check, tries, overtaken, held>>
      BY <2>2 DEF Lose, Speaks, Flip, own, net
    <2>3. ASSUME NEW d \in Device, Network(d) \/ Serve(d)
          PROVE  UNCHANGED <<status, delay, check, tries, overtaken, held>>
      BY <2>3 DEF Network, Note, Compare, Serve, own
    <2> QED BY <1>7, <2>1, <2>2, <2>3
  <1> QED BY <1>1, <1>2, <1>3, <1>4, <1>5, <1>6, <1>7 DEF Next, Serial

\* A device that a turn declares offline has had its three rescues.
LEMMA LostAreRescued == TypeInv /\ RescueInv /\ [Next]_vars => Rescued
  <1> SUFFICES ASSUME TypeInv, RescueInv, Tick, NEW d \in Mains \ overtaken,
                      status[d], ~status'[d]
               PROVE  tries[d] >= 3
    BY DEF Rescued
  <1>1. PICK early \in SUBSET Spare, sends \in BOOLEAN : Turn(polled, early, sends)
    BY DEF Tick, Soonest
  <1>2. d \in Device
    BY Devices
  <1>3. d \notin polled
    BY <1>1 DEF Turn, Absent
  <1>4. d \in Lost
    BY <1>1, <1>2 DEF Turn
  <1> QED BY <1>1, <1>3, <1>4, TurnInTime DEF RescueInv

\* A mains device is given up only after three rescues, unless its answer came
\* in the middle of a turn of the timer (mfAllowToJoinCB).
THEOREM ThreeRescuesFirst == Spec => OfflineAfterThreeRescues
  <1>1. Init => TypeInv /\ RescueInv
    BY TypeInit, RescueInit
  <1>2. TypeInv /\ RescueInv /\ [Next]_vars => (TypeInv /\ RescueInv)'
    BY TypeStep, RescueStep
  <1>3. TypeInv /\ RescueInv /\ [Next]_vars => [Rescued]_vars
    BY LostAreRescued
  <1> QED BY <1>1, <1>2, <1>3, PTL DEF Spec, OfflineAfterThreeRescues

-----------------------------------------------------------------------------
(* Agreement at rest                                                       *)

LEMMA KnownSame ==
  ASSUME NEW d, Known(d), status'[d] = status[d], save'[d] = save[d], cloud'[d] = cloud[d],
         up'[d] = up[d], down'[d] = down[d],
         held' = held \/ (held.dev # d /\ held'.dev # d)
  PROVE  Known(d)'
  <1>1. Told(d) => Told(d)'
    BY DEF Told, NoStatus
  <1> QED BY <1>1 DEF Known, Query, Updates, Message

\* t is s and behind it u.
Longer(t, s, u) ==
  /\ s # <<>> => Head(t) = Head(s) /\ Tail(t) = Tail(s) \o u /\ t # <<>>
  /\ \A k \in DOMAIN s : k \in DOMAIN t /\ t[k] = s[k]
  /\ \A k \in DOMAIN u : \E m \in DOMAIN t : t[m] = u[k]

LEMMA Concatenated ==
  ASSUME NEW S, NEW s \in Seq(S), NEW u \in Seq(S)
  PROVE  Longer(s \o u, s, u)
  <1> DEFINE t == s \o u
  <1>1. \A k \in DOMAIN u : Len(s) + k \in DOMAIN t /\ t[Len(s) + k] = u[k]
    OBVIOUS
  <1>2. s # <<>> => Head(t) = Head(s) /\ Tail(t) = Tail(s) \o u /\ t # <<>>
    OBVIOUS
  <1>3. \A k \in DOMAIN s : k \in DOMAIN t /\ t[k] = s[k]
    OBVIOUS
  <1> HIDE DEF t
  <1>4. Longer(t, s, u)
    BY <1>1, <1>2, <1>3 DEF Longer
  <1> QED BY <1>4 DEF t

\* What the gateway says of a device, the status it changes to at least.
LEMMA KnownSays ==
  ASSUME TypeOK, NEW d \in Device, Known(d), NEW u \in Seq(Updates),
         up'[d] = up[d] \o u, down'[d] = down[d], cloud'[d] = cloud[d],
         save'[d] = save[d], held' = held,
         status'[d] = status[d] \/ \E k \in DOMAIN u : u[k].online = status'[d]
  PROVE  Known(d)'
  <1>1. Told(d) => Told(d)'
    BY DEF Told, NoStatus
  <1>2. up[d] \in Seq(Requests) /\ u \in Seq(Requests)
    BY UpType, UpdatesAsk
  <1>3. CASE down[d] = <<>> /\ up[d] # <<>> /\ Head(up[d]) = Query /\ Tail(up[d]) \in Seq(Updates)
    <2>0. Longer(up[d] \o u, up[d], u)
      BY <1>2, Concatenated
    <2>1. up'[d] # <<>> /\ Head(up'[d]) = Query /\ Tail(up'[d]) = Tail(up[d]) \o u
      BY <1>3, <2>0 DEF Longer
    <2>2. Tail(up[d]) \o u \in Seq(Updates)
      BY <1>3, TwoParts
    <2> QED BY <1>3, <2>1, <2>2 DEF Known, Query, Updates, Message
  <1>4. CASE down[d] = <<[type |-> "list", online |-> cloud[d]]>> /\ up[d] \in Seq(Updates)
    <2>1. up'[d] \in Seq(Updates)
      BY <1>4, TwoParts
    <2> QED BY <1>4, <2>1 DEF Known, Updates, Message
  <1>5. CASE /\ down[d] = <<>> /\ up[d] \in Seq(Updates) /\ held.dev # d
             /\ cloud[d] = status[d] \/ \E k \in DOMAIN up[d] : up[d][k].online # cloud[d]
    <2>1. up'[d] \in Seq(Updates)
      BY <1>5, TwoParts
    <2>0. Longer(up[d] \o u, up[d], u)
      BY <1>2, Concatenated
    <2>2. /\ \A k \in DOMAIN up[d] : k \in DOMAIN up'[d] /\ up'[d][k] = up[d][k]
          /\ \A k \in DOMAIN u : \E m \in DOMAIN up'[d] : up'[d][m] = u[k]
      BY <2>0 DEF Longer
    <2>3. cloud[d] = status'[d] \/ \E k \in DOMAIN up'[d] : up'[d][k].online # cloud[d]
      BY <1>5, <2>2
    <2> QED BY <1>5, <2>1, <2>3 DEF Known, Updates, Message
  <1> QED BY <1>1, <1>3, <1>4, <1>5 DEF Known

\* The head of a queue is taken.
LEMMA Shorter ==
  ASSUME NEW S, NEW s \in Seq(S), s # <<>>
  PROVE  /\ Head(s) = s[1] /\ 1 \in DOMAIN s /\ Tail(s) \in Seq(S)
         /\ \A k \in DOMAIN Tail(s) : k \in Nat /\ k >= 1 /\ k + 1 \in DOMAIN s /\ Tail(s)[k] = s[k + 1]
         /\ \A k \in DOMAIN s : k \in Nat /\ (k # 1 => k - 1 \in DOMAIN Tail(s) /\ Tail(s)[k - 1] = s[k])
  OBVIOUS

\* A status that is taken in, at once or in two steps.
LEMMA KnownStatus ==
  ASSUME TypeOK, NEW d \in Device, Known(d), down[d] # <<>>, Head(down[d]).type = "status",
         down'[d] = Tail(down[d]), cloud'[d] = cloud[d],
         (IF held'.dev = d THEN held'.cloud ELSE save'[d]) = Head(down[d]).online
  PROVE  Known(d)'
  <1>1. down[d] \in Seq(Reports)
    BY QueueTypes
  <1> DEFINE s == down[d]
             r == down'[d]
  <1>2. /\ Head(s) = s[1] /\ 1 \in DOMAIN s
        /\ \A k \in DOMAIN r : k \in Nat /\ k >= 1 /\ k + 1 \in DOMAIN s /\ r[k] = s[k + 1]
        /\ \A k \in DOMAIN s : k \in Nat /\ (k # 1 => k - 1 \in DOMAIN r /\ r[k - 1] = s[k])
    BY <1>1, Shorter
  <1>3. Told(d)
    <2>1. s # <<[type |-> "list", online |-> cloud[d]]>>
      BY <1>2
    <2> QED BY <2>1 DEF Known
  <1>4. PICK k \in DOMAIN s : /\ s[k].type = "status" /\ s[k].online = cloud[d]
                              /\ \A m \in DOMAIN s : m > k => s[m].type # "status"
    BY <1>2, <1>3 DEF Told, NoStatus
  <1> HIDE DEF s, r
  <1>5. CASE k = 1
    <2>1. \A m \in DOMAIN r : r[m].type # "status"
      <3> TAKE m \in DOMAIN r
      <3>1. m + 1 \in DOMAIN s /\ m + 1 > 1 /\ r[m] = s[m + 1]
        BY <1>2
      <3> QED BY <1>4, <1>5, <3>1
    <2>2. Told(d)'
      BY <1>2, <1>4, <1>5, <2>1 DEF Told, NoStatus, s, r
    <2> QED BY <2>2 DEF Known
  <1>6. CASE k # 1
    <2>1. k - 1 \in DOMAIN r /\ r[k - 1] = s[k] /\ k \in Nat
      BY <1>2, <1>4, <1>6
    <2>2. \A m \in DOMAIN r : m > k - 1 => r[m].type # "status"
      <3> SUFFICES ASSUME NEW m \in DOMAIN r, m > k - 1 PROVE r[m].type # "status"
        OBVIOUS
      <3>1. m + 1 \in DOMAIN s /\ m + 1 > k /\ r[m] = s[m + 1]
        BY <1>2, <2>1
      <3> QED BY <1>4, <3>1
    <2>3. Told(d)'
      BY <1>4, <2>1, <2>2 DEF Told, r
    <2> QED BY <2>3 DEF Known
  <1> QED BY <1>5, <1>6

\* The list is compared.
LEMMA KnownList ==
  ASSUME TypeOK, NEW d \in Device, Known(d), down[d] # <<>>, Head(down[d]).type = "list",
         conn, held = None, held' = None, down'[d] = Tail(down[d]),
         up'[d] = up[d] \o Compared(d),
         cloud'[d] = cloud[d], save'[d] = save[d], status'[d] = status[d]
  PROVE  Known(d)'
  <1>1. down[d] \in Seq(Reports) /\ up[d] \in Seq(Requests) /\ status[d] \in BOOLEAN
    BY QueueTypes, UpType DEF TypeOK
  <1> DEFINE s == down[d]
             r == down'[d]
  <1>2. /\ Head(s) = s[1] /\ 1 \in DOMAIN s
        /\ \A k \in DOMAIN r : k \in Nat /\ k >= 1 /\ k + 1 \in DOMAIN s /\ r[k] = s[k + 1]
        /\ \A k \in DOMAIN s : k \in Nat /\ (k # 1 => k - 1 \in DOMAIN r /\ r[k - 1] = s[k])
    BY <1>1, Shorter
  <1>3. CASE Told(d)
    <2> HIDE DEF s, r
    <2>1. CASE NoStatus(d)
      <3>1. \A m \in DOMAIN r : r[m].type # "status"
        BY <1>2, <2>1 DEF NoStatus, s
      <3>2. (IF held.dev = d THEN held.cloud ELSE save[d]) = cloud[d]
        BY <1>3, <2>1 DEF Told, NoStatus
      <3>3. Told(d)'
        BY <3>1, <3>2 DEF Told, NoStatus, r
      <3> QED BY <3>3 DEF Known
    <2>2. CASE ~ NoStatus(d)
      <3>1. PICK k \in DOMAIN s : /\ s[k].type = "status" /\ s[k].online = cloud[d]
                                  /\ \A m \in DOMAIN s : m > k => s[m].type # "status"
        BY <1>3, <2>2 DEF Told, s
      <3>2. k # 1 /\ k - 1 \in DOMAIN r /\ r[k - 1] = s[k] /\ k \in Nat
        BY <1>2, <3>1 DEF s
      <3>3. \A m \in DOMAIN r : m > k - 1 => r[m].type # "status"
        <4> SUFFICES ASSUME NEW m \in DOMAIN r, m > k - 1 PROVE r[m].type # "status"
          OBVIOUS
        <4>1. m + 1 \in DOMAIN s /\ m + 1 > k /\ r[m] = s[m + 1]
          BY <1>2, <3>2
        <4> QED BY <3>1, <4>1
      <3>4. Told(d)'
        BY <3>1, <3>2, <3>3 DEF Told, r
      <3> QED BY <3>4 DEF Known
    <2> QED BY <2>1, <2>2
  <1>4. CASE s = <<[type |-> "list", online |-> cloud[d]]>> /\ up[d] \in Seq(Updates)
    <2>1. down'[d] = <<>> /\ Head(s).online = cloud[d]
      BY <1>4
    <2>2. held'.dev # d
      BY Devices DEF None
    <2>3. CASE status[d] = cloud[d]
      <3>1. up'[d] = up[d] \o <<>>
        BY <2>1, <2>3 DEF Compared
      <3>2. up'[d] = up[d]
        BY <1>1, <3>1
      <3> QED BY <1>4, <2>1, <2>2, <2>3, <3>2 DEF Known, Updates, Message
    <2>4. CASE status[d] # cloud[d]
      <3> DEFINE u == Update(status[d])
      <3>1. up'[d] = up[d] \o u
        BY <2>1, <2>4 DEF Compared
      <3>2. u \in Seq(Updates) /\ u = <<[type |-> "update", online |-> status[d]]>>
        BY <1>1, UpdateType
      <3> HIDE DEF u
      <3>3. up'[d] \in Seq(Updates)
        BY <1>4, <3>1, <3>2, TwoParts
      <3>0. Longer(up[d] \o u, up[d], u)
        BY <1>4, <3>2, Concatenated
      <3>4. \A k \in DOMAIN u : \E m \in DOMAIN up'[d] : up'[d][m] = u[k]
        BY <3>0, <3>1 DEF Longer
      <3>5. \E m \in DOMAIN up'[d] : up'[d][m].online # cloud[d]
        <4>1. 1 \in DOMAIN u /\ u[1].online = status[d]
          BY <3>2
        <4> QED BY <2>4, <3>4, <4>1
      <3> QED BY <2>1, <2>2, <3>3, <3>5 DEF Known, Updates, Message
    <2> QED BY <2>3, <2>4
  <1> QED BY <1>3, <1>4 DEF Known

\* No queue is what it is with something put at its end.
LEMMA Longest ==
  ASSUME NEW S, NEW s \in Seq(S), NEW x
  PROVE  Append(s, x) # s
  <1>1. Len(Append(s, x)) = Len(s) + 1 /\ Len(s) \in Nat
    OBVIOUS
  <1> QED BY <1>1

LEMMA HeadsAreUpdates ==
  ASSUME NEW s \in Seq(Updates), s # <<>>
  PROVE  Head(s).type = "update"
  <1>1. Head(s) \in Updates
    OBVIOUS
  <1> QED BY <1>1 DEF Updates, Message

\* t is s and x behind it.
Behind(t, s, x) ==
  \E n \in DOMAIN t :
    /\ n \in Nat /\ t[n] = x
    /\ \A k \in DOMAIN s : k \in DOMAIN t /\ t[k] = s[k] /\ k < n
    /\ \A k \in DOMAIN t : k \in Nat /\ (k # n => k \in DOMAIN s) /\ k <= n

LEMMA Appended ==
  ASSUME NEW S, NEW s \in Seq(S), NEW x
  PROVE  Behind(Append(s, x), s, x)
  <1> DEFINE t == Append(s, x)
             n == Len(s) + 1
  <1>1. n \in DOMAIN t /\ t[n] = x /\ n \in Nat
    OBVIOUS
  <1>2. \A k \in DOMAIN s : k \in DOMAIN t /\ t[k] = s[k] /\ k < n
    OBVIOUS
  <1>3. \A k \in DOMAIN t : k \in Nat /\ (k # n => k \in DOMAIN s) /\ k <= n
    OBVIOUS
  <1> HIDE DEF t, n
  <1>4. Behind(t, s, x)
    BY <1>1, <1>2, <1>3 DEF Behind
  <1> QED BY <1>4 DEF t

\* The list behind a status does not change what the gateway is told.
LEMMA ToldLonger ==
  ASSUME TypeOK, NEW d \in Device, Told(d), NEW b,
         down'[d] = Append(down[d], [type |-> "list", online |-> b]),
         cloud'[d] = cloud[d], save' = save, held' = held
  PROVE  Told(d)'
  <1> DEFINE x == [type |-> "list", online |-> b]
  <1>1. down[d] \in Seq(Reports)
    BY QueueTypes
  <1>0. Behind(Append(down[d], x), down[d], x)
    BY <1>1, Appended
  <1>2. PICK t, n :
          /\ t = Append(down[d], x) /\ n \in Nat /\ n \in DOMAIN t /\ t[n] = x
          /\ \A k \in DOMAIN down[d] : k \in DOMAIN t /\ t[k] = down[d][k] /\ k < n
          /\ \A k \in DOMAIN t : k \in Nat /\ (k # n => k \in DOMAIN down[d]) /\ k <= n
    BY <1>0 DEF Behind
  <1>3. down'[d] = t /\ t[n].type # "status"
    BY <1>2
  <1> HIDE DEF x
  <1>4. CASE NoStatus(d)
    <2>1. \A k \in DOMAIN t : t[k].type # "status"
      BY <1>2, <1>3, <1>4 DEF NoStatus
    <2>2. (IF held.dev = d THEN held.cloud ELSE save[d]) = cloud[d]
      BY <1>4 DEF Told, NoStatus
    <2> QED BY <1>3, <2>1, <2>2 DEF Told, NoStatus
  <1>5. CASE ~ NoStatus(d)
    <2>1. PICK k \in DOMAIN down[d] :
            /\ down[d][k].type = "status" /\ down[d][k].online = cloud[d]
            /\ \A m \in DOMAIN down[d] : m > k => down[d][m].type # "status"
      BY <1>5 DEF Told
    <2>2. k \in DOMAIN t /\ t[k].type = "status" /\ t[k].online = cloud[d]
      BY <1>2, <2>1
    <2>3. \A m \in DOMAIN t : m > k => t[m].type # "status"
      BY <1>2, <1>3, <2>1
    <2> QED BY <1>3, <2>2, <2>3 DEF Told
  <1> QED BY <1>4, <1>5

\* After a report of its status the gateway is told.
LEMMA NowTold ==
  ASSUME TypeOK, NEW d \in Device, NEW b,
         down'[d] = Append(down[d], [type |-> "status", online |-> b]), cloud'[d] = b
  PROVE  Told(d)'
  <1> DEFINE x == [type |-> "status", online |-> b]
  <1>1. down[d] \in Seq(Reports)
    BY QueueTypes
  <1>0. Behind(Append(down[d], x), down[d], x)
    BY <1>1, Appended
  <1>2. PICK t, n :
          /\ t = Append(down[d], x) /\ n \in Nat /\ n \in DOMAIN t /\ t[n] = x
          /\ \A k \in DOMAIN down[d] : k \in DOMAIN t /\ t[k] = down[d][k] /\ k < n
          /\ \A k \in DOMAIN t : k \in Nat /\ (k # n => k \in DOMAIN down[d]) /\ k <= n
    BY <1>0 DEF Behind
  <1>3. \A k \in DOMAIN t : ~(k > n)
    BY <1>2
  <1>4. t[n].type = "status" /\ t[n].online = b
    BY <1>2
  <1>5. down'[d] = t
    BY <1>2
  <1> HIDE DEF x
  <1> QED BY <1>2, <1>3, <1>4, <1>5 DEF Told

\* The cloud takes a status in and reports it, or has it already and does not,
\* or the list is served.
LEMMA KnownServe ==
  ASSUME TypeOK, NEW d \in Device, Known(d), Serve(d)
  PROVE  Known(d)'
  <1>1. down[d] \in Seq(Reports) /\ up[d] \in Seq(Requests) /\ down \in [Device -> Seq(Reports)]
        /\ up \in [Device -> Seq(Requests)] /\ cloud \in [Device -> BOOLEAN]
    BY QueueTypes, UpType DEF TypeOK, Updates, Requests, Query, Reports
  <1>2. /\ up[d] # <<>> /\ up'[d] = Tail(up[d])
        /\ UNCHANGED <<status, save, held>>
    BY <1>1 DEF Serve, own
  <1>3. Tail(up[d]) \in Seq(Requests)
    BY <1>1, <1>2
  <1>4. CASE Head(up[d]).type = "list"
    <2>1. /\ down'[d] = Append(down[d], [type |-> "list", online |-> cloud[d]])
          /\ cloud'[d] = cloud[d]
      BY <1>1, <1>4 DEF Serve
    <2>2. CASE Told(d)
      <3>1. Told(d)'
        BY <1>1, <1>2, <2>1, <2>2, ToldLonger
      <3> QED BY <3>1 DEF Known
    <2>3. CASE down[d] = <<>> /\ Tail(up[d]) \in Seq(Updates)
      <3>1. down'[d] = <<[type |-> "list", online |-> cloud'[d]]>>
        BY <2>1, <2>3
      <3> QED BY <1>2, <2>3, <3>1 DEF Known, Updates, Message
    <2>4. Told(d) \/ (down[d] = <<>> /\ Tail(up[d]) \in Seq(Updates))
      <3>1. up[d] \notin Seq(Updates)
        BY <1>2, <1>4, HeadsAreUpdates
      <3> QED BY <3>1 DEF Known
    <2> QED BY <2>2, <2>3, <2>4
  <1>5. CASE Head(up[d]).type = "update" /\ down'[d] # down[d]
    <2> DEFINE b == Head(up[d]).online
    <2>1. cloud'[d] = b /\ down'[d] = Append(down[d], [type |-> "status", online |-> b])
      BY <1>1, <1>5 DEF Serve
    <2>2. Told(d)'
      BY <1>1, <2>1, NowTold
    <2> QED BY <2>2 DEF Known
  <1>6. CASE Head(up[d]).type = "update" /\ down'[d] = down[d]
    <2>1. cloud'[d] = cloud[d] /\ Head(up[d]).online = cloud[d]
      BY <1>1, <1>6, Longest DEF Serve
    <2>2. CASE Told(d)
      <3>1. Told(d)'
        BY <1>2, <1>6, <2>1, <2>2 DEF Told, NoStatus
      <3> QED BY <3>1 DEF Known
    <2>3. up[d] \in Seq(Updates) => Tail(up[d]) \in Seq(Updates)
      BY <1>2
    <2>4. CASE down[d] = <<[type |-> "list", online |-> cloud[d]]>> /\ up[d] \in Seq(Updates)
      BY <1>2, <1>6, <2>1, <2>3, <2>4 DEF Known, Updates, Message
    <2>5. CASE /\ down[d] = <<>> /\ up[d] \in Seq(Updates) /\ held.dev # d
               /\ cloud[d] = status[d] \/ \E k \in DOMAIN up[d] : up[d][k].online # cloud[d]
      <3>1. ASSUME NEW k \in DOMAIN up[d], up[d][k].online # cloud[d]
            PROVE  \E m \in DOMAIN up'[d] : up'[d][m].online # cloud[d]
        <4> DEFINE s == up[d]
        <4>1. /\ Head(s) = s[1]
              /\ k # 1 => k - 1 \in DOMAIN Tail(s) /\ Tail(s)[k - 1] = s[k]
          BY <1>1, <1>2, Shorter
        <4>2. k # 1
          BY <2>1, <3>1, <4>1
        <4> QED BY <1>2, <3>1, <4>1, <4>2
      <3>2. cloud'[d] = status'[d] \/ \E m \in DOMAIN up'[d] : up'[d][m].online # cloud'[d]
        BY <1>2, <2>1, <2>5, <3>1
      <3> QED BY <1>2, <1>6, <2>3, <2>5, <3>2 DEF Known, Updates, Message
    <2>6. Head(up[d]) # Query
      BY <1>6 DEF Query
    <2> QED BY <2>2, <2>4, <2>5, <2>6 DEF Known
  <1>7. Head(up[d]).type \in {"list", "update"}
    BY DEF Serve
  <1> QED BY <1>4, <1>5, <1>6, <1>7

Regrouped(s, a, b) == (s \o a) \o b = s \o (a \o b)

LEMMA Associative ==
  ASSUME NEW S, NEW s \in Seq(S), NEW a \in Seq(S), NEW b \in Seq(S)
  PROVE  Regrouped(s, a, b)
  BY DEF Regrouped

\* A turn of the timer says what it changes.
LEMMA KnownTick ==
  ASSUME TypeOK, conn, NEW d \in Device, Known(d), Tick
  PROVE  Known(d)'
  <1>1. PICK early \in SUBSET Spare, sends \in BOOLEAN : Turn(polled, early, sends)
    BY DEF Tick, Soonest
  <1>2. UNCHANGED <<save, held, conn, down, cloud>>
    BY DEF Tick
  <1> DEFINE a == IF status[d] # save[d] THEN Update(status[d]) ELSE <<>>
             b == IF d \in Lost THEN Update(FALSE) ELSE <<>>
             c == IF d \in polled THEN Update(TRUE) ELSE <<>>
             u == a \o b \o c
  <1>3. up'[d] = up[d] \o a \o b \o c
    BY <1>1 DEF Turn
  <1>4. a \in Seq(Updates) /\ b \in Seq(Updates) /\ c \in Seq(Updates)
    BY Sayings
  <1>5. status[d] \in BOOLEAN /\ status'[d] = ((status[d] /\ d \notin Lost) \/ d \in polled)
    BY <1>1 DEF Turn, TypeOK
  <1>6. /\ d \in Lost => \E k \in DOMAIN b : b[k].online = FALSE
        /\ d \in polled => \E k \in DOMAIN c : c[k].online = TRUE
    <2>1. /\ d \in Lost => b = <<[type |-> "update", online |-> FALSE]>>
          /\ d \in polled => c = <<[type |-> "update", online |-> TRUE]>>
      BY UpdateType
    <2> HIDE DEF b, c
    <2>2. ASSUME d \in Lost PROVE \E k \in DOMAIN b : b[k].online = FALSE
      <3>1. 1 \in DOMAIN b /\ b[1].online = FALSE
        BY <2>1, <2>2
      <3> QED BY <3>1
    <2>3. ASSUME d \in polled PROVE \E k \in DOMAIN c : c[k].online = TRUE
      <3>1. 1 \in DOMAIN c /\ c[1].online = TRUE
        BY <2>1, <2>3
      <3> QED BY <3>1
    <2> QED BY <2>2, <2>3
  <1> HIDE DEF a, b, c
  <1>7. u \in Seq(Updates) /\ up'[d] = up[d] \o u
    <2>1. up[d] \in Seq(Requests) /\ a \in Seq(Requests) /\ b \in Seq(Requests) /\ c \in Seq(Requests)
      BY <1>4, UpType, UpdatesAsk
    <2> DEFINE s == up[d]
    <2> HIDE DEF s
    <2>2. s \in Seq(Requests)
      BY <2>1 DEF s
    <2>3. s \o a \o b \o c = s \o (a \o b \o c)
      <3> DEFINE ab == a \o b
      <3>1. Regrouped(s, a, b)
        BY <2>1, <2>2, Associative
      <3>2. ab \in Seq(Requests)
        BY <2>1, TwoParts
      <3> HIDE DEF ab
      <3>3. Regrouped(s, ab, c)
        BY <2>1, <2>2, <3>2, Associative
      <3> QED BY <3>1, <3>3 DEF ab, Regrouped
    <2>4. a \o b \o c \in Seq(Updates)
      <3>1. a \o b \in Seq(Updates)
        BY <1>4, TwoParts
      <3> QED BY <1>4, <3>1, TwoParts
    <2> QED BY <1>3, <2>3, <2>4 DEF s
  <1>8. Longer(a \o b, a, b) /\ Longer((a \o b) \o c, a \o b, c)
    <2>1. a \o b \in Seq(Updates)
      BY <1>4, TwoParts
    <2> QED BY <1>4, <2>1, Concatenated
  <1>9. /\ \A k \in DOMAIN b : \E m \in DOMAIN u : u[m] = b[k]
        /\ \A k \in DOMAIN c : \E m \in DOMAIN u : u[m] = c[k]
    <2> DEFINE ab == a \o b
    <2>1. \A k \in DOMAIN b : \E m \in DOMAIN ab : ab[m] = b[k]
      BY <1>8 DEF Longer
    <2>2. /\ \A k \in DOMAIN ab : k \in DOMAIN u /\ u[k] = ab[k]
          /\ \A k \in DOMAIN c : \E m \in DOMAIN u : u[m] = c[k]
      BY <1>8 DEF Longer
    <2> HIDE DEF ab, u
    <2> QED BY <2>1, <2>2
  <1> HIDE DEF u
  <1>10. status'[d] = status[d] \/ \E k \in DOMAIN u : u[k].online = status'[d]
    <2>1. d \in Lost => \E k \in DOMAIN u : u[k].online = FALSE
      BY <1>6, <1>9
    <2>2. d \in polled => \E k \in DOMAIN u : u[k].online = TRUE
      BY <1>6, <1>9
    <2>3. status'[d] # status[d] => \/ status'[d] = FALSE /\ d \in Lost
                                    \/ status'[d] = TRUE /\ d \in polled
      BY <1>5
    <2> QED BY <2>1, <2>2, <2>3
  <1> QED BY <1>2, <1>7, <1>10, KnownSays

\* A device that is heard is reported unless it was online.
LEMMA KnownHeard ==
  ASSUME TypeOK, conn, NEW d \in Device, NEW e \in Device, Known(d),
         status' = [status EXCEPT ![e] = TRUE],
         up' = [up EXCEPT ![e] = IF status[e] THEN @ ELSE @ \o Update(TRUE)],
         UNCHANGED <<save, held, down, cloud>>
  PROVE  Known(d)'
  <1>1. up \in [Device -> Seq(Requests)] /\ status \in [Device -> BOOLEAN]
    BY QueueTypes DEF TypeOK
  <1>2. CASE d = e /\ ~status[d]
    <2> DEFINE u == Update(TRUE)
    <2>1. u \in Seq(Updates) /\ u = <<[type |-> "update", online |-> TRUE]>>
      BY UpdateType
    <2>2. up'[d] = up[d] \o u /\ status'[d] = TRUE
      BY <1>1, <1>2
    <2> HIDE DEF u
    <2>3. 1 \in DOMAIN u /\ u[1].online = TRUE
      BY <2>1
    <2> QED BY <2>1, <2>2, <2>3, KnownSays
  <1>3. CASE d # e \/ status[d]
    <2>1. status'[d] = status[d] /\ up'[d] = up[d]
      BY <1>1, <1>3
    <2> QED BY <2>1, KnownSame
  <1> QED BY <1>2, <1>3

\* A report of the cloud is taken in, at once or in two steps.
LEMMA KnownNoted ==
  ASSUME TypeOK, NEW d \in Device, NEW e \in Device, Known(d),
         Note(e) \/ Noting(e) \/ Noted
  PROVE  Known(d)'
  <1>0. d # 0 /\ e # 0 /\ save \in [Device -> BOOLEAN] /\ status \in [Device -> BOOLEAN]
        /\ down \in [Device -> Seq(Reports)]
    BY Devices, QueueTypes DEF TypeOK
  <1>1. CASE Note(e)
    <2>1. /\ held = None /\ down[e] # <<>> /\ Head(down[e]).type = "status"
          /\ save' = [save EXCEPT ![e] = Head(down[e]).online]
          /\ down' = [down EXCEPT ![e] = Tail(@)]
          /\ UNCHANGED <<status, held, up, cloud>>
      BY <1>1 DEF Note
    <2>2. CASE d = e
      <3>1. save'[d] = Head(down[d]).online /\ down'[d] = Tail(down[d]) /\ held'.dev # d
        BY <1>0, <2>1, <2>2 DEF None
      <3> QED BY <2>1, <2>2, <3>1, KnownStatus
    <2>3. CASE d # e
      <3>1. save'[d] = save[d] /\ down'[d] = down[d]
        BY <1>0, <2>1, <2>3
      <3> QED BY <2>1, <3>1, KnownSame
    <2> QED BY <2>2, <2>3
  <1>2. CASE Noting(e)
    <2>1. /\ held = None /\ down[e] # <<>> /\ Head(down[e]).type = "status"
          /\ held' = [dev |-> e, own |-> status[e], cloud |-> Head(down[e]).online]
          /\ down' = [down EXCEPT ![e] = Tail(@)]
          /\ UNCHANGED <<save, status, up, cloud>>
      BY <1>2 DEF Noting, own
    <2>2. CASE d = e
      <3>1. held'.dev = d /\ held'.cloud = Head(down[d]).online /\ down'[d] = Tail(down[d])
        BY <1>0, <2>1, <2>2
      <3> QED BY <2>1, <2>2, <3>1, KnownStatus
    <2>3. CASE d # e
      <3>1. down'[d] = down[d] /\ held.dev # d /\ held'.dev # d
        BY <1>0, <2>1, <2>3 DEF None
      <3> QED BY <2>1, <3>1, KnownSame
    <2> QED BY <2>2, <2>3
  <1>3. CASE Noted
    <2>1. /\ held'.dev = 0 /\ UNCHANGED <<up, down, cloud>>
          /\ status' = [status EXCEPT ![held.dev] = held.own]
          /\ save' = [save EXCEPT ![held.dev] = held.cloud]
      BY <1>3 DEF Noted, None
    <2>2. CASE d = held.dev
      <3>1. save'[d] = held.cloud /\ held'.dev # d
        BY <1>0, <2>1, <2>2
      <3>2. Told(d) => Told(d)'
        BY <2>1, <2>2, <3>1 DEF Told, NoStatus
      <3> QED BY <2>1, <2>2, <3>2 DEF Known, Query, Updates, Message
    <2>3. CASE d # held.dev
      <3>1. save'[d] = save[d] /\ status'[d] = status[d] /\ held'.dev # d
        BY <1>0, <2>1, <2>3
      <3> QED BY <2>1, <2>3, <3>1, KnownSame
    <2> QED BY <2>2, <2>3
  <1> QED BY <1>1, <1>2, <1>3

\* The list is compared, or a queue is served.
LEMMA KnownQueue ==
  ASSUME TypeOK, conn, NEW d \in Device, NEW e \in Device, Known(d), Compare(e) \/ Serve(e)
  PROVE  Known(d)'
  <1>0. /\ down \in [Device -> Seq(Reports)] /\ up \in [Device -> Seq(Requests)]
        /\ cloud \in [Device -> BOOLEAN]
    BY QueueTypes DEF TypeOK
  <1>1. CASE Compare(e)
    <2>1. /\ held = None /\ down[e] # <<>> /\ Head(down[e]).type = "list"
          /\ up' = [up EXCEPT ![e] = @ \o Compared(e)]
          /\ down' = [down EXCEPT ![e] = Tail(@)]
          /\ UNCHANGED <<status, save, held, cloud>>
      BY <1>1 DEF Compare, own
    <2>2. CASE d = e
      <3>1. up'[d] = up[d] \o Compared(d) /\ down'[d] = Tail(down[d])
        BY <1>0, <2>1, <2>2
      <3> QED BY <2>1, <2>2, <3>1, KnownList
    <2>3. CASE d # e
      <3>1. up'[d] = up[d] /\ down'[d] = down[d]
        BY <1>0, <2>1, <2>3
      <3> QED BY <2>1, <3>1, KnownSame
    <2> QED BY <2>2, <2>3
  <1>2. CASE Serve(e)
    <2>1. CASE d = e
      BY <1>2, <2>1, KnownServe
    <2>2. CASE d # e
      <3>1. UNCHANGED <<status, save, held>> /\ up'[d] = up[d]
        BY <1>0, <1>2, <2>2 DEF Serve, own
      <3>2. down'[d] = down[d] /\ cloud'[d] = cloud[d]
        BY <1>0, <1>2, <2>2 DEF Serve
      <3> QED BY <3>1, <3>2, KnownSame
    <2> QED BY <2>1, <2>2
  <1> QED BY <1>1, <1>2

LEMMA NothingAdded == <<>> \o <<>> = <<>>
  OBVIOUS

\* Nothing is under way without a connection.
LEMMA NothingUnderWay ==
  ASSUME TypeOK, ~conn, [Next]_vars, ~conn', \A d \in Device : up[d] = <<>> /\ down[d] = <<>>
  PROVE  \A d \in Device : up'[d] = <<>> /\ down'[d] = <<>>
  <1>1. Update(TRUE) = <<>> /\ Update(FALSE) = <<>> /\ \A d \in Device : Update(status[d]) = <<>>
    BY DEF Update
  <1>2. CASE Tick
    <2>1. PICK early \in SUBSET Spare, sends \in BOOLEAN : Turn(polled, early, sends)
      BY <1>2 DEF Tick, Soonest
    <2>2. UNCHANGED down
      BY <1>2 DEF Tick
    <2>3. ASSUME NEW d \in Device PROVE up'[d] = <<>>
      <3>1. up'[d] = up[d]
              \o (IF status[d] # save[d] THEN Update(status[d]) ELSE <<>>)
              \o (IF d \in Lost THEN Update(FALSE) ELSE <<>>)
              \o (IF d \in polled THEN Update(TRUE) ELSE <<>>)
        BY <2>1 DEF Turn
      <3>2. up'[d] = <<>> \o <<>> \o <<>> \o <<>>
        BY <1>1, <3>1
      <3> QED BY <3>2
    <2> QED BY <2>2, <2>3
  <1>3. ASSUME NEW e \in Device,
               up' = [up EXCEPT ![e] = IF status[e] THEN @ ELSE @ \o Update(TRUE)], UNCHANGED down
        PROVE  \A d \in Device : up'[d] = <<>> /\ down'[d] = <<>>
    <2>0. up[e] \o Update(TRUE) = <<>> \o <<>> /\ <<>> \o <<>> = <<>>
      BY <1>1, NothingAdded
    <2>1. up[e] \o Update(TRUE) = <<>>
      BY <2>0
    <2>2. up' = [up EXCEPT ![e] = IF status[e] THEN up[e] ELSE up[e] \o Update(TRUE)]
      BY <1>3
    <2> QED BY <1>3, <2>1, <2>2, QueueTypes
  <1>4. ASSUME NEW e \in Device, Answer(e) \/ \E n \in {Day, Silence} : Wakes(e, n)
        PROVE  \A d \in Device : up'[d] = <<>> /\ down'[d] = <<>>
    BY <1>3, <1>4 DEF Answer, SetHeartOK, Wakes
  <1>5. ~Connect /\ ~Break
    BY DEF Connect, Break
  <1>6. \A e \in Device : ~Note(e) /\ ~Compare(e) /\ ~Noting(e) /\ ~Serve(e)
    BY DEF Note, Compare, Noting, Serve
  <1>7. CASE UNCHANGED vars
    BY <1>7 DEF vars, net
  <1>8. CASE Noted
    BY <1>8 DEF Noted
  <1>9. ASSUME NEW e \in Device, Lose(e) \/ Speaks(e) \/ Flip(e)
        PROVE  UNCHANGED <<up, down>>
    BY <1>9 DEF Lose, Speaks, Flip, net
  <1> QED BY <1>2, <1>4, <1>5, <1>6, <1>7, <1>8, <1>9 DEF Next, Serial, Network

LEMMA AgreeInit == Init => AgreeInv
  BY DEF Init, AgreeInv

LEMMA AgreeStep == TypeOK /\ AgreeInv /\ [Next]_vars => AgreeInv'
  <1> SUFFICES ASSUME TypeOK, AgreeInv, [Next]_vars PROVE AgreeInv'
    OBVIOUS
  <1>1. CASE ~conn /\ ~conn'
    BY <1>1, NothingUnderWay DEF AgreeInv
  <1>2. conn # conn' => Connect \/ Break
    <2>1. Tick \/ Noted => UNCHANGED conn
      BY DEF Tick, Noted
    <2>2. ASSUME NEW e \in Device
          PROVE  /\ Serial(e) \/ Speaks(e) \/ Network(e) => UNCHANGED conn
                 /\ Noting(e) \/ Serve(e) \/ Flip(e) => UNCHANGED conn
                 /\ \A n : Wakes(e, n) => UNCHANGED conn
      BY DEF Serial, Answer, Lose, Speaks, Wakes, Network, Note, Compare, Noting, Serve, Flip, net
    <2> QED BY <2>1, <2>2 DEF Next, vars, net
  <1>3. CASE Connect
    <2>1. ASSUME NEW d \in Device PROVE Known(d)'
      <3>1. up'[d] = <<Query>> /\ down'[d] = <<>>
        BY <1>3 DEF Connect, AgreeInv, Query
      <3>2. up'[d] # <<>> /\ Head(up'[d]) = Query /\ Tail(up'[d]) \in Seq(Updates)
        BY <3>1
      <3> QED BY <3>1, <3>2 DEF Known, Query, Updates, Message
    <2> QED BY <1>3, <2>1 DEF Connect, AgreeInv
  <1>4. CASE Break
    BY <1>4 DEF Break, AgreeInv
  <1>5. CASE conn /\ conn'
    <2> SUFFICES ASSUME NEW d \in Device PROVE Known(d)'
      BY <1>5 DEF AgreeInv
    <2>1. Known(d)
      BY <1>5 DEF AgreeInv
    <2>2. CASE Tick
      BY <1>5, <2>1, <2>2, KnownTick
    <2>3. ASSUME NEW e \in Device, Answer(e) \/ \E n \in {Day, Silence} : Wakes(e, n)
          PROVE  Known(d)'
      <3>1. /\ status' = [status EXCEPT ![e] = TRUE]
            /\ up' = [up EXCEPT ![e] = IF status[e] THEN @ ELSE @ \o Update(TRUE)]
            /\ UNCHANGED <<save, held, down, cloud>>
        BY <2>3 DEF Answer, SetHeartOK, Wakes
      <3> QED BY <1>5, <2>1, <3>1, KnownHeard
    <2>4. ASSUME NEW e \in Device, Note(e) \/ Noting(e) \/ Noted
          PROVE  Known(d)'
      BY <2>1, <2>4, KnownNoted
    <2>5. ASSUME NEW e \in Device, Compare(e) \/ Serve(e)
          PROVE  Known(d)'
      BY <1>5, <2>1, <2>5, KnownQueue
    <2>6. CASE UNCHANGED <<status, save, held, up, down, cloud>>
      BY <2>1, <2>6, KnownSame
    <2>7. ASSUME UNCHANGED vars \/ \E e \in Device : Lose(e) \/ Speaks(e) \/ Flip(e)
          PROVE  UNCHANGED <<status, save, held, up, down, cloud>>
      BY <2>7 DEF Lose, Speaks, Flip, vars, own, net
    <2>8. ~Connect /\ ~Break
      BY <1>5 DEF Connect, Break
    <2>9. CASE Noted
      BY <2>4, <2>9
    <2> QED BY <2>2, <2>3, <2>4, <2>5, <2>6, <2>7, <2>8, <2>9 DEF Next, Serial, Network
  <1> QED BY <1>1, <1>2, <1>3, <1>4, <1>5 DEF TypeOK

\* Nothing is under way, and the gateway takes the cloud to show what it shows:
\* so it does.
LEMMA KnownAtRest == TypeOK /\ AgreeInv => RestMeansSame
  <1> SUFFICES ASSUME TypeOK, AgreeInv, conn, held = None,
                      \A d \in Device : up[d] = <<>> /\ down[d] = <<>>,
                      NEW d \in Device, status[d] = save[d]
               PROVE  cloud[d] = status[d]
    BY DEF RestMeansSame
  <1>1. Known(d) /\ held.dev # d /\ up[d] = <<>> /\ down[d] = <<>>
    BY Devices DEF AgreeInv, None
  <1>2. Told(d) => save[d] = cloud[d]
    BY <1>1 DEF Told
  <1> QED BY <1>1, <1>2 DEF Known

\* At rest the cloud shows each device as the gateway does (onLineFlag): what a
\* broken connection lost is found out with the list of the devices.
THEOREM SameAtRest == Spec => []RestMeansSame
  <1>1. Init => TypeInv /\ AgreeInv
    BY TypeInit, AgreeInit
  <1>2. TypeInv /\ AgreeInv /\ [Next]_vars => (TypeInv /\ AgreeInv)'
    BY TypeStep, AgreeStep DEF TypeInv
  <1>3. TypeInv /\ AgreeInv => RestMeansSame
    BY KnownAtRest DEF TypeInv
  <1> QED BY <1>1, <1>2, <1>3, PTL DEF Spec

-----------------------------------------------------------------------------
(* The lists that are downloaded                                           *)

Request == {Sync!Info, Sync!Scenes} \cup {Sync!Get(mask) : mask \in SUBSET Sync!Bits}

\* What is in s after place p.
After(s, p) == {s[q] : q \in {n \in DOMAIN s : n > p}}
OfType(S, types) == \E m \in S : m.type \in types
Shown(in, at) == IF in THEN at ELSE Sync!Empty

\* The gateway will ask for everything.
Reload(S) == OfType(S, {"info", "added", "removed"})

\* With the messages S still to come the gateway gets from v to the server's list:
\* it is told to ask for it, or of each device that was deleted.
DeviceComes(v, S, in, at) ==
  \/ v = Shown(in, at)["device"] \/ OfType(S, {"addDevice"})
  \/ /\ in /\ v >= 1 /\ v < at["device"]
     /\ \A n \in v + 1 .. at["device"] : [type |-> "deleteDevice", version |-> n] \in S
Comes(k, v, S, in, at) ==
  \/ Reload(S)
  \/ k = "device" /\ DeviceComes(v, S, in, at)
  \/ k = "room" /\ (v = Shown(in, at)["room"] \/ OfType(S, {"deleteRoom"}))
  \/ k = "scene" /\ (v = Shown(in, at)["scene"] \/ OfType(S, {"deleteDevice"}))

\* A message m with the messages S behind it: what it says was so when it was
\* sent, and what has changed since is told behind it.
MessageOK(m, S, in, at) ==
  /\ m.type = "lists" =>
       "scene" \notin m.mask /\ \A k \in {"device", "room"} : Comes(k, m.data[k], S, in, at)
  /\ m.type = "scenes" => Comes("scene", m.data["scene"], S, in, at)
  /\ m.type = "info" => m.in = in \/ OfType(S, {"added", "removed"})
  /\ m.type = "deleteRoom" => in \/ OfType(S, {"removed"})
  /\ m.type = "deleteDevice" =>
       /\ m.version <= at["device"]
       /\ \A x \in S : x.type = "deleteDevice" => x.version > m.version

Orderly(s, in, at) == \A p \in DOMAIN s : MessageOK(s[p], After(s, p), in, at)

MessagesOK ==
  /\ Orderly(told, member, server)
  /\ \A q \in After(asks, 0) : q.type = "get" => "scene" \notin q.mask
  /\ session = "closed" => asks = <<>> /\ told = <<>>
  /\ \A k \in Sync!Kind : server[k] >= 1

\* A member of a family that does not know it will be told.
FamilyOK ==
  session = "ready" /\ member /\ ~family => Reload(After(told, 0)) \/ Sync!Info \in After(asks, 0)

\* The requests U and the messages S that are under way bring the list v of kind k
\* up to date, or a download of the scenes fails.
Coming(k, v, U, S, miss, in, at) ==
  \/ Sync!Info \in U \/ Comes(k, v, S, in, at)
  \/ k = "scene" /\ (miss \/ Sync!Scenes \in U \/ OfType(S, {"scenes", "error"}))

Fresh(k) ==
  \/ k \in want \/ k \in loading
  \/ Coming(k, lists[k], After(asks, 0), After(told, 0), missed, member, server)

FreshOK == session = "ready" /\ ~torn => \A k \in Sync!Kind : Fresh(k)

\* The timer thread finds no download of scenes under way.
SavedOK == "scene" \notin saved[2]

SyncInv == Sync!TypeOK /\ SavedOK /\ MessagesOK /\ FamilyOK /\ FreshOK

-----------------------------------------------------------------------------
(* Queues                                                                  *)

LEMMA AfterTail ==
  ASSUME NEW S, NEW s \in Seq(S), s # <<>>
  PROVE  /\ Head(s) \in S /\ Tail(s) \in Seq(S)
         /\ Head(s) = s[1] /\ 1 \in DOMAIN s
         /\ After(s, 1) = After(Tail(s), 0)
         /\ After(s, 0) = {Head(s)} \cup After(Tail(s), 0)
  <1> DEFINE t == Tail(s)
  <1>1. /\ Head(s) \in S /\ t \in Seq(S) /\ Head(s) = s[1] /\ 1 \in DOMAIN s
        /\ \A k \in DOMAIN t : k \in Nat /\ k >= 1 /\ k + 1 \in DOMAIN s /\ t[k] = s[k + 1]
        /\ \A k \in DOMAIN s : k \in Nat /\ k >= 1
                               /\ (k > 1 => k - 1 \in DOMAIN t /\ t[k - 1] = s[k])
    OBVIOUS
  <1> HIDE DEF t
  <1>2. After(s, 1) = After(t, 0)
    <2>1. ASSUME NEW x \in After(s, 1) PROVE x \in After(t, 0)
      <3>1. PICK k \in DOMAIN s : k > 1 /\ x = s[k]
        BY <2>1 DEF After
      <3>2. k - 1 \in DOMAIN t /\ t[k - 1] = x /\ k - 1 > 0
        BY <1>1, <3>1
      <3> QED BY <3>2 DEF After
    <2>2. ASSUME NEW x \in After(t, 0) PROVE x \in After(s, 1)
      <3>1. PICK k \in DOMAIN t : x = t[k]
        BY <2>2 DEF After
      <3>2. k + 1 \in DOMAIN s /\ s[k + 1] = x /\ k + 1 > 1
        BY <1>1, <3>1
      <3> QED BY <3>2 DEF After
    <2> QED BY <2>1, <2>2
  <1>3. After(s, 0) = {s[1]} \cup After(s, 1)
    <2>1. ASSUME NEW x \in After(s, 0) PROVE x = s[1] \/ x \in After(s, 1)
      <3>1. PICK k \in DOMAIN s : x = s[k]
        BY <2>1 DEF After
      <3>2. k = 1 \/ k > 1
        BY <1>1
      <3> QED BY <3>1, <3>2 DEF After
    <2>2. s[1] \in After(s, 0)
      BY <1>1 DEF After
    <2>3. ASSUME NEW x \in After(s, 1) PROVE x \in After(s, 0)
      <3>1. PICK k \in DOMAIN s : x = s[k] /\ k > 0
        BY <1>1, <2>3 DEF After
      <3> QED BY <3>1 DEF After
    <2> QED BY <2>1, <2>2, <2>3
  <1> QED BY <1>1, <1>2, <1>3 DEF t

LEMMA OrderlyTail ==
  ASSUME NEW S, NEW s \in Seq(S), s # <<>>, NEW in, NEW at, Orderly(s, in, at)
  PROVE  Orderly(Tail(s), in, at)
  <1> DEFINE t == Tail(s)
  <1>1. /\ \A k \in DOMAIN t : k \in Nat /\ k >= 1 /\ k + 1 \in DOMAIN s /\ t[k] = s[k + 1]
        /\ \A k \in DOMAIN s : k \in Nat /\ k >= 1
                               /\ (k > 1 => k - 1 \in DOMAIN t /\ t[k - 1] = s[k])
    OBVIOUS
  <1> HIDE DEF t
  <1> SUFFICES ASSUME NEW p \in DOMAIN t PROVE MessageOK(t[p], After(t, p), in, at)
    BY DEF Orderly, t
  <1>2. After(t, p) = After(s, p + 1)
    <2>1. ASSUME NEW x \in After(s, p + 1) PROVE x \in After(t, p)
      <3>1. PICK k \in DOMAIN s : k > p + 1 /\ x = s[k]
        BY <2>1 DEF After
      <3>2. k - 1 \in DOMAIN t /\ t[k - 1] = x /\ k - 1 > p
        BY <1>1, <3>1
      <3> QED BY <3>2 DEF After
    <2>2. ASSUME NEW x \in After(t, p) PROVE x \in After(s, p + 1)
      <3>1. PICK k \in DOMAIN t : x = t[k] /\ k > p
        BY <2>2 DEF After
      <3>2. k + 1 \in DOMAIN s /\ s[k + 1] = x /\ k + 1 > p + 1
        BY <1>1, <3>1
      <3> QED BY <3>2 DEF After
    <2> QED BY <2>1, <2>2
  <1> QED BY <1>1, <1>2 DEF Orderly

LEMMA AfterAppend ==
  ASSUME NEW S, NEW s \in Seq(S), NEW x
  PROVE  /\ After(Append(s, x), 0) = After(s, 0) \cup {x}
         /\ \A p \in DOMAIN Append(s, x) :
              \/ /\ p \in DOMAIN s /\ Append(s, x)[p] = s[p]
                 /\ After(Append(s, x), p) = After(s, p) \cup {x}
              \/ Append(s, x)[p] = x /\ After(Append(s, x), p) = {}
  <1> DEFINE t == Append(s, x)
             n == Len(s) + 1
  <1>1. /\ n \in DOMAIN t /\ t[n] = x /\ n \in Nat /\ n >= 1
        /\ \A k \in DOMAIN s : k \in DOMAIN t /\ t[k] = s[k] /\ k < n /\ k \in Nat
        /\ \A k \in DOMAIN t : k \in Nat /\ k >= 1 /\ k <= n /\ (k # n => k \in DOMAIN s)
    OBVIOUS
  <1> HIDE DEF t, n
  <1>2. ASSUME NEW p \in Nat, p < n
        PROVE  After(t, p) = After(s, p) \cup {x}
    <2>1. ASSUME NEW y \in After(t, p) PROVE y \in After(s, p) \cup {x}
      <3>1. PICK k \in DOMAIN t : y = t[k] /\ k > p
        BY <2>1 DEF After
      <3>2. CASE k = n
        BY <1>1, <3>1, <3>2
      <3>3. CASE k # n
        BY <1>1, <3>1, <3>3 DEF After
      <3> QED BY <3>2, <3>3
    <2>2. x \in After(t, p)
      BY <1>1, <1>2 DEF After
    <2>3. ASSUME NEW y \in After(s, p) PROVE y \in After(t, p)
      <3>1. PICK k \in DOMAIN s : y = s[k] /\ k > p
        BY <2>3 DEF After
      <3> QED BY <1>1, <3>1 DEF After
    <2> QED BY <2>1, <2>2, <2>3
  <1>3. ASSUME NEW p \in DOMAIN t
        PROVE  \/ p \in DOMAIN s /\ t[p] = s[p] /\ After(t, p) = After(s, p) \cup {x}
               \/ t[p] = x /\ After(t, p) = {}
    <2>1. CASE p = n
      <3>1. \A k \in DOMAIN t : ~(k > n)
        BY <1>1
      <3> QED BY <1>1, <2>1, <3>1 DEF After
    <2>2. CASE p # n
      BY <1>1, <1>2, <2>2
    <2> QED BY <2>1, <2>2
  <1>4. After(t, 0) = After(s, 0) \cup {x}
    BY <1>1, <1>2
  <1> QED BY <1>3, <1>4 DEF t

-----------------------------------------------------------------------------
(* What the messages under way bring                                       *)

LEMMA KindFacts ==
  /\ Sync!Kind = {"device", "room", "scene"} /\ Sync!Bits = {"device", "room", "scene", "inFamily"}
  /\ \A k \in Sync!Kind : Sync!Empty[k] = 0
  /\ Sync!Empty \in [Sync!Kind -> Nat]
  BY DEF Sync!Kind, Sync!Bits, Sync!Empty

LEMMA MessageFields ==
  ASSUME NEW m \in Sync!Message
  PROVE  /\ m.type \in {"info", "added", "removed", "addDevice", "deleteRoom", "error",
                         "deleteDevice", "scenes", "lists"}
         /\ m.type = "info" => m.in \in BOOLEAN
         /\ m.type = "deleteDevice" => m.version \in Nat
                /\ m = [type |-> "deleteDevice", version |-> m.version]
         /\ m.type \in {"scenes", "lists"} => \A k \in Sync!Kind : m.data[k] \in Nat
         /\ m.type = "lists" => m.mask \in SUBSET Sync!Bits
  <1>1. CASE m \in [type : {"info"}, in : BOOLEAN]
    BY <1>1
  <1>2. CASE m \in [type : {"added", "removed", "addDevice", "deleteRoom", "error"}]
    BY <1>2
  <1>3. CASE m \in [type : {"deleteDevice"}, version : Nat]
    BY <1>3
  <1>4. CASE m \in [type : {"scenes"}, data : [Sync!Kind -> Nat]]
    BY <1>4
  <1>5. CASE m \in [type : {"lists"}, mask : SUBSET Sync!Bits, data : [Sync!Kind -> Nat]]
    BY <1>5
  <1> QED BY <1>1, <1>2, <1>3, <1>4, <1>5 DEF Sync!Message

LEMMA OfTypeMore ==
  ASSUME NEW S, NEW T, S \subseteq T, NEW types, OfType(S, types)
  PROVE  OfType(T, types)
  BY DEF OfType

LEMMA ComesMore ==
  ASSUME NEW k, NEW v, NEW S, NEW T, S \subseteq T, NEW in, NEW at, Comes(k, v, S, in, at)
  PROVE  Comes(k, v, T, in, at)
  BY DEF Comes, DeviceComes, Reload, OfType

LEMMA MessageMore ==
  ASSUME NEW m, NEW S, NEW x, x.type # "deleteDevice", NEW in, NEW at,
         MessageOK(m, S, in, at)
  PROVE  MessageOK(m, S \cup {x}, in, at)
  <1>1. \A k, v : Comes(k, v, S, in, at) => Comes(k, v, S \cup {x}, in, at)
    BY ComesMore
  <1>2. \A types : OfType(S, types) => OfType(S \cup {x}, types)
    BY DEF OfType
  <1> QED BY <1>1, <1>2 DEF MessageOK

LEMMA OrderlyAppend ==
  ASSUME NEW M, NEW s \in Seq(M), NEW x, x.type # "deleteDevice", NEW in, NEW at,
         Orderly(s, in, at), MessageOK(x, {}, in, at)
  PROVE  Orderly(Append(s, x), in, at)
  <1>1. ASSUME NEW p \in DOMAIN Append(s, x)
        PROVE  MessageOK(Append(s, x)[p], After(Append(s, x), p), in, at)
    <2>1. CASE /\ p \in DOMAIN s /\ Append(s, x)[p] = s[p]
               /\ After(Append(s, x), p) = After(s, p) \cup {x}
      <3>1. MessageOK(s[p], After(s, p), in, at)
        BY <2>1 DEF Orderly
      <3>2. MessageOK(s[p], After(s, p) \cup {x}, in, at)
        BY <3>1, MessageMore
      <3> QED BY <2>1, <3>2
    <2>2. CASE Append(s, x)[p] = x /\ After(Append(s, x), p) = {}
      BY <2>2
    <2> QED BY <2>1, <2>2, AfterAppend
  <1> QED BY <1>1 DEF Orderly

\* A change on the server, from at to bt, that it tells with message x.
Changes(in, at, x, jn, bt) ==
  \/ in /\ jn /\ bt = [at EXCEPT !["device"] = @ + 1] /\ x = [type |-> "addDevice"]
  \/ /\ in /\ jn /\ bt = [at EXCEPT !["device"] = @ + 1, !["scene"] = @ + 1]
     /\ x = [type |-> "deleteDevice", version |-> bt["device"]]
  \/ in /\ jn /\ bt = [at EXCEPT !["room"] = @ + 1] /\ x = [type |-> "deleteRoom"]
  \/ in /\ ~jn /\ bt = at /\ x = [type |-> "removed"]
  \/ ~in /\ jn /\ bt = at /\ x = [type |-> "added"]

LEMMA ComesChanged ==
  ASSUME NEW k \in Sync!Kind, NEW v \in Nat, NEW S, NEW in \in BOOLEAN, NEW jn \in BOOLEAN,
         NEW at \in [Sync!Kind -> Nat], NEW bt, at["device"] >= 1,
         NEW x, Changes(in, at, x, jn, bt), Comes(k, v, S, in, at)
  PROVE  Comes(k, v, S \cup {x}, jn, bt)
  <1> DEFINE T == S \cup {x}
  <1>0. S \subseteq T /\ x \in T
    OBVIOUS
  <1>1. \A types : OfType(S, types) \/ x.type \in types => OfType(T, types)
    BY DEF OfType
  <1> HIDE DEF T
  <1>2. CASE Reload(S) \/ x.type \in {"info", "added", "removed"}
    BY <1>1, <1>2 DEF Comes, Reload, T
  <1>3. CASE in /\ jn /\ bt = [at EXCEPT !["device"] = @ + 1] /\ x = [type |-> "addDevice"]
    <2>1. OfType(T, {"addDevice"})
      BY <1>1, <1>3
    <2>2. bt["room"] = at["room"] /\ bt["scene"] = at["scene"]
      BY <1>3, KindFacts
    <2> QED BY <1>1, <1>2, <1>3, <2>1, <2>2, KindFacts DEF Comes, DeviceComes,
                                                           Shown, T
  <1>4. CASE /\ in /\ jn /\ bt = [at EXCEPT !["device"] = @ + 1, !["scene"] = @ + 1]
             /\ x = [type |-> "deleteDevice", version |-> bt["device"]]
    <2>1. OfType(T, {"deleteDevice"})
      BY <1>1, <1>4
    <2>2. bt["room"] = at["room"] /\ bt["device"] = at["device"] + 1 /\ at["device"] \in Nat
      BY <1>4, KindFacts
    <2>3. ASSUME DeviceComes(v, S, in, at) PROVE DeviceComes(v, T, jn, bt)
      <3>1. CASE OfType(S, {"addDevice"})
        BY <1>1, <3>1 DEF DeviceComes
      <3>2. CASE v = at["device"]
        <4>1. v >= 1 /\ v < bt["device"] /\ bt["device"] = v + 1
          BY <2>2, <3>2
        <4>2. \A n \in v + 1 .. bt["device"] : n = bt["device"]
          BY <4>1
        <4> QED BY <1>0, <1>4, <4>1, <4>2 DEF DeviceComes
      <3>3. CASE /\ v >= 1 /\ v < at["device"]
                 /\ \A n \in v + 1 .. at["device"] :
                      [type |-> "deleteDevice", version |-> n] \in S
        <4>1. \A n \in v + 1 .. bt["device"] :
                 [type |-> "deleteDevice", version |-> n] \in T
          <5> TAKE n \in v + 1 .. bt["device"]
          <5>1. n = bt["device"] \/ n \in v + 1 .. at["device"]
            BY <2>2
          <5> QED BY <1>0, <1>4, <3>3, <5>1
        <4>2. v < bt["device"]
          BY <2>2, <3>3
        <4> QED BY <1>4, <3>3, <4>1, <4>2 DEF DeviceComes
      <3> QED BY <1>4, <2>3, <3>1, <3>2, <3>3 DEF DeviceComes, Shown
    <2> QED BY <1>1, <1>2, <1>4, <2>1, <2>2, <2>3, KindFacts DEF Comes, Shown, T
  <1>5. CASE in /\ jn /\ bt = [at EXCEPT !["room"] = @ + 1] /\ x = [type |-> "deleteRoom"]
    <2>1. OfType(T, {"deleteRoom"})
      BY <1>1, <1>5
    <2>2. bt["device"] = at["device"] /\ bt["scene"] = at["scene"]
      BY <1>5, KindFacts
    <2>3. DeviceComes(v, S, in, at) => DeviceComes(v, T, jn, bt)
      BY <1>0, <1>1, <1>5, <2>2 DEF DeviceComes, Shown
    <2> QED BY <1>1, <1>2, <1>5, <2>1, <2>2, <2>3, KindFacts DEF Comes, Shown, T
  <1> QED BY <1>2, <1>3, <1>4, <1>5 DEF Changes

LEMMA MessageChanged ==
  ASSUME NEW m \in Sync!Message, NEW S, NEW in \in BOOLEAN, NEW jn \in BOOLEAN,
         NEW at \in [Sync!Kind -> Nat], NEW bt, at["device"] >= 1,
         NEW x, Changes(in, at, x, jn, bt), MessageOK(m, S, in, at)
  PROVE  MessageOK(m, S \cup {x}, jn, bt)
  <1>1. \A k \in Sync!Kind, v \in Nat : Comes(k, v, S, in, at) => Comes(k, v, S \cup {x}, jn, bt)
    BY ComesChanged
  <1>2. \A types : OfType(S, types) \/ x.type \in types => OfType(S \cup {x}, types)
    BY DEF OfType
  <1>3. /\ bt["device"] >= at["device"] /\ bt["device"] \in Nat /\ at["device"] \in Nat
        /\ x.type = "deleteDevice" => x.version = at["device"] + 1
    BY KindFacts DEF Changes
  <1>4. in # jn => x.type \in {"added", "removed"} /\ (~jn => x.type = "removed")
    BY DEF Changes
  <1>5. /\ m.type \in {"lists", "scenes"} => \A k \in Sync!Kind : m.data[k] \in Nat
        /\ m.type = "deleteDevice" => m.version \in Nat
    BY MessageFields
  <1>6. m.type = "lists" =>
          /\ "scene" \notin m.mask
          /\ \A k \in {"device", "room"} : Comes(k, m.data[k], S \cup {x}, jn, bt)
    BY <1>1, <1>5, KindFacts DEF MessageOK
  <1>7. m.type = "scenes" => Comes("scene", m.data["scene"], S \cup {x}, jn, bt)
    BY <1>1, <1>5, KindFacts DEF MessageOK
  <1>8. m.type = "info" => m.in = jn \/ OfType(S \cup {x}, {"added", "removed"})
    BY <1>2, <1>4 DEF MessageOK
  <1>9. m.type = "deleteRoom" => jn \/ OfType(S \cup {x}, {"removed"})
    BY <1>2, <1>4 DEF MessageOK
  <1>10. m.type = "deleteDevice" =>
           /\ m.version <= bt["device"]
           /\ \A y \in S \cup {x} : y.type = "deleteDevice" => y.version > m.version
    BY <1>3, <1>5 DEF MessageOK
  <1> QED BY <1>6, <1>7, <1>8, <1>9, <1>10 DEF MessageOK

LEMMA OrderlyChanged ==
  ASSUME NEW s \in Seq(Sync!Message), NEW in \in BOOLEAN, NEW jn \in BOOLEAN,
         NEW at \in [Sync!Kind -> Nat], NEW bt, at["device"] >= 1,
         NEW x, Changes(in, at, x, jn, bt), Orderly(s, in, at)
  PROVE  Orderly(Append(s, x), jn, bt)
  <1>1. ASSUME NEW p \in DOMAIN Append(s, x)
        PROVE  MessageOK(Append(s, x)[p], After(Append(s, x), p), jn, bt)
    <2>1. CASE /\ p \in DOMAIN s /\ Append(s, x)[p] = s[p]
               /\ After(Append(s, x), p) = After(s, p) \cup {x}
      <3>1. MessageOK(s[p], After(s, p), in, at)
        BY <2>1 DEF Orderly
      <3>2. s[p] \in Sync!Message
        BY <2>1
      <3>3. MessageOK(s[p], After(s, p) \cup {x}, jn, bt)
        BY <3>1, <3>2, MessageChanged
      <3> QED BY <2>1, <3>3
    <2>2. CASE Append(s, x)[p] = x /\ After(Append(s, x), p) = {}
      <3>1. MessageOK(x, {}, jn, bt)
        <4>1. bt["device"] \in Nat
          BY KindFacts DEF Changes
        <4> QED BY <4>1 DEF Changes, MessageOK
      <3> QED BY <2>2, <3>1
    <2> QED BY <2>1, <2>2, AfterAppend
  <1> QED BY <1>1 DEF Orderly

-----------------------------------------------------------------------------
(* Types                                                                   *)

LEMMA NothingAfter ==
  After(<<>>, 0) = {} /\ \A in, at : Orderly(<<>>, in, at)
  BY DEF After, Orderly

LEMMA AfterConcat ==
  ASSUME NEW S, NEW s \in Seq(S), NEW t \in Seq(S)
  PROVE  s \o t \in Seq(S) /\ After(s \o t, 0) = After(s, 0) \cup After(t, 0)
  <1> DEFINE u == s \o t
  <1>1. /\ u \in Seq(S)
        /\ \A k \in DOMAIN s : k > 0 /\ k \in DOMAIN u /\ u[k] = s[k]
        /\ \A k \in DOMAIN t : k > 0 /\ Len(s) + k > 0
                               /\ Len(s) + k \in DOMAIN u /\ u[Len(s) + k] = t[k]
        /\ \A k \in DOMAIN u : \/ k \in DOMAIN s /\ u[k] = s[k]
                               \/ k - Len(s) \in DOMAIN t /\ u[k] = t[k - Len(s)]
    OBVIOUS
  <1> HIDE DEF u
  <1>2. After(u, 0) = After(s, 0) \cup After(t, 0)
    <2>1. ASSUME NEW x \in After(u, 0) PROVE x \in After(s, 0) \/ x \in After(t, 0)
      <3>1. PICK k \in DOMAIN u : x = u[k]
        BY <2>1 DEF After
      <3>2. CASE k \in DOMAIN s /\ u[k] = s[k]
        BY <1>1, <3>1, <3>2 DEF After
      <3>3. CASE k - Len(s) \in DOMAIN t /\ u[k] = t[k - Len(s)]
        BY <1>1, <3>1, <3>3 DEF After
      <3> QED BY <1>1, <3>1, <3>2, <3>3
    <2>2. ASSUME NEW x \in After(s, 0) PROVE x \in After(u, 0)
      <3>1. PICK k \in DOMAIN s : x = s[k]
        BY <2>2 DEF After
      <3> QED BY <1>1, <3>1 DEF After
    <2>3. ASSUME NEW x \in After(t, 0) PROVE x \in After(u, 0)
      <3>1. PICK k \in DOMAIN t : x = t[k]
        BY <2>3 DEF After
      <3> QED BY <1>1, <3>1 DEF After
    <2> QED BY <2>1, <2>2, <2>3
  <1> QED BY <1>1, <1>2 DEF u

LEMMA RequestFields ==
  ASSUME NEW q \in Request
  PROVE  /\ q.type \in {"info", "scenes", "get"}
         /\ q.type = "info" => q = Sync!Info
         /\ q.type = "scenes" => q = Sync!Scenes
         /\ q.type = "get" => q.mask \subseteq Sync!Bits
  BY DEF Request, Sync!Info, Sync!Scenes, Sync!Get

\* The scenes are asked for on their own.
LEMMA RequestsSent ==
  ASSUME NEW new \in SUBSET Sync!Bits
  PROVE  /\ Sync!Requests(new) \in Seq(Request)
         /\ \A q \in After(Sync!Requests(new), 0) : q.type = "get" => "scene" \notin q.mask
         /\ "scene" \in new => Sync!Scenes \in After(Sync!Requests(new), 0)
  <1> DEFINE a == IF "scene" \in new THEN <<Sync!Scenes>> ELSE <<>>
             g == Sync!Get(new \ {"scene"})
             b == IF family /\ new \ {"scene", "inFamily"} # {} THEN <<g>> ELSE <<>>
  <1>1. Sync!Scenes \in Request /\ g \in Request
    BY DEF Request
  <1>2. g.type = "get" /\ g.mask = new \ {"scene"} /\ Sync!Scenes.type = "scenes"
    BY DEF Sync!Get, Sync!Scenes
  <1> HIDE DEF g
  <1>3. /\ a \in Seq(Request) /\ (\A q \in After(a, 0) : q = Sync!Scenes)
        /\ "scene" \in new => Sync!Scenes \in After(a, 0)
    BY <1>1 DEF After
  <1>4. b \in Seq(Request) /\ \A q \in After(b, 0) : q = g
    BY <1>1 DEF After
  <1>5. Sync!Requests(new) = a \o b
    BY DEF Sync!Requests, g
  <1> HIDE DEF a, b
  <1>6. a \o b \in Seq(Request) /\ After(a \o b, 0) = After(a, 0) \cup After(b, 0)
    BY <1>3, <1>4, AfterConcat
  <1> QED BY <1>2, <1>3, <1>4, <1>5, <1>6

LEMMA Queues == Sync!TypeOK <=>
  /\ want \subseteq Sync!Bits /\ loading \subseteq Sync!Bits \ {"scene"}
  /\ family \in BOOLEAN /\ member \in BOOLEAN
  /\ lists \in [Sync!Kind -> Nat] /\ server \in [Sync!Kind -> Nat]
  /\ session \in {"closed", "login", "ready"}
  /\ missed \in BOOLEAN /\ torn \in BOOLEAN
  /\ pc \in {"idle", "read"} /\ saved \in (SUBSET Sync!Bits) \X (SUBSET Sync!Bits)
  /\ asks \in Seq(Request) /\ told \in Seq(Sync!Message)
  /\ changes \in 0 .. MaxChanges /\ ended \in 0 .. MaxEnded /\ failed \in 0 .. MaxFailed
  BY DEF Sync!TypeOK, Request

LEMMA InitInv == Sync!Init => SyncInv
  <1> SUFFICES ASSUME Sync!Init PROVE SyncInv
    OBVIOUS
  <1>1. Sync!TypeOK
    <2>1. Sync!Empty \in [Sync!Kind -> Nat] /\ server \in [Sync!Kind -> Nat]
      BY KindFacts DEF Sync!Init
    <2>2. asks \in Seq(Request) /\ told \in Seq(Sync!Message)
      BY DEF Sync!Init
    <2>3. 0 \in 0 .. MaxChanges /\ 0 \in 0 .. MaxEnded /\ 0 \in 0 .. MaxFailed
      BY ListsAssumption DEF Sync!SyncAssumption
    <2> QED BY <2>1, <2>2, <2>3, Queues DEF Sync!Init
  <1>2. MessagesOK
    <2>1. asks = <<>> /\ told = <<>> /\ \A k \in Sync!Kind : server[k] >= 1
      BY DEF Sync!Init
    <2> QED BY <2>1, NothingAfter DEF MessagesOK
  <1>3. session = "closed" /\ SavedOK
    BY DEF Sync!Init, SavedOK
  <1> QED BY <1>1, <1>2, <1>3 DEF SyncInv, FamilyOK, FreshOK

LEMMA InfoTypes ==
  /\ Sync!Info \in Request /\ <<Sync!Info>> \in Seq(Request) /\ <<>> \in Seq(Request) /\ <<>> \in Seq(Sync!Message)
  /\ \A s \in Seq(Request) : Append(s, Sync!Info) \in Seq(Request)
  <1>1. Sync!Info \in Request
    BY DEF Request
  <1> QED BY <1>1


-----------------------------------------------------------------------------
(* Steps                                                                   *)

\* What brings a list up to date depends on.

LEMMA LoginStep == SyncInv /\ Sync!Login => SyncInv'
  <1> SUFFICES ASSUME SyncInv, Sync!Login PROVE SyncInv'
    OBVIOUS
  <1>1. /\ session' = "login" /\ asks' = <<Sync!Info>> /\ session = "closed"
        /\ UNCHANGED <<want, loading, family, lists, missed, pc, saved, torn, server, member>>
        /\ UNCHANGED <<told, changes, ended, failed>>
    BY DEF Sync!Login, Sync!flags, Sync!timer, Sync!cloud, Sync!counters
  <1>2. Sync!TypeOK'
    BY <1>1, InfoTypes, Queues DEF SyncInv, Sync!TypeOK, Request
  <1>3. \A q \in After(<<Sync!Info>>, 0) : q = Sync!Info
    BY DEF After
  <1>4. Sync!Info.type # "get"
    BY DEF Sync!Info
  <1>5. MessagesOK'
    BY <1>1, <1>3, <1>4 DEF MessagesOK, SyncInv
  <1> QED BY <1>1, <1>2, <1>5 DEF SyncInv, SavedOK, FamilyOK, FreshOK

LEMMA BreakStep == SyncInv /\ Sync!Break => SyncInv'
  <1> SUFFICES ASSUME SyncInv, Sync!Break PROVE SyncInv'
    OBVIOUS
  <1>1. /\ session' = "closed" /\ asks' = <<>> /\ told' = <<>>
        /\ ended < MaxEnded /\ ended' = ended + 1
        /\ UNCHANGED <<want, loading, family, lists, missed, pc, saved, torn, server, member>>
        /\ UNCHANGED <<changes, failed>>
    BY DEF Sync!Break, Sync!flags, Sync!timer, Sync!cloud
  <1>2. ended' \in 0 .. MaxEnded
    BY <1>1, ListsAssumption DEF Sync!SyncAssumption, SyncInv, Sync!TypeOK
  <1>3. Sync!TypeOK'
    BY <1>1, <1>2, InfoTypes DEF SyncInv, Sync!TypeOK, Request
  <1>4. MessagesOK'
    BY <1>1, NothingAfter DEF MessagesOK, SyncInv
  <1> QED BY <1>1, <1>3, <1>4 DEF SyncInv, SavedOK, FamilyOK, FreshOK

LEMMA ReadStep == SyncInv /\ Sync!ReadFlags => SyncInv'
  <1> SUFFICES ASSUME SyncInv, Sync!ReadFlags PROVE SyncInv'
    OBVIOUS
  <1>1. /\ pc' = "read" /\ saved' = <<want, loading>>
        /\ UNCHANGED <<want, loading, family, lists, session, missed, torn, server, member>>
        /\ UNCHANGED <<asks, told, changes, ended, failed>>
    BY DEF Sync!ReadFlags, Sync!flags, Sync!gateway, Sync!cloud, Sync!counters
  <1>2. Sync!TypeOK'
    <2>1. saved' \in (SUBSET Sync!Bits) \X (SUBSET Sync!Bits)
      BY <1>1 DEF SyncInv, Sync!TypeOK
    <2> QED BY <1>1, <2>1 DEF SyncInv, Sync!TypeOK
  <1>3. MessagesOK'
    BY <1>1 DEF MessagesOK, SyncInv
  <1>4. FamilyOK' /\ FreshOK'
    BY <1>1 DEF SyncInv, FamilyOK, FreshOK, Fresh
  <1>5. SavedOK'
    BY <1>1 DEF SyncInv, Sync!TypeOK, SavedOK
  <1> QED BY <1>2, <1>3, <1>4, <1>5 DEF SyncInv

LEMMA WriteStep == SyncInv /\ Sync!WriteFlags => SyncInv'
  <1> SUFFICES ASSUME SyncInv, Sync!WriteFlags PROVE SyncInv'
    OBVIOUS
  <1> DEFINE new == saved[1] \ saved[2]
             U == After(asks, 0)
  <1>1. /\ pc' = "idle" /\ saved' = <<{}, {}>> /\ torn' = (torn \/ saved # <<want, loading>>)
        /\ want' = saved[1] \ new /\ loading' = saved[2] \cup (new \ {"scene"})
        /\ UNCHANGED <<family, lists, session, server, member, told, changes, ended>>
    BY DEF Sync!WriteFlags, Sync!Download, Sync!Started, Sync!BeingLoaded,
           Sync!cloud
  <1>2. \/ session # "closed" /\ asks' = asks \o Sync!Requests(new) /\ missed' = missed /\ failed' = failed
        \/ session = "closed" /\ asks' = asks /\ missed' = missed /\ failed' = failed
        \/ /\ session # "closed" /\ failed < MaxFailed /\ failed' = failed + 1 /\ asks' = asks
           /\ missed' = (missed \/ "scene" \in new)
    BY DEF Sync!WriteFlags, Sync!Download, Sync!Started
  <1>3. saved[1] \subseteq Sync!Bits /\ saved[2] \subseteq Sync!Bits /\ asks \in Seq(Request)
    BY Queues DEF SyncInv
  <1> HIDE DEF new
  <1>4. new \subseteq Sync!Bits
    BY <1>3 DEF new
  <1>5. /\ Sync!Requests(new) \in Seq(Request)
        /\ \A q \in After(Sync!Requests(new), 0) : q.type = "get" => "scene" \notin q.mask
        /\ "scene" \in new => Sync!Scenes \in After(Sync!Requests(new), 0)
    BY <1>4, RequestsSent
  <1>6. /\ asks \o Sync!Requests(new) \in Seq(Request)
        /\ After(asks \o Sync!Requests(new), 0) = U \cup After(Sync!Requests(new), 0)
    BY <1>3, <1>5, AfterConcat
  <1>7. /\ asks' \in Seq(Request)
        /\ U \subseteq After(asks', 0)
        /\ \A q \in After(asks', 0) : q \in U \/ (q.type = "get" => "scene" \notin q.mask)
        /\ session # "closed" /\ "scene" \in new => Sync!Scenes \in After(asks', 0) \/ missed'
    BY <1>2, <1>3, <1>5, <1>6
  <1>8. missed' \in BOOLEAN /\ (missed => missed') /\ torn' \in BOOLEAN
    <2>1. missed' = missed \/ missed' = (missed \/ "scene" \in new)
      BY <1>2
    <2>2. missed \in BOOLEAN /\ torn \in BOOLEAN
      BY Queues DEF SyncInv
    <2>3. torn' \in BOOLEAN
      BY <1>1, <2>2
    <2> QED BY <2>1, <2>2, <2>3
  <1>9. failed' \in 0 .. MaxFailed
    <2>1. failed \in 0 .. MaxFailed /\ MaxFailed \in Nat
      BY ListsAssumption DEF Sync!SyncAssumption, SyncInv, Sync!TypeOK
    <2> QED BY <1>2, <2>1
  <1>10. want' \subseteq Sync!Bits /\ loading' \subseteq Sync!Bits \ {"scene"}
    BY <1>1, <1>3, <1>4 DEF SyncInv, SavedOK
  <1>11. Sync!TypeOK' /\ SavedOK'
    <2>1. saved' \in (SUBSET Sync!Bits) \X (SUBSET Sync!Bits) /\ "scene" \notin saved'[2]
      BY <1>1
    <2>2. Sync!TypeOK
      BY DEF SyncInv
    <2>3. /\ family' \in BOOLEAN /\ member' \in BOOLEAN
          /\ lists' \in [Sync!Kind -> Nat] /\ server' \in [Sync!Kind -> Nat]
          /\ session' \in {"closed", "login", "ready"} /\ pc' \in {"idle", "read"}
          /\ told' \in Seq(Sync!Message) /\ changes' \in 0 .. MaxChanges /\ ended' \in 0 .. MaxEnded
      BY <1>1, <2>2, Queues
    <2> QED BY <1>7, <1>8, <1>9, <1>10, <2>1, <2>3 DEF Sync!TypeOK, SavedOK, Request
  <1>12. MessagesOK'
    <2>1. \A q \in After(asks', 0) : q.type = "get" => "scene" \notin q.mask
      BY <1>7 DEF SyncInv, MessagesOK
    <2>2. session' = "closed" => asks' = <<>> /\ told' = <<>>
      BY <1>1, <1>2 DEF SyncInv, MessagesOK
    <2> QED BY <1>1, <2>1, <2>2 DEF SyncInv, MessagesOK
  <1>13. FamilyOK'
    BY <1>1, <1>7 DEF SyncInv, FamilyOK
  <1>14. ASSUME session' = "ready", ~torn', NEW k \in Sync!Kind PROVE Fresh(k)'
    <2>1. saved = <<want, loading>> /\ session = "ready" /\ ~torn
      BY <1>1, <1>14
    <2>2. want' = want \ new /\ loading' = loading \cup (new \ {"scene"})
      BY <1>1, <2>1
    <2>3. CASE k = "scene" /\ "scene" \in new
      BY <1>7, <2>1, <2>3 DEF Fresh, Coming
    <2>4. CASE k # "scene" /\ k \in want
      BY <2>2, <2>4 DEF Fresh
    <2>5. CASE k # "scene" /\ k \in loading
      BY <2>2, <2>5 DEF Fresh
    <2>6. Fresh(k)
      BY <2>1 DEF SyncInv, FreshOK
    <2>7. CASE k = "scene" /\ "scene" \notin new /\ k \in want
      BY <2>2, <2>7 DEF Fresh
    <2>8. k # "scene" \/ k \notin loading
      BY DEF SyncInv, Sync!TypeOK
    <2>9. CASE k \notin want /\ k \notin loading
      <3>1. Coming(k, lists[k], After(asks, 0), After(told, 0), missed, member, server)
        BY <2>6, <2>9 DEF Fresh
      <3>2. Coming(k, lists[k], After(asks', 0), After(told, 0), missed', member, server)
        BY <1>7, <1>8, <3>1 DEF Coming
      <3> QED BY <1>1, <3>2 DEF Fresh
    <2> QED BY <2>3, <2>4, <2>5, <2>7, <2>8, <2>9
  <1> QED BY <1>11, <1>12, <1>13, <1>14 DEF SyncInv, FreshOK

LEMMA ChangeStep == SyncInv /\ Sync!Change => SyncInv'
  <1> SUFFICES ASSUME SyncInv, Sync!Change PROVE SyncInv'
    OBVIOUS
  <1>1. /\ changes < MaxChanges /\ changes' = changes + 1
        /\ UNCHANGED <<want, loading, family, lists, session, missed, pc, saved, torn>>
        /\ UNCHANGED <<asks, ended, failed>>
    BY DEF Sync!Change, Sync!flags, Sync!gateway, Sync!timer
  <1>2. member \in BOOLEAN /\ server \in [Sync!Kind -> Nat] /\ told \in Seq(Sync!Message)
        /\ server["device"] >= 1 /\ \A k \in Sync!Kind : server[k] >= 1
    BY KindFacts, Queues DEF SyncInv, MessagesOK
  <1>3. PICK x \in Sync!Message : /\ told' = IF session = "closed" THEN told ELSE Append(told, x)
                            /\ Changes(member, server, x, member', server')
    <2>1. CASE /\ member /\ server' = [server EXCEPT !["device"] = @ + 1]
               /\ Sync!Notify([type |-> "addDevice"]) /\ UNCHANGED member
      BY <2>1 DEF Sync!Notify, Changes, Sync!Message
    <2>2. CASE /\ member /\ server' = [server EXCEPT !["device"] = @ + 1, !["scene"] = @ + 1]
               /\ Sync!Notify([type |-> "deleteDevice", version |-> server'["device"]])
               /\ UNCHANGED member
      <3> DEFINE x == [type |-> "deleteDevice", version |-> server'["device"]]
      <3>1. server'["device"] \in Nat
        BY <1>2, <2>2, KindFacts
      <3>2. x \in Sync!Message
        BY <3>1 DEF Sync!Message
      <3>3. Changes(member, server, x, member', server')
        BY <2>2 DEF Changes
      <3> QED BY <2>2, <3>2, <3>3 DEF Sync!Notify
    <2>3. CASE /\ member /\ server' = [server EXCEPT !["room"] = @ + 1]
               /\ Sync!Notify([type |-> "deleteRoom"]) /\ UNCHANGED member
      BY <2>3 DEF Sync!Notify, Changes, Sync!Message
    <2>4. CASE /\ member' = ~member /\ UNCHANGED server
               /\ Sync!Notify([type |-> IF member THEN "removed" ELSE "added"])
      <3>1. CASE member
        BY <2>4, <3>1 DEF Sync!Notify, Changes, Sync!Message
      <3>2. CASE ~member
        BY <2>4, <3>2 DEF Sync!Notify, Changes, Sync!Message
      <3> QED BY <3>1, <3>2
    <2> QED BY <2>1, <2>2, <2>3, <2>4 DEF Sync!Change
  <1>4. /\ member' \in BOOLEAN /\ server' \in [Sync!Kind -> Nat]
        /\ \A k \in Sync!Kind : server'[k] >= 1
    <2>1. \/ server' = server \/ server' = [server EXCEPT !["device"] = @ + 1]
          \/ server' = [server EXCEPT !["room"] = @ + 1]
          \/ server' = [server EXCEPT !["device"] = @ + 1, !["scene"] = @ + 1]
      BY <1>3 DEF Changes
    <2>2. member' \in BOOLEAN
      BY <1>2 DEF Sync!Change
    <2>3. server' \in [Sync!Kind -> Nat] /\ \A k \in Sync!Kind : server'[k] >= 1
      BY <1>2, <2>1
    <2> QED BY <2>2, <2>3
  <1>5. Sync!TypeOK' /\ SavedOK'
    <2>1. changes' \in 0 .. MaxChanges
      BY <1>1, ListsAssumption DEF Sync!SyncAssumption, SyncInv, Sync!TypeOK
    <2>2. told' \in Seq(Sync!Message)
      BY <1>2, <1>3
    <2> QED BY <1>1, <1>4, <2>1, <2>2 DEF SyncInv, Sync!TypeOK, SavedOK
  <1>6. MessagesOK'
    <2>1. CASE session = "closed"
      BY <1>1, <1>3, <1>4, <2>1, NothingAfter DEF SyncInv, MessagesOK
    <2>2. CASE session # "closed"
      <3>1. Orderly(Append(told, x), member', server')
        BY <1>2, <1>3, <1>4, OrderlyChanged DEF SyncInv, MessagesOK
      <3> QED BY <1>1, <1>3, <1>4, <2>2, <3>1 DEF SyncInv, MessagesOK
    <2> QED BY <2>1, <2>2
  <1>7. ASSUME session = "ready"
        PROVE  After(told', 0) = After(told, 0) \cup {x}
    BY <1>2, <1>3, <1>7, AfterAppend
  <1>8. FamilyOK'
    <2> SUFFICES ASSUME session = "ready", member', ~family
                 PROVE  Reload(After(told', 0)) \/ Sync!Info \in After(asks, 0)
      BY <1>1 DEF FamilyOK
    <2>1. CASE member
      BY <1>7, <2>1 DEF SyncInv, FamilyOK, Reload, OfType
    <2>2. CASE ~member
      <3>1. x.type = "added"
        BY <1>3, <2>2 DEF Changes
      <3> QED BY <1>7, <3>1 DEF Reload, OfType
    <2> QED BY <2>1, <2>2
  <1>9. ASSUME session = "ready", ~torn, NEW k \in Sync!Kind PROVE Fresh(k)'
    <2>1. Fresh(k)
      BY <1>9 DEF SyncInv, FreshOK
    <2>2. After(told', 0) = After(told, 0) \cup {x}
      BY <1>7, <1>9
    <2>3. ASSUME Comes(k, lists[k], After(told, 0), member, server)
          PROVE  Comes(k, lists[k], After(told, 0) \cup {x}, member', server')
      <3>1. lists[k] \in Nat
        BY DEF SyncInv, Sync!TypeOK
      <3> QED BY <1>2, <1>3, <1>4, <2>3, <3>1, ComesChanged
    <2>4. OfType(After(told, 0), {"scenes", "error"}) => OfType(After(told', 0), {"scenes", "error"})
      BY <2>2, OfTypeMore
    <2> QED BY <1>1, <2>1, <2>2, <2>3, <2>4 DEF Fresh, Coming
  <1>10. FreshOK'
    BY <1>1, <1>9 DEF FreshOK
  <1> QED BY <1>5, <1>6, <1>8, <1>10 DEF SyncInv

LEMMA AnswerStep == SyncInv /\ Sync!Answer => SyncInv'
  <1> SUFFICES ASSUME SyncInv, Sync!Answer PROVE SyncInv'
    OBVIOUS
  <1> DEFINE h == Head(asks)
             U == After(asks, 0)
             V == After(asks', 0)
             S == After(told, 0)
             T == After(told', 0)
  <1>1. /\ asks # <<>> /\ asks' = Tail(asks)
        /\ UNCHANGED <<want, loading, family, lists, session, missed, pc, saved, torn>>
        /\ UNCHANGED <<server, member, changes, ended>>
    BY DEF Sync!Answer, Sync!flags, Sync!gateway, Sync!timer, Sync!cloud
  <1>2. /\ asks \in Seq(Request) /\ told \in Seq(Sync!Message)
        /\ member \in BOOLEAN /\ server \in [Sync!Kind -> Nat] /\ Sync!View \in [Sync!Kind -> Nat]
        /\ Sync!View = Shown(member, server)
    BY KindFacts, Queues DEF SyncInv, Sync!View, Shown
  <1>3. h \in Request /\ asks' \in Seq(Request) /\ U = {h} \cup V
    BY <1>1, <1>2, AfterTail
  <1>4. session # "closed"
    BY <1>1 DEF SyncInv, MessagesOK
  <1>5. h.type = "get" => "scene" \notin h.mask
    BY <1>3 DEF SyncInv, MessagesOK
  <1>6. \/ /\ failed' = failed
           /\ h.type = "info" => told' = Append(told, [type |-> "info", in |-> member])
           /\ h.type = "scenes" => told' = Append(told, [type |-> "scenes", data |-> Sync!View])
           /\ h.type = "get" => told' = Append(told, [type |-> "lists", mask |-> h.mask, data |-> Sync!View])
        \/ /\ h.type # "info" /\ failed < MaxFailed /\ failed' = failed + 1
           /\ told' = Append(told, [type |-> "error"])
    BY DEF Sync!Answer
  <1>7. h.type \in {"info", "scenes", "get"} /\ (h.type = "get" => h.mask \subseteq Sync!Bits)
        /\ (h = Sync!Info <=> h.type = "info") /\ (h = Sync!Scenes <=> h.type = "scenes")
    BY <1>3, RequestFields DEF Sync!Info, Sync!Scenes
  <1> HIDE DEF h
  <1>8. PICK x \in Sync!Message :
          /\ told' = Append(told, x) /\ x.type # "deleteDevice"
          /\ MessageOK(x, {}, member, server)
          /\ h.type = "info" => x.type = "info"
          /\ h.type = "scenes" => x.type \in {"scenes", "error"}
    <2>1. CASE h.type # "info" /\ told' = Append(told, [type |-> "error"])
      <3> DEFINE x == [type |-> "error"]
      <3>1. x \in Sync!Message /\ MessageOK(x, {}, member, server) /\ x.type = "error"
        BY DEF MessageOK, Sync!Message
      <3> HIDE DEF x
      <3> QED BY <2>1, <3>1 DEF x
    <2>2. CASE h.type = "info" /\ told' = Append(told, [type |-> "info", in |-> member])
      <3> DEFINE x == [type |-> "info", in |-> member]
      <3>1. x \in Sync!Message /\ MessageOK(x, {}, member, server) /\ x.type = "info"
        BY <1>2 DEF MessageOK, Sync!Message
      <3> HIDE DEF x
      <3> QED BY <2>2, <3>1 DEF x
    <2>3. CASE h.type = "scenes" /\ told' = Append(told, [type |-> "scenes", data |-> Sync!View])
      <3> DEFINE x == [type |-> "scenes", data |-> Sync!View]
      <3>1. x \in Sync!Message /\ x.type = "scenes" /\ x.data = Sync!View
        BY <1>2 DEF Sync!Message
      <3> HIDE DEF x
      <3>2. MessageOK(x, {}, member, server)
        BY <1>2, <3>1 DEF MessageOK, Comes
      <3> QED BY <2>3, <3>1, <3>2 DEF x
    <2>4. CASE h.type = "get" /\ told' = Append(told, [type |-> "lists", mask |-> h.mask, data |-> Sync!View])
      <3> DEFINE x == [type |-> "lists", mask |-> h.mask, data |-> Sync!View]
      <3>1. x \in Sync!Message /\ x.type = "lists" /\ x.data = Sync!View /\ x.mask = h.mask
        BY <1>2, <1>7, <2>4 DEF Sync!Message
      <3> HIDE DEF x
      <3>2. MessageOK(x, {}, member, server)
        BY <1>2, <1>5, <2>4, <3>1 DEF MessageOK, Comes, DeviceComes
      <3> QED BY <2>4, <3>1, <3>2 DEF x
    <2> QED BY <1>6, <1>7, <2>1, <2>2, <2>3, <2>4
  <1>9. T = S \cup {x}
    BY <1>2, <1>8, AfterAppend
  <1>10. Sync!TypeOK' /\ SavedOK'
    <2>1. failed' \in 0 .. MaxFailed
      <3>1. failed \in 0 .. MaxFailed /\ MaxFailed \in Nat
        BY ListsAssumption DEF Sync!SyncAssumption, SyncInv, Sync!TypeOK
      <3> QED BY <1>6, <3>1
    <2>2. told' \in Seq(Sync!Message)
      BY <1>2, <1>8
    <2>3. changes' = changes
      BY DEF Sync!Answer
    <2> QED BY <1>1, <1>3, <2>1, <2>2, <2>3 DEF SyncInv, Sync!TypeOK, SavedOK,
                                                Request
  <1>11. MessagesOK'
    <2>1. Orderly(Append(told, x), member, server)
      BY <1>2, <1>8, OrderlyAppend DEF SyncInv, MessagesOK
    <2>2. \A q \in V : q.type = "get" => "scene" \notin q.mask
      BY <1>3 DEF SyncInv, MessagesOK
    <2> QED BY <1>1, <1>4, <1>8, <2>1, <2>2 DEF SyncInv, MessagesOK
  <1>12. ASSUME Sync!Info \in U PROVE Sync!Info \in V \/ Reload(T)
    <2>1. CASE h = Sync!Info
      BY <1>7, <1>8, <1>9, <2>1 DEF Reload, OfType
    <2> QED BY <1>3, <1>12, <2>1
  <1>13. Reload(S) => Reload(T)
    BY <1>9 DEF Reload, OfType
  <1>14. FamilyOK'
    BY <1>1, <1>12, <1>13 DEF SyncInv, FamilyOK
  <1>15. ASSUME session = "ready", ~torn, NEW k \in Sync!Kind PROVE Fresh(k)'
    <2>1. Fresh(k)
      BY <1>15 DEF SyncInv, FreshOK
    <2>2. Comes(k, lists[k], S, member, server) => Comes(k, lists[k], T, member, server)
      <3>1. S \subseteq T
        BY <1>9
      <3> QED BY <3>1, ComesMore
    <2>3. OfType(S, {"scenes", "error"}) \/ h = Sync!Scenes => OfType(T, {"scenes", "error"})
      BY <1>7, <1>8, <1>9 DEF OfType
    <2>4. Sync!Scenes \in U => Sync!Scenes \in V \/ h = Sync!Scenes
      BY <1>3
    <2>5. Reload(T) => Comes(k, lists[k], T, member, server)
      BY DEF Comes
    <2> QED BY <1>1, <1>12, <2>1, <2>2, <2>3, <2>4, <2>5 DEF Fresh, Coming
  <1>16. FreshOK'
    BY <1>1, <1>15 DEF FreshOK
  <1> QED BY <1>10, <1>11, <1>14, <1>16 DEF SyncInv

-----------------------------------------------------------------------------
(* Messages that are taken in                                              *)

LEMMA OfTypePass ==
  ASSUME NEW h, NEW S, NEW types, OfType({h} \cup S, types), h.type \notin types
  PROVE  OfType(S, types)
  BY DEF OfType

\* A message that is not about list k is not missed.
LEMMA ComesPass ==
  ASSUME NEW k, NEW v, NEW h, NEW S, NEW in, NEW at, Comes(k, v, {h} \cup S, in, at),
         h.type \notin {"info", "added", "removed"},
         k = "device" => h.type \notin {"addDevice", "deleteDevice"},
         k = "room" => h.type # "deleteRoom",
         k = "scene" => h.type # "deleteDevice"
  PROVE  Comes(k, v, S, in, at)
  <1> DEFINE T == {h} \cup S
  <1>1. Reload(T) => Reload(S)
    BY OfTypePass DEF Reload
  <1>2. ASSUME k = "device", DeviceComes(v, T, in, at) PROVE DeviceComes(v, S, in, at)
    <2>1. OfType(T, {"addDevice"}) => OfType(S, {"addDevice"})
      BY <1>2, OfTypePass
    <2>2. \A n : [type |-> "deleteDevice", version |-> n] \in T =>
                [type |-> "deleteDevice", version |-> n] \in S
      BY <1>2
    <2> QED BY <1>2, <2>1, <2>2 DEF DeviceComes
  <1>3. k = "room" /\ OfType(T, {"deleteRoom"}) => OfType(S, {"deleteRoom"})
    BY OfTypePass
  <1>4. k = "scene" /\ OfType(T, {"deleteDevice"}) => OfType(S, {"deleteDevice"})
    BY OfTypePass
  <1> QED BY <1>1, <1>2, <1>3, <1>4 DEF Comes

\* The gateway deletes a device from its list, or has the list of later.
LEMMA DeviceDeleted ==
  ASSUME NEW n \in Nat, NEW h, h = [type |-> "deleteDevice", version |-> n], NEW S,
         NEW in \in BOOLEAN, NEW at \in [Sync!Kind -> Nat], MessageOK(h, S, in, at),
         NEW v \in Nat, v # 0, Comes("device", v, {h} \cup S, in, at)
  PROVE  Comes("device", IF v = n - 1 THEN n ELSE v, S, in, at)
  <1> DEFINE T == {h} \cup S
             w == IF v = n - 1 THEN n ELSE v
  <1>1. n <= at["device"] /\ at["device"] \in Nat
    BY KindFacts DEF MessageOK
  <1>2. \A m : [type |-> "deleteDevice", version |-> m] \in S => m > n
    <2> TAKE m
    <2> DEFINE x == [type |-> "deleteDevice", version |-> m]
    <2>1. x.type = "deleteDevice" /\ x.version = m
      OBVIOUS
    <2> HIDE DEF x
    <2>2. x \in S => x.version > n
      BY <2>1 DEF MessageOK
    <2> QED BY <2>1, <2>2 DEF x
  <1>3. \A m : [type |-> "deleteDevice", version |-> m] \in T /\ m # n =>
              [type |-> "deleteDevice", version |-> m] \in S
    OBVIOUS
  <1>4. \A types : "deleteDevice" \notin types /\ OfType(T, types) => OfType(S, types)
    BY OfTypePass
  <1> HIDE DEF T
  <1>5. CASE Reload(T)
    BY <1>4, <1>5 DEF Reload, Comes
  <1>6. CASE OfType(T, {"addDevice"})
    BY <1>4, <1>6 DEF Comes, DeviceComes
  <1>7. CASE v = Shown(in, at)["device"]
    <2>1. in /\ v = at["device"]
      BY <1>7, KindFacts DEF Shown
    <2>2. w = v
      BY <1>1, <2>1
    <2> QED BY <1>7, <2>2 DEF Comes, DeviceComes
  <1>8. CASE /\ in /\ v >= 1 /\ v < at["device"]
             /\ \A m \in v + 1 .. at["device"] : [type |-> "deleteDevice", version |-> m] \in T
    <2>1. n <= v + 1
      <3>1. v + 1 \in v + 1 .. at["device"]
        BY <1>1, <1>8
      <3>2. v + 1 # n => v + 1 > n
        BY <1>2, <1>3, <1>8, <3>1
      <3> QED BY <3>2
    <2>2. \A m \in w + 1 .. at["device"] : m \in v + 1 .. at["device"] /\ m # n
      BY <1>1, <2>1
    <2>3. \A m \in w + 1 .. at["device"] : [type |-> "deleteDevice", version |-> m] \in S
      BY <1>3, <1>8, <2>2
    <2>4. w >= 1 /\ w <= at["device"]
      BY <1>1, <1>8
    <2> HIDE DEF w
    <2>5. CASE w = at["device"]
      BY <1>8, <2>5 DEF Comes, DeviceComes, Shown, w
    <2>6. CASE w # at["device"]
      <3>1. w < at["device"]
        BY <1>1, <2>4, <2>6 DEF w
      <3>2. DeviceComes(w, S, in, at)
        BY <1>8, <2>3, <2>4, <3>1 DEF DeviceComes
      <3> QED BY <3>2 DEF Comes, w
    <2> QED BY <2>5, <2>6
  <1> QED BY <1>5, <1>6, <1>7, <1>8 DEF Comes, DeviceComes, T

\* What a message finds, and what it leaves alone.
LEMMA Received ==
  ASSUME SyncInv, Sync!Receive
  PROVE  /\ Head(told) \in Sync!Message /\ Sync!Handle(Head(told)) /\ session # "closed"
         /\ told' = Tail(told) /\ told' \in Seq(Sync!Message) /\ Orderly(told', member, server)
         /\ After(told, 0) = {Head(told)} \cup After(told', 0)
         /\ MessageOK(Head(told), After(told', 0), member, server)
         /\ torn' = (torn /\ <<want', loading'>> # <<Sync!Bits, {}>>)
         /\ UNCHANGED <<pc, saved, server, member, changes, ended, failed>>
  <1>1. /\ session # "closed" /\ told # <<>> /\ Sync!Handle(Head(told)) /\ told' = Tail(told)
        /\ torn' = (torn /\ <<want', loading'>> # <<Sync!Bits, {}>>)
        /\ UNCHANGED <<pc, saved, server, member, changes, ended, failed>>
    BY DEF Sync!Receive, Sync!cloud, Sync!counters
  <1>2. told \in Seq(Sync!Message)
    BY DEF SyncInv, Sync!TypeOK
  <1>3. /\ Head(told) \in Sync!Message /\ Tail(told) \in Seq(Sync!Message)
        /\ Head(told) = told[1] /\ 1 \in DOMAIN told
        /\ After(told, 1) = After(Tail(told), 0)
        /\ After(told, 0) = {Head(told)} \cup After(Tail(told), 0)
    BY <1>1, <1>2, AfterTail
  <1>4. Orderly(Tail(told), member, server)
    BY <1>1, <1>2, OrderlyTail DEF SyncInv, MessagesOK
  <1>5. MessageOK(Head(told), After(Tail(told), 0), member, server)
    BY <1>3 DEF SyncInv, MessagesOK, Orderly
  <1> QED BY <1>1, <1>3, <1>4, <1>5

\* Everything is asked for anew.
Reset == want' = Sync!Bits /\ loading' = {} /\ UNCHANGED asks

\* The gateway goes on as it is, but for a flag that is set.
Goes(flagged) ==
  /\ want' = want \cup flagged /\ UNCHANGED <<loading, family, session, asks>>

LEMMA ReceiveTypes == SyncInv /\ Sync!Receive => Sync!TypeOK' /\ SavedOK' /\ MessagesOK'
  <1> SUFFICES ASSUME SyncInv, Sync!Receive PROVE Sync!TypeOK' /\ SavedOK' /\ MessagesOK'
    OBVIOUS
  <1> DEFINE r == Head(told)
  <1>1. /\ r \in Sync!Message /\ Sync!Handle(r) /\ session # "closed"
        /\ told' \in Seq(Sync!Message) /\ Orderly(told', member, server)
        /\ torn' = (torn /\ <<want', loading'>> # <<Sync!Bits, {}>>)
        /\ UNCHANGED <<pc, saved, server, member, changes, ended, failed>>
    BY Received
  <1> HIDE DEF r
  <1>2. Sync!TypeOK
    BY DEF SyncInv
  <1>3. /\ r.type = "info" => r.in \in BOOLEAN
        /\ r.type = "deleteDevice" => r.version \in Nat
        /\ r.type \in {"scenes", "lists"} => \A k \in Sync!Kind : r.data[k] \in Nat
    BY <1>1, MessageFields
  <1>4. /\ want' \subseteq Sync!Bits /\ loading' \subseteq Sync!Bits \ {"scene"}
        /\ family' \in BOOLEAN /\ session' \in {"login", "ready"} /\ missed' \in BOOLEAN
        /\ (asks' = asks \/ asks' = Append(asks, Sync!Info))
    <2>1. /\ want \subseteq Sync!Bits /\ loading \subseteq Sync!Bits \ {"scene"} /\ family \in BOOLEAN
          /\ session \in {"login", "ready"} /\ missed \in BOOLEAN
      BY <1>1, <1>2, Queues
    <2> QED BY <1>1, <1>3, <2>1
        DEF Sync!Handle, Sync!JoinOrLeave, Sync!onDownLoadResetAll,
            Sync!onDownLoadWithFlag, Sync!TakeLists, Sync!Bits, Sync!Kind,
            Sync!flags, Sync!gateway
  <1>5. lists' \in [Sync!Kind -> Nat]
    <2>1. lists \in [Sync!Kind -> Nat] /\ Sync!Empty \in [Sync!Kind -> Nat]
      BY <1>2, KindFacts DEF Sync!TypeOK
    <2>2. CASE r.type = "lists" /\ Sync!TakeLists(r)
      BY <1>3, <2>1, <2>2 DEF Sync!TakeLists
    <2>3. CASE r.type = "scenes" /\ lists' = [lists EXCEPT !["scene"] = r.data["scene"]]
      BY <1>3, <2>1, <2>3, KindFacts
    <2>4. CASE r.type = "deleteDevice" /\ lists' = [lists EXCEPT !["device"] = r.version]
      BY <1>3, <2>1, <2>4
    <2>5. CASE lists' = lists \/ lists' = Sync!Empty
      BY <2>1, <2>5
    <2> QED BY <1>1, <2>2, <2>3, <2>4, <2>5 DEF Sync!Handle, Sync!JoinOrLeave,
                                                Sync!gateway
  <1>6. asks' \in Seq(Request) /\ \A q \in After(asks', 0) : q \in After(asks, 0) \/ q = Sync!Info
    <2>1. asks \in Seq(Request)
      BY <1>2, Queues
    <2>2. Append(asks, Sync!Info) \in Seq(Request) /\ After(Append(asks, Sync!Info), 0) = After(asks, 0) \cup {Sync!Info}
      BY <2>1, InfoTypes, AfterAppend
    <2> QED BY <1>4, <2>1, <2>2
  <1>7. Sync!TypeOK'
    <2>1. torn' \in BOOLEAN
      BY <1>1, <1>2, Queues
    <2> QED BY <1>1, <1>2, <1>4, <1>5, <1>6, <2>1 DEF Sync!TypeOK, Request
  <1>8. MessagesOK'
    <2>1. \A q \in After(asks', 0) : q.type = "get" => "scene" \notin q.mask
      BY <1>6 DEF SyncInv, MessagesOK, Sync!Info
    <2>2. session' # "closed" /\ \A k \in Sync!Kind : server'[k] >= 1
      BY <1>1, <1>4 DEF SyncInv, MessagesOK
    <2> QED BY <1>1, <2>1, <2>2 DEF MessagesOK
  <1>9. SavedOK'
    BY <1>1 DEF SyncInv, SavedOK
  <1> QED BY <1>7, <1>8, <1>9

\* A gateway in a family that does not know it still has to be told, and so has one
\* that is told of a deleted room.
LEMMA ReceiveFamily == SyncInv /\ Sync!Receive => FamilyOK'
  <1> SUFFICES ASSUME SyncInv, Sync!Receive, session' = "ready", member', ~family'
               PROVE  Reload(After(told', 0)) \/ Sync!Info \in After(asks', 0)
    BY DEF FamilyOK
  <1> DEFINE r == Head(told)
             T == After(told', 0)
  <1>1. /\ r \in Sync!Message /\ Sync!Handle(r) /\ member' = member
        /\ After(told, 0) = {r} \cup T /\ MessageOK(r, T, member, server)
    BY Received
  <1> HIDE DEF r, T
  <1>2. CASE r.type = "info" /\ Sync!JoinOrLeave(r.in)
    <2>1. r.in # member
      BY <1>1, <1>2 DEF Sync!JoinOrLeave
    <2>2. OfType(T, {"added", "removed"})
      BY <1>1, <1>2, <2>1 DEF MessageOK
    <2> QED BY <2>2 DEF Reload, OfType, T
  <1>3. CASE r.type = "added" /\ Sync!JoinOrLeave(TRUE)
    BY <1>3 DEF Sync!JoinOrLeave
  <1>4. CASE r.type = "removed" /\ asks' = Append(asks, Sync!Info)
    <2>1. asks \in Seq(Request)
      BY Queues DEF SyncInv
    <2>2. After(Append(asks, Sync!Info), 0) = After(asks, 0) \cup {Sync!Info}
      BY <2>1, AfterAppend
    <2> QED BY <1>4, <2>2
  <1>5. CASE /\ r.type \notin {"info", "added", "removed"}
             /\ UNCHANGED <<family, session, asks>>
    <2>1. Reload({r} \cup T) \/ Sync!Info \in After(asks, 0)
      BY <1>1, <1>5 DEF SyncInv, FamilyOK
    <2>2. Reload({r} \cup T) => Reload(T)
      BY <1>5, OfTypePass DEF Reload
    <2> QED BY <1>5, <2>1, <2>2 DEF T
  <1> QED BY <1>1, <1>2, <1>3, <1>4, <1>5 DEF Sync!Handle, Sync!TakeLists,
                                              Sync!gateway

\* What is said of a list it need not be told again.
LEMMA ReceiveFresh == SyncInv /\ Sync!Receive => FreshOK'
  <1> SUFFICES ASSUME SyncInv, Sync!Receive, session' = "ready", ~torn', NEW k \in Sync!Kind
               PROVE  Fresh(k)'
    BY DEF FreshOK
  <1> DEFINE r == Head(told)
             T == After(told', 0)
             U == After(asks, 0)
  <1>1. /\ r \in Sync!Message /\ Sync!Handle(r) /\ UNCHANGED <<member, server>>
        /\ After(told, 0) = {r} \cup T /\ MessageOK(r, T, member, server)
        /\ torn' = (torn /\ <<want', loading'>> # <<Sync!Bits, {}>>)
    BY Received
  <1> HIDE DEF r, T, U
  <1>2. CASE want' = Sync!Bits
    BY <1>2, KindFacts DEF Fresh
  <1>3. CASE r.type = "removed" /\ asks' = Append(asks, Sync!Info)
    <2>1. asks \in Seq(Request)
      BY Queues DEF SyncInv
    <2>2. After(Append(asks, Sync!Info), 0) = After(asks, 0) \cup {Sync!Info}
      BY <2>1, AfterAppend
    <2> QED BY <1>3, <2>2 DEF Fresh, Coming
  <1>4. ASSUME ~(want' = Sync!Bits), session' = session
        PROVE  Fresh(k)
    BY <1>1, <1>4 DEF SyncInv, FreshOK
  <1>5. lists \in [Sync!Kind -> Nat] /\ loading \subseteq Sync!Bits \ {"scene"} /\ member \in BOOLEAN
        /\ server \in [Sync!Kind -> Nat]
    BY DEF SyncInv, Sync!TypeOK
  <1>6. ASSUME Comes(k, lists'[k], T, member, server) PROVE Fresh(k)'
    BY <1>1, <1>6 DEF Fresh, Coming, T
  <1>7. ASSUME OfType(T, {"scenes", "error"}), k = "scene" PROVE Fresh(k)'
    BY <1>7 DEF Fresh, Coming, T
  <1>8. ASSUME Fresh(k), want \subseteq want', asks' = asks, k \in loading => k \in loading',
               k = "scene" /\ missed => missed',
               ~(k \in want) /\ ~(k \in loading) /\ Comes(k, lists[k], {r} \cup T, member, server) => Fresh(k)',
               k = "scene" => r.type \notin {"scenes", "error"}
        PROVE  Fresh(k)'
    <2>1. CASE k \in want \/ k \in loading
      BY <1>8, <2>1 DEF Fresh
    <2>2. CASE k \notin want /\ k \notin loading
      <3>1. Coming(k, lists[k], U, {r} \cup T, missed, member, server)
        BY <1>1, <1>8, <2>2 DEF Fresh, U
      <3>2. CASE Sync!Info \in U \/ (k = "scene" /\ (missed \/ Sync!Scenes \in U))
        BY <1>8, <3>2 DEF Fresh, Coming, U
      <3>3. CASE k = "scene" /\ OfType({r} \cup T, {"scenes", "error"})
        <4>1. OfType(T, {"scenes", "error"})
          BY <1>8, <3>3, OfTypePass
        <4> QED BY <1>7, <3>3, <4>1
      <3> QED BY <1>8, <2>2, <3>1, <3>2, <3>3 DEF Coming
    <2> QED BY <2>1, <2>2
  <1>9. CASE r.type = "addDevice" /\ Goes({"device", "inFamily"}) /\ UNCHANGED <<lists, missed>>
    <2>1. CASE k = "device"
      BY <1>9, <2>1 DEF Goes, Fresh
    <2>2. CASE k # "device"
      <3>1. Comes(k, lists[k], {r} \cup T, member, server) => Comes(k, lists[k], T, member, server)
        BY <1>9, <2>2, ComesPass
      <3> QED BY <1>2, <1>4, <1>6, <1>8, <1>9, <3>1 DEF Goes
    <2> QED BY <2>1, <2>2
  <1>10. CASE /\ r.type = "deleteRoom" /\ ~family
              /\ Goes({}) /\ UNCHANGED <<lists, missed>>
    <2>1. Comes(k, lists[k], {r} \cup T, member, server) => Comes(k, lists[k], T, member, server) \/ Sync!Info \in U
      <3>1. CASE k # "room"
        BY <1>10, <3>1, ComesPass
      <3>2. CASE k = "room" /\ member
        <4>1. session = "ready"
          BY <1>10 DEF Goes
        <4>2. Reload({r} \cup T) \/ Sync!Info \in U
          BY <1>1, <1>10, <3>2, <4>1 DEF SyncInv, FamilyOK, U
        <4>3. Reload({r} \cup T) => Reload(T)
          BY <1>10, OfTypePass DEF Reload
        <4> QED BY <4>2, <4>3 DEF Comes
      <3>3. CASE k = "room" /\ ~member
        <4>1. OfType(T, {"removed"})
          BY <1>1, <1>10, <3>3 DEF MessageOK
        <4> QED BY <4>1 DEF Comes, Reload, OfType
      <3> QED BY <3>1, <3>2, <3>3
    <2>2. Sync!Info \in U => Fresh(k)'
      BY <1>10 DEF Goes, Fresh, Coming, U
    <2> QED BY <1>2, <1>4, <1>6, <1>8, <1>10, <2>1, <2>2 DEF Goes
  <1>11. CASE /\ r.type = "deleteDevice" /\ lists["device"] # 0
              /\ lists' = IF lists["device"] = r.version - 1
                          THEN [lists EXCEPT !["device"] = r.version] ELSE lists
              /\ Goes({"scene", "inFamily"})
    <2>1. CASE k = "scene"
      BY <1>11, <2>1 DEF Goes, Fresh
    <2>2. CASE k = "room"
      <3>1. Comes(k, lists[k], {r} \cup T, member, server) => Comes(k, lists[k], T, member, server)
        BY <1>11, <2>2, ComesPass
      <3>2. lists'[k] = lists[k]
        BY <1>5, <1>11, <2>2
      <3> QED BY <1>2, <1>4, <1>6, <1>8, <1>11, <2>2, <3>1, <3>2 DEF Goes
    <2>3. CASE k = "device"
      <3> DEFINE w == IF lists["device"] = r.version - 1 THEN r.version ELSE lists["device"]
      <3>1. lists'["device"] = w
        BY <1>5, <1>11, <2>3
      <3>2. r.version \in Nat /\ r = [type |-> "deleteDevice", version |-> r.version]
        BY <1>1, <1>11, MessageFields
      <3>3. lists["device"] \in Nat
        BY <1>5, <2>3
      <3>4. Comes("device", lists["device"], {r} \cup T, member, server) => Comes("device", w, T, member, server)
        BY <1>1, <1>5, <1>11, <3>2, <3>3, DeviceDeleted
      <3> HIDE DEF w
      <3> QED BY <1>2, <1>4, <1>6, <1>8, <1>11, <2>3, <3>1, <3>4 DEF Goes
    <2> QED BY <2>1, <2>2, <2>3, KindFacts
  <1>12. CASE /\ r.type = "deleteDevice" /\ lists["device"] = 0
              /\ Goes({}) /\ missed' = TRUE /\ UNCHANGED lists
    <2>1. CASE k = "scene"
      BY <1>12, <2>1 DEF Fresh, Coming
    <2>2. CASE k = "room"
      <3>1. Comes(k, lists[k], {r} \cup T, member, server) => Comes(k, lists[k], T, member, server)
        BY <1>12, <2>2, ComesPass
      <3> QED BY <1>2, <1>4, <1>6, <1>8, <1>12, <2>2, <3>1 DEF Goes
    <2>3. CASE k = "device"
      <3>1. Comes(k, lists[k], {r} \cup T, member, server) => Comes(k, lists[k], T, member, server)
        <4>1. Reload({r} \cup T) => Reload(T)
          BY <1>12, OfTypePass DEF Reload
        <4>2. OfType({r} \cup T, {"addDevice"}) => OfType(T, {"addDevice"})
          BY <1>12, OfTypePass
        <4> QED BY <1>12, <2>3, <4>1, <4>2 DEF Comes, DeviceComes
      <3> QED BY <1>2, <1>4, <1>6, <1>8, <1>12, <2>3, <3>1 DEF Goes
    <2> QED BY <2>1, <2>2, <2>3, KindFacts
  <1>13. CASE r.type = "lists" /\ Sync!TakeLists(r)
    <2>1. /\ lists' = [j \in Sync!Kind |-> IF j \in r.mask \cap loading \cap Sync!Kind THEN r.data[j] ELSE lists[j]]
          /\ loading' = loading \ r.mask /\ UNCHANGED <<want, session, missed, asks>>
      BY <1>13 DEF Sync!TakeLists
    <2>2. CASE k \in r.mask /\ k \in loading
      <3>1. lists'[k] = r.data[k] /\ k \in {"device", "room"}
        BY <1>5, <2>1, <2>2, KindFacts
      <3>2. Comes(k, r.data[k], T, member, server)
        BY <1>1, <1>13, <3>1 DEF MessageOK
      <3> QED BY <1>6, <3>1, <3>2
    <2>3. CASE ~(k \in r.mask /\ k \in loading)
      <3>1. lists'[k] = lists[k] /\ (k \in loading => k \in loading')
        BY <2>1, <2>3
      <3>2. Comes(k, lists[k], {r} \cup T, member, server) => Comes(k, lists[k], T, member, server)
        BY <1>13, ComesPass
      <3> QED BY <1>2, <1>4, <1>6, <1>8, <1>13, <2>1, <3>1, <3>2
    <2> QED BY <2>2, <2>3
  <1>14. CASE /\ r.type = "scenes" /\ lists' = [lists EXCEPT !["scene"] = r.data["scene"]]
              /\ Goes({}) /\ UNCHANGED missed
    <2>1. CASE k = "scene"
      <3>1. lists'[k] = r.data["scene"]
        BY <1>5, <1>14, <2>1
      <3>2. Comes("scene", r.data["scene"], T, member, server)
        BY <1>1, <1>14 DEF MessageOK
      <3> QED BY <1>6, <2>1, <3>1, <3>2
    <2>2. CASE k # "scene"
      <3>1. lists'[k] = lists[k]
        BY <1>5, <1>14, <2>2
      <3>2. Comes(k, lists[k], {r} \cup T, member, server) => Comes(k, lists[k], T, member, server)
        BY <1>14, ComesPass
      <3> QED BY <1>2, <1>4, <1>6, <1>8, <1>14, <2>2, <3>1, <3>2 DEF Goes
    <2> QED BY <2>1, <2>2
  <1>15. CASE r.type = "error" /\ missed' = TRUE /\ Goes({}) /\ UNCHANGED lists
    <2>1. CASE k = "scene"
      BY <1>15, <2>1 DEF Fresh, Coming
    <2>2. CASE k # "scene"
      <3>1. Comes(k, lists[k], {r} \cup T, member, server) => Comes(k, lists[k], T, member, server)
        BY <1>15, ComesPass
      <3> QED BY <1>2, <1>4, <1>6, <1>8, <1>15, <2>2, <3>1 DEF Goes
    <2> QED BY <2>1, <2>2
  <1> QED BY <1>1, <1>2, <1>3, <1>9, <1>10, <1>11, <1>12, <1>13, <1>14, <1>15
      DEF Sync!Handle, Sync!onDownLoadResetAll, Sync!onDownLoadWithFlag, Goes,
          Sync!flags, Sync!gateway

\* When nothing is flagged or under way, nothing else is left to bring the lists
\* up to date: they are.
LEMMA RestIsFresh == SyncInv => Sync!RestMeansFresh
  <1> SUFFICES ASSUME SyncInv, Sync!AtRest, ~torn, NEW k \in Sync!Kind
               PROVE  lists[k] = Sync!View[k] \/ (k = "scene" /\ missed)
    BY DEF Sync!RestMeansFresh, SyncInv
  <1>1. /\ session = "ready" /\ asks = <<>> /\ told = <<>> /\ k \notin want /\ k \notin loading
    BY KindFacts DEF Sync!AtRest
  <1>2. Coming(k, lists[k], {}, {}, missed, member, server)
    BY <1>1, NothingAfter DEF SyncInv, FreshOK, Fresh
  <1>3. ~Reload({}) /\ \A types : ~OfType({}, types)
    BY DEF Reload, OfType
  <1>4. DeviceComes(lists[k], {}, member, server) => lists[k] = Shown(member, server)["device"]
    <2>1. ASSUME lists[k] < server["device"],
                 \A n \in lists[k] + 1 .. server["device"] :
                   [type |-> "deleteDevice", version |-> n] \in {}
          PROVE  FALSE
      <3>1. lists[k] \in Nat /\ server["device"] \in Nat
        BY KindFacts DEF SyncInv, Sync!TypeOK
      <3>2. server["device"] \in lists[k] + 1 .. server["device"]
        BY <2>1, <3>1
      <3> QED BY <2>1, <3>2
    <2> QED BY <1>3, <2>1 DEF DeviceComes
  <1>5. Sync!View = Shown(member, server)
    BY DEF Sync!View, Shown
  <1> QED BY <1>2, <1>3, <1>4, <1>5 DEF Coming, Comes

LEMMA SyncStep == SyncInv /\ [Sync!Next]_Sync!vars => SyncInv'
  <1> SUFFICES ASSUME SyncInv, [Sync!Next]_Sync!vars PROVE SyncInv'
    OBVIOUS
  <1>1. CASE Sync!Login \/ Sync!Break \/ Sync!ReadFlags \/ Sync!WriteFlags
    BY <1>1, LoginStep, BreakStep, ReadStep, WriteStep
  <1>2. CASE Sync!Receive
    BY <1>2, ReceiveTypes, ReceiveFamily, ReceiveFresh DEF SyncInv
  <1>3. CASE Sync!Change \/ Sync!Answer
    BY <1>3, ChangeStep, AnswerStep
  <1>4. CASE UNCHANGED Sync!vars
    BY <1>4 DEF Sync!vars, Sync!flags, Sync!gateway, Sync!timer, Sync!cloud,
                Sync!counters, SyncInv, Sync!TypeOK, SavedOK,
                MessagesOK, FamilyOK, FreshOK, Fresh
  <1> QED BY <1>1, <1>2, <1>3, <1>4 DEF Sync!Next, Sync!Timer

\* At rest the gateway's lists are the server's (onGetCMDGetDeviceRes): no change is
\* lost, whatever was under way when it came.
THEOREM RestIsUpToDate == Sync!Spec => []RestMeansFresh
  <1>1. Sync!Init => SyncInv
    BY InitInv
  <1>2. SyncInv /\ [Sync!Next]_Sync!vars => SyncInv'
    BY SyncStep
  <1>3. SyncInv => RestMeansFresh
    BY RestIsFresh DEF RestMeansFresh
  <1> QED BY <1>1, <1>2, <1>3, PTL DEF Sync!Spec
=============================================================================
