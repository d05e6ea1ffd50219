---------------------------- MODULE OnlineStatus ----------------------------
(***************************************************************************)
(* Which devices are online, as the gateway counts it and as the cloud has *)
(* it.  Once a second the timer thread counts down every device, polls the *)
(* silent ones and declares offline those whose count has run out (the     *)
(* second block of mfAllowToJoinCB); answers, taken by the serial thread,  *)
(* start the count again (onSetHeartOK, onZclFindDeviceInfo); the network  *)
(* thread notes the status the cloud reports (onLineFlag.saveStatus).      *)
(*                                                                         *)
(* All devices are of this gateway and have joined it.  A device's messages*)
(* to and from the cloud keep their order; those of two devices need not.  *)
(***************************************************************************)
EXTENDS Integers, Sequences

CONSTANTS
  N,        \* the devices, in the order of dbDeviceInfoList, are 1 .. N
  Battery,  \* those that sleep (onCheckBattery) and cannot be polled
  Base,     \* onGetBaseHeartCount(): the number of devices, but 10 at least
  Boot,     \* the count of a device that was online when the gateway stopped
  Day,      \* seconds in a day, the count of an alarm device that reports
  Silence,  \* the count of a sleeping device whatever it sends
  MaxFaults, \* bound: polls that are lost, statuses that are overwritten
  MaxFlips, MaxBreaks, \* bounds: devices that come or go, broken connections
  MaxQueue  \* bound: messages of a device under way, each way

Device == 1 .. N
Mains == Device \ Battery

ASSUME OnlineAssumption ==
  /\ N \in Nat /\ Battery \subseteq Device
  /\ Base \in Nat /\ Base >= 3 /\ Boot \in Nat /\ Day \in Nat /\ Silence \in Nat
  /\ Boot >= 3 * Base
  /\ MaxFaults \in Nat /\ MaxFlips \in Nat /\ MaxBreaks \in Nat /\ MaxQueue \in Nat

VARIABLES
  status, save, \* onLineFlag.bits: the gateway's own view, and the cloud's
  delay, check, \* delayTime, saveCheckTime
  events,       \* devices with an Event_Dev_Heartbeat
  polled,       \* devices that were polled and have not answered yet
  held,         \* a report from the cloud the network thread is noting
  conn,         \* onGetConnectFlag()
  up, down,     \* messages to and from the cloud, by device
  cloud,        \* the cloud's view
  alive,        \* the devices that work and can be reached
  tries,        \* history: rescues of a device since it was last heard
  overtaken,    \* history: devices heard last in the middle of a turn of the timer
  faults, flips, breaks

own == <<status, save, delay, check, events, polled, tries, overtaken>>
net == <<held, conn, up, down>>
bounds == <<faults, flips, breaks>>
vars == <<own, net, cloud, alive, bounds>>

None == [dev |-> 0]

Init ==
  /\ status \in [Device -> BOOLEAN] /\ save \in [Device -> BOOLEAN]
  /\ delay = [d \in Device |->
       IF ~status[d] THEN 0 ELSE IF d \in Battery THEN Day ELSE Boot]
  /\ check = [d \in Device |-> 0]
  /\ events = {} /\ polled = {} /\ held = None
  /\ conn = FALSE /\ up = [d \in Device |-> <<>>] /\ down = [d \in Device |-> <<>>]
  /\ cloud \in [Device -> BOOLEAN] /\ alive \in SUBSET Device
  /\ tries = [d \in Device |-> 0] /\ overtaken = {}
  /\ faults = 0 /\ flips = 0 /\ breaks = 0

-----------------------------------------------------------------------------
(* The timer thread                                                        *)

Less(n) == IF n > 0 THEN n - 1 ELSE 0

\* onUpdateOnOffLineRequest
Update(s) == IF conn THEN <<[type |-> "update", online |-> s]>> ELSE <<>>

\* The interval between two rescues.
RescueInterval == Base \div 3

\* What a turn finds: the counts after it, and the devices whose check is due,
\* which are declared offline, rescued, looked for, or spared as a rule.
Left(d) == Less(delay[d])
Quiet(d) == IF d \in Battery THEN check[d] ELSE Less(check[d])
Due == {d \in Mains : Quiet(d) = 0}
Lost == {d \in Battery \cup Due : status[d] /\ Left(d) = 0}
Silent == {d \in Due : status[d] /\ Left(d) \in 1 .. Base}
Absent == {d \in Due : ~status[d]}
Spare == {d \in Due : status[d] /\ Left(d) > Base}

\* The device to poll though it was heard lately: the one with least time left.
Soonest ==
  {d \in Spare : \A e \in Spare : Left(d) < Left(e) \/ (Left(d) = Left(e) /\ d <= e)}

\* Mutant: a poll puts off the next one as an answer does.
CheckedTooFar(d, early) ==
  IF d \in Absent THEN 3 * Base
  ELSE IF d \in Silent \cup early THEN Base
  ELSE Quiet(d)
Checked(d, early) ==
  IF d \in Absent THEN 3 * Base
  ELSE IF d \in Silent \cup early THEN RescueInterval
  ELSE Quiet(d)

\* One turn of the timer, in which the devices in early are polled early.
\* Devices in late answer while it goes through them, after their status was
\* read.  The order of the devices does not matter: a device is polled early
\* only if no other was polled, and no other sleeps.
Turn(late, early, sends) ==
  LET asked == events \cup Silent \cup Absent \cup early IN
    /\ late \subseteq Absent
    /\ status' = [d \in Device |-> (status[d] /\ d \notin Lost) \/ d \in late]
    /\ delay' = [d \in Device |-> IF d \in late THEN 3 * Base ELSE Left(d)]
    /\ check' = [d \in Device |-> Checked(d, early)]
    /\ up' = [d \in Device |-> up[d]
         \o (IF status[d] # save[d] THEN Update(status[d]) ELSE <<>>)
         \o (IF d \in Lost THEN Update(FALSE) ELSE <<>>)
         \o (IF d \in late THEN Update(TRUE) ELSE <<>>)]
    /\ IF sends THEN events' = {} /\ polled' = asked ELSE events' = asked /\ polled' = {}
    /\ tries' = [d \in Device |->
         IF d \in late THEN 0 ELSE IF d \in Silent THEN tries[d] + 1 ELSE tries[d]]
    /\ overtaken' = overtaken \cup late

\* Polls are answered, or lost, before the next turn, and the cloud keeps up.
Tick ==
  /\ \A d \in Device : Len(up[d]) < MaxQueue
  /\ \/ polled = {}
     \/ polled \subseteq alive
  /\ \E busy \in BOOLEAN, sends \in BOOLEAN :
       /\ Turn(polled,
               IF busy \/ Silent \cup Absent \cup Battery # {} THEN {} ELSE Soonest,
               sends)
       /\ IF sends \/ events' = {} THEN UNCHANGED faults
          ELSE faults < MaxFaults /\ faults' = faults + 1
  /\ UNCHANGED <<save, held, conn, down, cloud, alive, flips, breaks>>

(* The serial thread                                                       *)

\* onSetHeartOK
SetHeartOK(d) ==
  /\ delay' = [delay EXCEPT ![d] = 3 * Base]
  /\ check' = [check EXCEPT ![d] = Base]
  /\ status' = [status EXCEPT ![d] = TRUE]
  /\ up' = [up EXCEPT ![d] = IF status[d] THEN @ ELSE @ \o Update(TRUE)]

Answer(d) ==
  /\ d \in polled \cap alive
  /\ SetHeartOK(d) /\ polled' = polled \ {d}
  /\ tries' = [tries EXCEPT ![d] = 0] /\ overtaken' = overtaken \ {d}
  /\ UNCHANGED <<save, events, held, conn, down, cloud, alive, bounds>>

Lose(d) ==
  /\ d \in polled /\ polled' = polled \ {d}
  /\ IF d \in alive THEN faults < MaxFaults /\ faults' = faults + 1 ELSE UNCHANGED faults
  /\ UNCHANGED <<status, save, delay, check, events, tries, overtaken, net>>
  /\ UNCHANGED <<cloud, alive, flips, breaks>>

\* A device that is thought offline sends something.
Speaks(d) ==
  /\ d \in alive \cap Mains /\ ~status[d] /\ d \notin events
  /\ events' = events \cup {d}
  /\ UNCHANGED <<status, save, delay, check, polled, tries, overtaken, net, cloud, alive, bounds>>

\* A sleeping device sends something, an alarm or another message.
Wakes(d, n) ==
  /\ d \in alive \cap Battery /\ n \in {Day, Silence}
  /\ delay' = [delay EXCEPT ![d] = n]
  /\ status' = [status EXCEPT ![d] = TRUE]
  /\ up' = [up EXCEPT ![d] = IF status[d] THEN @ ELSE @ \o Update(TRUE)]
  /\ UNCHANGED <<save, check, events, polled, tries, overtaken, held, conn, down, cloud, alive, bounds>>

(* The network thread                                                      *)

Note(d) ==
  /\ held = None /\ down[d] # <<>> /\ Head(down[d]).type = "status"
  /\ save' = [save EXCEPT ![d] = Head(down[d]).online]
  /\ down' = [down EXCEPT ![d] = Tail(@)]
  /\ UNCHANGED <<status, delay, check, events, polled, tries, overtaken, held, conn, up>>
  /\ UNCHANGED <<cloud, alive, bounds>>

\* The two halves of onLineFlag are written together, the gateway's own half
\* as it was read before: others run in between.
Noting(d) ==
  /\ held = None /\ down[d] # <<>> /\ Head(down[d]).type = "status"
  /\ save[d] # Head(down[d]).online /\ faults < MaxFaults /\ faults' = faults + 1
  /\ held' = [dev |-> d, own |-> status[d], cloud |-> Head(down[d]).online]
  /\ down' = [down EXCEPT ![d] = Tail(@)]
  /\ UNCHANGED <<own, conn, up, cloud, alive, flips, breaks>>

Noted ==
  /\ held # None /\ held' = None
  /\ status' = [status EXCEPT ![held.dev] = held.own]
  /\ save' = [save EXCEPT ![held.dev] = held.cloud]
  /\ UNCHANGED <<delay, check, events, polled, tries, overtaken, conn, up, down>>
  /\ UNCHANGED <<cloud, alive, bounds>>

\* Mutant: the cloud is taken to be right.
ComparedNever(d) == <<>>

\* The list of the devices was downloaded (onAddDeviceInfo).
Compared(d) ==
  IF status[d] # Head(down[d]).online THEN Update(status[d]) ELSE <<>>

Compare(d) ==
  /\ held = None /\ down[d] # <<>> /\ Head(down[d]).type = "list"
  /\ up' = [up EXCEPT ![d] = @ \o Compared(d)]
  /\ down' = [down EXCEPT ![d] = Tail(@)]
  /\ UNCHANGED <<own, held, conn, cloud, alive, bounds>>

\* After a login the list of the devices is downloaded.
Connect ==
  /\ ~conn /\ conn' = TRUE
  /\ up' = [d \in Device |-> <<[type |-> "list"]>>]
  /\ UNCHANGED <<own, held, down, cloud, alive, bounds>>

(* The world                                                               *)

\* Messages under way are lost, and the cloud may take the devices for offline.
Break ==
  /\ conn /\ conn' = FALSE
  /\ breaks < MaxBreaks /\ breaks' = breaks + 1
  /\ up' = [d \in Device |-> <<>>] /\ down' = [d \in Device |-> <<>>]
  /\ \/ UNCHANGED cloud
     \/ cloud' = [d \in Device |-> FALSE]
  /\ UNCHANGED <<own, held, alive, faults, flips>>

\* The cloud reports a change, and may report what has not changed.
Serve(d) ==
  /\ up[d] # <<>> /\ Len(down[d]) < MaxQueue
  /\ up' = [up EXCEPT ![d] = Tail(@)]
  /\ LET q == Head(up[d]) IN
       \/ /\ q.type = "list"
          /\ down' = [down EXCEPT ![d] = Append(@, [type |-> "list", online |-> cloud[d]])]
          /\ UNCHANGED cloud
       \/ /\ q.type = "update"
          /\ cloud' = [cloud EXCEPT ![d] = q.online]
          /\ down' = [down EXCEPT ![d] = Append(@, [type |-> "status", online |-> q.online])]
       \/ /\ q.type = "update" /\ cloud[d] = q.online
          /\ UNCHANGED <<cloud, down>>
  /\ UNCHANGED <<own, held, conn, alive, bounds>>

Flip(d) ==
  /\ flips < MaxFlips /\ flips' = flips + 1
  /\ alive' = IF d \in alive THEN alive \ {d} ELSE alive \cup {d}
  /\ UNCHANGED <<own, net, cloud, faults, breaks>>

-----------------------------------------------------------------------------
Serial(d) == Answer(d) \/ Lose(d)
Network(d) == Note(d) \/ Compare(d)

Next ==
  \/ Tick \/ Noted \/ Connect \/ Break
  \/ \E d \in Device :
       \/ Serial(d) \/ Speaks(d) \/ \E n \in {Day, Silence} : Wakes(d, n)
       \/ Network(d) \/ Noting(d) \/ Serve(d) \/ Flip(d)

Spec == Init /\ [][Next]_vars
\* The threads run, polls end, the gateway logs in again, the cloud answers.
FairSpec ==
  /\ Spec /\ WF_vars(Tick) /\ WF_vars(Noted) /\ WF_vars(Connect)
  /\ \A d \in Device : WF_vars(Serial(d)) /\ WF_vars(Network(d)) /\ WF_vars(Serve(d))

(* Properties                                                              *)

Message(types) == [type : types, online : BOOLEAN]

\* No count exceeds what it is set to, and only mains devices are polled.
TypeOK ==
  /\ status \in [Device -> BOOLEAN] /\ save \in [Device -> BOOLEAN]
  /\ \A d \in Mains : delay[d] \in 0 .. Boot /\ check[d] \in 0 .. 3 * Base
  /\ \A d \in Battery : delay[d] \in 0 .. Day \cup 0 .. Silence /\ check[d] = 0
  /\ events \subseteq Mains /\ polled \subseteq Mains
  /\ held \in {None} \cup [dev : Device, own : BOOLEAN, cloud : BOOLEAN]
  /\ conn \in BOOLEAN /\ cloud \in [Device -> BOOLEAN] /\ alive \subseteq Device
  /\ up \in [Device -> Seq(Message({"update"}) \cup {[type |-> "list"]})]
  /\ down \in [Device -> Seq(Message({"status", "list"}))]
  /\ overtaken \subseteq Mains
  /\ tries \in [Device -> 0 .. Base]
  /\ faults \in 0 .. MaxFaults /\ flips \in 0 .. MaxFlips /\ breaks \in 0 .. MaxBreaks

\* Types are right; and when nothing is under way, and the gateway sees no difference that it would
\* report again, there is none: the cloud shows every device as the gateway
\* does, whatever was lost when the connection broke, and though the network
\* thread can write back a status that is no longer true.
RestMeansSame ==
  /\ TypeOK
  /\ conn /\ held = None /\ (\A d \in Device : up[d] = <<>> /\ down[d] = <<>>) =>
       \A d \in Device : status[d] = save[d] => cloud[d] = status[d]

\* A device is declared offline only after three rescues in vain: "3 times
\* the number of the devices counts as offline" (DeviceList.cpp:430), with a
\* poll each third of the last third of that time.  The exception: when its
\* answer came after the turn had read its status and before it set its next
\* check, the check is three times the base too far off.
Rescued == Tick => \A d \in Mains \ overtaken : status[d] /\ ~status'[d] => tries[d] >= 3
OfflineAfterThreeRescues == [][Rescued]_vars

\* Once polls are answered, the gateway and the cloud both come to show a
\* device that works as online, and one that does not as offline.
FinallyKnown ==
  \A d \in Device :
    /\ d \in Mains => (<>[](d \in alive) => <>[](status[d] /\ cloud[d]))
    /\ <>[](d \notin alive) => <>[](~status[d] /\ ~cloud[d])
=============================================================================
