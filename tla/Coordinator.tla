----------------------------- MODULE Coordinator -----------------------------
(***************************************************************************)
(* The Zigbee networks of the gateway.  A gateway that belongs to a family *)
(* has each of its coordinator chips run a network, and one without family *)
(* has none.  The cloud says which family it is (mfZigbeeUpdateNetWork,    *)
(* network thread); the chips answer with their state when asked           *)
(* (onZDOProces, serial thread), and are asked after every change and each *)
(* 30 s (onTimerCoordinatorStatusCB, timer thread).                        *)
(*                                                                         *)
(* A reset makes a chip forget its network; the code relies on that.  The  *)
(* settings written before a start or reset, permissions to join and what  *)
(* is reported to the cloud are left out, and so is checkDrivceErrorCnt,   *)
(* which only lights a LED.  Only the order of the delays matters.         *)
(***************************************************************************)
EXTENDS Integers, Sequences, SequencesExt

CONSTANTS
  Chips,      \* the master, and the slave if there is one, in this order
  Family,     \* families; 0 is none
  StartDelay, ResetDelay, LeaveDelay, \* 100, 500 and 2000 ms
  CheckTime,  \* 30 s
  FailTime,   \* 60 s
  Changes, Faults, Fails, Restarts,   \* bounds
  None

Message == [kind : {"add", "del", "info", "all"}, family : Family \cup {0}]

ASSUME CoordinatorAssumption ==
  /\ Chips \in Seq(Range(Chips)) /\ Chips # <<>> /\ 0 \notin Family /\ None \notin Message
  /\ {StartDelay, ResetDelay, LeaveDelay, CheckTime, FailTime} \subseteq Nat \ {0}
  /\ StartDelay < ResetDelay /\ ResetDelay < LeaveDelay /\ LeaveDelay < CheckTime
  /\ {Changes, Faults, Fails, Restarts} \subseteq Nat

VARIABLES
  family,   \* of pDataBase, in the local database
  cloud, asked, inbox, \* the family in the cloud, requests to it, messages from it
  netPc, todo, job,    \* the network thread: the chips still to treat, the message
  delayed,  \* pDelaySendList of each port
  failAge,  \* time since startNetFail was set, or None
  check,    \* time since the chips were last asked
  down, up, \* commands to each chip, and what it has sent
  radio,    \* the state of each chip (external)
  old,      \* history: has it run a network since before the gateway, which had
            \* no family, got one?
  used      \* how often each bounded event has happened

cloudVars == <<cloud, asked, inbox>>
netVars == <<netPc, todo, job>>
ports == <<delayed, failAge>>
wires == <<down, up>>
vars == <<family, cloudVars, netVars, ports, check, wires, radio, old, used>>

Chip == Range(Chips)
InNetwork == {"own", "foreign"}  \* on a channel of this gateway, or another one

Use(event, bound) == used[event] < bound /\ used' = [used EXCEPT ![event] = @ + 1]

Init ==
  /\ cloud \in Family \cup {0} /\ family = cloud
  /\ asked = <<"info">> /\ inbox = <<>>
  /\ netPc = "idle" /\ todo = <<>> /\ job = None
  /\ delayed = [c \in Chip |-> <<>>] /\ failAge = [c \in Chip |-> None] /\ check = 0
  /\ down = [c \in Chip |-> <<"info">>] /\ up = [c \in Chip |-> <<>>]
  /\ radio \in [Chip -> {"init", "own", "foreign"}]
  /\ old = [c \in Chip |-> FALSE]
  /\ used = [e \in {"change", "fault", "fail", "restart"} |-> 0]

-----------------------------------------------------------------------------
(* Ports *)

Write(c, cmd) == down' = [down EXCEPT ![c] = Append(@, cmd)]

Delay(c, cmd, time) ==
  delayed' = [delayed EXCEPT ![c] = Append(@, [cmd |-> cmd, due |-> time])]

\* Mutant: the time of the start is not kept.
Unmarked(age) == None
Marked(age) == 0

\* Mutant: a chip is only told to start.
OnlyStart(c, anew) ==
  Delay(c, "start", StartDelay) /\ failAge' = [failAge EXCEPT ![c] = Marked(@)]

\* A new network after a reset, or the network the chip is set up for.
onStartNewNetWork(c, anew) ==
  /\ IF anew THEN Delay(c, "reset", ResetDelay) ELSE Delay(c, "start", StartDelay)
  /\ failAge' = [failAge EXCEPT ![c] = Marked(@)]

-----------------------------------------------------------------------------
(* The network thread *)

Starts(f) == f # 0 /\ family = 0
SetFamily(f) ==
  /\ family' = f
  /\ old' = IF Starts(f) THEN [c \in Chip |-> radio[c] \in InNetwork] ELSE old

\* An answer about the gateway is adopted whatever mfZigbeeUpdateNetWork says;
\* one that names a family is followed by a question for all its gateways.
Adopts(m) == m.kind # "add"
Asks(m) == IF m.kind = "info" /\ m.family # 0 THEN <<"all">> ELSE <<>>

Handle ==
  /\ netPc = "idle" /\ inbox # <<>> /\ inbox' = Tail(inbox)
  /\ LET m == Head(inbox) IN
       IF m.kind = "del"
         THEN asked' = Append(asked, "info") /\ UNCHANGED <<family, old, netVars>>
         ELSE /\ asked' = asked \o Asks(m)
              /\ \/ Starts(m.family) /\ SetFamily(m.family)
                    /\ netPc' = "start" /\ todo' = Chips /\ job' = m
                 \/ m.family = 0 /\ family # 0
                    /\ netPc' = "reset" /\ todo' = Chips /\ job' = m /\ UNCHANGED <<family, old>>
                 \/ ~Starts(m.family) /\ (m.family # 0 \/ family = 0)
                    /\ SetFamily(IF Adopts(m) THEN m.family ELSE family) /\ UNCHANGED netVars
  /\ UNCHANGED <<cloud, ports, check, wires, radio, used>>

\* mfZigbeeUpdateNetWork goes from chip to chip.
StartNext ==
  /\ netPc = "start" /\ todo # <<>> /\ todo' = Tail(todo)
  /\ onStartNewNetWork(Head(todo), TRUE)
  /\ UNCHANGED <<family, cloudVars, netPc, job, check, wires, radio, old, used>>

ResetNext ==
  /\ netPc = "reset" /\ todo # <<>> /\ todo' = Tail(todo)
  /\ Delay(Head(todo), "reset", LeaveDelay)
  /\ UNCHANGED <<family, cloudVars, netPc, job, failAge, check, wires, radio, old, used>>

AllTreated == todo = <<>>

Return ==
  /\ netPc # "idle" /\ AllTreated /\ netPc' = "idle" /\ job' = None
  /\ SetFamily(IF netPc = "reset" \/ Adopts(job) THEN job.family ELSE family)
  /\ UNCHANGED <<cloudVars, todo, ports, check, wires, radio, used>>

-----------------------------------------------------------------------------
(* The serial thread *)

\* The first delayed command that is due is written (onCheckSendCMD).
Fire(c) ==
  /\ \E i \in DOMAIN delayed[c] :
       /\ delayed[c][i].due = 0 /\ \A j \in 1 .. i - 1 : delayed[c][j].due # 0
       /\ Write(c, delayed[c][i].cmd)
       /\ delayed' = [delayed EXCEPT ![c] = RemoveAt(@, i)]
  /\ UNCHANGED <<family, cloudVars, netVars, failAge, check, up, radio, old, used>>

Received(c, m) == up[c] # <<>> /\ Head(up[c]) = m /\ up' = [up EXCEPT ![c] = Tail(@)]

\* MT_SYS_RESET_IND, and MT_ZDO_STATE_CHANGE_IND of a chip that has started.
Changed(c) ==
  /\ Received(c, "reset") \/ Received(c, "started")
  /\ Write(c, "info")
  /\ UNCHANGED <<family, cloudVars, netVars, ports, check, radio, old, used>>

\* The answers to MT_ZDO_EXT_NWK_INFO.
HasNoNetwork(c) ==
  /\ Received(c, "init")
  /\ IF family # 0 THEN onStartNewNetWork(c, FALSE) ELSE UNCHANGED ports
  /\ UNCHANGED <<family, cloudVars, netVars, check, down, radio, old, used>>

HasNetwork(c) ==
  /\ \E state \in InNetwork :
       /\ Received(c, state)
       /\ \/ family = 0 /\ Write(c, "reset") /\ UNCHANGED ports
          \/ /\ family # 0 /\ state = "own"
             /\ failAge' = [failAge EXCEPT ![c] = None] /\ UNCHANGED <<down, delayed>>
          \/ family # 0 /\ state = "foreign" /\ onStartNewNetWork(c, TRUE) /\ UNCHANGED down
  /\ UNCHANGED <<family, cloudVars, netVars, check, radio, old, used>>

IsStarting(c) ==
  /\ Received(c, "starting")
  /\ IF failAge[c] # None /\ failAge[c] > FailTime
       THEN onStartNewNetWork(c, FALSE)
       ELSE UNCHANGED ports
  /\ UNCHANGED <<family, cloudVars, netVars, check, down, radio, old, used>>

SerialThread(c) ==
  Fire(c) \/ Changed(c) \/ HasNoNetwork(c) \/ HasNetwork(c) \/ IsStarting(c)

\* Time passes; the chips are asked again.  What is due is sent, and what was
\* asked answered, before the next unit; so does a start, which takes seconds.
Older(age) == IF age = None THEN None ELSE IF age > FailTime THEN age ELSE age + 1
Tick ==
  /\ \A c \in Chip : /\ down[c] = <<>> /\ up[c] = <<>> /\ radio[c] # "starting"
                     /\ \A i \in DOMAIN delayed[c] : delayed[c][i].due # 0
  /\ delayed' = [c \in Chip |-> [i \in DOMAIN delayed[c] |-> [delayed[c][i] EXCEPT !.due = @ - 1]]]
  /\ failAge' = [c \in Chip |-> Older(failAge[c])]
  /\ check' = (check + 1) % CheckTime
  /\ IF check' = 0 THEN down' = [c \in Chip |-> <<"info">>] ELSE UNCHANGED down
  /\ UNCHANGED <<family, cloudVars, netVars, up, radio, old, used>>

-----------------------------------------------------------------------------
(* The chips, the cloud and what goes wrong *)

Sends(c, m) == up' = [up EXCEPT ![c] = Append(@, m)]
Becomes(c, state) == radio' = [radio EXCEPT ![c] = state]

ChipDoes(c) ==
  /\ down[c] # <<>> /\ down' = [down EXCEPT ![c] = Tail(@)]
  /\ LET cmd == Head(down[c]) IN
       \/ cmd = "info" /\ Sends(c, IF radio[c] = "failed" THEN "starting" ELSE radio[c])
          /\ UNCHANGED <<radio, old>>
       \/ cmd = "reset" /\ Sends(c, "reset") /\ Becomes(c, "init") /\ old' = [old EXCEPT ![c] = FALSE]
       \/ cmd = "start" /\ Becomes(c, IF radio[c] \in {"init", "failed"} THEN "starting" ELSE radio[c])
          /\ UNCHANGED <<up, old>>
  /\ UNCHANGED <<family, cloudVars, netVars, ports, check, used>>

Form(c) ==
  /\ radio[c] = "starting" /\ Becomes(c, "own") /\ Sends(c, "started")
  /\ UNCHANGED <<family, cloudVars, netVars, ports, check, down, old, used>>

Fail(c) ==
  /\ radio[c] = "starting" /\ Becomes(c, "failed") /\ Use("fail", Fails)
  /\ UNCHANGED <<family, cloudVars, netVars, ports, check, wires, old>>

Change ==
  /\ Use("change", Changes)
  /\ cloud' \in (Family \cup {0}) \ {cloud}
  /\ inbox' = Append(inbox, [kind |-> IF cloud' = 0 THEN "del" ELSE "add", family |-> cloud'])
  /\ UNCHANGED <<family, asked, netVars, ports, check, wires, radio, old>>

\* The list of all gateways of a family holds this one as long as it is in it.
Answer ==
  /\ asked # <<>> /\ asked' = Tail(asked)
  /\ inbox' = IF Head(asked) = "all" /\ cloud = 0 THEN inbox
                ELSE Append(inbox, [kind |-> Head(asked), family |-> cloud])
  /\ UNCHANGED <<family, cloud, netVars, ports, check, wires, radio, old, used>>

\* A new session begins with a question (CMD_ID_AUTH_TOKEN_RES).
Reconnect ==
  /\ Use("fault", Faults) /\ asked' = <<"info">> /\ inbox' = <<>>
  /\ UNCHANGED <<family, cloud, netVars, ports, check, wires, radio, old>>

Lose(c) ==
  /\ Use("fault", Faults)
  /\ \/ down[c] # <<>> /\ down' = [down EXCEPT ![c] = Tail(@)] /\ UNCHANGED up
     \/ up[c] # <<>> /\ up' = [up EXCEPT ![c] = Tail(@)] /\ UNCHANGED down
  /\ UNCHANGED <<family, cloudVars, netVars, ports, check, radio, old>>

\* The gateway stops at any point and starts again; the chips go on.
Restart ==
  /\ Use("restart", Restarts)
  /\ asked' = <<"info">> /\ inbox' = <<>>
  /\ netPc' = "idle" /\ todo' = <<>> /\ job' = None
  /\ delayed' = [c \in Chip |-> <<>>] /\ failAge' = [c \in Chip |-> None] /\ check' = 0
  /\ down' = [c \in Chip |-> Append(down[c], "info")] /\ up' = [c \in Chip |-> <<>>]
  /\ UNCHANGED <<family, cloud, radio, old>>

-----------------------------------------------------------------------------
NetThread == Handle \/ StartNext \/ ResetNext \/ Return
Next ==
  \/ NetThread \/ Tick \/ Change \/ Answer \/ Reconnect \/ Restart
  \/ \E c \in Chip : SerialThread(c) \/ ChipDoes(c) \/ Form(c) \/ Fail(c) \/ Lose(c)

Spec == Init /\ [][Next]_vars
\* The threads run, time passes, the cloud answers, and the chips do what they
\* are told; a start ends, well or not.
FairSpec ==
  /\ Spec /\ WF_vars(NetThread) /\ WF_vars(Tick) /\ WF_vars(Answer)
  /\ \A c \in Chip :
       WF_vars(SerialThread(c)) /\ WF_vars(ChipDoes(c)) /\ WF_vars(Form(c) \/ Fail(c))

(* Properties *)

\* Types; and mfZigbeeUpdateNetWork returns when every chip has been treated.
TypeOK ==
  /\ {family, cloud} \subseteq Family \cup {0}
  /\ asked \in Seq({"info", "all"}) /\ inbox \in Seq(Message)
  /\ netPc \in {"idle", "start", "reset"} /\ IsSuffix(todo, Chips)
  /\ netPc = "idle" => todo = <<>>
  /\ job \in Message \cup {None} /\ (job = None <=> netPc = "idle")
  /\ delayed \in [Chip -> Seq([cmd : {"start", "reset"}, due : 0 .. LeaveDelay])]
  /\ failAge \in [Chip -> 0 .. FailTime + 1 \cup {None}] /\ check \in 0 .. CheckTime - 1
  /\ down \in [Chip -> Seq({"info", "reset", "start"})]
  /\ up \in [Chip -> Seq({"init", "starting", "own", "foreign", "reset", "started"})]
  /\ radio \in [Chip -> {"init", "starting", "failed", "own", "foreign"}]

\* Types are right; and a gateway that left its family and joined another makes
\* new networks, however the resets and starts of both cross (SerialDrive.cpp:631):
\* when nothing is left to do, no chip runs a network of the family before.  This
\* is not so when it was moved at once from family to family, when the reset got
\* lost, or when the gateway was restarted before its chips were reset.
NetworkOfItsFamily ==
  /\ TypeOK
  /\ \A c \in Chip :
       family # 0 /\ netPc = "idle" /\ delayed[c] = <<>> /\ down[c] = <<>> => ~old[c]

\* The chips finally run networks if, and only if, the gateway has a family.
AsTheCloudSays ==
  \A c \in Chip : IF cloud = 0 THEN radio[c] \notin InNetwork ELSE radio[c] = "own"
FinallyNetwork == <>[]AsTheCloudSays
=============================================================================
