----------------------------- MODULE SerialSend -----------------------------
(***************************************************************************)
(* The Zigbee transmit engine of one serial port: class TypeSerialDrive    *)
(* (SerialPort/SerialDrive.cpp) with its queue pCMDSendList, its delay     *)
(* list pDelaySendList and the one command in flight, pLastSendCMD.        *)
(*                                                                         *)
(* Two threads touch it.  The upper layer (cloud, timer and JNI threads,   *)
(* folded into the one writer "upper") calls onWriteCMD.  The serial       *)
(* thread receives the coordinator's answers (onReviceData, which ends in  *)
(* onSetSendStatus) and then runs onCheckSendCMD, in a loop.  onWriteCMD   *)
(* is two critical sections, onDeleteSame and add, so it is two steps      *)
(* here, whichever thread calls it.                                        *)
(*                                                                         *)
(* Time: one pass of onCheckSendCMD is one tick; the delays of the code    *)
(* are constants, of which only the order matters.                         *)
(***************************************************************************)
EXTENDS Integers, Sequences

CONSTANTS
  Cmd,          \* the AF data requests the upper layer issues, once each
  Dev,          \* Zigbee devices
  DevOf,        \* the device a command is sent to
  ClassOf,      \* what onIsSameCMD compares: device, end point, cluster,
                \* command and attribute
  MaxRepeat,    \* TypeSerialProces::repeatCount of a new command (3)
  ErrLimit,     \* ceiling of isError (10)
  RouteHold,    \* seconds between two route discoveries (10)
  IssueDelays,  \* the delaytime arguments of the upper layer
  ResWait, ConfirmWait,                 \* 1000 ms, 200 ms
  GapShort, GapBusy, GapRoute,          \* 100 ms, 500 ms, 200 ms
  ResendSoon, ResendNoAck, ResendRoute, \* 1000 ms, 2000 ms, 5000 ms
  LateAnswers,  \* may the coordinator answer after the engine's time-out?
  None

Item == [cmd : Cmd, rep : 0..MaxRepeat, dead : BOOLEAN]
Flight == [cmd : Cmd, rep : 0..MaxRepeat, delay : Nat,
           st : {"SEND_INIT", "SEND_WAIT_RES", "SEND_WAIT_CONFIRM",
                 "SEND_DELETE"}]

ASSUME EngineAssumption ==
  /\ DevOf \in [Cmd -> Dev]
  /\ MaxRepeat \in Nat
  /\ ErrLimit \in Nat
  /\ RouteHold \in Nat
  /\ IssueDelays \subseteq Nat
  /\ {ResWait, ConfirmWait, GapShort, GapBusy, GapRoute} \subseteq Nat
  /\ {ResendSoon, ResendNoAck, ResendRoute} \subseteq Nat \ {0}
  /\ LateAnswers \in BOOLEAN
  /\ None \notin Item \cup Flight

VARIABLES
  queue,      \* pCMDSendList
  delayed,    \* pDelaySendList
  last,       \* pLastSendCMD, or None
  putting,    \* per thread: the command between onDeleteSame and add
  pc, scan,   \* the serial thread: its phase, and i in the delay-list loop
  isError,    \* recent send errors
  routeHold,  \* getSrcEntryTime
  checkRoute, \* devices whose checkSrcRouter is set
  online,     \* onLineFlag.bits.status of each device
  ncp,        \* requests the coordinator has still to answer
  issued,     \* history: the commands issued, in order
  writes      \* history: how often each command went to the radio

ncpVars == <<ncp, writes>>
vars == <<queue, delayed, last, putting, pc, scan, isError, routeHold,
          checkRoute, online, ncp, issued, writes>>

Thread == {"upper", "serial"}

DelayedItem == [cmd : Cmd, rep : 0..MaxRepeat, delay : Nat]
Request == [cmd : Cmd, n : Nat, stage : {"srsp", "confirm"}]

\* Each sequence element is well typed, every counter within its range.
TypeOK ==
  /\ queue \in Seq(Item)
  /\ delayed \in Seq(DelayedItem)
  /\ last \in Flight \cup {None}
  /\ putting \in [Thread -> Item \cup {None}]
  /\ pc \in {"receive", "scan", "send"}
  /\ scan \in Nat \ {0}
  /\ isError \in 0..ErrLimit
  /\ routeHold \in 0..RouteHold
  /\ checkRoute \subseteq Dev
  /\ online \in [Dev -> BOOLEAN]
  /\ ncp \subseteq Request
  /\ issued \in Seq(Cmd)
  /\ writes \in [Cmd -> Nat]

Init ==
  /\ queue = <<>> /\ delayed = <<>> /\ last = None
  /\ putting = [t \in Thread |-> None]
  /\ pc = "receive" /\ scan = 1
  /\ isError = 0 /\ routeHold = 0 /\ checkRoute = {}
  /\ online \in [Dev -> BOOLEAN]
  /\ ncp = {}
  /\ issued = <<>> /\ writes = [c \in Cmd |-> 0]

-----------------------------------------------------------------------------
(* onWriteCMD: a command with a delay goes to the delay list; any other is  *)
(* queued, after onDeleteSame has cancelled the queued ones of its class.   *)

Issued(c) == \E i \in DOMAIN issued : issued[i] = c

Same(c, d) == ClassOf[c] = ClassOf[d]

\* onDeleteSame leaves the entry in the list: only its status changes.
MarkSame(q, c) ==
  [i \in DOMAIN q |-> IF Same(q[i].cmd, c) THEN [q[i] EXCEPT !.dead = TRUE]
                                           ELSE q[i]]

BeginPut(t, c, rep) ==
  /\ queue' = MarkSame(queue, c)
  /\ putting' = [putting EXCEPT ![t] = [cmd |-> c, rep |-> rep, dead |-> FALSE]]

AddDelayed(list, c, rep, delay) ==
  Append(list, [cmd |-> c, rep |-> rep, delay |-> delay])

Issue(c, delay) ==
  /\ ~ Issued(c)
  /\ putting["upper"] = None
  /\ issued' = Append(issued, c)
  /\ IF delay > 0
       THEN /\ delayed' = AddDelayed(delayed, c, MaxRepeat, delay)
            /\ UNCHANGED <<queue, putting>>
       ELSE /\ BeginPut("upper", c, MaxRepeat)
            /\ UNCHANGED delayed
  /\ UNCHANGED <<last, pc, scan, isError, routeHold, checkRoute, online,
                 ncp, writes>>

\* Fault: onWriteCMD adds first and cancels afterwards.
AddThenDelete(t) ==
  /\ putting[t] # None
  /\ queue' = MarkSame(Append(queue, putting[t]), putting[t].cmd)
  /\ putting' = [putting EXCEPT ![t] = None]
  /\ UNCHANGED <<delayed, last, pc, scan, isError, routeHold, checkRoute,
                 online, ncp, issued, writes>>

EndPut(t) ==
  /\ putting[t] # None
  /\ queue' = Append(queue, putting[t])
  /\ putting' = [putting EXCEPT ![t] = None]
  /\ UNCHANGED <<delayed, last, pc, scan, isError, routeHold, checkRoute,
                 online, ncp, issued, writes>>

-----------------------------------------------------------------------------
(* onSetSendStatus: an answer always counts for the command in flight.      *)

Lower(n) == IF n > 0 THEN n - 1 ELSE n
\* Fault: the counter of errors has no ceiling.
RaiseUnchecked(n) == n + 1

Raise(n) == IF n < ErrLimit THEN n + 1 ELSE n

\* onAddDelayReSend copies the command in flight, unless its device is offline.
Resend(list, c, rep, delay) ==
  IF online[DevOf[c]] THEN AddDelayed(list, c, rep, delay) ELSE list

Drop(delay) ==
  last' = [last EXCEPT !.st = "SEND_DELETE", !.delay = delay]

\* Fault: the copy keeps the attempts of the original.
RetryUncounted(list, delay, gap) ==
  /\ delayed' = Resend(list, last.cmd, last.rep, delay)
  /\ last' = [last EXCEPT !.rep = @ - 1, !.st = "SEND_DELETE", !.delay = gap]

\* The retry branch: one attempt less, a copy for later, and the command in
\* flight kept for a moment to hold the line.
Retry(list, delay, gap) ==
  /\ delayed' = Resend(list, last.cmd, last.rep - 1, delay)
  /\ last' = [last EXCEPT !.rep = @ - 1, !.st = "SEND_DELETE", !.delay = gap]

\* Fault: the SRSP is taken for the end of the transaction.
ResEndsCommand(status) ==
  /\ last # None
  /\ isError' = IF status = "ok" THEN Lower(isError) ELSE Raise(isError)
  /\ Drop(0)
  /\ UNCHANGED delayed

SetSendStatusRes(status) ==
  \/ /\ last = None
     /\ UNCHANGED <<last, delayed, isError>>
  \/ /\ last # None /\ status = "ok"
     /\ isError' = Lower(isError)
     /\ last' = [last EXCEPT !.st = "SEND_WAIT_CONFIRM", !.delay = ConfirmWait]
     /\ UNCHANGED delayed
  \/ /\ last # None /\ status # "ok"
     /\ isError' = Raise(isError)
     /\ IF last.rep > 0
          THEN Retry(delayed, ResendSoon,
                     IF status = "busy" THEN GapBusy ELSE GapShort)
          ELSE Drop(0) /\ UNCHANGED delayed

\* After a confirm that no acknowledgement came (0xE9) an online device gets
\* two copies: one from the 0xE9 branch, one from the common branch after it.
SetSendStatusConfirm(status) ==
  \/ /\ last = None
     /\ UNCHANGED <<last, delayed, isError, routeHold, checkRoute>>
  \/ /\ last # None /\ status = "ok"
     /\ isError' = Lower(isError)
     /\ Drop(0)
     /\ UNCHANGED <<delayed, routeHold, checkRoute>>
  \/ /\ last # None /\ status # "ok"
     /\ isError' = Raise(isError)
     /\ IF last.rep > 0
          THEN /\ checkRoute' = checkRoute \cup {DevOf[last.cmd]}
               /\ routeHold' = IF status = "noRoute" /\ routeHold = 0
                                 THEN RouteHold ELSE routeHold
               /\ CASE status = "noRoute" -> Retry(delayed, ResendRoute, GapRoute)
                    [] status = "noAck" ->
                         Retry(Resend(delayed, last.cmd, last.rep - 1,
                                      ResendNoAck), ResendSoon, GapShort)
                    [] OTHER -> Retry(delayed, ResendSoon, GapShort)
          ELSE Drop(0) /\ UNCHANGED <<delayed, routeHold, checkRoute>>

\* The coordinator (external) answers a request with an SRSP, and one it
\* accepted later with an AF_DATA_CONFIRM; either may get lost.
ReceiveRes(r, status) ==
  /\ pc = "receive" /\ r \in ncp /\ r.stage = "srsp"
  /\ ncp' = (ncp \ {r}) \cup
            (IF status = "ok" THEN {[r EXCEPT !.stage = "confirm"]} ELSE {})
  /\ SetSendStatusRes(status)
  /\ UNCHANGED <<queue, putting, pc, scan, routeHold, checkRoute, online,
                 issued, writes>>

ReceiveConfirm(r, status) ==
  /\ pc = "receive" /\ r \in ncp /\ r.stage = "confirm"
  /\ ncp' = ncp \ {r}
  /\ SetSendStatusConfirm(status)
  /\ UNCHANGED <<queue, putting, pc, scan, online, issued, writes>>

AnswerLost(r) ==
  /\ r \in ncp
  /\ ncp' = ncp \ {r}
  /\ UNCHANGED <<queue, delayed, last, putting, pc, scan, isError, routeHold,
                 checkRoute, online, issued, writes>>

-----------------------------------------------------------------------------
(* onCheckSendCMD: first the delay list, then the command in flight.        *)

StartCheck ==
  /\ pc = "receive"
  /\ pc' = "scan" /\ scan' = 1
  /\ UNCHANGED <<queue, delayed, last, putting, isError, routeHold,
                 checkRoute, online, ncp, issued, writes>>

Without(s, i) == SubSeq(s, 1, i - 1) \o SubSeq(s, i + 1, Len(s))

\* One turn of the loop: an entry whose time is up leaves the list and goes
\* through onWriteCMD, the index then standing at its successor.
ScanDelayed ==
  /\ pc = "scan" /\ putting["serial"] = None
  /\ scan <= Len(delayed)
  /\ LET e == delayed[scan]
     IN IF e.delay <= 1
          THEN /\ delayed' = Without(delayed, scan)
               /\ BeginPut("serial", e.cmd, e.rep)
               /\ UNCHANGED scan
          ELSE /\ delayed' = [delayed EXCEPT ![scan].delay = @ - 1]
               /\ scan' = scan + 1
               /\ UNCHANGED <<queue, putting>>
  /\ UNCHANGED <<last, pc, isError, routeHold, checkRoute, online, ncp,
                 issued, writes>>

EndScan ==
  /\ pc = "scan" /\ putting["serial"] = None
  /\ scan > Len(delayed)
  /\ pc' = "send" /\ scan' = 1
  /\ UNCHANGED <<queue, delayed, last, putting, isError, routeHold,
                 checkRoute, online, ncp, issued, writes>>

\* What pCMDSendList->get() hands over keeps the status onDeleteSame gave it.
Taken(item) ==
  [cmd |-> item.cmd, rep |-> item.rep, delay |-> 0,
   st |-> IF item.dead THEN "SEND_DELETE" ELSE "SEND_INIT"]

Current == IF last = None /\ queue # <<>> THEN Taken(Head(queue)) ELSE last

WriteData(f) ==
  /\ writes' = [writes EXCEPT ![f.cmd] = @ + 1]
  /\ ncp' = ncp \cup {[cmd |-> f.cmd, n |-> writes[f.cmd], stage |-> "srsp"]}
  /\ last' = [f EXCEPT !.st = "SEND_WAIT_RES", !.delay = ResWait]

\* Fault: no time-out while the engine waits for a confirm.
AdvanceOnConfirmOnly(f) ==
  \/ f.st = "SEND_INIT" /\ WriteData(f)
  \/ /\ f.st = "SEND_WAIT_RES"
     /\ last' = [f EXCEPT !.st = "SEND_DELETE", !.delay = 0]
     /\ UNCHANGED ncpVars
  \/ f.st = "SEND_WAIT_CONFIRM" /\ last' = f /\ UNCHANGED ncpVars
  \/ f.st = "SEND_DELETE" /\ last' = None /\ UNCHANGED ncpVars

\* The switch on retStatus, once the delay of the command has run out.
Advance(f) ==
  \/ f.st = "SEND_INIT" /\ WriteData(f)
  \/ /\ f.st \in {"SEND_WAIT_RES", "SEND_WAIT_CONFIRM"}
     /\ LateAnswers \/ ncp = {}
     /\ last' = [f EXCEPT !.st = "SEND_DELETE", !.delay = 0]
     /\ UNCHANGED ncpVars
  \/ f.st = "SEND_DELETE" /\ last' = None /\ UNCHANGED ncpVars

CheckSend ==
  /\ pc = "send"
  /\ pc' = "receive"
  /\ queue' = IF last = None /\ queue # <<>> THEN Tail(queue) ELSE queue
  /\ \/ Current = None /\ UNCHANGED <<last, ncpVars>>
     \/ /\ Current # None /\ Current.delay > 1
        /\ last' = [Current EXCEPT !.delay = @ - 1]
        /\ UNCHANGED ncpVars
     \/ Current # None /\ Current.delay <= 1 /\ Advance(Current)
  /\ UNCHANGED <<delayed, putting, scan, isError, routeHold, checkRoute,
                 online, issued>>

-----------------------------------------------------------------------------
(* Other parts of the program: the one-second timer, the source-route       *)
(* answer that clears checkSrcRouter, and the online/offline bookkeeping.   *)

SecondTick ==
  /\ isError' = Lower(isError)
  /\ routeHold' = Lower(routeHold)
  /\ UNCHANGED <<queue, delayed, last, putting, pc, scan, checkRoute, online,
                 ncp, issued, writes>>

SourceRoute(d) ==
  /\ d \in checkRoute
  /\ checkRoute' = checkRoute \ {d}
  /\ UNCHANGED <<queue, delayed, last, putting, pc, scan, isError, routeHold,
                 online, ncp, issued, writes>>

SetOnline(d, status) ==
  /\ online' = [online EXCEPT ![d] = status]
  /\ UNCHANGED <<queue, delayed, last, putting, pc, scan, isError, routeHold,
                 checkRoute, ncp, issued, writes>>

\* A heartbeat of the device, or none for too long.
SetHeartOK(d) == ~ online[d] /\ SetOnline(d, TRUE)
HeartMissed(d) == online[d] /\ SetOnline(d, FALSE)

ResStatus == {"ok", "busy", "error"}
ConfirmStatus == {"ok", "bufferFull", "noAck", "noRoute", "error"}

Receive ==
  \E r \in ncp : \/ \E s \in ResStatus : ReceiveRes(r, s)
                 \/ \E s \in ConfirmStatus : ReceiveConfirm(r, s)

SerialStep == StartCheck \/ ScanDelayed \/ EndPut("serial") \/ EndScan \/ CheckSend

Next ==
  \/ \E c \in Cmd, d \in IssueDelays : Issue(c, d)
  \/ EndPut("upper")
  \/ Receive
  \/ \E r \in ncp : AnswerLost(r)
  \/ SerialStep
  \/ SecondTick
  \/ \E d \in Dev : SourceRoute(d) \/ SetHeartOK(d) \/ HeartMissed(d)

Spec == Init /\ [][Next]_vars

\* The serial thread loops every 5 ms and every onWriteCMD returns.
FairSpec == Spec /\ WF_vars(SerialStep) /\ WF_vars(EndPut("upper"))

-----------------------------------------------------------------------------
(* Properties *)

InQueue(c) == \E i \in DOMAIN queue : queue[i].cmd = c
InDelayed(c) == \E i \in DOMAIN delayed : delayed[i].cmd = c
InPutting(c) == \E t \in Thread : putting[t] # None /\ putting[t].cmd = c
InFlight(c) == last # None /\ last.cmd = c
InEngine(c) == InQueue(c) \/ InDelayed(c) \/ InPutting(c) \/ InFlight(c)

\* onDeleteSame never cancels the last instance of a command: behind every
\* cancelled entry of the queue stands a live one of its class, or a thread
\* is about to add one (onWriteCMD cancels first and adds second).
SupersededHasSuccessor ==
  \A i \in DOMAIN queue :
    queue[i].dead =>
      \/ \E j \in DOMAIN queue : /\ j > i
                                 /\ ~ queue[j].dead
                                 /\ Same(queue[j].cmd, queue[i].cmd)
      \/ \E t \in Thread : /\ putting[t] # None
                           /\ Same(putting[t].cmd, queue[i].cmd)

\* Radio load: with the copies a 0xE9 confirm makes, and with late answers that
\* hit a command onSetSendStatus has already given up, one command still goes
\* to the radio at most WriteLimit times.
WriteLimit == IF LateAnswers THEN 3 ^ MaxRepeat ELSE 2 ^ (MaxRepeat + 1) - 1

RadioLoadBounded == \A c \in Cmd : writes[c] <= WriteLimit

\* onSetSendStatus has no sequence number to compare: it relies on the answers
\* of one request being over before the next is written.  When no answer comes
\* after its time-out, the outstanding answer is that of the command in flight.
AnswerMeansLast ==
  ~ LateAnswers =>
    \A r \in ncp : /\ InFlight(r.cmd)
                   /\ last.st = IF r.stage = "srsp" THEN "SEND_WAIT_RES"
                                                    ELSE "SEND_WAIT_CONFIRM"

\* Whatever the coordinator answers, or does not, the engine finishes with every
\* command: nothing waits in it for ever.
EngineDrains == \A c \in Cmd : Issued(c) ~> [](~ InEngine(c))

-----------------------------------------------------------------------------
(* What the comments say of the engine and the engine does not do.          *)

\* SerialProces.cpp:36, "repeatCount = 3;//resend 3 times".
ResentAtMostRepeatCount == \A c \in Cmd : writes[c] <= 1 + MaxRepeat
=============================================================================
