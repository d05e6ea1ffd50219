----------------------------- MODULE TcpSession -----------------------------
(***************************************************************************)
(* The gateway's session with the cloud: NetWork/NetWorkBase.cpp and the   *)
(* login and acknowledgement cases of NetWork/NetWorkCMDParsing.cpp.       *)
(*                                                                         *)
(* Three kinds of threads meet here.  "net" runs mfTCPNetWorkThread, the   *)
(* state machine of mNet_TCP_Status; "timer" runs the 100 ms repeat check  *)
(* and the heartbeat; "app" stands for the serial, JNI and scene code that *)
(* reports to the cloud.  All of them send with mfTCPCMDSend, which puts a *)
(* command on the unlocked mTcpCMDRepeatSendList only after send has       *)
(* returned, so transmitting and enlisting are two steps.                  *)
(*                                                                         *)
(* The server acknowledges every command it gets.  TCP keeps the order and *)
(* loses nothing until the connection dies, but may delay at will.         *)
(***************************************************************************)
EXTENDS Naturals, Sequences, FiniteSets

CONSTANTS
  Report,      \* sequence numbers of heartbeats and of what "app" sends
  SendCount,   \* TypeTcpCMD::sendCount of a new command (3)
  ResendDelay, \* VALUE_TCP_DELEAY_REPEART, in ticks of the repeat check
  CloseHold,   \* seconds in NetStatusClose (10)
  SendFaults,  \* what send may return but a positive length
  Prompt,      \* does an answer come, and get handled, within one tick?
  None

\* The network thread sends two commands of its own in a session.
SeqNo == Report \cup {"login", "info"}

ASSUME SessionAssumption ==
  /\ SendCount \in Nat \ {0} /\ ResendDelay \in Nat \ {0} /\ CloseHold \in Nat \ {0}
  /\ SendFaults \subseteq {"failed", "zero"}
  /\ Prompt \in BOOLEAN
  /\ None \notin SeqNo

VARIABLES
  status,     \* mNet_TCP_Status
  delayCount, \* of NetStatusClose
  sock,       \* is mTCPClientfd a socket?
  netPc,      \* the network thread: at the loop, in recv, or about to send
  sent,       \* per thread: the command sent and not yet enlisted
  sendList,   \* mTcpCMDRepeatSendList
  timerPc, index, held,  \* the repeat check: its loop index, and its pTcpCMD
  repeatTimer, beatTimer,  \* TIMER_TCP_REPEATCHECK, TIMER_TCP_HEARTBEAT
  peer,       \* the server and the network to it (external)
  wire, inbox \* what is under way to the server, and to the gateway

netVars == <<status, delayCount, sock, netPc>>
timerVars == <<timerPc, index, held>>
serverVars == <<peer, wire, inbox>>
vars == <<netVars, sent, sendList, timerVars, repeatTimer, beatTimer, serverVars>>

Sender == {"net", "timer", "app"}

Entry == [seq : SeqNo, count : 0..SendCount, delay : 0..ResendDelay]
Request == [seq : SeqNo, login : BOOLEAN]
Answer == [kind : {"ack"}, seq : SeqNo] \cup [kind : {"authOk", "authErr"}, seq : {None}]

TypeOK ==
  /\ status \in {"Init", "HttpCertification", "Connect", "Login", "Rec", "Close"}
  /\ delayCount \in 0..(CloseHold - 1)
  /\ sock \in BOOLEAN
  /\ netPc \in {"loop", "recv", "login", "startTimer", "getInfo"}
  /\ sent \in [Sender -> SeqNo \cup {None}]
  /\ sendList \in Seq(Entry)
  /\ timerPc \in {"idle", "scan", "judge"}
  /\ index \in Nat \ {0}
  /\ held \in SeqNo \cup {None}
  /\ repeatTimer \in BOOLEAN /\ beatTimer \in BOOLEAN
  /\ peer \in {"none", "up", "silent", "closed"}
  /\ wire \in Seq(Request)
  /\ inbox \in Seq(Answer)

Init ==
  /\ status = "Init" /\ delayCount = 0 /\ sock = FALSE /\ netPc = "loop"
  /\ sent = [t \in Sender |-> None]
  /\ sendList = <<>>
  /\ timerPc = "idle" /\ index = 1 /\ held = None
  /\ repeatTimer = FALSE /\ beatTimer = FALSE
  /\ peer = "none" /\ wire = <<>> /\ inbox = <<>>

-----------------------------------------------------------------------------
(* The repeat list and mfTCPCMDSend *)

Listed(n) == \E i \in DOMAIN sendList : sendList[i].seq = n

\* onGetSeqNo counts up; what matters is that nothing else carries the number,
\* so a number may be used again then.
Unused(n) ==
  /\ ~ Listed(n)
  /\ \A t \in Sender : sent[t] # n
  /\ held # n
  /\ \A i \in DOMAIN wire : wire[i].seq # n
  /\ \A i \in DOMAIN inbox : inbox[i].seq # n

\* mfTCPBuffSend: nothing is sent outside NetStatusRec; a result of 0 ends the
\* session, a negative one is ignored and the command forgotten.
BuffSend(n, login, result) ==
  IF status # "Rec" \/ result = "failed"
    THEN UNCHANGED <<status, wire>>
    ELSE IF result = "zero"
           THEN status' = "Close" /\ UNCHANGED wire
           ELSE wire' = Append(wire, [seq |-> n, login |-> login]) /\ UNCHANGED status

\* The first half of mfTCPCMDSend, up to the return of send.
Transmit(t, n) ==
  \E result \in {"sent"} \cup SendFaults :
    /\ sent[t] = None /\ Unused(n)
    /\ BuffSend(n, n = "login", result)
    /\ sent' = IF status = "Rec" /\ result = "sent" THEN [sent EXCEPT ![t] = n]
                                                   ELSE sent

\* The second half: the command is put on the list, to be repeated.
Enlist(t) ==
  /\ sent[t] # None
  /\ sendList' = Append(sendList, [seq |-> sent[t], count |-> SendCount,
                                   delay |-> ResendDelay])
  /\ sent' = [sent EXCEPT ![t] = None]
  /\ UNCHANGED <<netVars, timerVars, repeatTimer, beatTimer, serverVars>>

\* onTcpCheckRepeatList and removeObject: the first entry of that number.
Remove(n) ==
  LET hits == {i \in DOMAIN sendList : sendList[i].seq = n}
      at == CHOOSE i \in hits : \A j \in hits : i <= j
  IN IF hits = {} THEN sendList
     ELSE SubSeq(sendList, 1, at - 1) \o SubSeq(sendList, at + 1, Len(sendList))

AppSend ==
  /\ status = "Rec"
  /\ \E n \in Report : Transmit("app", n)
  /\ UNCHANGED <<delayCount, sock, netPc, sendList, timerVars, repeatTimer,
                 beatTimer, peer, inbox>>

\* onResetTcpConnect: the network of the device has changed.
ResetConnect ==
  /\ status = "Rec" /\ sock
  /\ status' = "Close"
  /\ UNCHANGED <<delayCount, sock, netPc, sent, sendList, timerVars,
                 repeatTimer, beatTimer, serverVars>>

-----------------------------------------------------------------------------
(* mfTCPNetWorkThread, one action per state *)

At(pc, s) == netPc = pc /\ status = s /\ sent["net"] = None

\* Fault: only NetStatusClose clears the lists.
NetInitKeeps ==
  /\ At("loop", "Init")
  /\ status' \in {"HttpCertification", "Close"}
  /\ UNCHANGED <<delayCount, sock, netPc, sent, sendList, timerVars,
                 repeatTimer, beatTimer, serverVars>>

\* No IEEE address yet, or a gateway the server does not know: NetStatusClose.
NetInit ==
  /\ At("loop", "Init")
  /\ sendList' = <<>>
  /\ status' \in {"HttpCertification", "Close"}
  /\ UNCHANGED <<delayCount, sock, netPc, sent, timerVars, repeatTimer,
                 beatTimer, serverVars>>

NetCertify ==
  /\ At("loop", "HttpCertification")
  /\ \/ status' = "Connect" /\ sock' = TRUE
     \/ status' = "Close" /\ UNCHANGED sock
  /\ UNCHANGED <<delayCount, netPc, sent, sendList, timerVars, repeatTimer,
                 beatTimer, serverVars>>

NetConnect ==
  /\ At("loop", "Connect")
  /\ \/ status' = "Login" /\ peer' = "up"
     \/ status' = "Close" /\ UNCHANGED peer
  /\ UNCHANGED <<delayCount, sock, netPc, sent, sendList, timerVars,
                 repeatTimer, beatTimer, wire, inbox>>

\* NetStatusLogin opens the session before it logs in, and starts the repeat
\* check last.
NetLogin ==
  /\ At("loop", "Login")
  /\ status' = "Rec" /\ netPc' = "login"
  /\ UNCHANGED <<delayCount, sock, sent, sendList, timerVars, repeatTimer,
                 beatTimer, serverVars>>

NetSendLogin ==
  /\ netPc = "login"
  /\ Transmit("net", "login")
  /\ netPc' = "startTimer"
  /\ UNCHANGED <<delayCount, sock, sendList, timerVars, repeatTimer, beatTimer,
                 peer, inbox>>

NetStartTimer ==
  /\ netPc = "startTimer" /\ sent["net"] = None
  /\ repeatTimer' = TRUE /\ netPc' = "loop"
  /\ UNCHANGED <<status, delayCount, sock, sent, sendList, timerVars,
                 beatTimer, serverVars>>

NetEnterRecv ==
  /\ At("loop", "Rec")
  /\ netPc' = "recv"
  /\ UNCHANGED <<status, delayCount, sock, sent, sendList, timerVars,
                 repeatTimer, beatTimer, serverVars>>

\* recv fails on a dead connection and times out on a silent one.  The status
\* may have become NetStatusClose meanwhile; the state is not looked at.
NetRecvEnds ==
  /\ netPc = "recv" /\ inbox = <<>>
  /\ netPc' = "loop"
  /\ status' = IF peer = "closed" THEN "Close" ELSE status
  /\ UNCHANGED <<delayCount, sock, sent, sendList, timerVars, repeatTimer,
                 beatTimer, serverVars>>

\* An answer to a repetition takes longer than the timer thread's next lines.
Handled(m) == Prompt /\ timerPc = "judge" => m.kind # "ack" \/ m.seq # held

\* Fault: the acknowledgement is read and not looked up.
NetReceiveAckUnread ==
  /\ netPc = "recv" /\ inbox # <<>> /\ Head(inbox).kind = "ack"
  /\ Handled(Head(inbox))
  /\ inbox' = Tail(inbox)
  /\ netPc' = "loop"
  /\ UNCHANGED <<status, delayCount, sock, sent, sendList, timerVars, repeatTimer,
                 beatTimer, peer, wire>>

\* Copies of an acknowledged command and their answers no longer matter; they
\* leave the model here, which frees the number.
Without(s, n) ==
  LET kept == {i \in DOMAIN s : s[i].seq # n}
      Rank(i) == Cardinality({j \in kept : j <= i})
  IN [k \in 1..Cardinality(kept) |-> s[CHOOSE i \in kept : Rank(i) = k]]

NetReceiveAck ==
  /\ netPc = "recv" /\ inbox # <<>> /\ Head(inbox).kind = "ack"
  /\ Handled(Head(inbox))
  /\ LET n == Head(inbox).seq
     IN /\ sendList' = Remove(n)
        /\ inbox' = Without(Tail(inbox), n)
        /\ wire' = Without(wire, n)
  /\ netPc' = "loop"
  /\ UNCHANGED <<status, delayCount, sock, sent, timerVars, repeatTimer,
                 beatTimer, peer>>

\* CMD_ID_AUTH_TOKEN_RES: logged in, the heartbeat starts and the gateway asks
\* for its data; refused, the session stays open without a heartbeat.
NetReceiveAuth ==
  /\ netPc = "recv" /\ inbox # <<>> /\ Head(inbox).kind \in {"authOk", "authErr"}
  /\ inbox' = Tail(inbox)
  /\ beatTimer' = (Head(inbox).kind = "authOk")
  /\ netPc' = IF Head(inbox).kind = "authOk" THEN "getInfo" ELSE "loop"
  /\ UNCHANGED <<status, delayCount, sock, sent, sendList, timerVars,
                 repeatTimer, peer, wire>>

NetGetInfo ==
  /\ netPc = "getInfo"
  /\ Transmit("net", "info")
  /\ netPc' = "loop"
  /\ UNCHANGED <<delayCount, sock, sendList, timerVars, repeatTimer, beatTimer,
                 peer, inbox>>

\* Only the first second of NetStatusClose ends the session.
CleanUp ==
  IF delayCount = 0
    THEN /\ sendList' = <<>> /\ repeatTimer' = FALSE /\ beatTimer' = FALSE
         /\ sock' = FALSE /\ peer' = "none" /\ wire' = <<>> /\ inbox' = <<>>
    ELSE UNCHANGED <<sendList, repeatTimer, beatTimer, sock, serverVars>>

\* What another thread has begun in the session: a send lasts 5 s at most
\* (SO_SNDTIMEO), the state is held for CloseHold = 10.
OthersDone == timerPc = "idle" /\ sent["timer"] = None /\ sent["app"] = None

\* Fault: NetStatusClose is held one second too long.
NetCloseOvershoot ==
  /\ At("loop", "Close")
  /\ CleanUp
  /\ IF delayCount < CloseHold
       THEN delayCount' = delayCount + 1 /\ UNCHANGED status
       ELSE OthersDone /\ delayCount' = 0 /\ status' = "Init"
  /\ UNCHANGED <<netPc, sent, timerVars>>

NetClose ==
  /\ At("loop", "Close")
  /\ CleanUp
  /\ IF delayCount + 1 < CloseHold
       THEN delayCount' = delayCount + 1 /\ UNCHANGED status
       ELSE OthersDone /\ delayCount' = 0 /\ status' = "Init"
  /\ UNCHANGED <<netPc, sent, timerVars>>

-----------------------------------------------------------------------------
(* The timer thread: mfTcpCheckRepeatSendCB and mfTcpHeartbeatCMDCB.  Other *)
(* threads change the list between two turns of its loop.                   *)

Calm == Prompt => inbox = <<>> /\ wire = <<>> /\ \A t \in Sender : sent[t] = None

Tick ==
  /\ repeatTimer /\ timerPc = "idle" /\ sent["timer"] = None /\ Calm
  /\ timerPc' = "scan" /\ index' = 1
  /\ UNCHANGED <<netVars, sent, sendList, held, repeatTimer, beatTimer,
                 serverVars>>

\* Fault: the repetition does not count.
RepeatUncounted(e, result) ==
  /\ BuffSend(e.seq, FALSE, result)
  /\ sendList' = [sendList EXCEPT ![index].delay = ResendDelay]

\* An entry whose time is up is sent once more, if it has attempts left.
Repeat(e, result) ==
  IF e.count > 0
    THEN /\ BuffSend(e.seq, FALSE, result)
         /\ sendList' = [sendList EXCEPT ![index].count = @ - 1,
                                         ![index].delay = ResendDelay]
    ELSE /\ sendList' = [sendList EXCEPT ![index].delay = 0]
         /\ UNCHANGED <<status, wire>>

ScanEntry ==
  /\ timerPc = "scan" /\ index <= Len(sendList)
  /\ LET e == sendList[index]
     IN IF e.delay > 1
          THEN /\ sendList' = [sendList EXCEPT ![index].delay = @ - 1]
               /\ index' = index + 1
               /\ UNCHANGED <<status, wire, timerPc, held>>
          ELSE /\ \E result \in {"sent"} \cup SendFaults : Repeat(e, result)
               /\ timerPc' = "judge" /\ held' = e.seq
               /\ UNCHANGED index
  /\ UNCHANGED <<delayCount, sock, netPc, sent, repeatTimer, beatTimer, peer,
                 inbox>>

\* Fault: the command that got no answer is dropped, the session kept.
JudgeKeepsSession ==
  /\ timerPc = "judge"
  /\ \E out \in BOOLEAN :
       /\ \A i \in DOMAIN sendList :
            sendList[i].seq = held => out = (sendList[i].count = 0)
       /\ IF out THEN sendList' = Remove(held) /\ UNCHANGED index
                 ELSE index' = index + 1 /\ UNCHANGED sendList
  /\ timerPc' = "scan" /\ held' = None
  /\ UNCHANGED <<netVars, sent, repeatTimer, beatTimer, serverVars>>

\* Without attempts left the entry goes, and the session with it, with no wait
\* for the answer to the last repetition.  If the network thread has deleted
\* the entry meanwhile, sendCount is read from freed memory: either way.
Judge ==
  /\ timerPc = "judge"
  /\ \E out \in BOOLEAN :
       /\ \A i \in DOMAIN sendList :
            sendList[i].seq = held => out = (sendList[i].count = 0)
       /\ IF out THEN sendList' = Remove(held) /\ status' = "Close" /\ UNCHANGED index
                 ELSE index' = index + 1 /\ UNCHANGED <<sendList, status>>
  /\ timerPc' = "scan" /\ held' = None
  /\ UNCHANGED <<delayCount, sock, netPc, sent, repeatTimer, beatTimer, serverVars>>

EndScan ==
  /\ timerPc = "scan" /\ index > Len(sendList)
  /\ timerPc' = "idle" /\ index' = 1
  /\ UNCHANGED <<netVars, sent, sendList, held, repeatTimer, beatTimer,
                 serverVars>>

Heartbeat ==
  /\ beatTimer /\ timerPc = "idle"
  /\ \E n \in Report : Transmit("timer", n)
  /\ UNCHANGED <<delayCount, sock, netPc, sendList, timerVars, repeatTimer,
                 beatTimer, peer, inbox>>

-----------------------------------------------------------------------------
(* The server (external) *)

\* Every command is acknowledged, a login answered besides, but not again when
\* it is repeated.
ServerAnswers ==
  /\ peer = "up" /\ wire # <<>>
  /\ wire' = Tail(wire)
  /\ LET ack == [kind |-> "ack", seq |-> Head(wire).seq]
     IN IF Head(wire).login
          THEN \E k \in {"authOk", "authErr"} :
                 inbox' = inbox \o <<ack, [kind |-> k, seq |-> None]>>
          ELSE inbox' = Append(inbox, ack)
  /\ UNCHANGED <<netVars, sent, sendList, timerVars, repeatTimer, beatTimer, peer>>

PeerChanges ==
  /\ ~ Prompt
  /\ \/ peer = "up" /\ peer' \in {"silent", "closed"}
     \/ peer = "silent" /\ peer' \in {"up", "closed"}
  /\ UNCHANGED <<netVars, sent, sendList, timerVars, repeatTimer, beatTimer,
                 wire, inbox>>

NetStep ==
  \/ NetInit \/ NetCertify \/ NetConnect \/ NetLogin \/ NetSendLogin
  \/ NetStartTimer \/ NetEnterRecv \/ NetRecvEnds \/ NetReceiveAck
  \/ NetReceiveAuth \/ NetGetInfo \/ NetClose \/ Enlist("net")

RepeatCheck == Tick \/ ScanEntry \/ Judge \/ EndScan

Next ==
  \/ NetStep
  \/ RepeatCheck \/ Heartbeat \/ Enlist("timer")
  \/ AppSend \/ Enlist("app") \/ ResetConnect
  \/ ServerAnswers \/ PeerChanges

Spec == Init /\ [][Next]_vars

\* The threads keep running; a turn of the timer thread serves every timer that
\* is due, so neither of the repeat check and the heartbeat starves the other.
FairSpec ==
  /\ Spec
  /\ WF_vars(NetStep) /\ SF_vars(RepeatCheck) /\ SF_vars(Heartbeat)
  /\ WF_vars(Enlist("timer")) /\ WF_vars(Enlist("app"))

-----------------------------------------------------------------------------
(* Properties *)

\* A new session starts from nothing: no command of the old one is left to be
\* repeated in it, no timer of the old one runs on, and its socket is closed.
\* The late ones are a command sent before and enlisted after NetStatusClose
\* cleaned up, a repeat check still under way, and an answer still in recv.
FreshSession ==
  status \in {"HttpCertification", "Connect", "Login"} =>
    /\ sendList = <<>> /\ timerPc = "idle"
    /\ ~ repeatTimer /\ ~ beatTimer
    /\ \A t \in Sender : sent[t] = None
    /\ wire = <<>> /\ inbox = <<>>
    /\ sock <=> status # "HttpCertification"

\* A server that answers in time is never given up: an acknowledgement may come
\* before its command is on the list, which costs one repetition and no more.
PromptServerKept ==
  Prompt /\ status = "Rec" =>
    \A i \in DOMAIN sendList : sendList[i].count + 1 >= SendCount

\* Nothing stays on the repeat list: a command is acknowledged, or its session
\* ends.
EveryCommandSettled == \A n \in SeqNo : Listed(n) ~> ~ Listed(n)

\* A logged-in session whose server has gone silent is ended by the heartbeat.
DeadServerDetected ==
  (beatTimer /\ peer = "silent") ~> (status = "Close" \/ peer # "silent")
=============================================================================
