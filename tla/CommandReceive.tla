--------------------------- MODULE CommandReceive ---------------------------
(***************************************************************************)
(* Commands of the cloud, received once or more.  The server repeats a     *)
(* command until it gets the acknowledgement, so the gateway remembers the *)
(* number and kind of what it has received (onTcpCheckSeqNo) and only      *)
(* acknowledges what it knows (mfTcpCMDParsing).  The timer thread forgets *)
(* an entry after 60 s, the network thread all of them when a session      *)
(* ends.  The list is not locked: the network thread searches it while     *)
(* the timer thread removes from it.                                       *)
(***************************************************************************)
EXTENDS Integers, Sequences, SequencesExt

CONSTANTS
  Command,   \* the server's commands: records of a seq and an id that identify it
  Keep,      \* ageing passes an entry survives (60000 / 10000)
  MaxSends,  \* bound: transmissions by the server
  MaxCloses, \* bound: sessions that end
  None

CommandAssumption ==
  /\ Command # {} /\ None \notin Command
  /\ \A c, d \in Command : c.seq = d.seq /\ c.id = d.id => c = d
  /\ Keep \in Nat /\ Keep > 1
  /\ MaxSends \in Nat /\ MaxCloses \in Nat

VARIABLES
  status,    \* mNet_TCP_Status: "Rec", or "Close" until the lists are cleared
  toGateway, \* commands on their way, in order
  acks,      \* acknowledgements on their way
  acked,     \* commands the server need not repeat any more
  pc,        \* the network thread: "recv", about to "ack", to "search", to "do"
  cmd,       \* the command it is at, or None
  i,         \* its place in the list
  list,      \* mTcpCMDRepeatReciveList: a sequence of [cmd, life]
  age,       \* the timer thread's place in the list, 0 when it is not ageing it
  done,      \* commands carried out at least once
  recent,    \* passes begun since a command was last taken for new, in this session,
             \* up to Keep; None if never
  moved,     \* an entry has been removed during the search under way
  sends, closes  \* counters for the bounds

net == <<pc, cmd, i>>
external == <<toGateway, acks, acked, sends>>
vars == <<status, external, net, list, age, done, recent, moved, closes>>

Init ==
  /\ status = "Rec" /\ toGateway = <<>> /\ acks = {} /\ acked = {}
  /\ pc = "recv" /\ cmd = None /\ i = 1 /\ list = <<>> /\ age = 0
  /\ done = {} /\ recent = [c \in Command |-> None] /\ moved = FALSE
  /\ sends = 0 /\ closes = 0

-----------------------------------------------------------------------------
(* The server                                                              *)

ServerSends ==
  /\ status = "Rec" /\ sends < MaxSends
  /\ \E c \in Command \ acked : toGateway' = Append(toGateway, c)
  /\ sends' = sends + 1
  /\ UNCHANGED <<status, acks, acked, net, list, age, done, recent, moved, closes>>

AckArrives ==
  /\ acks # {}
  /\ \E c \in acks : acked' = acked \cup {c} /\ acks' = acks \ {c}
  /\ UNCHANGED <<status, toGateway, sends, net, list, age, done, recent, moved, closes>>

(* The network thread                                                      *)

Receive ==
  /\ pc = "recv" /\ status = "Rec" /\ toGateway # <<>>
  /\ cmd' = Head(toGateway) /\ toGateway' = Tail(toGateway)
  /\ pc' = "ack"
  /\ UNCHANGED <<status, acks, acked, sends, i, list, age, done, recent, moved, closes>>

\* onTcpAckCMDSend: the acknowledgement goes out first, once and for all; it is
\* dropped when the session is no longer open or send fails.
Acknowledge ==
  /\ pc = "ack"
  /\ \/ status = "Rec" /\ acks' = acks \cup {cmd}
     \/ UNCHANGED acks
  /\ pc' = "search" /\ i' = 1 /\ moved' = FALSE
  /\ UNCHANGED <<status, toGateway, acked, sends, cmd, list, age, done, recent, closes>>

\* Mutant: only the kind of command is compared.
MatchesId(e) == e.cmd.id = cmd.id

Matches(e) == e.cmd.seq = cmd.seq /\ e.cmd.id = cmd.id

\* The next entry is compared; at the end of the list the command is new.
Search ==
  /\ pc = "search"
  /\ \/ /\ i <= Len(list) /\ ~Matches(list[i])
        /\ i' = i + 1
        /\ UNCHANGED <<pc, cmd, list, recent>>
     \/ /\ i <= Len(list) /\ Matches(list[i])
        /\ pc' = "recv" /\ cmd' = None /\ i' = 1
        /\ UNCHANGED <<list, recent>>
     \/ /\ i > Len(list)
        /\ list' = Append(list, [cmd |-> cmd, life |-> Keep])
        /\ recent' = [recent EXCEPT ![cmd] = 0]
        /\ pc' = "do" /\ i' = 1
        /\ UNCHANGED cmd
  /\ UNCHANGED <<status, external, age, done, moved, closes>>

CarryOut ==
  /\ pc = "do"
  /\ done' = done \cup {cmd}
  /\ pc' = "recv" /\ cmd' = None
  /\ UNCHANGED <<status, external, i, list, age, recent, moved, closes>>

\* NetStatusClose and NetStatusInit: the connection and the list start anew.
Reconnect ==
  /\ status = "Close" /\ pc = "recv"
  /\ status' = "Rec"
  /\ list' = <<>> /\ toGateway' = <<>> /\ acks' = {}
  /\ recent' = [c \in Command |-> None]
  /\ UNCHANGED <<acked, sends, net, age, done, moved, closes>>

(* The timer thread                                                        *)

\* Every hundredth turn of mfTcpCheckRepeatSendCB, which stops with the session.
BeginAgeing ==
  /\ age = 0 /\ status = "Rec"
  /\ age' = 1
  /\ recent' = [c \in Command |-> IF recent[c] \in {None, Keep} THEN recent[c] ELSE recent[c] + 1]
  /\ UNCHANGED <<status, external, net, list, done, moved, closes>>

\* Mutant: entries are dropped one pass too early.
AgeHasty ==
  /\ age > 0
  /\ \/ /\ age <= Len(list) /\ list[age].life > 2
        /\ list' = [list EXCEPT ![age].life = @ - 1]
        /\ age' = age + 1
        /\ UNCHANGED moved
     \/ /\ age <= Len(list) /\ list[age].life <= 2
        /\ list' = RemoveAt(list, age)
        /\ moved' = TRUE
        /\ UNCHANGED age
     \/ /\ age > Len(list)
        /\ age' = 0
        /\ UNCHANGED <<list, moved>>
  /\ UNCHANGED <<status, external, net, done, recent, closes>>

\* The next entry loses 10 s; at 0 it is removed.
Age ==
  /\ age > 0
  /\ \/ /\ age <= Len(list) /\ list[age].life > 1
        /\ list' = [list EXCEPT ![age].life = @ - 1]
        /\ age' = age + 1
        /\ UNCHANGED moved
     \/ /\ age <= Len(list) /\ list[age].life = 1
        /\ list' = RemoveAt(list, age)
        /\ moved' = TRUE
        /\ UNCHANGED age
     \/ /\ age > Len(list)
        /\ age' = 0
        /\ UNCHANGED <<list, moved>>
  /\ UNCHANGED <<status, external, net, done, recent, closes>>

(* Any thread, or recv, ends the session.                                  *)
Break ==
  /\ status = "Rec" /\ closes < MaxCloses
  /\ status' = "Close" /\ closes' = closes + 1
  /\ UNCHANGED <<external, net, list, age, done, recent, moved>>

Next ==
  \/ ServerSends \/ AckArrives
  \/ Receive \/ Acknowledge \/ Search \/ CarryOut \/ Reconnect
  \/ BeginAgeing \/ Age \/ Break

Spec == Init /\ [][Next]_vars

-----------------------------------------------------------------------------
TypeOK ==
  /\ status \in {"Rec", "Close"}
  /\ toGateway \in Seq(Command) /\ acks \subseteq Command /\ acked \subseteq Command
  /\ pc \in {"recv", "ack", "search", "do"}
  /\ cmd \in Command \cup {None} /\ (cmd = None <=> pc = "recv")
  /\ i \in Nat \ {0} /\ age \in Nat
  /\ list \in Seq([cmd : Command, life : 1 .. Keep])
  /\ done \subseteq Command /\ recent \in [Command -> 0 .. Keep \cup {None}]
  /\ moved \in BOOLEAN
  /\ sends \in 0 .. MaxSends /\ closes \in 0 .. MaxCloses

\* The acknowledgement goes out before the search, so the server stops
\* repeating a command that the gateway may take for a known one: whatever it
\* has acknowledged has been carried out, or is the command at hand.
AckedIsCarriedOut == acks \cup acked \subseteq done \cup {cmd}

\* A repetition in the same session is not carried out again for Keep - 1
\* passes (50 to 60 s).  One hole is left: the timer thread removes an older
\* entry while the network thread searches, the entries behind it move up by
\* one, and the search, which goes by index, steps over one of them.
OnceWhileRemembered ==
  [][pc = "search" /\ pc' = "do" =>
       \/ recent[cmd] = None \/ recent[cmd] >= Keep - 1
       \/ moved]_vars
=============================================================================
