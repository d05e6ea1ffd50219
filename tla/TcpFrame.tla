------------------------------ MODULE TcpFrame ------------------------------
(***************************************************************************)
(* The commands of the cloud, byte by byte: what recv returns is taken     *)
(* apart in NetStatusRec (NetWork/NetWorkBase.cpp).  A command is its      *)
(* length (4 bytes, most significant first), the length of its header      *)
(* (2, always 10), version (2), commandID (4), seqNo (4) and data; it is   *)
(* built alike in both directions (TypeTcpCMD).                            *)
(*                                                                         *)
(* The stream is cut by recv and not at the ends of commands, so the       *)
(* parser keeps its state from one recv to the next.  The connection may   *)
(* break at any byte, and any thread may close the session while the       *)
(* network thread is still busy with what recv returned.                   *)
(***************************************************************************)
EXTENDS Integers, Sequences

CONSTANTS
  Base,      \* 2^8
  Commands,  \* what the server sends
  RecvSizes, \* how many bytes recv may return (up to MAXDATASIZE)
  Cap,       \* bound: commands sent and not handed over
  None

Header == {"packetLength", "headerLength", "version", "commandID", "seqNo"}
HeaderLength == 10

FrameAssumption ==
  /\ Base \in Nat /\ Base > HeaderLength /\ RecvSizes \subseteq Nat \ {0} /\ Cap \in Nat \ {0}
  /\ \A c \in Commands :
       /\ {c.commandID, c.seqNo} \subseteq 0 .. Base ^ 3
       /\ c.data \in Seq(0 .. Base - 1) /\ Len(c.data) + 12 < Base ^ 3

VARIABLES
  status,    \* mNet_TCP_Status: Rec or Close
  open,      \* has the peer not closed the connection?
  stream,    \* the bytes on their way (external)
  buffer,    \* tempTCPReciveBuff from tempRetLen on
  cmdStatus, header, payload, \* the parser: cmdStatus and tcpCmd
  sent,      \* history: commands of this session not handed over yet
  out        \* the command given to mfTcpCMDParsing last, or None

lineVars == <<status, open, stream, buffer>>
parser == <<cmdStatus, header, payload>>
vars == <<lineVars, parser, sent, out>>

Bytes(n, size) == [i \in 1 .. size |-> (n \div Base ^ (size - i)) % Base]

\* The bytes of a command, as TypeTcpCMD lays them out.
Encode(c) ==
  Bytes(Len(c.data) + 12, 4) \o Bytes(HeaderLength, 2) \o Bytes(1, 2)
    \o Bytes(c.commandID, 4) \o Bytes(c.seqNo, 4) \o c.data

Init ==
  /\ status = "Close" /\ open = FALSE /\ stream = <<>> /\ buffer = <<>>
  /\ cmdStatus = 0 /\ header = [f \in Header |-> 0] /\ payload = None
  /\ sent = <<>> /\ out = None

-----------------------------------------------------------------------------
(* The parser *)

\* The field a byte of the header belongs to, and where fields begin.
FieldAt(s) ==
  CASE s < 4 -> "packetLength"
    [] s \in 4 .. 5 -> "headerLength"
    [] s \in 6 .. 7 -> "version"
    [] s \in 8 .. 11 -> "commandID"
    [] OTHER -> "seqNo"
Begins == {0, 4, 6, 8, 12}

DataLength(h) == h.packetLength - h.headerLength - 2

Complete(h, data) == Len(data) = DataLength(h)

\* When its last byte is there the command is parsed, and the next one begins.
HandOverIf(complete) ==
  IF complete
    THEN /\ cmdStatus' = 0 /\ sent' = IF sent = <<>> THEN <<>> ELSE Tail(sent)
         /\ out' = [commandID |-> header'.commandID, seqNo |-> header'.seqNo,
                    data |-> payload']
    ELSE /\ cmdStatus' = IF cmdStatus < 16 THEN cmdStatus + 1 ELSE 16
         /\ UNCHANGED <<sent, out>>

\* Behind the length of the header nothing is taken unless it is 10: then the
\* thread stays in its loop.
Known == cmdStatus < 6 \/ header.headerLength = HeaderLength

\* Mutant: payLoadBuffLen is not reset.
KeepData(data) == IF data = None THEN <<>> ELSE data
NewData(data) == <<>>

TakeHeader(b) ==
  /\ cmdStatus < 16 /\ Known
  /\ LET f == FieldAt(cmdStatus) IN
       header' = [header EXCEPT ![f] = IF cmdStatus \in Begins THEN b ELSE @ * Base + b]
  /\ payload' = IF cmdStatus = 15 THEN NewData(payload) ELSE payload
  /\ HandOverIf(cmdStatus = 15 /\ Complete(header', payload'))

TakeData(b) ==
  /\ cmdStatus = 16 /\ Known /\ Len(payload) < DataLength(header)
  /\ payload' = Append(payload, b) /\ UNCHANGED header
  /\ HandOverIf(Complete(header, payload'))

Take ==
  /\ buffer # <<>> /\ buffer' = Tail(buffer)
  /\ TakeHeader(Head(buffer)) \/ TakeData(Head(buffer))
  /\ UNCHANGED <<status, open, stream>>

-----------------------------------------------------------------------------
(* The network thread *)

Cut(s, n) == SubSeq(s, 1, n)
Rest(s, n) == SubSeq(s, n + 1, Len(s))

\* recv returns what is there, up to the room in the buffer.
Recv ==
  /\ status = "Rec" /\ buffer = <<>> /\ stream # <<>>
  /\ \E n \in RecvSizes :
       /\ n <= Len(stream)
       /\ buffer' = Cut(stream, n) /\ stream' = Rest(stream, n)
  /\ UNCHANGED <<status, open, parser, sent, out>>

\* Mutant: a result of 0 is taken for nothing to read.
RecvNothing ==
  status = "Rec" /\ buffer = <<>> /\ stream = <<>> /\ ~open /\ UNCHANGED vars
\* recv returns 0: the peer has closed.
RecvEnd ==
  /\ status = "Rec" /\ buffer = <<>> /\ stream = <<>> /\ ~open
  /\ status' = "Close"
  /\ UNCHANGED <<open, stream, buffer, parser, sent, out>>

Cleared(s) == 0

\* NetStatusClose to NetStatusRec, over NetStatusInit: the socket is closed,
\* which drops what is on its way, and a new one connected.
Reconnect ==
  /\ status = "Close" /\ buffer = <<>>
  /\ cmdStatus' = Cleared(cmdStatus)
  /\ status' = "Rec" /\ open' = TRUE /\ stream' = <<>> /\ sent' = <<>>
  /\ UNCHANGED <<buffer, header, payload, out>>

(* The other threads and the server *)

\* onResetTcpConnect, and a repetition that was not answered.
CloseSession ==
  /\ status = "Rec" /\ status' = "Close"
  /\ UNCHANGED <<open, stream, buffer, parser, sent, out>>

Send(c) ==
  /\ open /\ Len(sent) < Cap
  /\ stream' = stream \o Encode(c) /\ sent' = Append(sent, c)
  /\ UNCHANGED <<status, open, buffer, parser, out>>

\* The connection breaks somewhere in what is on its way.
PeerCloses ==
  /\ open /\ open' = FALSE
  /\ \E n \in 0 .. Len(stream) : stream' = Cut(stream, n)
  /\ UNCHANGED <<status, buffer, parser, sent, out>>

NetThread == Take \/ Recv \/ RecvEnd \/ Reconnect
Next == NetThread \/ CloseSession \/ PeerCloses \/ \E c \in Commands : Send(c)

Spec == Init /\ [][Next]_vars
\* recv has a time-out, and NetStatusClose waits ten times a second.
FairSpec == Spec /\ WF_vars(NetThread)

-----------------------------------------------------------------------------
(* Properties *)

\* Types; and data is taken only while some is missing, so that the loop never
\* stands still in front of a byte (case 16 takes none otherwise).
TypeOK ==
  /\ status \in {"Rec", "Close"} /\ open \in BOOLEAN
  /\ {stream, buffer} \subseteq Seq(0 .. Base - 1)
  /\ cmdStatus \in 0 .. 16 /\ header \in [Header -> Nat]
  /\ sent \in Seq(Commands) /\ Len(sent) <= Cap
  /\ cmdStatus >= 6 => header.headerLength = HeaderLength
  /\ cmdStatus = 16 => Len(payload) < DataLength(header)

Session == INSTANCE ServerStream

\* However recv cuts the stream and wherever a session breaks off, what is
\* handed over is what the server sent in the session (mfTCPNetWorkThread).
ImplementsStream == Session!Spec

\* The network thread keeps up: of what the server sends either something is
\* handed over, or dropped with its session, again and again, or nothing is
\* left.  A parser out of step stands still before a header length it does not
\* know (the loop of NetStatusRec).
StreamMoves == []<><<Len(sent') < Len(sent)>>_vars \/ <>[](sent = <<>>)
=============================================================================
