------------------------------ MODULE MCFrames ------------------------------
(* The two byte parsers, one of them in a behaviour.                        *)
(*   "quiet": a serial line without disturbances; frames without data, with *)
(*     data that looks like a start byte, and of the greatest length.       *)
(*   "noisy": a serial line with disturbances; frames whose bytes do not    *)
(*     look like a start byte.                                              *)
(*   "tcp": the connection to the cloud, with its real field widths; two    *)
(*     commands at most on their way, with data that looks like a header    *)
(*     length and a number of more than one byte.                           *)
(* A byte of the serial line has three bits here, so that a length of 4 or  *)
(* more wraps the parser's index.                                           *)
EXTENDS SerialFrame

CONSTANTS Commands, RecvSizes

VARIABLES line,
  netStatus, open, stream, buffer, cmdStatus, header, payload, sent, handed

tcpVars ==
  <<netStatus, open, stream, buffer, cmdStatus, header, payload, sent, handed>>
MCVars == <<vars, tcpVars, line>>

Fr(t, s, c, d) == [type |-> t, sub |-> s, cmd |-> c, data |-> d]
MCFrames == {Fr(0, 1, 2, <<>>), Fr(4, 2, 6, <<6, 6>>), Fr(4, 1, 1, <<6, 1, 6>>)}
MCPlain == {Fr(0, 1, 2, <<>>), Fr(0, 1, 3, <<1>>)}
MCNoise == {0, 1, 5, 6, 7}

Cmd(c, s, d) == [commandID |-> c, seqNo |-> s, data |-> d]
MCCommands == {Cmd(7, 515, <<0, 10>>)}
MCRecvSizes == {1, 17}

Quiet == INSTANCE SerialFrame WITH Frames <- MCFrames, Noise <- {}, Faults <- 0,
  Cap <- 2
Tcp == INSTANCE TcpFrame WITH
  Base <- 256, Cap <- 2, status <- netStatus, out <- handed

ASSUME Tcp!FrameAssumption

MCInit == Init /\ Tcp!Init /\ line \in {"quiet", "noisy", "tcp"}

MCNext ==
  /\ \/ /\ line = "quiet"
        /\ Quiet!Receive \/ \E f \in MCFrames : Quiet!Send(f)
        /\ UNCHANGED tcpVars
     \/ line = "noisy" /\ Next /\ UNCHANGED tcpVars
     \/ line = "tcp" /\ Tcp!Next /\ UNCHANGED vars
  /\ UNCHANGED line

\* FairSpec of TcpFrame.
MCFairSpec ==
  /\ MCInit /\ [][MCNext]_MCVars
  /\ WF_MCVars(line = "tcp" /\ Tcp!NetThread /\ UNCHANGED <<vars, line>>)

\* Both parsers keep what their switches rely on; and after a disturbance the
\* serial one is back in step with the line when Settled bytes have been read
\* (onReviceData).
ParsersInStep ==
  /\ IF line = "quiet" THEN Quiet!TypeOK ELSE TypeOK
  /\ line = "noisy" => Resynchronised
  /\ Tcp!TypeOK

\* On a quiet line the serial parser is a channel, start bytes among the data
\* included (onReviceData).
QuietLineIsChannel ==
  /\ Channel!Init
  /\ [][line = "quiet" => [Quiet!Channel!Next]_<<inFlight, out>>]_<<inFlight, out, line>>

\* However recv cuts the stream and wherever a session breaks off, what is
\* handed over is what the server sent in the session (mfTCPNetWorkThread).
ImplementsStream == Tcp!ImplementsStream

\* The network thread keeps up with the server: its loop never stands still
\* before a byte that it does not take.
StreamMoves == Tcp!StreamMoves
=============================================================================
