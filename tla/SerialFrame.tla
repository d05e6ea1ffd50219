----------------------------- MODULE SerialFrame ----------------------------
(***************************************************************************)
(* The frames of a serial port, byte by byte: TypeSerialDrive::onWriteData *)
(* builds one, TypeSerialDrive::onReviceData takes them apart              *)
(* (SerialPort/SerialDrive.cpp).  A frame is a start byte, the length of   *)
(* the data, two command bytes, the data and the exclusive or of all but   *)
(* the start byte.  The coordinator sends frames of the same form.         *)
(*                                                                         *)
(* The parser keeps its state in proces->status, an uint8_t that is also   *)
(* the index of the next byte, across calls of read(): how the bytes are   *)
(* cut into reads makes no difference, so a step is a byte.                *)
(***************************************************************************)
EXTENDS Integers, Sequences, SequencesExt, Bitwise

CONSTANTS
  Width,    \* bits of a byte (8)
  SOF,      \* the start byte (0xFE)
  SubSys,   \* the first command byte is type + subsystem (0x20 subsystems)
  Frames,   \* the frames the coordinator sends
  Noise,    \* the bytes a disturbance may produce; none on a quiet line
  Cap,      \* bound: frames sent and not yet read
  Faults,   \* bound: bytes disturbed
  None

Wrap == 2 ^ Width
Byte == 0 .. Wrap - 1

\* The data of a frame ends before its index wraps: 251 bytes at most, and the
\* coordinator sends no more than 250.
ASSUME FrameAssumption ==
  /\ SOF \in Byte /\ Noise \subseteq Byte /\ Cap \in Nat \ {0} /\ Faults \in Nat
  /\ \A f \in Frames :
       /\ f.type % SubSys = 0 /\ f.sub \in 0 .. SubSys - 1
       /\ f.type + f.sub \in Byte /\ f.cmd \in Byte
       /\ f.data \in Seq(Byte) /\ Len(f.data) + 4 < Wrap

VARIABLES
  inFlight, \* frames sent and not read to their end, oldest first
  pos,      \* how many bytes of the first one have been read
  quiet,    \* bytes read since the last disturbance, up to Settled
  faults,   \* bytes disturbed so far
  status, checkSum, cmdType, subSystem, subCMD,  \* the parser
  attr,     \* afAttribute: the announced length and the data, or None
  out       \* the frame given to onProces last, or None

lineVars == <<inFlight, pos, quiet, faults>>
parser == <<status, checkSum, cmdType, subSystem, subCMD, attr, out>>
vars == <<lineVars, parser>>

CheckSum(s) == FoldLeft(^^, 0, s)

\* The bytes of a frame, as onWriteData lays them out.
Encode(f) ==
  LET body == <<Len(f.data), f.type + f.sub, f.cmd>> \o f.data
  IN <<SOF>> \o body \o <<CheckSum(body)>>

Longest == CHOOSE n \in {Len(Encode(f)) : f \in Frames} :
             \A f \in Frames : Len(Encode(f)) <= n

\* A disturbance can make the parser take any bytes for a frame; it then reads
\* to the end that the length byte announces, or until status wraps, and looks
\* for a start byte, which may have just gone by.
Settled == Wrap - 1 + Longest - 1

Init ==
  /\ inFlight = <<>> /\ pos = 0 /\ quiet = Settled /\ faults = 0
  /\ status = 0 /\ checkSum = 0 /\ cmdType = 0 /\ subSystem = 0 /\ subCMD = 0
  /\ attr = None /\ out = None

-----------------------------------------------------------------------------
(* The parser: one case of the switch each *)

\* Fault: the start byte does not clear the parser.
HuntUncleared(b) ==
  /\ status = 0
  /\ status' = IF b = SOF THEN 1 ELSE 0
  /\ UNCHANGED <<checkSum, cmdType, subSystem, subCMD, attr, out>>

\* Anything but a start byte is skipped; a start byte clears the parser
\* (onClear), all but afAttribute.
Hunt(b) ==
  /\ status = 0
  /\ IF b = SOF
       THEN /\ status' = 1
            /\ checkSum' = 0 /\ cmdType' = 0 /\ subSystem' = 0 /\ subCMD' = 0
       ELSE UNCHANGED <<status, checkSum, cmdType, subSystem, subCMD>>
  /\ UNCHANGED <<attr, out>>

\* A new afAttribute of the announced length takes the place of any old one.
TakeLength(b) ==
  /\ status = 1
  /\ attr' = [len |-> b, data |-> <<>>]
  /\ status' = 2 /\ checkSum' = checkSum ^^ b
  /\ UNCHANGED <<cmdType, subSystem, subCMD, out>>

TakeCMD0(b) ==
  /\ status = 2
  /\ cmdType' = b - (b % SubSys) /\ subSystem' = b % SubSys
  /\ status' = 3 /\ checkSum' = checkSum ^^ b
  /\ UNCHANGED <<subCMD, attr, out>>

TakeCMD1(b) ==
  /\ status = 3
  /\ subCMD' = b
  /\ status' = 4 /\ checkSum' = checkSum ^^ b
  /\ UNCHANGED <<cmdType, subSystem, attr, out>>

\* Data goes to index status - 4.  A length of Wrap - 4 or more is never
\* reached: status wraps, and the parser is back to looking for a start byte.
TakeData(b) ==
  /\ status >= 4 /\ status < attr.len + 4
  /\ attr' = [attr EXCEPT !.data = Append(@, b)]
  /\ status' = (status + 1) % Wrap /\ checkSum' = checkSum ^^ b
  /\ UNCHANGED <<cmdType, subSystem, subCMD, out>>

\* Fault: a frame with a bad checksum is not given up.
FinishGoodOnly(b) ==
  /\ status >= 4 /\ status >= attr.len + 4
  /\ IF checkSum = b
       THEN /\ out' = [type |-> cmdType, sub |-> subSystem, cmd |-> subCMD,
                       data |-> attr.data]
            /\ status' = 0 /\ attr' = None
       ELSE UNCHANGED <<out, status, attr>>
  /\ UNCHANGED <<checkSum, cmdType, subSystem, subCMD>>

\* The last byte: the frame is processed if its checksum is right.
Finish(b) ==
  /\ status >= 4 /\ status >= attr.len + 4
  /\ out' = IF checkSum = b
              THEN [type |-> cmdType, sub |-> subSystem, cmd |-> subCMD,
                    data |-> attr.data]
              ELSE out
  /\ status' = 0 /\ attr' = None
  /\ UNCHANGED <<checkSum, cmdType, subSystem, subCMD>>

Take(b) ==
  Hunt(b) \/ TakeLength(b) \/ TakeCMD0(b) \/ TakeCMD1(b) \/ TakeData(b) \/ Finish(b)

-----------------------------------------------------------------------------
(* The line *)

Send(f) ==
  /\ Len(inFlight) < Cap
  /\ inFlight' = Append(inFlight, f)
  /\ UNCHANGED <<pos, quiet, faults, parser>>

\* The line is past the next byte of the first frame.
Pass ==
  /\ inFlight # <<>>
  /\ IF pos + 1 = Len(Encode(Head(inFlight)))
       THEN pos' = 0 /\ inFlight' = Tail(inFlight)
       ELSE pos' = pos + 1 /\ UNCHANGED inFlight

Receive ==
  /\ Pass
  /\ Take(Encode(Head(inFlight))[pos + 1])
  /\ quiet' = IF quiet < Settled THEN quiet + 1 ELSE quiet
  /\ UNCHANGED faults

Fault == faults < Faults /\ faults' = faults + 1 /\ quiet' = 0

\* Disturbances: a byte lost, a byte that nobody sent.
Lose == Fault /\ Pass /\ UNCHANGED parser

Disturb == Fault /\ (\E b \in Noise : Take(b)) /\ UNCHANGED <<inFlight, pos>>

Next == Receive \/ Lose \/ Disturb \/ \E f \in Frames : Send(f)

Spec == Init /\ [][Next]_vars

-----------------------------------------------------------------------------
(* Properties *)

\* Types; and afAttribute is there whenever the parser uses it, so the else at
\* the end of the switch, which the code adds against a crash, is never taken.
TypeOK ==
  /\ inFlight \in Seq(Frames) /\ Len(inFlight) <= Cap
  /\ pos \in 0 .. Longest - 1 /\ quiet \in 0 .. Settled /\ faults \in 0 .. Faults
  /\ {status, checkSum, cmdType + subSystem, subCMD} \subseteq Byte
  /\ attr # None => attr.len \in Byte /\ attr.data \in Seq(Byte)
  /\ status >= 2 => attr # None /\ Len(attr.data) <= attr.len

Channel == INSTANCE FrameChannel

\* On a quiet line the parser is a channel: what is handed over is what was
\* sent, start bytes among the data included.
ImplementsChannel == Channel!Spec

\* After a disturbance the parser is back in step with the line when Settled
\* bytes have been read, if no byte inside a frame looks like a start byte.
Resynchronised == quiet = Settled => status = pos

\* From then on no frame is lost or altered.
QuietFrameDelivered ==
  [][Len(inFlight') < Len(inFlight) /\ quiet = Settled /\ quiet' = Settled
       => out' = Head(inFlight)]_vars
=============================================================================
