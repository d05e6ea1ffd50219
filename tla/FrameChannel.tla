---------------------------- MODULE FrameChannel ----------------------------
(* What a serial port promises on a quiet line: the frames the coordinator  *)
(* sends are handed to onProces unchanged, once each and in order.          *)
(* SerialFrame is the code's parser, and implements it.                     *)
EXTENDS Sequences

CONSTANTS Frames, None

VARIABLES inFlight, \* frames sent and not handed over yet, oldest first
          out       \* the frame handed over last, or None

Init == inFlight = <<>> /\ out = None

Send(f) == inFlight' = Append(inFlight, f) /\ UNCHANGED out

Deliver == inFlight # <<>> /\ out' = Head(inFlight) /\ inFlight' = Tail(inFlight)

Next == Deliver \/ \E f \in Frames : Send(f)

Spec == Init /\ [][Next]_<<inFlight, out>>
=============================================================================
