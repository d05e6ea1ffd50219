---------------------------- MODULE ServerStream ----------------------------
(* What a session with the cloud promises about the commands it receives:   *)
(* those sent in it are handed over unchanged, once each and in order, and  *)
(* nothing of a session that broke off reaches the next one.                *)
(* TcpFrame is the code's parser, and implements it.                        *)
EXTENDS Sequences

CONSTANTS Commands, None

VARIABLES sent, \* commands sent in this session and not handed over, oldest first
          out   \* the command handed over last, or None

Init == sent = <<>> /\ out = None

Send(c) == sent' = Append(sent, c) /\ UNCHANGED out

HandOver == sent # <<>> /\ out' = Head(sent) /\ sent' = Tail(sent)

Break == sent' = <<>> /\ UNCHANGED out

Next == HandOver \/ Break \/ \E c \in Commands : Send(c)

Spec == Init /\ [][Next]_<<sent, out>>
=============================================================================
