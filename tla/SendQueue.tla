----------------------------- MODULE SendQueue ------------------------------
(* What pCMDSendList promises its callers: a FIFO of commands in which the  *)
(* queued commands of one class can be cancelled in one step.  LinkedQueue  *)
(* is the code's linked list, and implements it.                            *)
EXTENDS Naturals, Sequences

CONSTANTS Class, None

VARIABLES q,    \* the queued commands, oldest first
          out   \* the command handed out last, or None

Entry == [cls : Class, dead : BOOLEAN]

Cancel(s, c) ==
  [i \in DOMAIN s |-> IF s[i].cls = c THEN [s[i] EXCEPT !.dead = TRUE] ELSE s[i]]

Init == q = <<>> /\ out = None

Add(c) == q' = Append(q, [cls |-> c, dead |-> FALSE]) /\ UNCHANGED out

DeleteSame(c) == q' = Cancel(q, c) /\ UNCHANGED out

Get == q # <<>> /\ out' = Head(q) /\ q' = Tail(q)

Next == Get \/ \E c \in Class : Add(c) \/ DeleteSame(c)

Spec == Init /\ [][Next]_<<q, out>>
=============================================================================
