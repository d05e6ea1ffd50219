-------------------------- MODULE MCCommandReceive --------------------------
(* The commands that are received in the sessions of TcpSession, which      *)
(* itself stands still: two commands of one kind, and one that has the      *)
(* number of another, as after a restart of the server the numbers begin    *)
(* again.                                                                   *)
EXTENDS MCTcpSession

CONSTANTS Command, Keep, MaxSends, MaxCloses

VARIABLES
  open, stage, place, \* status, pc and i of CommandReceive
  toGateway, acks, acked, cmd, list, age, done, recent, moved, sends, closes

Repeats == INSTANCE CommandReceive WITH status <- open, pc <- stage, i <- place

ASSUME RepeatsAssumption == Repeats!CommandAssumption

MCCommand == {[seq |-> 1, id |-> "set"], [seq |-> 2, id |-> "set"],
              [seq |-> 1, id |-> "get"]}

received == <<open, stage, place, toGateway, acks, acked, cmd, list, age, done, recent,
              moved, sends, closes>>

ReceiveInit == Repeats!Init /\ MCInit /\ server = "prompt"
ReceiveNext == Repeats!Next /\ UNCHANGED MCVars
ReceiveSpec == ReceiveInit /\ [][ReceiveNext]_<<received, MCVars>>

\* Types are right, and what the gateway has acknowledged it carries out, although
\* it acknowledges before it searches (mfTcpCMDParsing, onTcpCheckSeqNo).
AckedIsCarriedOut == Repeats!TypeOK /\ Repeats!AckedIsCarriedOut

\* A repetition is not carried out again (onTcpCheckSeqNo), with the hole that
\* CommandReceive names.
OnceWhileRemembered == Repeats!OnceWhileRemembered
=============================================================================
