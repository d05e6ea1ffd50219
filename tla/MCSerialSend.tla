---------------------------- MODULE MCSerialSend ----------------------------
(* Two commands of one class to one device.  A behaviour has one of two     *)
(* coordinators: a punctual one, which answers within the engine's          *)
(* time-outs or not at all, with two repetitions of a command; or a late    *)
(* one, which may answer at any time, with one.                             *)
EXTENDS SerialSend

MCDevOf == [c \in Cmd |-> CHOOSE d \in Dev : TRUE]
MCOneClass == [c \in Cmd |-> "onOff"]

VARIABLE coordinator

Late == INSTANCE SerialSend WITH LateAnswers <- TRUE, MaxRepeat <- 1

MCVars == <<vars, coordinator>>

MCInit == Init /\ coordinator \in {"punctual", "late"}

MCNext ==
  /\ \/ coordinator = "punctual" /\ Next
     \/ coordinator = "late" /\ Late!Next
  /\ UNCHANGED coordinator

Answered == Receive \/ \E r \in ncp : AnswerLost(r)

\* FairSpec of SerialSend, for either coordinator; a punctual one does answer,
\* or the answer is lost in time.
MCFairSpec ==
  /\ MCInit /\ [][MCNext]_MCVars
  /\ WF_MCVars(coordinator = "punctual" /\ SerialStep /\ UNCHANGED coordinator)
  /\ WF_MCVars(coordinator = "punctual" /\ Answered /\ UNCHANGED coordinator)
  /\ WF_MCVars(coordinator = "late" /\ Late!SerialStep /\ UNCHANGED coordinator)
  /\ WF_MCVars(EndPut("upper") /\ UNCHANGED coordinator)

\* The engine relies on the answers of one request being over before the next
\* is written (onSetSendStatus): it is right to if the coordinator is punctual.
PunctualAnswerMeansLast == coordinator = "punctual" => AnswerMeansLast

\* However the answers come, a command goes to the radio a limited number of
\* times (onAddDelayReSend).
RadioLoad ==
  IF coordinator = "punctual" THEN RadioLoadBounded ELSE Late!RadioLoadBounded
=============================================================================
