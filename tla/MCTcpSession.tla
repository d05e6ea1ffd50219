---------------------------- MODULE MCTcpSession ----------------------------
(* A behaviour has one of two servers: one that answers everything in time, *)
(* with two reports to it; or one that may fall silent, answer late or      *)
(* close, with sends that fail, a single report, and one repetition less.   *)
EXTENDS TcpSession

VARIABLE server

Poor == INSTANCE TcpSession WITH
  Prompt <- FALSE, SendFaults <- {"failed", "zero"},
  Report <- {CHOOSE n \in Report : TRUE}, SendCount <- 2, ResendDelay <- 1

MCVars == <<vars, server>>

MCInit == Init /\ server \in {"prompt", "poor"}

MCNext ==
  /\ \/ server = "prompt" /\ Next
     \/ server = "poor" /\ Poor!Next
  /\ UNCHANGED server

Step(A) == server = "poor" /\ A /\ UNCHANGED server

\* FairSpec of TcpSession with the poor server; nothing is asked of the other.
MCFairSpec ==
  /\ MCInit /\ [][MCNext]_MCVars
  /\ WF_MCVars(Step(Poor!NetStep))
  /\ SF_MCVars(Step(Poor!RepeatCheck)) /\ SF_MCVars(Step(Poor!Heartbeat))
  /\ WF_MCVars(Step(Poor!Enlist("timer"))) /\ WF_MCVars(Step(Poor!Enlist("app")))

\* A server that answers in time is never given up (mfTcpCheckRepeatSendCB).
PromptServer == server = "prompt" => PromptServerKept

\* Whatever the server does, nothing stays on the repeat list
\* (mfTcpCheckRepeatSendCB).
PoorCommandSettled == server = "poor" => EveryCommandSettled

\* And a logged-in session with a server that has fallen silent is ended
\* (mfTcpHeartbeatCMDCB).
PoorServerDetected == server = "poor" => DeadServerDetected
=============================================================================
