--------------------------- MODULE MCTimerService ---------------------------
(* A repeating timer that quits (PIR), a repeating one and a one-shot; a    *)
(* second of three ticks.                                                   *)
EXTENDS TimerService, TLC

CONSTANTS pir, heart, once
MCPeriod == (pir :> 2) @@ (heart :> 3) @@ (once :> 4)
=============================================================================
