---------------------------- MODULE MCCoordinator ---------------------------
(* Three gateways and their networks: one with one chip, for what is never  *)
(* wrong; one with two chips, of which a start may fail; one with a chip    *)
(* that is restarted at any point, while messages and commands get lost.    *)
(* And a gateway with two chips that get a new firmware.                    *)
EXTENDS Coordinator

CONSTANTS LoadChip, Blocks, Tries, AnswerTime, GiveUpTime, MayBreak, MaxFaults

VARIABLES
  gateway,
  pc, tries, step, index, pos, progress, timeUp, timer, waited, got, image,
  commands, answers, broken, spoilt, faults \* of FirmwareLoad

Load == INSTANCE FirmwareLoad WITH Chip <- LoadChip

ASSUME LoadAssumption == Load!FirmwareAssumption

Two == INSTANCE Coordinator WITH
  Chips <- <<"master", "slave">>, Family <- {1}, Changes <- 1
Shaky == INSTANCE Coordinator WITH
  Family <- {1}, Faults <- 1, Fails <- 0, Restarts <- 1

ASSUME NetworkAssumption == Two!CoordinatorAssumption /\ Shaky!CoordinatorAssumption

MCChips == <<"master">>
load == <<pc, tries, step, index, pos, progress, timeUp, timer, waited, got, image,
          commands, answers, broken, spoilt, faults>>
MCVars == <<vars, load, gateway>>

\* What does not take part stands still.
NoLoad == Load!Init /\ broken = {}
NoNetwork == Init /\ cloud = 0 /\ \A c \in Chip : radio[c] = "init"

MCInit ==
  \/ gateway = "one" /\ Init /\ NoLoad
  \/ gateway = "two" /\ Two!Init /\ NoLoad
  \/ gateway = "shaky" /\ Shaky!Init /\ NoLoad
  \/ gateway = "load" /\ Load!Init /\ NoNetwork

MCNext ==
  /\ \/ gateway = "one" /\ Next /\ UNCHANGED load
     \/ gateway = "two" /\ Two!Next /\ UNCHANGED load
     \/ gateway = "shaky" /\ Shaky!Next /\ UNCHANGED load
     \/ gateway = "load" /\ Load!Next /\ UNCHANGED vars
  /\ UNCHANGED gateway

Of(two, shaky, loading) ==
  /\ \/ gateway = "two" /\ two /\ UNCHANGED load
     \/ gateway = "shaky" /\ shaky /\ UNCHANGED load
     \/ gateway = "load" /\ loading /\ UNCHANGED vars
  /\ UNCHANGED gateway

\* FairSpec of Coordinator, for the second and the third gateway, and FairSpec
\* of FirmwareLoad.
MCFairSpec ==
  /\ MCInit /\ [][MCNext]_MCVars
  /\ WF_MCVars(Of(Two!NetThread, Shaky!NetThread, Load!Thread))
  /\ WF_MCVars(Of(Two!Tick, Shaky!Tick, Load!Tick))
  /\ WF_MCVars(Of(Two!Answer, Shaky!Answer, FALSE))
  /\ \A c \in LoadChip :
       WF_MCVars(gateway = "load" /\ Load!Serve(c) /\ UNCHANGED <<vars, gateway>>)
  /\ \A c \in Two!Chip :
       LET shaky == c \in Shaky!Chip IN
         /\ WF_MCVars(Of(Two!SerialThread(c), shaky /\ Shaky!SerialThread(c), FALSE))
         /\ WF_MCVars(Of(Two!ChipDoes(c), shaky /\ Shaky!ChipDoes(c), FALSE))
         /\ WF_MCVars(Of(Two!Form(c) \/ Two!Fail(c),
                         shaky /\ (Shaky!Form(c) \/ Shaky!Fail(c)), FALSE))

\* NetworkOfItsFamily for every gateway of which nothing gets lost
\* (onStartNewNetWork); types are right everywhere.
NewNetworks ==
  CASE gateway = "one" -> NetworkOfItsFamily
    [] gateway = "two" -> Two!NetworkOfItsFamily
    [] gateway = "shaky" -> Shaky!TypeOK
    [] gateway = "load" -> TRUE

\* WholeUnlessSpoilt, for the chips that get a new firmware (mfZnpDownLoadThread).
WholeFirmware == gateway = "load" => Load!WholeUnlessSpoilt

\* FinallyNetwork, whatever fails, gets lost or is restarted (onZDOProces); and
\* FinallyDone, as a load that is done stays done (mfZnpDownLoadThread).
AllEndsWell ==
  <>[]CASE gateway = "one" -> TRUE
         [] gateway = "two" -> Two!AsTheCloudSays
         [] gateway = "shaky" -> Shaky!AsTheCloudSays
         [] gateway = "load" -> pc = "done"
=============================================================================
