------------------------------ MODULE MCCloud -------------------------------
(* What the gateway and the cloud agree on: the status of the devices of    *)
(* one house, or the lists of another, which are downloaded.                *)
EXTENDS OnlineStatus

CONSTANTS MaxChanges, MaxEnded, MaxFailed

VARIABLES
  side, \* which of the two
  want, loading, family, lists, session, pc, saved, server, member, asks, told,
  missed, torn, changes, ended, failed \* of DownloadSync

Sync == INSTANCE DownloadSync WITH
  MaxBreaks <- MaxEnded, MaxFaults <- MaxFailed,
  up <- asks, down <- told, breaks <- ended, faults <- failed

ASSUME ListsAssumption == Sync!SyncAssumption

downloads == <<want, loading, family, lists, session, pc, saved, server, member, asks, told,
               missed, torn, changes, ended, failed>>
MCVars == <<vars, downloads, side>>

\* What does not take part stands still.
NoDevices ==
  /\ Init /\ alive = {}
  /\ \A d \in Device : ~status[d] /\ ~save[d] /\ ~cloud[d]
NoLists == Sync!Init /\ ~member

MCInit ==
  \/ side = "devices" /\ Init /\ NoLists
  \/ side = "lists" /\ Sync!Init /\ NoDevices

Turned(A) == side = "devices" /\ A /\ UNCHANGED <<downloads, side>>
Step(A) == side = "lists" /\ A /\ UNCHANGED <<vars, side>>
MCNext == Turned(Next) \/ Step(Sync!Next)

\* FairSpec of DownloadSync; nothing is asked of the other house.
MCFairSpec ==
  /\ MCInit /\ [][MCNext]_MCVars
  /\ WF_MCVars(Step(Sync!Login)) /\ WF_MCVars(Step(Sync!Timer))
  /\ WF_MCVars(Step(Sync!Receive)) /\ WF_MCVars(Step(Sync!Answer))

DevicesInit == MCInit /\ side = "devices"

\* FairSpec of OnlineStatus, of the devices alone.
DevicesFairSpec ==
  /\ DevicesInit /\ [][MCNext]_MCVars
  /\ WF_MCVars(Turned(Tick)) /\ WF_MCVars(Turned(Noted)) /\ WF_MCVars(Turned(Connect))
  /\ \A d \in Device :
       /\ WF_MCVars(Turned(Serial(d))) /\ WF_MCVars(Turned(Network(d)))
       /\ WF_MCVars(Turned(Serve(d)))

\* RestMeansFresh of DownloadSync: nothing is lost of what is downloaded
\* (onGetCMDGetDeviceRes).
RestMeansFresh == Sync!RestMeansFresh

\* FinallyFresh of DownloadSync: the lists become the cloud's, for good
\* (mfTcpCheckRepeatSendCB, onGetCMDGetDeviceRes).
ListsFinallyFresh == side = "lists" => Sync!FinallyFresh
=============================================================================
