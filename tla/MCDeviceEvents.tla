--------------------------- MODULE MCDeviceEvents ---------------------------
(* A device with a screen, whose events the handler of a timer goes through *)
(* (mfAllowToJoinCB); the timers of TimerService stand still.  In three     *)
(* settings: two endpoints whose icons never come back, and whatever the    *)
(* radio loses; one endpoint whose icon may come back, and of which only    *)
(* writes get lost; one with a name, on a device that may join again.       *)
EXTENDS MCTimerService

CONSTANTS
  SubCount, Kind, Fresh, Losable, WriteDelay, Busy, \* of DeviceEvents
  MaxChanges, MaxLosses, MaxOutages, MaxAnnounces

VARIABLES
  screen, \* which of the three
  want, saved, dev, line, events, endPoint, pc, ix, sub, setter, parse, air, replies,
  changes, losses, outages, announces

Icons == INSTANCE DeviceEvents
Icon == INSTANCE DeviceEvents WITH
  SubCount <- 1, Fresh <- FALSE, Losable <- {"write"}, WriteDelay <- 2
Name == INSTANCE DeviceEvents WITH
  SubCount <- 1, Kind <- "name", MaxChanges <- 1, MaxLosses <- 0, MaxOutages <- 1, MaxAnnounces <- 1

ASSUME EventsAssumption == Icons!DeviceEventsAssumption

MCVars ==
  <<want, saved, dev, line, events, endPoint, pc, ix, sub, setter, parse, air, replies,
    changes, losses, outages, announces, screen, vars>>

MCInit ==
  /\ Init
  /\ \/ screen = "icons" /\ Icons!Init
     \/ screen = "icon" /\ Icon!Init
     \/ screen = "name" /\ Name!Init

MCNext ==
  /\ \/ screen = "icons" /\ Icons!Next
     \/ screen = "icon" /\ Icon!Next
     \/ screen = "name" /\ Name!Next
  /\ UNCHANGED <<screen, vars>>

One(icon, name) ==
  /\ \/ screen = "icon" /\ icon
     \/ screen = "name" /\ name
  /\ UNCHANGED <<screen, vars>>

\* FairSpec of DeviceEvents, for the two screens of one endpoint.
MCFairSpec ==
  /\ MCInit /\ [][MCNext]_MCVars
  /\ WF_MCVars(One(Icon!TimerThread, Name!TimerThread)) /\ WF_MCVars(One(Icon!Set, Name!Set))
  /\ WF_MCVars(One(FALSE, Name!Store))
  /\ SF_MCVars(One(Icon!Second(TRUE), Name!Second(TRUE)))
  /\ WF_MCVars(One(Icon!Serve(1), Name!Serve(1)))
  /\ SF_MCVars(One(Icon!Report(1), Name!Report(1)))

\* BelievedIsReal, for the icons that never come back (pSetSysUserIcon); types are
\* right everywhere.
IconsBelieved ==
  CASE screen = "icons" -> Icons!BelievedIsReal
    [] screen = "icon" -> Icon!TypeOK
    [] screen = "name" -> Name!TypeOK

\* ListedOnce of DeviceEvents, on all screens (onAddDevEventInfo).
EventsListedOnce ==
  CASE screen = "icons" -> Icons!ListedOnce
    [] screen = "icon" -> Icon!ListedOnce
    [] screen = "name" -> Name!ListedOnce

\* FinallyInStep, for the icon that may come back, and FinallyQuiet, for the
\* name (mfAllowToJoinCB).
ScreensSettle ==
  /\ screen = "icon" => Icon!FinallyInStep
  /\ screen = "name" => Name!FinallyQuiet
=============================================================================
