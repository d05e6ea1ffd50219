---------------------------- MODULE DeviceEvents ----------------------------
(***************************************************************************)
(* Keeping the names and icons on a device's screen up to date.  The cloud *)
(* changes the name of an endpoint and lists an event for it (onSetName,   *)
(* onAddDevEventInfo); once a second the timer thread goes through the     *)
(* events, writes what differs from the copy the device last reported and  *)
(* reads it back (mfAllowToJoinCB); the serial thread takes the reports,   *)
(* and the heartbeat compares each endpoint again in turn.                 *)
(*                                                                         *)
(* One device of this gateway.  Each list operation is one step, although  *)
(* a found event is changed in a step of its own.  The radio keeps the     *)
(* order of what is sent to an endpoint (SerialSend shows when it does     *)
(* not).  Of the heartbeat only the comparison is kept; colours are handled*)
(* like icons.                                                             *)
(***************************************************************************)
EXTENDS Integers, FiniteSets, Sequences, SequencesExt

CONSTANTS
  SubCount,   \* endpoints 1 .. SubCount of the device
  Kind,       \* "name" or "icon"
  Fresh,      \* is each value set for the first time?
  Losable,    \* what the radio may lose: "write", "report"
  WriteDelay, \* seconds until an event is looked at again after a write
  Busy,       \* no event is handled when this many commands are queued
  MaxChanges, MaxLosses, MaxOutages, MaxAnnounces \* bounds

DeviceEventsAssumption ==
  /\ SubCount \in Nat \ {0} /\ Kind \in {"name", "icon"} /\ Fresh \in BOOLEAN
  /\ Losable \subseteq {"write", "report"}
  /\ {WriteDelay, Busy, MaxChanges, MaxLosses, MaxOutages, MaxAnnounces} \subseteq Nat

VARIABLES
  want,      \* name or iconID of each endpoint
  saved,     \* saveName or saveIconID: what the device is believed to hold
  dev,       \* what the device holds
  line,      \* onLineFlag.bits.status
  events,    \* devEventList
  endPoint,  \* lastCheckEndPoint: where the heartbeat continues
  pc, ix, sub, \* the timer thread: its place in the list and among the endpoints
  setter,    \* the network thread: what it does, to which endpoint, the event found
  parse,     \* the endpoint whose reported name was found equal, or 0
  air,       \* what is on its way to each endpoint
  replies,   \* what is on its way back
  changes, losses, outages, announces

Sub == 1 .. SubCount
Blank == -1 \* the name of a device that has none
Value == Blank .. MaxChanges + 1
Read == -2
timer == <<pc, ix, sub>>
radio == <<air, replies>>
bounds == <<changes, losses, outages, announces>>
vars == <<want, saved, dev, line, events, endPoint, timer, setter, parse, radio, bounds>>

Init ==
  /\ want = [s \in Sub |-> 0] /\ saved = want /\ dev = want
  /\ line = TRUE /\ events = <<>> /\ endPoint = 0
  /\ pc = "rest" /\ ix = 1 /\ sub = 0
  /\ setter = [pc |-> "rest", sub |-> 1, at |-> 0] /\ parse = 0
  /\ air = [s \in Sub |-> <<>>] /\ replies = air
  /\ changes = 0 /\ losses = 0 /\ outages = 0 /\ announces = 0

-----------------------------------------------------------------------------
(* The list of events                                                      *)

\* The first event of a kind, 0 if there is none.
Found(list, flag) == SelectInSeq(list, LAMBDA e : e.flag = flag)

\* An event that was found gets more endpoints, and is due at once.
Marked(list, k, subs) == [list EXCEPT ![k].subs = @ \cup subs, ![k].delay = 0]
New(flag, subs) == [flag |-> flag, subs |-> subs, delay |-> 0]

\* Mutant: an event that is listed already is not looked for.
AddAgain(list, flag, subs) == Append(list, New(flag, subs))

\* Called for each of the endpoints.
onAddDevEventInfo(list, flag, subs) ==
  IF Found(list, flag) = 0 THEN Append(list, New(flag, subs))
  ELSE Marked(list, Found(list, flag), subs)

\* An event whose last endpoint is cleared becomes Event_INIT.
onClearDevEventInfo(list, flag, s) ==
  LET k == Found(list, flag) IN
    IF k = 0 THEN list
    ELSE [list EXCEPT ![k].subs = @ \ {s},
                      ![k].flag = IF list[k].subs \subseteq {s} THEN "none" ELSE @]

-----------------------------------------------------------------------------
(* The network thread: a value changes, its event is searched and marked   *)

Change(s) ==
  /\ setter.pc = "rest" /\ changes < MaxChanges /\ changes' = changes + 1
  /\ \E v \in IF Fresh THEN {changes + 1} ELSE {0, 1} \ {want[s]} : want' = [want EXCEPT ![s] = v]
  /\ setter' = [pc |-> "search", sub |-> s, at |-> 0]
  /\ UNCHANGED <<saved, dev, line, events, endPoint, timer, parse, radio, losses, outages, announces>>

Search ==
  /\ setter.pc = "search"
  /\ setter' = [setter EXCEPT !.pc = "mark", !.at = Found(events, Kind)]
  /\ UNCHANGED <<want, saved, dev, line, events, endPoint, timer, parse, radio, bounds>>

\* The event that was found may have been removed since: then the mark is lost.
Gone == -1
Mark ==
  /\ setter.pc = "mark"
  /\ events' = IF setter.at = 0 THEN Append(events, New(Kind, {setter.sub}))
               ELSE IF setter.at = Gone THEN events
               ELSE Marked(events, setter.at, {setter.sub})
  /\ setter' = [setter EXCEPT !.pc = "rest", !.at = 0]
  /\ UNCHANGED <<want, saved, dev, line, endPoint, timer, parse, radio, bounds>>

-----------------------------------------------------------------------------
(* The timer thread                                                        *)

SendCount == Len(FlattenSeq(air))

\* One second has passed; the scheduler of the online status may ask for a
\* heartbeat.  The events are left alone while the radio is busy.
Second(heartbeat) ==
  /\ pc = "rest"
  /\ events' = IF heartbeat THEN onAddDevEventInfo(events, "heart", {1}) ELSE events
  /\ events' # <<>>
  /\ pc' = IF SendCount < Busy THEN "walk" ELSE "rest"
  /\ UNCHANGED <<want, saved, dev, line, endPoint, ix, sub, setter, parse, radio, bounds>>

\* onCheckDelayTime
Waited(k) == IF events[k].delay > 0 THEN events[k].delay - 1 ELSE 0
Counted == [events EXCEPT ![ix].delay = Waited(ix)]
AtEvent == pc = "walk" /\ sub = 0 /\ ix <= Len(events)
DueEvent == AtEvent /\ Waited(ix) = 0

\* Mutant: the heartbeat compares nothing.
NeverDiffers(s) == FALSE
\* The endpoint whose turn it is differs from what the device reported.
Differs(s) == want[s] # saved[s]

Heartbeat ==
  /\ DueEvent /\ events[ix].flag = "heart"
  /\ events' = onClearDevEventInfo(IF endPoint # 0 /\ line /\ Differs(endPoint)
                                     THEN onAddDevEventInfo(Counted, Kind, {endPoint}) ELSE Counted,
                                   "heart", 1)
  /\ endPoint' = (endPoint + 1) % (SubCount + 1)
  /\ ix' = ix + 1
  /\ UNCHANGED <<want, saved, dev, line, pc, sub, setter, parse, radio, bounds>>

\* The list closes up; the network thread may hold the event, or a later one.
Moved(at) == IF at = ix THEN Gone ELSE IF at > ix THEN at - 1 ELSE at
Discard ==
  /\ DueEvent /\ events[ix].flag = "none" /\ SendCount < Busy
  /\ events' = RemoveAt(events, ix)
  /\ setter' = [setter EXCEPT !.at = Moved(@)]
  /\ UNCHANGED <<want, saved, dev, line, endPoint, timer, parse, radio, bounds>>

Enter ==
  /\ DueEvent /\ events[ix].flag = Kind /\ SendCount < Busy /\ line
  /\ events' = Counted /\ sub' = 1
  /\ UNCHANGED <<want, saved, dev, line, endPoint, pc, ix, setter, parse, radio, bounds>>

\* Not due, or the radio is busy, or the device is not online.
Pass ==
  /\ AtEvent
  /\ \/ ~DueEvent
     \/ events[ix].flag # "heart" /\ SendCount >= Busy
     \/ events[ix].flag = Kind /\ ~line
  /\ events' = Counted /\ ix' = ix + 1
  /\ UNCHANGED <<want, saved, dev, line, endPoint, pc, sub, setter, parse, radio, bounds>>

AtSub == pc = "walk" /\ sub \in Sub

\* The value is written, and read back a second later.
WriteAndRead(s) == air[s] \o <<want[s], Read>>

Write ==
  /\ AtSub /\ sub \in events[ix].subs /\ want[sub] # saved[sub]
  /\ events' = [events EXCEPT ![ix].delay = WriteDelay]
  /\ air' = [air EXCEPT ![sub] = WriteAndRead(sub)]
  /\ sub' = sub + 1
  /\ UNCHANGED <<want, saved, dev, line, endPoint, pc, ix, setter, parse, replies, bounds>>

\* "The names are the same already": the event is cleared next.
Same ==
  /\ AtSub /\ sub \in events[ix].subs /\ want[sub] = saved[sub]
  /\ pc' = "clear"
  /\ UNCHANGED <<want, saved, dev, line, events, endPoint, ix, sub, setter, parse, radio, bounds>>

Clear ==
  /\ pc = "clear" /\ pc' = "walk" /\ sub' = sub + 1
  /\ events' = onClearDevEventInfo(events, Kind, sub)
  /\ UNCHANGED <<want, saved, dev, line, endPoint, ix, setter, parse, radio, bounds>>

NextSub ==
  /\ AtSub /\ sub \notin events[ix].subs /\ sub' = sub + 1
  /\ UNCHANGED <<want, saved, dev, line, events, endPoint, pc, ix, setter, parse, radio, bounds>>

NextEvent ==
  /\ pc = "walk" /\ sub > SubCount /\ sub' = 0 /\ ix' = ix + 1
  /\ UNCHANGED <<want, saved, dev, line, events, endPoint, pc, setter, parse, radio, bounds>>

Rest ==
  /\ pc = "walk" /\ sub = 0 /\ ix > Len(events)
  /\ pc' = "rest" /\ ix' = 1
  /\ UNCHANGED <<want, saved, dev, line, events, endPoint, sub, setter, parse, radio, bounds>>

-----------------------------------------------------------------------------
(* The device and the serial thread                                        *)

\* The port has delivered a report when the next one comes.
Serve(s) ==
  /\ air[s] # <<>> /\ (Head(air[s]) = Read => replies[s] = <<>>)
  /\ air' = [air EXCEPT ![s] = Tail(@)]
  /\ IF Head(air[s]) = Read
       THEN replies' = [replies EXCEPT ![s] = Append(@, dev[s])] /\ UNCHANGED dev
       ELSE dev' = [dev EXCEPT ![s] = Head(air[s])] /\ UNCHANGED replies
  /\ UNCHANGED <<want, saved, line, events, endPoint, timer, setter, parse, bounds>>

\* A command or an answer is given up after its last repetition.
LoseCommand(s) ==
  /\ air[s] # <<>> /\ (IF Head(air[s]) = Read THEN "report" ELSE "write") \in Losable
  /\ losses < MaxLosses /\ losses' = losses + 1
  /\ air' = [air EXCEPT ![s] = Tail(@)]
  /\ UNCHANGED <<want, saved, dev, line, events, endPoint, timer, setter, parse, replies, changes, outages, announces>>

LoseReport(s) ==
  /\ replies[s] # <<>> /\ "report" \in Losable
  /\ losses < MaxLosses /\ losses' = losses + 1
  /\ replies' = [replies EXCEPT ![s] = Tail(@)]
  /\ UNCHANGED <<want, saved, dev, line, events, endPoint, timer, setter, parse, air, changes, outages, announces>>

\* Mutant: the icon that is wanted is stored.
AsWanted(s) == want[s]
AsReported(s) == Head(replies[s])

\* An icon is stored as reported.  A name is compared with the one that is
\* wanted; if they are equal the wanted one is stored, in a step of its own.
Report(s) ==
  /\ parse = 0 /\ replies[s] # <<>>
  /\ replies' = [replies EXCEPT ![s] = Tail(@)]
  /\ IF Kind = "icon" THEN saved' = [saved EXCEPT ![s] = AsReported(s)] /\ UNCHANGED parse
     ELSE parse' = (IF AsReported(s) = want[s] THEN s ELSE 0) /\ UNCHANGED saved
  /\ UNCHANGED <<want, dev, line, events, endPoint, timer, setter, air, bounds>>

Store ==
  /\ parse # 0 /\ parse' = 0
  /\ saved' = [saved EXCEPT ![parse] = want[parse]]
  /\ UNCHANGED <<want, dev, line, events, endPoint, timer, setter, radio, bounds>>

AllListed == onAddDevEventInfo(events, Kind, Sub)

\* The device goes off line, and comes back; every endpoint is looked at then,
\* if there is a session with the cloud.
Offline ==
  /\ line /\ outages < MaxOutages /\ outages' = outages + 1 /\ line' = FALSE
  /\ UNCHANGED <<want, saved, dev, events, endPoint, timer, setter, parse, radio, changes, losses, announces>>

Online ==
  /\ ~line /\ parse = 0 /\ line' = TRUE
  /\ events' \in {events, AllListed}
  /\ UNCHANGED <<want, saved, dev, endPoint, timer, setter, parse, radio, bounds>>

\* The device joins again, perhaps reset: onResetDeviceDBInfo forgets its names.
Announce ==
  /\ Kind = "name" /\ parse = 0
  /\ announces < MaxAnnounces /\ announces' = announces + 1
  /\ dev' \in {dev, [s \in Sub |-> Blank]}
  /\ saved' = [s \in Sub |-> Blank] /\ events' = AllListed
  /\ UNCHANGED <<want, line, endPoint, timer, setter, parse, radio, changes, losses, outages>>

-----------------------------------------------------------------------------
TimerThread ==
  \/ Heartbeat \/ Discard \/ Enter \/ Pass \/ Write \/ Same \/ Clear
  \/ NextSub \/ NextEvent \/ Rest
Set == Search \/ Mark
Next ==
  \/ TimerThread \/ Set \/ Store \/ Offline \/ Online \/ Announce
  \/ \E h \in BOOLEAN : Second(h)
  \/ \E s \in Sub : Change(s) \/ Serve(s) \/ LoseCommand(s) \/ LoseReport(s) \/ Report(s)

Spec == Init /\ [][Next]_vars

\* The threads run, the radio serves what is queued, and the scheduler asks for
\* a heartbeat of the device again and again.
FairSpec ==
  /\ Spec /\ WF_vars(TimerThread) /\ WF_vars(Set) /\ WF_vars(Store)
  /\ SF_vars(Second(TRUE))
  /\ \A s \in Sub : WF_vars(Serve(s)) /\ SF_vars(Report(s))

(* Properties                                                              *)

TypeOK ==
  /\ {want, saved, dev} \subseteq [Sub -> Value] /\ line \in BOOLEAN
  /\ \A k \in DOMAIN events :
       events[k].flag \in {Kind, "heart", "none"} /\ events[k].subs \subseteq Sub
         /\ events[k].delay \in 0 .. WriteDelay
  /\ endPoint \in 0 .. SubCount /\ parse \in 0 .. SubCount
  /\ pc \in {"rest", "walk", "clear"} /\ sub \in 0 .. SubCount + 1
  /\ ix \in 1 .. Len(events) + 1 /\ (sub # 0 => ix \in DOMAIN events)
  /\ setter.pc \in {"rest", "search", "mark"} /\ setter.sub \in Sub
  /\ setter.at \in {Gone} \cup 0 .. Len(events)

\* What is asked for again is not listed again (onAddDevEventInfo): the list has
\* a heartbeat once; only two threads that search at the same time list an event
\* twice, and it is never listed more often.
Listed(flag) == Cardinality({k \in DOMAIN events : events[k].flag = flag})
ListedOnce == Listed("heart") <= 1 /\ Listed(Kind) <= 2

\* Types are right; and while no icon comes back, one that is believed to be on
\* the device is there, whatever is lost (pSetSysUserIcon, saveIconID).
BelievedIsReal ==
  /\ TypeOK
  /\ \A s \in Sub : saved[s] = want[s] => dev[s] = want[s]

\* When the device stays on line, it finally has what is wanted, although
\* events get lost between the threads and writes on the radio.
InStep == \A s \in Sub : dev[s] = want[s]
FinallyInStep == <>[]line => <>[]InStep

\* When the device stays on line, the gateway finally has nothing to write and
\* no event to look at.
FinallyQuiet ==
  <>[]line => <>[](Listed(Kind) = 0 /\ \A s \in Sub : saved[s] = want[s])
=============================================================================
