# Verification of the Fithome gateway

The repository holds a smart-home product: an Android application
(`src/app`), and the gateway (`src/gateway`), an Android service whose work is
done by a native library in C++ (`src/gateway/src/main/cpp`). The gateway
drives one or two Zigbee coordinators over serial ports, talks to a cloud
server over TCP, keeps its devices in a local database and carries out scenes.
The C++ code has no tests. Several threads share almost all of its state and
almost none of it is locked, so this project models the native library, and of
it the parts in which threads, lost answers and time-outs meet.

## 1. Inventory

### Threads

| thread | code | what it touches |
|---|---|---|
| serial | `SerialPortBase.cpp` `mfSerialPortThead` | every 5 ms: receive from, then send to, each coordinator; every 100 ms the scenes being carried out |
| network | `NetWorkBase.cpp` `mfTCPNetWorkThread` | the session with the cloud, and every command the cloud sends |
| timer | `PublicTimer.cpp` `mfTimerThead` | every 100 ms the timers that are due: the repeat check, the heartbeat, `mfAllowToJoinCB` (1 s) and others |
| firmware | `cc2538ZNPDownLoad.cpp` `mfZnpDownLoadThread` | while it loads a new firmware the serial thread stands still |
| JNI | `WinobleMain.cpp` | calls of the Java side, and one thread that notifies it |
| others | robot docking (UDP), HTTP downloads | |

### Components

For each: its state; its operations; with whom it interacts; what is hard; what makes it correct.

**Zigbee transmit engine** (`SerialDrive.cpp`, `SerialProces.cpp`). State:
`pCMDSendList`, `pDelaySendList`, `pLastSendCMD` with its `retStatus`,
`delayTime` and `repeatCount`, `isError`, `getSrcEntryTime`. Operations:
`onWriteCMD` (any thread), `onCheckSendCMD` and `onSetSendStatus` (serial
thread), `onAddDelayReSend`. It calls the linked list, asks the device list
whether a device is online and marks devices for a route check. Hard: two
threads queue; answers have no sequence number and may be late or lost; each
failure re-queues. Correct when every command leaves the engine, none is
cancelled without a successor, the radio load is bounded and an answer counts
for the command it belongs to.

**Lists** (`ArrayList.cpp`). `TypeLinkedList`, the transmit queue: `add`, `get`
and `onDeleteSame` under a mutex, `onGetCount` without. `TypeArrayList`, which
everything else uses, unlocked: an array that grows and shrinks. Hard: the
unlocked count, `pTail` that is stale after `get`, the two sizes of the array.
Correct when the one is a FIFO and the other a list.

**Frame parsers** (`onReviceData` for the serial port, the loop in
`NetStatusRec` for TCP), byte by byte, with state kept from call to call.
Correct when every well-formed frame is delivered once, after any noise and
however the stream is cut.

**Cloud session** (`NetWorkBase.cpp`, login and acknowledgement in
`NetWorkCMDParsing.cpp`). State: `mNet_TCP_Status`, `mTCPClientfd`,
`mTcpCMDRepeatSendList`, the timers of the repeat check and the heartbeat.
Hard: the list is not locked, acknowledgements race with the enlisting and with
the repetition; every thread may write the status. Correct when a session
starts from nothing, a prompt server is kept, a dead one is detected and no
command stays listed for ever.

**Received commands** (`onTcpCheckSeqNo`, ageing in `mfTcpCheckRepeatSendCB`):
numbers already seen; the network thread searches them while the timer thread
removes aged ones. Correct when a repeated command is not carried out twice
within its window, and none is acknowledged and left out.

**Download synchronisation and device list** (`DeviceList.cpp`,
`NetWorkCMD.cpp`): `mDownLoadFlag`, `mDownLoadingFlag`, the device, room and
scene lists. The flags are set by the network thread and moved by the timer
thread, unlocked. Correct when the lists at rest are those of the cloud.

**Online status** (`mfAllowToJoinCB`, `onSetHeartOK`,
`onUpdateOnOffLineRequest`): per device `status`, `saveStatus`, `delayTime`,
`saveCheckTime`, changed by three threads. Correct when gateway and cloud
finally agree on who is online, and nobody is given up too early.

**Timer service** (`PublicTimer.cpp`): a list of timers, changed by its own
handlers and other threads while it is walked. Correct when every timer is
called, none early and no one-shot twice.

**Scene executor** (`mfSerialPortThead`, `onSetSceneStatus`): scenes under way
with the actions they have left; actions turn other scenes, in the list that is
being walked. Correct when each action is carried out once and a scene ends as
it was last turned.

**Device events** (`DataBase.cpp`, second half of `mfAllowToJoinCB`): operations
listed until a device confirms them. Correct when what is believed to be on a
device is there, and the device finally has what is wanted.

**Coordinator and network management** (`SerialProces.cpp`,
`mfZigbeeUpdateNetWork`): networks of the chips follow the family of the
gateway, with delayed commands and status checks. Correct when a gateway with a
family finally runs networks of that family, one without none.
**Firmware update** (`cc2538ZNPDownLoad.cpp`): correct when no chip is enabled
with a hole in its image and the load ends.

**Left aside**: command handlers (decode, store), HTTP login, robot docking,
RS485 profiles, SQL, ZCL codec, JNI entry points, the Android applications;
vendored and generated code (protobuf, sqlite, openssl, cJSON), which is most of
the lines of the repository.

## 2. Plan

In the order in which it was carried out, the most central behaviour first.

| module | models | abstract specification or composition | proved |
|---|---|---|---|
| `SerialSend` | transmit engine | takes the queue as a sequence, which `LinkedQueue` justifies | types, superseding, answers |
| `LinkedQueue` | `TypeLinkedList` | implements `SendQueue` | pointers, counter, refinement |
| `TcpSession` | cloud session | with server and network | types, fresh sessions, prompt server |
| `CommandReceive` | received commands | with a server that repeats | types, both properties |
| `DownloadSync` | download flags and lists | with the cloud's lists | lists at rest |
| `OnlineStatus` | count-down, polls, agreement with the cloud | with devices and cloud | same at rest, three rescues |
| `SerialFrame` | `onWriteData`, `onReviceData` | implements `FrameChannel` | |
| `TimerService` | timers | with the handlers and other threads | types, one-shots, none early |
| `SceneExecutor` | scenes | | types, both invariants |
| `DeviceEvents` | names and icons | with the device | listed once, icons believed |
| `Coordinator` | networks of the chips | with chips and cloud | types, no earlier network |
| `FirmwareLoad` | load of the chips | with their boot loaders | whole images |
| `ArrayList` | `TypeArrayList` | implements `ObjectList` | size, refinement |
| `TcpFrame` | parser of the cloud's commands | implements `ServerStream` | |

Left for later, in this order: what two threads do inside one `TypeArrayList`
(`SerialDrive.cpp:159` is where it bites first); mark and sweep of the device
list; the number generator `onGetSeqNo`; the end of the network thread and the
HTTP certification; the rest of the device events; joining and leaving of
devices. To prove: that `TcpFrame` implements `ServerStream`. `RadioLoadBounded`
of `SerialSend` needs a sum over the copies of a command, and so an induction
over sequences, which is out of the prover's reach.

## 3. Modules

### `SerialSend`

One module for one serial port. Two threads: `upper`, which folds the cloud,
timer and JNI threads into one writer, and `serial`. `onWriteCMD` is two steps,
`BeginPut` (`onDeleteSame`) and `EndPut` (`add`), with the command between the
two in `putting`. The serial thread's loop is `pc`: receive, scan the delay
list, check the command in flight. `SetSendStatusRes` and
`SetSendStatusConfirm` are `onSetSendStatus` for the two kinds of answers, one
disjunct per branch, in the code's order: the `0xE9` branch adds a copy and the
`else` branch after it another one. One pass of `onCheckSendCMD` is one tick.

The coordinator is outside: it answers each request with an SRSP, one it has
accepted later with a confirm, in any order, or not at all. `LateAnswers`
chooses whether it may answer after the engine's time-out. Histories: `issued`
and `writes`. Abstracted: payloads (a class is what `onIsSameCMD` compares),
the two ports (one at a time), the open port (`deviceHandle > 0`). Commands for
the coordinator itself never enter the queue and are left out.

### `LinkedQueue` and `SendQueue`, `ArrayList` and `ObjectList`

`LinkedQueue` is `TypeLinkedList` with one step per lock operation, cell
visited, pointer update and counter update, as `onWriteCMD` and
`onCheckSendCMD` call it. `get` frees its cell, and the allocator may give it
out again at once. `SendQueue` is what the callers rely on: append, take the
first, cancel a class in one step. The refinement mapping completes a running
`onDeleteSame`: cells still ahead of `tempLinkedInfo` count as cancelled.

`ArrayList` is `TypeArrayList` as one thread uses it: `ppData` with the places
behind the last object, `strLength` and `mallocSize`; `mChangeMem` copies the
objects into the new array. `clear` is several steps, since it removes the
objects one by one. `ObjectList` is the sequence its users see.

### `SerialFrame` and `FrameChannel`, `TcpFrame` and `ServerStream`

Both parsers are translated branch by branch, a byte a step. `SerialFrame` has
the width of `status` as a constant, so that its wrap-around is part of the
model, and a line that loses bytes and adds some. `FrameChannel` promises that
frames are delivered unchanged, once and in order. `TcpFrame` has the real field
widths (only numbers up to 2^24 are sent) and lets `recv` return any of
`RecvSizes` bytes; the session may end at any byte, by the peer or by another
thread, and the next one starts with what the parser still holds.
`ServerStream` promises what a session delivers.

### `TcpSession`

One action per state of `mNet_TCP_Status`, the half steps of `mfTCPCMDSend`
(`Transmit`, `Enlist`), the loop of the repeat check entry by entry, and the
server. `Judge` is the part of that loop after the send: it reads `sendCount`
through a pointer the network thread may have freed, so its decision is either
one when the entry is gone. `send` returning 0, which the code handles, is kept
as a fault although the kernel does not produce it for these buffers. Numbers
are reused once nothing carries them, which keeps the model finite.
Not in it: the thread's exit, the HTTP certification, name resolution.

### `CommandReceive`

The network thread acknowledges, then searches the list by index, one entry a
step, then carries out. The timer thread ages the list, one entry a step, and
removes from it. The server repeats what is not acknowledged. `recent` and
`done` are histories; `moved` says that an entry was removed during the search
under way, which is the one interleaving that lets a repetition through.
`MCCommandReceive` extends the MC module of `TcpSession`, whose sessions carry
the commands; what the end of a session does to them is in `CommandReceive` itself
(`Break`, `Reconnect`), so the variables of `TcpSession` stand still in its run.

### `DownloadSync`

`ReadFlags` and `WriteFlags` are the two halves of the turn of the timer thread
that moves bits from `mDownLoadFlag` to `mDownLoadingFlag`: what the network
thread sets between them is overwritten, noted in `torn`. `Receive` is every
message that touches flags or lists, one disjunct per kind. A list is the
number of its version; the server answers in order. The rows of the lists, and
so mark and sweep, are not in it, and neither is the race of two writes of one
word. `missed` notes a scene list that is not asked for again: the code clears
its bit when it asks.

`MCCloud` puts the lists beside the devices of `OnlineStatus`, since both are
what gateway and cloud have to agree on. The two share no variable: a behaviour
is one of the devices or one of the lists, and the other side stands still. The
run `online` has behaviours of devices only, with the fairness of `OnlineStatus`.

### `OnlineStatus`

`Tick` is one second of the second block of `mfAllowToJoinCB`; `Answer`,
`Speaks` and `Wakes` are the serial thread (`onSetHeartOK`,
`onZclFindDeviceInfo`); `Note`, `Noting` and `Compare` the network thread, in
two steps where it writes `status` and `saveStatus` together from values read
before. One gateway; a poll ends, with an answer or without, before the next
second. The devices are `1 .. N`, in the order of their list, of which those in
`Battery` sleep. `Base` and `Day` are scaled. `overtaken` marks a device whose answer
came in the middle of a turn of the timer thread, until it answers again.

### `TimerService`

The walk over the list (`Visit`, `RunHandler`) is a step per entry and one per
call, with the operations of handlers and other threads in between; each of
these is one step. Time is charged modulo a second, as the code computes it; an
adjustment of the wall clock is not modelled. `left`, `grace` and `owed` are
histories: the real time to go, the time already past when a timer was started,
and the calls a one-shot still owes.

### `SceneExecutor`

`onSetSceneStatus` refills an entry or adds one; the serial thread is `pc` with
its two indices, and runs an action and removes it in two steps, as it removes
it by address afterwards. Other threads turn, download and delete scenes in
between. List operations are single steps. A deletion is taken when none of the
scene's actions is left in its entry, because the code frees them. `mixed` marks a scene that
was turned off and on between one of its actions and the removal of that
action. Left out: what actions do to devices, keys bound to a scene, reports to
the cloud. Time saturates at `MaxTime`.

### `DeviceEvents`

Three threads: the timer thread walks the events and their endpoints, compares
`want` with `saved`, writes and reads back; the network thread changes `want`
and lists the event in two steps (found, then marked); the serial thread takes
reports. The radio keeps the order of an endpoint, and a read is answered after
the report before it; it may lose writes and reports. `saved` of a name is set
by a comparison with what was wanted (`parse`, then `Store`). A device that comes
back or joins again has the events of all endpoints listed, in a loop in the code
and in one step (`AllListed`) here. `ListedOnce` says that the list has a
heartbeat once and another event twice at most, which is what two threads that
search it at the same time can bring about.
`MCDeviceEvents` extends the MC module of `TimerService`, whose handlers
`mfAllowToJoinCB` is one of; the timers stand still in its run. Colours go like
icons and are left out; so are the events that repeat a status command and the
parameters of dimmers and RS485 devices.

### `Coordinator` and `FirmwareLoad`

`Coordinator`: the network thread treats the chips one after the other
(`mfZigbeeUpdateNetWork`), the timer asks them for their state, the serial
thread handles their answers (`onZDOProces`) and sends what is delayed. A chip
is a small automaton: initial, starting, failed, own or foreign network. Only
the order of the delays matters. A start ends before the next unit of time.
Settings written before a start, permissions to join, and reports are left out.

`FirmwareLoad`: one action per part of the loop of `mfZnpDownLoadThread`:
sending by `downLoadStatus`, receiving, the two seconds after which it starts
over (without rewinding the file), the five seconds after which it resets the
chips. A frame of the boot loader is one message, of which `onCMDProcess` may read
the first bytes only: every byte clears `isOK`, so the beginning of one more
answer undoes the one that was counted. A chip may refuse a block or
never answer a command; a message that is late counts as a fault. The time to give
up that was set before a file could not be opened is still running in the next
try, and may end it at once.

## 4. Runs

One run per component, and one for what gateway and cloud agree on. Where a
component has several questions that need different bounds, a variable that never
changes chooses the setting in the first state, and the other settings are
instances with other constants in the same MC module.

| run | question | settings and bounds |
|---|---|---|
| `serial` | can cancelling lose the last instance of a class; does an answer in time mean the command in flight; is the number of writes bounded; does every command leave the engine? | 2 commands of a class; `punctual`: 2 repetitions; `late`: 1 repetition, answers at any time |
| `serial_resends` (violation) | does `repeatCount = 3` mean three resends? | 1 command, 3 repetitions |
| `tcp_session` | does a session start fresh; is a prompt server kept; is every command settled and a silent server noticed? | `prompt`: 2 reports, 3 transmissions; `poor`: 1 report, 2 transmissions, failing sends |
| `lists` | pointers, counter, size; are they the lists their users expect? | `linked`: 2 threads, 4 cells, 2 classes; `array`: 2 objects, up to 7 places used |
| `frames` | do the parsers stay in step and deliver what was sent? | `quiet`: 3 frames, 2 on their way, 3-bit bytes; `noisy`: 2 frames, 3 disturbances; `tcp`: real bytes, 2 commands on their way, `recv` of 1 or up to 17 bytes |
| `timers` | is every timer called, none early, no one-shot twice? | 3 timers, a second of 3 ticks, stalls up to 4, 2 operations by others |
| `commands_received` | is every acknowledged command carried out, and once? | 3 commands (two with one number), 3 transmissions, 1 broken session, 3 ageing passes |
| `cloud` | are status and lists at rest the same in gateway and cloud; are the lists finally the cloud's? | `devices`: a mains and a sleeping device, 1 fault, 1 message under way; `lists`: 2 changes, 2 sessions that end, 1 failure |
| `online` | do cloud and gateway agree; are there three rescues; does the gateway finally know? | 1 device, 2 faults, 1 time it comes or goes, 1 break, 2 messages under way |
| `scenes` | each action once, scenes end as last turned, and leave by themselves? | 2 scenes that turn each other, 5 triggers, 2 downloads, 2 deletions |
| `devices` | is what is believed real; does the list of events stay short; is the device finally in step; does the gateway stop writing? | `icons`: 2 endpoints, 2 changes, 1 loss; `icon`: 1 endpoint whose icon comes back, 1 lost write; `name`: 1 endpoint, 1 outage, 1 new join |
| `coordinator` | no network of an earlier family; networks follow the cloud; no hole in an enabled image; does the load end? | `one`: 1 chip, 2 families, 2 changes, 1 failed start; `two`: 2 chips, 1 change, 1 failed start; `shaky`: 2 changes, 1 lost message, 1 restart; `load`: 2 chips, 3 blocks, 2 tries, 3 faults |

Why these bounds are enough. Two commands of one class and two threads are what
it takes for cancelling and adding to cross; two repetitions make a copy of a
copy. Four cells let the list be empty, of one cell (where `pTail` is stale), of
two, and longer, with a cell freed and handed out again; seven objects make an
array that starts with two places grow three times and shrink again. Bytes of
three bits make a length of 4 wrap the parser's index as 252 does in 8 bits; a
`recv` of 1 byte cuts everywhere, one of 17 returns the whole of a command and
the beginning of the next. Two changes with two broken sessions let a download be
given up whose answer still comes, and be overtaken; the failure shows that
what failed is asked for again. A device that sleeps keeps the early polls of the
others away, and a single one is always the next to be polled early; several
devices beside each other are left to the theorems, which are about any `N`. Three ageing passes are the least that tell a
fresh entry, an old one and a forgotten one apart. A base of three keeps the
three rescues apart. Two scenes that turn each other put an entry before and one
behind the one that is being walked. Three blocks let a load start over in the
middle of the file. Delays and periods are scaled: only their order matters.

`SerialSend` (punctual), `TcpSession`, `TimerService`, `Coordinator` and others
check for deadlock. Two runs do not, because the system may stop: `DownloadSync` (run `cloud`)
has nothing to do when the bounded changes are used up and the lists are there,
`SceneExecutor` when the time of the last entry has saturated or none is left.

### Fairness

The code's threads are loops that sleep a bounded time, so each gets weak
fairness; where one turn of a thread serves several duties that exclude each
other for a moment, as the timer thread's, the duty gets strong fairness.

| run | assumed | why |
|---|---|---|
| `serial` | the serial thread loops; an `onWriteCMD` under way returns; a punctual coordinator answers or its answer is lost in time | 5 ms loop; the two critical sections are short; nothing is assumed of the late one |
| `tcp_session` | the network thread (weak), repeat check and heartbeat (strong), a returned send is followed by its `add` | `recv` has a 5 s time-out; one turn of the timer thread serves every timer that is due. Server and network owe nothing |
| `frames` | the network thread reads | same |
| `timers` | time passes, the dispatcher runs | others owe nothing |
| `cloud` | of the lists: login, timer, network thread, the server answers | a session that ended is opened again for ever |
| `online` | threads run, polls end, login, the cloud answers | a poll is answered or its command given up (`EngineDrains`) |
| `scenes` | the serial thread runs | |
| `devices` | threads run, the radio serves what is queued; heartbeats and reports come again and again (strong) | `EngineDrains`; the scheduler of `OnlineStatus` lists heartbeats for ever. Losses are bounded, not excluded |
| `coordinator` | threads run, time passes, the cloud answers, a chip does what it is told and a start ends | the status check each 30 s repeats what got lost. Failed starts and restarts are not combined, see section 7 |

`DeadServerDetected` speaks of logged-in sessions without send faults: a
heartbeat whose `send` fails is dropped by the code and not repeated.

### Exceptions in properties

Some properties hold but for an interleaving that the model contains and the
property names. They are gaps of the code, kept visible instead of being
modelled away: `moved` (a removal during the search lets a repetition through),
`torn` (flags overwritten by the timer thread), `missed` (scenes not asked for
again), `overtaken` (an answer in the middle of a turn), `mixed` (a scene turned
off and on around the removal of an action), `altered` (a status that came with
a download), `spoilt` (a load that started over, or a refused block). So no
property covers these interleavings: the hazards at `NetWorkBase.cpp:600` (`moved`), `:537`
(`torn`) and `:548` (`missed`), `SerialPortBase.cpp:94` (`mixed`) and
`cc2538ZNPDownLoad.cpp:286` (`spoilt`) are listed with none. Of `overtaken`
(`SerialPortBase.cpp:469`) `FinallyKnown` says that such a device, if it works, is finally online again.

## 5. Proofs

Eight modules hold the theorems; each extends the module it is about, or the MC
module where a theorem is about the behaviours of a run.

`SerialSendProofs`: `TypeCorrect` (`TypeOK` is inductive, one step per action),
`NothingLostToSuperseding`, `AnswersMeanLast`. `SupersededHasSuccessor` alone is not inductive: a
thread between `onDeleteSame` and `add` is the successor of what it has
cancelled, and it must itself be live when it arrives. `SupersedeInv` adds that
(`PuttingLive`). `AnswerMeansLast` is inductive together with
`OneOutstanding`: two outstanding answers could both fit the command in flight,
and the first of them would end it.

`ListProofs`. Of the linked list the type, exclusion and chain invariants are
proved together (`PointersCorrect`), the counter from them
(`UnlockedCountIsSafe`), and the refinement from both (`ListImplementsQueue`):
every step of the list is a step of the queue or a stutter; the first step of
`onDeleteSame` is the abstract cancellation, its later steps stutter. Of the
array, `SizeRight` and `ArrayImplementsList`. That no more than the slack is
unused is not inductive: a size that is not a whole number of growths could
shrink below its objects, so `ArrayInv` adds that the size moves in steps
(`InSteps`). The refinement maps the array to its first `strLength` places;
copying into a new array keeps them because the new one is large enough.

`TcpSessionProofs`: `SessionsStartFresh`. The inductive invariant `SessionInv`
says what may be left over where: the control states of the network thread, who
else can be inside a send or a repeat check and in which states of the session,
when the list may be non-empty, when the socket is open. `TypeCorrect`, and
`PromptServerNeverGivenUp` for a server
that answers before the next repeat check and a `send` that does not fail
(`SendFaults = {}`: a repetition that fails counts, and gets no answer).
`PromptInv` says where the answer to a command is: a number stands for one
command (`OneEntry`, `OneSender`), a command repeated once has its request or
its acknowledgement under way (`RepeatedOnce`), and the repeat check has behind
it whatever was repeated (`AheadFull`), since removals only move entries towards
its start. The next check begins with nothing under way, hence with nothing
repeated.

The same module proves what is said of received commands. `AcknowledgedIsDone`
(with the types) is inductive together with `ListedIsCarriedOut`: what is in the
list has been carried out, or is the command at hand. `RepetitionsNotRepeated`
needs two facts about the walks that run at the same time: how much time an
entry still has when the ageing pass has or has not reached it (`Kept`), and
that the command at hand is not among the entries already searched unless
something moved (`SearchedSoFar`).

`CloudProofs`: `ThreeRescuesFirst` and `SameAtRest`, for any number of devices,
and `RestIsUpToDate`. For the devices, `OnlineInv` has the types and
three parts. `CountsOK` bounds the count of a device that was rescued; `RescueInv`
says that a device that is online has its three rescues behind it or time for
those that are left (`InTime`), unless its answer came in the middle of a turn,
and that one that is to be written back as online has had them. `AgreeInv` says
of each device how the gateway learns the cloud's status: it knows it or is about
to be told, or the list is asked for or on its way, or the cloud has the
gateway's status or gets one that is news to it and is reported back. For the
lists, `SyncInv` says of each list that is not the cloud's what brings it up to
date: its flag is set, its download is under way, or the requests and messages
under way lead to it (`FreshOK`). `MessagesOK`, `FamilyOK` and `SavedOK` say what
these messages may be.

`TimerServiceProofs`: `TypeCorrect`, `OneShotsRunOnce` and `NobodyCalledEarly`.
A one-shot owes a call for each start that nobody took back; `Counted` says where
that call is: one is owed if the timer is in the list, and one more if its
handler is being called, since it leaves the list when it is found due. `Balanced` weighs what
is still charged to a timer, by the turn under way and by the clock since,
against the real time it has left and the time that was past when it was started.

The same module proves `EventsAreFew` and `BelievedIconsAreReal`, of the screen
with icons that never come back, in which the radio may lose anything. That an
event is listed twice at most is not inductive: the network thread may add one
more on the strength of an old search. `FewEvents` therefore says that there is
one at most while the network thread has searched and found none (`Missing`).
`RisingOK` orders the versions of an icon: what was reported is no newer than
what the device has, that no newer than what is under way to it, and that no
newer than what is wanted. So once what is wanted was reported, the device has it.

`SceneExecutorProofs`: `ScenesSettle` and `ActionsRunOnce`. `SceneInv`: a scene
has at most one entry, an entry is in step with the status of its scene unless a
download changed that, and a scene without one is as it was last carried out.
The lemmas follow one turn of a scene through the actions that turn others, in
the list that is being walked. `EachOnce` says that what was run and what is
left make up the actions of the scene; it is inductive only if an action counts
as removed from the moment it was run (`Pending`), as the serial thread removes
it by its address in a later step.

`NetworkProofs`: `NetworkTypes`, and `NewNetworkInNewFamily` for gateways that
lose nothing and are not restarted (`Faults = 0`, `Restarts = 0`; with either,
section 7 has the counterexamples). The property speaks only of moments at which
nothing is left to do. Its inductive form `Kept` says of all other moments what
is left: of a chip with a network of the family before, the network thread has
still to treat it, or a reset is delayed for it, or is on its way to it. Starts
that are delayed too do no harm, since a start never makes such a network.

`CoordinatorProofs`: `FirmwareIsWhole`. A load sends a block only when every
chip has answered the last one, so each chip's line holds at most the block that
was sent last, or its answer (`InOrder`), and a chip that answered has that block
and all those before. After the loss of a block or an answer nothing more is sent
until the load starts over, and then it is `spoilt`.

In a run several settings share one module, and what a run checks is a property
of the setting at hand. `PunctualOfTheRun`, `PromptServerOfTheRun`,
`NetworksOfTheRun` and `WholeOfTheRun` carry the theorems over to the behaviours
of those runs. For `NetworksOfTheRun` the gateways with two chips and with faults
are instances of `NetworkProofs` (`TwoP`, `ShakyP`); `SameTwo` and `SameShaky`
say that these are the gateways of the run, definition by definition. `EventsAreFew`,
and `BelievedIconsAreReal` are stated of the behaviours of `MCDeviceEvents`. The runs
give the constants by which the theorems are conditioned (`Faults = 0`,
`Restarts = 0`, `SendFaults = {}` of the prompt server, icons that are `Fresh`) the values they ask for.

Assumptions: only the named ones on the constants, which TLC evaluates in each
run. Model-checked only: all liveness, since it rests on fairness, which is out
of the prover's reach; `RadioLoadBounded`, which is a sum over a sequence; the
parsers, of which `SerialFrame` uses the bitwise exclusive or, which the prover
cannot reach, and that `TcpFrame` implements `ServerStream`; and
`EventsListedOnce` on the two screens with one endpoint, where `IconsBelieved`
asks for the types only. In the runs `AnswerMeansLast`, `RadioLoadBounded` and
`PromptServerKept` are the invariants `PunctualAnswerMeansLast`, `RadioLoad` and
`PromptServer`, which name the coordinator or server of the behaviour.

## 6. Not modelled

* Data races inside `TypeArrayList` and on single words: `SerialDrive.cpp:159`
  (the delay list), `NetWorkBase.cpp:621` (`onGetSeqNo`), `DeviceList.cpp:1601`
  (two threads that search a scene's entry and both add one). Every module takes
  a list operation as one step and says so.
* A refused login (`NetWorkCMDParsing.cpp:48`) is a branch of `TcpSession`, but no
  property is about it: the code does not say what should happen. Partial sends
  (`NetWorkBase.cpp:635`) are taken as whole.
* Commands for the coordinator itself (`SerialDrive.cpp:182`), written by the
  calling thread while the serial thread writes.
* Mark and sweep of the device list, and its rows in the database: `DownloadSync`
  has versions of lists only.
* Cloud command handlers, HTTP login, robot docking, RS485 profiles, ZCL
  encoding, SQL, JNI: conversions and blocking I/O. Of their effects the models
  keep what they need (the family in `Coordinator`, names in `DeviceEvents`).
* The second serial port is the same class again, except that the timer lowers
  only the master's `isError`.
* The Android applications, and all vendored and generated code. These
  are most of the lines of the repository.

## 7. Where the code differs from its comments, or from what one would expect

Met while modelling. The first is shown by a run; the others are branches of the
models, or reasons for the exceptions above.

Transmit engine
* `SerialProces.cpp:36` promises three resends; after a `0xE9` confirm of an
  online device two copies are queued, so the number of writes doubles per round (`serial_resends`).
* `SerialDrive.cpp:305` keeps a command in flight 500 ms when the buffer is full
  and sends it again; lines 361-366 replace that by deletion and a copy.
* `SerialDrive.cpp:163` replaces the original command by the new one; a delayed
  resend comes in as new and cancels a newer command.
* `SerialDrive.cpp:173` looks for duplicates once; two threads can both find none.

Lists and timers
* `ArrayList.cpp:44`: `get` of a wrong index answers with the first place, which
  an emptied list has no object in.
* `PublicTimer.cpp:256`: a timer added before the timer thread has made its list
  is dropped silently; `SerialPortBase.cpp:20` adds one at its start.

Downloads and status
* `NetWorkBase.cpp:537`: flags set between the timer thread's read and write are
  lost, for example those of a deleted room (`NetWorkCMDParsing.cpp:935`).
* `NetWorkBase.cpp:536`: bits are marked as downloading although nothing is sent
  for a gateway without family.
* `SerialPortBase.cpp:469`: an answer between the decision and the assignment puts
  the next check too far off, and the device goes offline without a rescue.
* `SerialPortBase.cpp:453` says a device is rescued three times; with a base of 10 it
  is four times.
* `DeviceList.cpp:521` means 24 hours with 86400000, but the count is in seconds.

Scenes
* `SerialPortBase.cpp:94` removes the action it has run from an entry that may have
  been refilled meanwhile (`DeviceList.cpp:1616`).
* `SerialPortBase.cpp:107`: the entry of a deleted scene that is to leave by itself
  stays in the list for ever.
* `DeviceList.cpp:1745` says the local status of a scene counts; line 1749 takes
  over the downloaded one.

Device events
* `TypeZclProfile.cpp:254` stores the wanted name as the one on the device; when it
  was changed between the comparison and the assignment, the new name is taken for
  written (`SerialPortBase.cpp:763`).
* `SerialPortBase.cpp:797`: the saved icon is the last reported one; if a write is
  lost and the old icon is wanted again, or a report is lost, it is out of date.

Coordinator and firmware
* `cc2538ZNPDownLoad.cpp:328`: when the file cannot be opened, the five seconds set at
  line 108 go on; three seconds of pause and two of reset later (lines 333, 107) they may end
  just after line 100 has cleared `mDownLoadTimeOut`, and this try is over before it
  begins. It sets them anew, so the same may happen to each try that follows.
* `NetWorkCMDParsing.cpp:185` stores a family that differs from the present one, as
  `SerialPortBase.cpp:158` refuses to: the networks of the family before are kept,
  although `SerialDrive.cpp:631` makes new ones for a new family.
* `SerialPortBase.cpp:140` stores the family before the resets are sent; a crash in
  between, or a lost reset, keeps the old network.
* `SerialProces.cpp:692` tries a failed start again if the time of that start is
  known. It is kept in memory only: after a restart of the gateway the chip is
  left as it is. The settings of `Coordinator` therefore do not combine failed
  starts and restarts.
* `cc2538ZNPDownLoad.cpp:152` starts over without rewinding the file, so the blocks
  that follow are not those their numbers say.
* `cc2538ZNPDownLoad.cpp:240` declares success when the last command is answered;
  what the boot loader answers to a block is never looked at, so neither is a refusal.
* `cc2538ZNPDownLoad.cpp:274`: each change of the percentage renews the five seconds,
  so a load that starts over again and again may go on for ever; `FinallyDone`
  holds because faults are bounded.
