--------------------------- MODULE SceneExecutor ---------------------------
(***************************************************************************)
(* Carrying out scenes.  Any thread turns a scene on or off, which puts an *)
(* entry with the scene's actions in carriedOutSceneList, or refills the   *)
(* entry that is there (onSetSceneStatus); every 100 ms the serial thread  *)
(* goes through the list, runs the actions that are due and removes the    *)
(* entries that have none left (mfSerialPortThead).                        *)
(*                                                                         *)
(* Time is counted in those 100 ms.  Each operation on a list is one step: *)
(* that the lists have no lock is not modelled.  Actions on devices have no*)
(* effect here, and the reports of a scene's status are left out.          *)
(***************************************************************************)
EXTENDS Integers, Sequences, SequencesExt

CONSTANTS
  Scene, NoScene,
  Actions, \* of a scene turned on (1) or off (0): a sequence, by <<scene, value>>,
           \* of [delay, scene, value], with the scene the action turns, if any
  OffCond,       \* the scenes with a condition that turns them off
  ExitNew, ExitMore, \* 2000 ms and 1000 ms: a scene that is never turned off
                     \* leaves by itself so long after its last action
  MaxTriggers, MaxDownloads, MaxDeletes, MaxTime \* bounds

ASSUME SceneAssumption ==
  /\ NoScene \notin Scene /\ OffCond \subseteq Scene
  /\ \A s \in Scene, v \in 0 .. 1 :
       Actions[<<s, v>>] \in Seq([delay : Nat, scene : Scene \cup {NoScene}, value : 0 .. 1])
  /\ {ExitNew, ExitMore, MaxTriggers, MaxDownloads, MaxDeletes, MaxTime} \subseteq Nat

VARIABLES
  known,     \* sceneList
  status,    \* of each scene: 0 off, 1 on
  carried,   \* carriedOutSceneList
  pc, i, j,  \* the serial thread: where it is, its entry, the entry's action
  running,   \* the action that it runs
  ran,       \* history: the actions run since the scene was turned on or off
  last,      \* history: what the scene was last completely turned to
  altered,   \* history: the scenes whose status was changed by a download
  mixed,     \* history: the scenes turned off and on between an action and its removal
  triggers, downloads, deletes

serial == <<pc, i, j, running>>
bounds == <<triggers, downloads, deletes>>
history == <<ran, last, altered, mixed>>
vars == <<known, status, carried, serial, history, bounds>>

None == [on |-> 0, n |-> 0]

Init ==
  /\ known = Scene /\ status = [s \in Scene |-> 0] /\ carried = <<>>
  /\ pc = "idle" /\ i = 1 /\ j = 1 /\ running = None
  /\ ran = [s \in Scene |-> <<>>] /\ last = [s \in Scene |-> 0] /\ altered = {}
  /\ mixed = {}
  /\ triggers = 0 /\ downloads = 0 /\ deletes = 0

-----------------------------------------------------------------------------
(* Turning a scene on or off                                               *)

\* TypeCarriedSceneList: a scene that nothing turns off leaves by itself.
LeavesAlone(s, v) == v = 1 /\ Actions[<<s, 0>>] = <<>> /\ s \notin OffCond
Total(s, v, least, more) ==
  IF v = 0 THEN 0
  ELSE FoldLeft(LAMBDA t, a : IF a.delay > t THEN a.delay + more ELSE t, least, Actions[<<s, v>>])

Entry(s, v, total) ==
  [scene |-> s, on |-> v, todo |-> [n \in DOMAIN Actions[<<s, v>>] |-> n], add |-> 0,
   auto |-> LeavesAlone(s, v), total |-> total]
New(s, v) == Entry(s, v, Total(s, v, ExitNew, ExitNew))
\* onUpdateCarriedScene
Refilled(s, v) == Entry(s, v, Total(s, v, 0, ExitMore))

\* What a thread changes: the statuses, the list, and what has been run.
World == [status |-> status, list |-> carried, ran |-> ran]
Becomes(w) == status' = w.status /\ carried' = w.list /\ ran' = w.ran

\* Mutant: an entry is appended though the scene has one.
TurnedTwice(w, s, v) ==
  [status |-> [w.status EXCEPT ![s] = v], list |-> Append(w.list, New(s, v)),
   ran |-> [w.ran EXCEPT ![s] = <<>>]]

\* Mutant: an entry that is there is left alone.
TurnedBehind(w, s, v) ==
  [status |-> [w.status EXCEPT ![s] = v],
   list |-> IF \E k \in DOMAIN w.list : w.list[k].scene = s THEN w.list
            ELSE Append(w.list, New(s, v)),
   ran |-> w.ran]

\* The scene's entry is refilled, or a new one is put at the end; an entry that
\* is on its way to v already is left alone, and so is the status then.
Turned(w, s, v) ==
  LET here == {k \in DOMAIN w.list : w.list[k].scene = s} IN
    IF \E k \in here : w.list[k].on = v THEN w
    ELSE [status |-> [w.status EXCEPT ![s] = v],
          list |-> IF here = {} THEN Append(w.list, New(s, v))
                   ELSE [k \in DOMAIN w.list |-> IF k \in here THEN Refilled(s, v) ELSE w.list[k]],
          ran |-> [w.ran EXCEPT ![s] = <<>>]]

\* A scene that is disabled, or outside its hours, is not turned on.
onSetSceneStatus(w, s, v) ==
  IF s \notin known \/ w.status[s] = v THEN {w}
  ELSE IF v = 0 THEN {Turned(w, s, v)} ELSE {Turned(w, s, v), w}

-----------------------------------------------------------------------------
(* The serial thread                                                       *)

Begin ==
  /\ pc = "idle" /\ carried # <<>>
  /\ pc' = "entry" /\ i' = 1
  /\ UNCHANGED <<known, status, carried, j, running, history, bounds>>

\* The time of an entry is counted up to MaxTime, which exceeds any delay.
Visit ==
  /\ pc = "entry" /\ i <= Len(carried)
  /\ carried' = [carried EXCEPT ![i].add = IF @ < MaxTime THEN @ + 1 ELSE @]
  /\ pc' = "action" /\ j' = 1
  /\ UNCHANGED <<known, status, i, running, history, bounds>>

Rest ==
  /\ pc = "entry" /\ i > Len(carried)
  /\ pc' = "idle" /\ i' = 1
  /\ UNCHANGED <<known, status, carried, j, running, history, bounds>>

\* UnFreeRemoveObject: the action leaves the entry, if it is there still.
Dropped(list, k, a) ==
  IF list[k].on # a.on THEN list
  ELSE [list EXCEPT ![k].todo = RemoveFirst(@, a.n)]

\* Mutant: an action is due at its time only.
DueThen(e, a) == a.delay = e.add
Due(e, a) == a.delay <= e.add

\* An action that turns a scene changes the list the thread goes through.
Act ==
  /\ pc = "action" /\ j <= Len(carried[i].todo)
  /\ LET e == carried[i]
         id == [on |-> e.on, n |-> e.todo[j]]
         a == Actions[<<e.scene, e.on>>][id.n]
         w == [World EXCEPT !.ran[e.scene] = Append(@, id.n)]
         after == IF a.scene = NoScene THEN {w} ELSE onSetSceneStatus(w, a.scene, a.value)
     IN
       \/ /\ Due(e, a)
          /\ \E x \in after : Becomes(x)
          /\ pc' = "drop" /\ running' = id /\ UNCHANGED j
       \/ /\ ~Due(e, a) /\ j' = j + 1
          /\ UNCHANGED <<status, carried, pc, running, ran>>
  /\ UNCHANGED <<known, i, last, altered, mixed, bounds>>

\* Others run between an action and its removal.
Drop ==
  /\ pc = "drop" /\ pc' = "action"
  /\ carried' = Dropped(carried, i, running) /\ running' = None
  /\ UNCHANGED <<known, status, i, j, history, bounds>>

Removed == RemoveAt(carried, i)

Leaves(e) == e.todo = <<>>

\* All actions were seen to.  A scene leaves by itself when its time is over;
\* that of a scene that was deleted meanwhile stays.
Finish ==
  /\ pc = "action" /\ j > Len(carried[i].todo)
  /\ pc' = "entry"
  /\ LET e == carried[i]
         over == Leaves(e) /\ e.auto /\ e.add >= e.total /\ e.scene \in known
     IN
       \/ /\ Leaves(e) /\ ~e.auto
          /\ carried' = Removed /\ i' = i + 1
          /\ last' = [last EXCEPT ![e.scene] = e.on]
          /\ UNCHANGED <<status, ran>>
       \/ /\ over
          /\ \E w \in onSetSceneStatus([World EXCEPT !.list = Removed], e.scene, 0) : Becomes(w)
          /\ last' = [last EXCEPT ![e.scene] = e.on]
          /\ UNCHANGED i
       \/ /\ ~over /\ ~(Leaves(e) /\ ~e.auto)
          /\ i' = i + 1
          /\ UNCHANGED <<status, carried, ran, last>>
  /\ UNCHANGED <<known, j, running, altered, mixed, bounds>>

(* The other threads                                                       *)

Trigger(s, v) ==
  /\ triggers < MaxTriggers /\ triggers' = triggers + 1
  /\ s \in known /\ status[s] # v
  /\ \E w \in onSetSceneStatus(World, s, v) : Becomes(w)
  /\ mixed' = IF carried' = carried THEN mixed
              ELSE IF pc = "drop" /\ carried[i].scene = s /\ running.on = v THEN mixed \cup {s}
              ELSE mixed \ {s}
  /\ UNCHANGED <<known, serial, last, altered, downloads, deletes>>

\* onAddSceneInfo: the scenes are downloaded, and the cloud's status differs.
AddScene(s) ==
  /\ downloads < MaxDownloads /\ downloads' = downloads + 1
  /\ known' = known \cup {s}
  /\ status' = [status EXCEPT ![s] = 1 - @] /\ altered' = altered \cup {s}
  /\ UNCHANGED <<carried, serial, ran, last, mixed, triggers, deletes>>

\* A scene is deleted when its actions, which go with it, have been run.
DeleteScene(s) ==
  /\ deletes < MaxDeletes /\ deletes' = deletes + 1
  /\ \A k \in DOMAIN carried : carried[k].scene = s => carried[k].todo = <<>>
  /\ s \in known /\ known' = known \ {s}
  /\ UNCHANGED <<status, carried, serial, history, triggers, downloads>>

-----------------------------------------------------------------------------
Serial == Begin \/ Visit \/ Rest \/ Act \/ Drop \/ Finish
Next ==
  \/ Serial
  \/ \E s \in Scene :
       AddScene(s) \/ DeleteScene(s) \/ \E v \in 0 .. 1 : Trigger(s, v)

Spec == Init /\ [][Next]_vars
\* The serial thread runs.
FairSpec == Spec /\ WF_vars(Serial)

(* Properties                                                              *)

TypeOK ==
  /\ known \subseteq Scene /\ status \in [Scene -> 0 .. 1]
  /\ altered \subseteq Scene /\ mixed \subseteq Scene
  /\ \A k \in DOMAIN carried :
       LET e == carried[k] IN
         /\ e.scene \in Scene /\ e.on \in 0 .. 1 /\ e.add \in 0 .. MaxTime
         /\ Range(e.todo) \subseteq DOMAIN Actions[<<e.scene, e.on>>]
  /\ pc \in {"idle", "entry", "action", "drop"}
  /\ pc \in {"action", "drop"} => i \in DOMAIN carried
  /\ last \in [Scene -> 0 .. 1]

\* Types are right; and a scene that is not being carried out is what it was
\* last carried out to be (except for a status that came with a download):
\* whoever turns it while its actions are run, or while it leaves by itself, is
\* not forgotten (onUpdateCarriedScene).
SettledAsCarriedOut ==
  /\ TypeOK
  /\ \A s \in known \ altered :
       (\A k \in DOMAIN carried : carried[k].scene # s) => last[s] = status[s]

\* Each action of a scene in the list was run since the scene was turned or
\* is still to be run, and none twice, though actions turn scenes whose entries
\* are in the list, before or after, and the thread goes through it by index.
\* The exception: a scene turned off and on again between one of its actions
\* and the removal of that action, which is then removed from the new ones.
EachActionOnce ==
  \A k \in DOMAIN carried :
    LET e == carried[k] IN
      \/ e.scene \in mixed
      \/ pc = "drop" /\ k = i
      \/ /\ IsInjective(ran[e.scene] \o e.todo)
         /\ Range(ran[e.scene] \o e.todo) = DOMAIN Actions[<<e.scene, e.on>>]

\* A scene that nothing turns off leaves by itself, unless it is deleted:
\* "needs to leave when its time is over" (SerialPortBase.cpp:101).
Leaving(s) == \E k \in DOMAIN carried : carried[k].scene = s /\ carried[k].auto
LeavesByItself == \A s \in Scene : Leaving(s) ~> ~Leaving(s) \/ s \notin known
=============================================================================
