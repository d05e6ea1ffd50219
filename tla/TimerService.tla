---------------------------- MODULE TimerService ----------------------------
(***************************************************************************)
(* The timers of the gateway (Main/PublicTimer.cpp): one thread wakes      *)
(* every 100 ms, charges the time that has passed to each timer in a list  *)
(* and calls the handlers of those that are due.  Meanwhile the handlers   *)
(* and the network, serial, robot and firmware threads add, change and     *)
(* delete timers in the same list, which nothing locks; an operation on    *)
(* the list is one step here.                                              *)
(*                                                                         *)
(* Time is in ticks of 100 ms.  The thread reads the milliseconds of the   *)
(* wall clock only, so what it charges is known modulo a second.           *)
(***************************************************************************)
EXTENDS Integers, Sequences, SequencesExt

CONSTANTS
  Timer,      \* timer ids
  Repeating,  \* those added with repeatflag
  Quitting,   \* those whose handler may delete its own timer (mfPIRAlarmCB)
  Period,     \* the time each is added with, in ticks
  Sec,        \* a second in ticks (10)
  MaxStall,   \* bound: ticks between two readings of the clock
  MaxOps,     \* bound: operations of the other threads
  None

ASSUME TimerAssumption ==
  /\ Repeating \subseteq Timer /\ Quitting \subseteq Repeating
  /\ Period \in [Timer -> Nat \ {0}]
  /\ Sec \in Nat \ {0, 1} /\ MaxStall \in Nat /\ MaxStall > Sec
  /\ MaxStall % Sec # 0 /\ MaxOps \in Nat
  /\ None \notin Timer

VARIABLES
  created, \* the timer thread has made pMgTimerHandle
  dropped, \* timers added before that, and not since
  timers,  \* pMgTimerHandle: a sequence of [id, value, repeat]
  i,       \* the index of the walk over the list
  charge,  \* what this turn takes from each timer; 0 between turns
  call,    \* the timer whose handler is being called, or None
  slept,   \* usleep has returned since the last turn
  since,   \* ticks since lastMs
  left,    \* ticks until each timer is really due, 0 when it is
  grace,   \* time past when it was (re)started that will still be charged to it
  owed,    \* runs of a one-shot's handler that its starts account for
  ops      \* operations of other threads so far

walk == <<i, charge, call, slept, since>>
vars == <<created, dropped, timers, walk, left, grace, owed, ops>>

Armed(t) == \E n \in DOMAIN timers : timers[n].id = t
Entry(t) == [id |-> t, value |-> Period[t],
             repeat |-> IF t \in Repeating THEN Period[t] ELSE 0]
Search(t) == CHOOSE n \in DOMAIN timers : timers[n].id = t
Without(t) == IF Armed(t) THEN RemoveAt(timers, Search(t)) ELSE timers
Owe(t, n) == IF t \in Repeating THEN owed ELSE [owed EXCEPT ![t] = @ + n]

Init ==
  /\ created = FALSE /\ dropped = {}
  /\ timers = <<>> /\ i = 1 /\ charge = 0 /\ call = None
  /\ slept = FALSE /\ since = 0 /\ ops = 0
  /\ left = [t \in Timer |-> 0] /\ grace = [t \in Timer |-> 0]
  /\ owed = [t \in Timer |-> 0]

-----------------------------------------------------------------------------
(* Time                                                                    *)

\* A tick passes, between turns or during one (a handler may block in send).
Pass ==
  /\ since < IF charge = 0 THEN MaxStall ELSE MaxStall - 1
  /\ since' = since + 1
  /\ slept' = (charge = 0)
  /\ left' = [t \in Timer |-> IF left[t] > 0 THEN left[t] - 1 ELSE 0]
  /\ UNCHANGED <<created, dropped, timers, i, charge, call, grace, owed, ops>>

\* The milliseconds differ by the time passed modulo a second.  Whole seconds
\* count as one if the readings are equal, and otherwise as the milliseconds
\* over, for which the thread does not yet make a turn.
Elapsed(s) == IF s % Sec = 0 THEN {0, Sec} ELSE {s % Sec}

(* The timer thread                                                        *)

Create ==
  /\ ~created /\ created' = TRUE
  /\ UNCHANGED <<dropped, timers, walk, left, grace, owed, ops>>

\* Mutant: lastMs is not set when the turn begins.
WakeUnset ==
  /\ created /\ charge = 0 /\ slept
  /\ \E e \in Elapsed(since) : charge' = e
  /\ slept' = FALSE
  /\ UNCHANGED <<created, dropped, timers, i, call, since, left, grace, owed, ops>>

Wake ==
  /\ created /\ charge = 0 /\ slept
  /\ \E e \in Elapsed(since) :
       /\ charge' = e
       /\ since' = IF e > 0 THEN 0 ELSE since
  /\ slept' = FALSE
  /\ UNCHANGED <<created, dropped, timers, i, call, left, grace, owed, ops>>

\* Mutant: One-shot timers stay in the list until their handler has returned.
VisitKept ==
  /\ charge > 0 /\ call = None /\ i <= Len(timers)
  /\ LET e == timers[i] IN
       \/ /\ e.value > charge
          /\ timers' = [timers EXCEPT ![i].value = e.value - charge]
          /\ i' = i + 1
          /\ UNCHANGED <<call, left, grace>>
       \/ /\ e.value <= charge
          /\ call' = e.id
          /\ UNCHANGED <<i, timers, left, grace>>
  /\ UNCHANGED <<created, dropped, charge, slept, since, owed, ops>>

\* The next timer is charged.
Visit ==
  /\ charge > 0 /\ call = None /\ i <= Len(timers)
  /\ LET e == timers[i] IN
       \/ /\ e.value > charge
          /\ timers' = [timers EXCEPT ![i].value = e.value - charge]
          /\ i' = i + 1
          /\ UNCHANGED <<call, left, grace>>
       \/ /\ e.value <= charge
          /\ call' = e.id
          /\ timers' = IF e.repeat > 0 THEN [timers EXCEPT ![i].value = e.repeat]
                                       ELSE Without(e.id)
          /\ left' = [left EXCEPT ![e.id] = e.repeat]
          /\ grace' = [grace EXCEPT ![e.id] = IF e.repeat > 0 THEN since ELSE 0]
          /\ UNCHANGED i
  /\ UNCHANGED <<created, dropped, charge, slept, since, owed, ops>>

\* Mutant: The handler of a repeating timer that deletes it ends the turn's walk.
RunHandlerEnds ==
  /\ call # None
  /\ \E quits \in IF call \in Quitting THEN BOOLEAN ELSE {FALSE} :
       timers' = IF quits THEN Without(call) ELSE timers
  /\ i' = Len(timers) + 1
  /\ owed' = Owe(call, -1)
  /\ call' = None
  /\ UNCHANGED <<created, dropped, charge, slept, since, left, grace, ops>>

\* The handler runs and returns.  After a one-shot timer, which is gone, the
\* walk goes on at the same index; after a repeating one at the next index,
\* also when the handler has deleted its timer.
RunHandler ==
  /\ call # None
  /\ \E quits \in IF call \in Quitting THEN BOOLEAN ELSE {FALSE} :
       timers' = IF quits THEN Without(call) ELSE timers
  /\ i' = IF call \in Repeating THEN i + 1 ELSE i
  /\ owed' = Owe(call, -1)
  /\ call' = None
  /\ UNCHANGED <<created, dropped, charge, slept, since, left, grace, ops>>

EndTurn ==
  /\ charge > 0 /\ call = None /\ i > Len(timers)
  /\ charge' = 0 /\ i' = 1
  /\ UNCHANGED <<created, dropped, timers, call, slept, since, left, grace, owed, ops>>

(* Other threads                                                           *)

\* A timer that is started again before the walk is past it is charged what
\* has gone by before it was started, in this turn and in the next.
Start(t) ==
  /\ left' = [left EXCEPT ![t] = Period[t]]
  /\ grace' = [grace EXCEPT ![t] = since + charge]

Restarted(t) ==
  [n \in DOMAIN timers |-> IF timers[n].id = t THEN Entry(t) ELSE timers[n]]

\* Until there is a list nothing is added to it.
onTimerAddEarly(t) ==
  /\ ~created
  /\ dropped' = dropped \cup {t}
  /\ UNCHANGED <<timers, left, grace, owed>>

onTimerAdd(t) ==
  /\ created
  /\ dropped' = dropped \ {t}
  /\ timers' = IF Armed(t) THEN Restarted(t) ELSE Append(timers, Entry(t))
  /\ owed' = IF Armed(t) THEN owed ELSE Owe(t, 1)
  /\ Start(t)

onTimerUpdate(t) ==
  /\ Armed(t)
  /\ timers' = Restarted(t)
  /\ Start(t)
  /\ UNCHANGED <<dropped, owed>>

onTimerDelete(t) ==
  /\ Armed(t)
  /\ timers' = Without(t)
  /\ owed' = Owe(t, -1)
  /\ left' = [left EXCEPT ![t] = 0] /\ grace' = [grace EXCEPT ![t] = 0]
  /\ UNCHANGED dropped

Others ==
  /\ ops < MaxOps /\ ops' = ops + 1
  /\ \E t \in Timer : \/ onTimerAddEarly(t) \/ onTimerAdd(t)
                      \/ onTimerUpdate(t) \/ onTimerDelete(t)
  /\ UNCHANGED <<created, walk>>

-----------------------------------------------------------------------------
Dispatch == Create \/ Wake \/ Visit \/ RunHandler \/ EndTurn
Next == Pass \/ Dispatch \/ Others

Spec == Init /\ [][Next]_vars
\* Time passes and the thread runs; the others owe nothing.
FairSpec == Spec /\ WF_vars(Pass) /\ WF_vars(Dispatch)

(* Properties                                                              *)

\* A timer is in the list at most once, always with time to go; nobody is
\* called between turns.
TypeOK ==
  /\ created \in BOOLEAN /\ dropped \subseteq Timer /\ (timers # <<>> => created)
  /\ timers \in Seq([id : Timer, value : Nat \ {0}, repeat : Nat])
  /\ \A m, n \in DOMAIN timers : timers[m].id = timers[n].id => m = n
  /\ \A n \in DOMAIN timers :
       timers[n].repeat = IF timers[n].id \in Repeating THEN Period[timers[n].id] ELSE 0
  /\ i \in Nat \ {0} /\ charge \in 0 .. Sec /\ call \in Timer \cup {None}
  /\ call # None => charge > 0
  /\ slept \in BOOLEAN /\ since \in 0 .. MaxStall
  /\ left \in [Timer -> Nat] /\ grace \in [Timer -> Nat] /\ owed \in [Timer -> Int]
  /\ ops \in 0 .. MaxOps

\* No handler is called before its time, save for the time that had already
\* gone by, and was still to be charged, when the timer was started: whatever
\* timers are added, deleted and restarted while the list is walked
\* (mTimerCheckValue), no time is charged to a timer twice.
NeverEarly == [][\A t \in Timer : call # t /\ call' = t => left[t] <= grace[t]]_vars

\* Types are right, and the handler of a one-shot timer runs once for each start
\* that nobody took back: not again on a later turn, and not when the timer is
\* restarted between the turn's decision and the call (mTimerCheckValue lines
\* 204-215).
OneShotOnce == TypeOK /\ \A t \in Timer : owed[t] >= 0

\* A timer that is started is called, or somebody deletes it: the entries that
\* the walk skips after a deletion are reached on a later turn, and so is a
\* timer whose turns are lost to whole seconds.
EveryTimerCalled == \A t \in Timer : Armed(t) ~> (call = t \/ ~Armed(t))
=============================================================================
