---------------------------- MODULE FirmwareLoad ----------------------------
(***************************************************************************)
(* Loading a new firmware into the Zigbee coordinators                     *)
(* (mfZnpDownLoadThread): the chips are reset into their boot loader, which*)
(* gets a handshake, the blocks of the file one by one, and the command    *)
(* that enables the image.  Each is sent to every chip, and the next when  *)
(* all have answered.  An answer carries no number.  After two seconds     *)
(* without one the thread starts over; after five seconds without progress *)
(* it resets the chips and tries again, ten times.                         *)
(*                                                                         *)
(* The serial thread stands still meanwhile.  A frame is one message; time *)
(* is counted in seconds; the pauses are left out, and a reset drops what  *)
(* is on its way.                                                          *)
(***************************************************************************)
EXTENDS Integers, Sequences

CONSTANTS
  Chip,       \* one, or the master and the slave
  Blocks,     \* number of blocks of the file, at most 100
  Tries,      \* 10
  AnswerTime, GiveUpTime, \* 1 and 5 seconds
  MayBreak,   \* sets of commands that a chip may never answer
  MaxFaults   \* bound: lost, late and refused messages, failures to open the file

FirmwareAssumption ==
  /\ Chip # {}
  /\ {Blocks, Tries, AnswerTime} \subseteq Nat \ {0}
  /\ GiveUpTime \in Nat /\ GiveUpTime > AnswerTime /\ MaxFaults \in Nat

VARIABLES
  pc, tries,  \* downLoadCnt
  step,       \* downLoadStatus
  index,      \* fileIndex, in blocks
  pos,        \* where the file is read next, in blocks
  progress,   \* mCurrentPercent: of the file, or Success
  timeUp, timer, \* mDownLoadTimeOut, and the seconds until it is set
  waited,     \* seconds since the last command was sent
  got,        \* the chips whose answer has come (isOK)
  image,      \* what each chip holds
  commands, answers, \* on their way to and from each chip
  broken,     \* the commands that are never answered
  spoilt,     \* history: did this try start over, or a chip refuse a block in it?
  faults

wire == <<commands, answers>>
timing == <<timeUp, timer, waited>>
vars == <<pc, tries, step, index, pos, progress, timing, got, image, wire, broken, spoilt, faults>>

Block == 1 .. Blocks
Junk == 0          \* what is in the buffer when the file has ended
Old == Blocks + 1
Success == Blocks + 1

\* What is sent: to the address 0 the handshake, behind the file the enabling.
Command == [at : 0 .. Blocks + 1, data : 0 .. Blocks]
Handshake == [at |-> 0, data |-> Junk]
Enable == [at |-> Blocks + 1, data |-> Junk]

Nothing == [c \in Chip |-> <<>>]

Init ==
  /\ pc = "try" /\ tries = Tries /\ step = 0 /\ index = 0 /\ pos = 0 /\ progress = 0
  /\ timeUp = FALSE /\ timer = 0 /\ waited = 0 /\ got = {}
  /\ image = [c \in Chip |-> [b \in Block |-> Old]]
  /\ commands = Nothing /\ answers = Nothing
  /\ broken \in MayBreak /\ spoilt = FALSE /\ faults = 0

-----------------------------------------------------------------------------
(* The thread                                                              *)

Fault == faults < MaxFaults /\ faults' = faults + 1

\* The chips are reset, the time to give up is set, and the file is opened.  If
\* that failed the last time, the time set then ends five seconds later, which
\* is just before it is set anew: this try may end at once.
Try ==
  /\ pc = "try" /\ tries > 0 /\ tries' = tries - 1
  /\ timeUp' \in {FALSE, timer > 0} /\ timer' = GiveUpTime /\ waited' = 0
  /\ step' = 0 /\ index' = 0 /\ pos' = 0 /\ progress' = 0 /\ got' = {}
  /\ commands' = Nothing /\ answers' = Nothing /\ spoilt' = FALSE
  /\ \/ pc' = "send" /\ UNCHANGED faults
     \/ pc' = "try" /\ Fault
  /\ UNCHANGED <<image, broken>>

Finish ==
  /\ pc = "try" /\ tries = 0 /\ pc' = "done"
  /\ UNCHANGED <<tries, step, index, pos, progress, timing, got, image, wire, broken, spoilt, faults>>

Running == ~timeUp /\ progress <= Blocks

Leave ==
  /\ pc \in {"send", "await"} /\ ~Running /\ pc' = "try"
  /\ UNCHANGED <<tries, step, index, pos, progress, timing, got, image, wire, broken, spoilt, faults>>

\* Mutant: the time to give up is renewed whenever something is sent.
RenewedAlways(p) == GiveUpTime
\* The time to give up is renewed whenever the percentage has changed.
Renewed(p) == IF p = progress THEN timer ELSE GiveUpTime

Sent(command, at) ==
  /\ commands' = [c \in Chip |-> Append(commands[c], command)]
  /\ pc' = "await" /\ waited' = 0 /\ got' = {}
  /\ index' = at /\ progress' = at /\ timer' = Renewed(at)
  /\ UNCHANGED <<tries, timeUp, image, answers, broken, spoilt, faults>>

SendHandshake ==
  /\ pc = "send" /\ Running /\ step = 0 /\ step' = 1
  /\ Sent(Handshake, 0)
  /\ UNCHANGED pos

Whole(n) == n >= Blocks

\* The next block goes to the next address, whatever the file gives.
SendBlock ==
  /\ pc = "send" /\ Running /\ step = 1
  /\ Sent([at |-> index + 1, data |-> IF pos < Blocks THEN pos + 1 ELSE Junk], index + 1)
  /\ pos' = IF pos < Blocks THEN pos + 1 ELSE pos
  /\ step' = IF Whole(index + 1) THEN 2 ELSE 1

\* Reading back is not done.
SkipRead ==
  /\ pc = "send" /\ Running /\ step = 2 /\ step' = 3 /\ waited' = 0
  /\ UNCHANGED <<pc, tries, index, pos, progress, timeUp, timer, got, image, wire, broken, spoilt, faults>>

SendEnable ==
  /\ pc = "send" /\ Running /\ step = 3 /\ step' = 4
  /\ Sent(Enable, index)
  /\ UNCHANGED pos

Succeed ==
  /\ pc = "send" /\ Running /\ step = 4
  /\ progress' = Success /\ tries' = 0 /\ waited' = 0
  /\ UNCHANGED <<pc, step, index, pos, timeUp, timer, got, image, wire, broken, spoilt, faults>>

\* No answer in time: everything is sent once more, from the handshake on.
StartOver ==
  /\ pc = "await" /\ Running /\ waited > AnswerTime
  /\ step' = 0 /\ pc' = "send" /\ spoilt' = TRUE
  /\ UNCHANGED <<tries, index, pos, progress, timing, got, image, wire, broken, faults>>

\* Mutant: one answer is enough.
SomeAnswered(set) == set # {}
AllAnswered(set) == set = Chip

Read(c) == answers' = [answers EXCEPT ![c] = Tail(@)]

\* Any frame that is an answer counts, whatever it answers and says, until the
\* first bytes of another follow it, in the same read or in a later one (isOK).
Receive(c) ==
  /\ pc = "await" /\ Running /\ waited <= AnswerTime /\ answers[c] # <<>>
  /\ \/ Read(c) /\ got' = got \cup {c}
     \/ Read(c) /\ answers'[c] # <<>> /\ got' = got \ {c}
     \/ c \in got /\ got' = got \ {c} /\ UNCHANGED answers
  /\ pc' = IF AllAnswered(got') THEN "send" ELSE "await"
  /\ UNCHANGED <<tries, step, index, pos, progress, timing, image, commands, broken, spoilt, faults>>

-----------------------------------------------------------------------------
(* The boot loaders, the wire and the time                                 *)

Taken(c) == commands' = [commands EXCEPT ![c] = Tail(@)]
Answer(c) == answers' = [answers EXCEPT ![c] = Append(@, "answer")]
Written(c, cmd) ==
  image' = IF cmd.at \in Block THEN [image EXCEPT ![c][cmd.at] = cmd.data] ELSE image

Serve(c) ==
  /\ commands[c] # <<>> /\ Taken(c)
  /\ LET cmd == Head(commands[c]) IN
       \/ cmd.at \in broken /\ UNCHANGED <<answers, image, spoilt, faults>>
       \/ cmd.at \notin broken /\ Written(c, cmd) /\ Answer(c) /\ UNCHANGED <<spoilt, faults>>
       \/ cmd.at \in Block /\ Fault /\ Answer(c) /\ spoilt' = TRUE /\ UNCHANGED image
  /\ UNCHANGED <<pc, tries, step, index, pos, progress, timing, got, broken>>

Lose(c) ==
  /\ Fault
  /\ \/ commands[c] # <<>> /\ Taken(c) /\ UNCHANGED answers
     \/ answers[c] # <<>> /\ Read(c) /\ UNCHANGED commands
  /\ UNCHANGED <<pc, tries, step, index, pos, progress, timing, got, image, broken, spoilt>>

\* A second passes while the thread waits; what is on its way is late then.
Tick ==
  /\ pc = "await" /\ Running /\ waited <= AnswerTime /\ waited' = waited + 1
  /\ timer' = timer - 1 /\ timeUp' = (timer = 1)
  /\ IF wire = <<Nothing, Nothing>> THEN UNCHANGED faults ELSE Fault
  /\ UNCHANGED <<pc, tries, step, index, pos, progress, got, image, wire, broken, spoilt>>

-----------------------------------------------------------------------------
Thread ==
  \/ Try \/ Finish \/ Leave \/ StartOver \/ Succeed
  \/ SendHandshake \/ SendBlock \/ SkipRead \/ SendEnable
  \/ \E c \in Chip : Receive(c)
Done == pc = "done" /\ UNCHANGED vars
Next == Thread \/ Tick \/ Done \/ \E c \in Chip : Serve(c) \/ Lose(c)

Spec == Init /\ [][Next]_vars
\* The thread runs, time passes, and the chips take what they are sent.
FairSpec ==
  Spec /\ WF_vars(Thread) /\ WF_vars(Tick) /\ \A c \in Chip : WF_vars(Serve(c))

(* Properties                                                              *)

TypeOK ==
  /\ pc \in {"try", "send", "await", "done"} /\ tries \in 0 .. Tries
  /\ step \in 0 .. 4 /\ index \in 0 .. Blocks /\ pos \in 0 .. Blocks
  /\ progress \in 0 .. Success /\ timeUp \in BOOLEAN
  /\ timer \in 0 .. GiveUpTime /\ waited \in 0 .. AnswerTime + 1
  /\ got \subseteq Chip /\ image \in [Chip -> [Block -> 0 .. Old]]
  /\ commands \in [Chip -> Seq(Command)] /\ answers \in [Chip -> Seq({"answer"})]

\* Types are right; and a load that did not start over, and in which no block
\* was refused, leaves every chip with the file, whatever was lost in earlier
\* tries: no chip is enabled that missed a block (isOK).
IsFile(c) == \A b \in Block : image[c][b] = b
WholeUnlessSpoilt ==
  TypeOK /\ (progress = Success /\ ~spoilt => \A c \in Chip : IsFile(c))

\* Chips that answer nothing, or now and then do not answer, do not keep the
\* thread, and the serial port with it, for ever (mfZnpDownLoadThread).
FinallyDone == <>(pc = "done")
=============================================================================
