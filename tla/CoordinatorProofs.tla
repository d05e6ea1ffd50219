------------------------- MODULE CoordinatorProofs --------------------------
(* The coordinators of the run.  In a load that did not start over, for any *)
(* file, chips and limits, each chip has the blocks that were sent, as       *)
(* nothing is sent before every chip has answered what was sent before.  And *)
(* the networks of its three gateways, by what NetworkProofs says of each.   *)
EXTENDS MCCoordinator, NetworkProofs

(* Loads of a new firmware                                                 *)

LoadTypes ==
  /\ Load!TypeOK /\ spoilt \in BOOLEAN
  /\ step = 1 => index < Blocks
  /\ pc \in {"send", "await"} => timeUp \/ timer > 0

\* What was sent last, and whether a chip has the block that was sent last.
Current == IF step = 4 THEN Load!Enable ELSE [at |-> index, data |-> index]
HasLast(c) == pc = "send" \/ c \in got \/ answers[c] # <<>> \/ step = 4

Answered(c) == pc = "send" \/ c \in got

InOrder ==
  ~ spoilt /\ pc \in {"send", "await"} =>
    /\ pos = index /\ (step = 0 => index = 0) /\ (step >= 2 => index = Blocks)
    /\ \A c \in LoadChip :
         /\ \/ commands[c] = <<>> /\ answers[c] = <<>>
            \/ ~ Answered(c) /\ commands[c] = <<Current>> /\ answers[c] = <<>>
            \/ ~ Answered(c) /\ commands[c] = <<>> /\ answers[c] = <<"answer">>
         /\ \A b \in Load!Block :
              b < index \/ (b = index /\ HasLast(c)) => image[c][b] = b

\* A load that is whole stays so: nothing is on its way.
Whole ==
  progress = Load!Success /\ ~ spoilt =>
    \A c \in LoadChip : commands[c] = <<>> /\ Load!IsFile(c)

LoadInv == LoadTypes /\ InOrder /\ Whole

LEMMA LoadConstants ==
  /\ Blocks \in Nat \ {0} /\ Tries \in Nat \ {0} /\ AnswerTime \in Nat \ {0}
  /\ GiveUpTime \in Nat /\ GiveUpTime > AnswerTime /\ MaxFaults \in Nat
  BY LoadAssumption DEF Load!FirmwareAssumption

LEMMA LoadFields ==
  ASSUME LoadTypes
  PROVE  /\ pc \in {"try", "send", "await", "done"} /\ tries \in 0 .. Tries
         /\ step \in 0 .. 4 /\ index \in 0 .. Blocks /\ pos \in 0 .. Blocks
         /\ progress \in 0 .. Blocks + 1 /\ timeUp \in BOOLEAN
         /\ timer \in 0 .. GiveUpTime /\ waited \in 0 .. AnswerTime + 1
         /\ got \subseteq LoadChip /\ image \in [LoadChip -> [1 .. Blocks -> 0 .. Blocks + 1]]
         /\ commands \in [LoadChip -> Seq(Load!Command)]
         /\ answers \in [LoadChip -> Seq({"answer"})] /\ spoilt \in BOOLEAN
  BY DEF LoadTypes, Load!TypeOK, Load!Success, Load!Block, Load!Old

LEMMA LoadInit == Load!Init => LoadInv
  <1> SUFFICES ASSUME Load!Init PROVE LoadInv
    OBVIOUS
  <1>1. /\ pc = "try" /\ tries = Tries /\ step = 0 /\ index = 0 /\ pos = 0 /\ progress = 0
        /\ timeUp = FALSE /\ timer = 0 /\ waited = 0 /\ got = {} /\ spoilt = FALSE
        /\ image = [c \in LoadChip |-> [b \in 1 .. Blocks |-> Blocks + 1]]
        /\ commands = [c \in LoadChip |-> <<>>] /\ answers = [c \in LoadChip |-> <<>>]
    BY DEF Load!Init, Load!Nothing, Load!Block, Load!Old
  <1>2. image \in [LoadChip -> [1 .. Blocks -> 0 .. Blocks + 1]]
    BY <1>1, LoadConstants
  <1>3. commands \in [LoadChip -> Seq(Load!Command)] /\ answers \in [LoadChip -> Seq({"answer"})]
    <2>1. <<>> \in Seq(Load!Command) /\ <<>> \in Seq({"answer"})
      OBVIOUS
    <2> QED BY <1>1, <2>1
  <1>4. /\ tries \in 0 .. Tries /\ index \in 0 .. Blocks /\ pos \in 0 .. Blocks
        /\ progress \in 0 .. Blocks + 1 /\ timer \in 0 .. GiveUpTime
        /\ waited \in 0 .. AnswerTime + 1
    BY <1>1, LoadConstants
  <1>5. LoadTypes
    <2>1. Load!TypeOK
      <3>1. pc \in {"try", "send", "await", "done"} /\ step \in 0 .. 4 /\ got \subseteq LoadChip
        BY <1>1
      <3>2. timeUp \in BOOLEAN
        BY <1>1
      <3> QED BY <1>2, <1>3, <1>4, <3>1, <3>2 DEF Load!TypeOK, Load!Success, Load!Block, Load!Old
    <2>2. spoilt \in BOOLEAN
      BY <1>1
    <2>3. step # 1 /\ pc \notin {"send", "await"}
      BY <1>1
    <2> QED BY <2>1, <2>2, <2>3 DEF LoadTypes
  <1> QED BY <1>1, <1>5, LoadConstants DEF LoadInv, InOrder, Whole, Load!Success

\* A command is put behind the others, to every chip.
LEMMA SentFacts ==
  ASSUME LoadTypes, NEW command \in Load!Command, NEW at \in 0 .. Blocks,
         Load!Sent(command, at), pc = "send", ~ timeUp
  PROVE  /\ pc' = "await" /\ waited' = 0 /\ got' = {} /\ index' = at /\ progress' = at
         /\ timer' \in 1 .. GiveUpTime /\ timeUp' = timeUp
         /\ UNCHANGED <<tries, image, answers, spoilt>>
         /\ commands' \in [LoadChip -> Seq(Load!Command)]
         /\ \A c \in LoadChip : commands'[c] = Append(commands[c], command)
  <1>1. commands \in [LoadChip -> Seq(Load!Command)]
    BY LoadFields
  <1>2. commands' = [c \in LoadChip |-> Append(commands[c], command)]
    BY DEF Load!Sent
  <1>3. commands' \in [LoadChip -> Seq(Load!Command)]
    BY <1>1, <1>2
  <1>4. /\ pc' = "await" /\ waited' = 0 /\ got' = {} /\ index' = at /\ progress' = at
        /\ UNCHANGED <<tries, timeUp, image, answers, spoilt>>
    BY DEF Load!Sent
  <1>5. timer' \in 1 .. GiveUpTime
    <2>1. timer \in 0 .. GiveUpTime
      BY LoadFields
    <2>2. timer' = timer \/ timer' = GiveUpTime
      BY DEF Load!Sent, Load!Renewed
    <2> QED BY <2>1, <2>2, LoadConstants DEF LoadTypes
  <1> QED BY <1>1, <1>2, <1>3, <1>4, <1>5

LEMMA CommandTypes ==
  /\ Load!Handshake \in Load!Command /\ Load!Enable \in Load!Command
  /\ \A at \in 1 .. Blocks, data \in 0 .. Blocks : [at |-> at, data |-> data] \in Load!Command
  BY LoadConstants DEF Load!Handshake, Load!Enable, Load!Command, Load!Junk

LEMMA TryTypes == LoadTypes /\ Load!Try => LoadTypes'
  <1> SUFFICES ASSUME LoadTypes, Load!Try PROVE LoadTypes'
    OBVIOUS
  <1>1. /\ tries' \in 0 .. Tries /\ image' = image
    BY LoadFields, LoadConstants DEF Load!Try
  <1>2. commands' \in [LoadChip -> Seq(Load!Command)] /\ answers' \in [LoadChip -> Seq({"answer"})]
    <2>1. <<>> \in Seq(Load!Command) /\ <<>> \in Seq({"answer"})
      OBVIOUS
    <2> QED BY <2>1 DEF Load!Try, Load!Nothing
  <1>3. /\ pc' \in {"try", "send"} /\ step' = 0 /\ index' = 0 /\ pos' = 0 /\ progress' = 0
        /\ got' = {} /\ timer' = GiveUpTime /\ waited' = 0 /\ spoilt' = FALSE
    BY DEF Load!Try
  <1>4. /\ index' \in 0 .. Blocks /\ pos' \in 0 .. Blocks /\ progress' \in 0 .. Blocks + 1
        /\ timer' \in 1 .. GiveUpTime /\ waited' \in 0 .. AnswerTime + 1
    BY <1>3, LoadConstants
  <1>5. timeUp' \in BOOLEAN /\ spoilt' \in BOOLEAN
    <2>1. timeUp' \in {FALSE, timer > 0}
      BY DEF Load!Try
    <2>2. (timer > 0) \in BOOLEAN
      BY LoadFields
    <2> QED BY <1>3, <2>1, <2>2
  <1>6. Load!TypeOK'
    BY <1>1, <1>2, <1>3, <1>4, <1>5, LoadFields
       DEF Load!TypeOK, Load!Success, Load!Block, Load!Old
  <1> QED BY <1>3, <1>4, <1>5, <1>6 DEF LoadTypes

LEMMA SendTypes ==
  LoadTypes /\ (Load!SendHandshake \/ Load!SendBlock \/ Load!SendEnable) => LoadTypes'
  <1> SUFFICES ASSUME LoadTypes, Load!SendHandshake \/ Load!SendBlock \/ Load!SendEnable
               PROVE  LoadTypes'
    OBVIOUS
  <1>1. ASSUME NEW command \in Load!Command, NEW at \in 0 .. Blocks,
               Load!Sent(command, at), pc = "send", ~ timeUp,
               pos' \in 0 .. Blocks, step' \in 0 .. 4, step' = 1 => at < Blocks
        PROVE  LoadTypes'
    <2>1. /\ pc' = "await" /\ waited' = 0 /\ got' = {} /\ index' = at /\ progress' = at
          /\ timer' \in 1 .. GiveUpTime /\ timeUp' = timeUp
          /\ UNCHANGED <<tries, image, answers, spoilt>>
          /\ commands' \in [LoadChip -> Seq(Load!Command)]
      BY <1>1, SentFacts
    <2>2. /\ waited' \in 0 .. AnswerTime + 1 /\ progress' \in 0 .. Blocks + 1
      BY <2>1, LoadConstants
    <2> QED BY <1>1, <2>1, <2>2, LoadFields
           DEF LoadTypes, Load!TypeOK, Load!Success, Load!Block, Load!Old
  <1>2. CASE Load!SendHandshake
    BY <1>1, <1>2, CommandTypes, LoadFields, LoadConstants DEF Load!SendHandshake, Load!Running
  <1>3. CASE Load!SendBlock
    <2>1. /\ pc = "send" /\ ~ timeUp /\ step = 1 /\ index \in 0 .. Blocks /\ pos \in 0 .. Blocks
          /\ index + 1 \in 1 .. Blocks
      BY <1>3, LoadFields, LoadConstants DEF Load!SendBlock, Load!Running, LoadTypes
    <2> DEFINE data == IF pos < Blocks THEN pos + 1 ELSE Load!Junk
    <2>2. data \in 0 .. Blocks /\ pos' \in 0 .. Blocks
      BY <1>3, <2>1, LoadConstants DEF Load!SendBlock, Load!Junk
    <2>3. Load!Sent([at |-> index + 1, data |-> data], index + 1)
      BY <1>3 DEF Load!SendBlock
    <2>4. step' \in 0 .. 4 /\ (step' = 1 => index + 1 < Blocks)
      BY <1>3, <2>1, LoadConstants DEF Load!SendBlock, Load!Whole
    <2> HIDE DEF data
    <2> QED BY <1>1, <2>1, <2>2, <2>3, <2>4, CommandTypes
  <1>4. CASE Load!SendEnable
    BY <1>1, <1>4, CommandTypes, LoadFields, LoadConstants DEF Load!SendEnable, Load!Running
  <1> QED BY <1>2, <1>3, <1>4

LEMMA ThreadTypes ==
  LoadTypes /\ (\/ Load!Finish \/ Load!Leave \/ Load!StartOver \/ Load!Succeed \/ Load!SkipRead
                \/ Load!Done \/ \E c \in LoadChip : Load!Receive(c)) => LoadTypes'
  <1> SUFFICES ASSUME LoadTypes,
                      \/ Load!Finish \/ Load!Leave \/ Load!StartOver \/ Load!Succeed
                      \/ Load!SkipRead \/ Load!Done \/ \E c \in LoadChip : Load!Receive(c)
               PROVE  LoadTypes'
    OBVIOUS
  <1> USE DEF Load!TypeOK, Load!Success, Load!Block, Load!Old
  <1>1. CASE Load!Finish \/ Load!Leave \/ Load!StartOver \/ Load!Done
    <2>1. /\ UNCHANGED <<tries, index, pos, progress, timeUp, timer, waited, got, image,
                         commands, answers>>
          /\ pc' \in {"try", "send", "done"} /\ step' \in {step, 0} /\ spoilt' \in {spoilt, TRUE}
          /\ pc' = "send" => pc = "await"
      BY <1>1 DEF Load!Finish, Load!Leave, Load!StartOver, Load!Done, Load!timing, Load!wire,
                  Load!vars
    <2>2. timeUp' \in BOOLEAN /\ spoilt' \in BOOLEAN
      BY <2>1, LoadFields
    <2>3. pc' \in {"send", "await"} => timeUp' \/ timer' > 0
      BY <2>1 DEF LoadTypes
    <2>4. step' \in 0 .. 4 /\ (step' = 1 => index' < Blocks)
      BY <2>1, LoadFields DEF LoadTypes
    <2>5. Load!TypeOK'
      BY <2>1, <2>2, <2>4, LoadFields
    <2> QED BY <2>2, <2>3, <2>4, <2>5 DEF LoadTypes
  <1>2. CASE Load!Succeed
    <2>1. /\ tries' \in 0 .. Tries /\ progress' \in 0 .. Blocks + 1 /\ waited' \in 0 .. AnswerTime + 1
          /\ step = 4 /\ UNCHANGED <<pc, step, index, pos, timeUp, timer, got, image, commands, answers, spoilt>>
      BY <1>2, LoadConstants DEF Load!Succeed, Load!wire
    <2> QED BY <2>1, LoadFields DEF LoadTypes
  <1>3. CASE Load!SkipRead
    <2>1. /\ waited' \in 0 .. AnswerTime + 1 /\ step' = 3
          /\ UNCHANGED <<pc, tries, progress, index, pos, timeUp, timer, got, image, commands, answers, spoilt>>
      BY <1>3, LoadConstants DEF Load!SkipRead, Load!wire
    <2> QED BY <2>1, LoadFields DEF LoadTypes
  <1>4. ASSUME NEW c \in LoadChip, Load!Receive(c) PROVE LoadTypes'
    <2>1. answers \in [LoadChip -> Seq({"answer"})] /\ answers[c] # <<>>
      BY <1>4, LoadFields DEF Load!Receive
    <2>2. answers' \in [LoadChip -> Seq({"answer"})]
      <3>1. answers' = answers \/ answers' = [answers EXCEPT ![c] = Tail(@)]
        BY <1>4 DEF Load!Receive, Load!Read
      <3>2. Tail(answers[c]) \in Seq({"answer"})
        BY <2>1
      <3> QED BY <2>1, <3>1, <3>2
    <2>3. /\ pc' \in {"send", "await"} /\ pc = "await" /\ got' \subseteq LoadChip
          /\ UNCHANGED <<tries, step, index, pos, progress, timeUp, timer, waited, image, commands, spoilt>>
      BY <1>4, LoadFields DEF Load!Receive, Load!timing
    <2> QED BY <2>2, <2>3, LoadFields DEF LoadTypes
  <1> QED BY <1>1, <1>2, <1>3, <1>4

LEMMA WireTypes ==
  LoadTypes /\ (Load!Tick \/ \E c \in LoadChip : Load!Serve(c) \/ Load!Lose(c)) => LoadTypes'
  <1> SUFFICES ASSUME LoadTypes, Load!Tick \/ \E c \in LoadChip : Load!Serve(c) \/ Load!Lose(c)
               PROVE  LoadTypes'
    OBVIOUS
  <1> USE DEF Load!TypeOK, Load!Success, Load!Block, Load!Old
  <1>1. CASE Load!Tick
    <2>1. /\ pc = "await" /\ ~ timeUp /\ waited <= AnswerTime /\ waited' = waited + 1
          /\ timer' = timer - 1 /\ timeUp' = (timer = 1)
          /\ UNCHANGED <<pc, tries, step, index, pos, progress, got, image, commands, answers, spoilt>>
      BY <1>1 DEF Load!Tick, Load!Running, Load!wire
    <2>2. timer > 0
      BY <2>1 DEF LoadTypes
    <2>3. waited \in 0 .. AnswerTime + 1 /\ timer \in 0 .. GiveUpTime
      BY LoadFields
    <2>4. waited' \in 0 .. AnswerTime + 1 /\ timer' \in 0 .. GiveUpTime
      BY <2>1, <2>2, <2>3, LoadConstants
    <2>5. timer # 1 => timer' > 0
      BY <2>1, <2>2, <2>3
    <2>6. timeUp' \in BOOLEAN /\ (timer = 1 => timeUp')
      BY <2>1
    <2> QED BY <2>1, <2>4, <2>5, <2>6, LoadFields DEF LoadTypes
  <1>2. ASSUME NEW c \in LoadChip, Load!Serve(c) PROVE LoadTypes'
    <2>1. commands \in [LoadChip -> Seq(Load!Command)] /\ commands[c] # <<>>
      BY <1>2, LoadFields DEF Load!Serve
    <2>2. /\ commands' \in [LoadChip -> Seq(Load!Command)] /\ Head(commands[c]) \in Load!Command
      BY <1>2, <2>1 DEF Load!Serve, Load!Taken
    <2>3. answers \in [LoadChip -> Seq({"answer"})]
      BY LoadFields
    <2>4. answers' \in [LoadChip -> Seq({"answer"})]
      <3>1. answers' = answers \/ answers' = [answers EXCEPT ![c] = Append(@, "answer")]
        BY <1>2 DEF Load!Serve, Load!Answer
      <3>2. Append(answers[c], "answer") \in Seq({"answer"})
        <4>1. answers[c] \in Seq({"answer"})
          BY <2>3
        <4> QED BY <4>1
      <3> QED BY <2>3, <3>1, <3>2
    <2>5. image' \in [LoadChip -> [1 .. Blocks -> 0 .. Blocks + 1]]
      <3> DEFINE cmd == Head(commands[c])
      <3>1. image \in [LoadChip -> [1 .. Blocks -> 0 .. Blocks + 1]]
        BY LoadFields
      <3>2. image' = image \/ image' = [image EXCEPT ![c][cmd.at] = cmd.data]
        BY <1>2 DEF Load!Serve, Load!Written
      <3>3. cmd.data \in 0 .. Blocks + 1
        BY <2>2, LoadConstants DEF Load!Command
      <3> HIDE DEF cmd
      <3>4. [image[c] EXCEPT ![cmd.at] = cmd.data] \in [1 .. Blocks -> 0 .. Blocks + 1]
        BY <3>1, <3>3
      <3> QED BY <3>1, <3>2, <3>4
    <2>6. /\ UNCHANGED <<pc, tries, step, index, pos, progress, timeUp, timer, waited, got>>
          /\ spoilt' \in {spoilt, TRUE}
      BY <1>2 DEF Load!Serve, Load!timing
    <2> QED BY <2>2, <2>4, <2>5, <2>6, LoadFields DEF LoadTypes
  <1>3. ASSUME NEW c \in LoadChip, Load!Lose(c) PROVE LoadTypes'
    <2>1. commands \in [LoadChip -> Seq(Load!Command)] /\ answers \in [LoadChip -> Seq({"answer"})]
      BY LoadFields
    <2>2. commands' \in [LoadChip -> Seq(Load!Command)] /\ answers' \in [LoadChip -> Seq({"answer"})]
      <3>1. CASE commands[c] # <<>> /\ commands' = [commands EXCEPT ![c] = Tail(@)] /\ UNCHANGED answers
        <4>1. Tail(commands[c]) \in Seq(Load!Command)
          BY <2>1, <3>1
        <4> QED BY <2>1, <3>1, <4>1
      <3>2. CASE answers[c] # <<>> /\ answers' = [answers EXCEPT ![c] = Tail(@)] /\ UNCHANGED commands
        <4>1. Tail(answers[c]) \in Seq({"answer"})
          BY <2>1, <3>2
        <4> QED BY <2>1, <3>2, <4>1
      <3> QED BY <1>3, <3>1, <3>2 DEF Load!Lose, Load!Taken, Load!Read
    <2>3. UNCHANGED <<pc, tries, step, index, pos, progress, timeUp, timer, waited, got, image, spoilt>>
      BY <1>3 DEF Load!Lose, Load!timing
    <2> QED BY <2>2, <2>3, LoadFields DEF LoadTypes
  <1> QED BY <1>1, <1>2, <1>3

LEMMA LoadTypeStep == LoadTypes /\ [Load!Next]_Load!vars => LoadTypes'
  <1> SUFFICES ASSUME LoadTypes, [Load!Next]_Load!vars PROVE LoadTypes'
    OBVIOUS
  <1>1. CASE Load!Thread \/ Load!Done
    BY <1>1, TryTypes, SendTypes, ThreadTypes DEF Load!Thread
  <1>2. CASE Load!Tick \/ \E c \in LoadChip : Load!Serve(c) \/ Load!Lose(c)
    BY <1>2, WireTypes
  <1>3. CASE UNCHANGED Load!vars
    BY <1>3, ThreadTypes DEF LoadTypes, Load!TypeOK, Load!vars, Load!wire, Load!timing
  <1> QED BY <1>1, <1>2, <1>3 DEF Load!Next

-----------------------------------------------------------------------------
\* A chip answers what it was sent last before it is sent more.
Waits(c) ==
  \/ commands[c] = <<>> /\ answers[c] = <<>>
  \/ ~ Answered(c) /\ commands[c] = <<Current>> /\ answers[c] = <<>>
  \/ ~ Answered(c) /\ commands[c] = <<>> /\ answers[c] = <<"answer">>

Holds(c) == \A b \in 1 .. Blocks : b < index \/ (b = index /\ HasLast(c)) => image[c][b] = b

LEMMA InOrderParts ==
  InOrder <=> (~ spoilt /\ pc \in {"send", "await"} =>
                 /\ pos = index /\ (step = 0 => index = 0) /\ (step >= 2 => index = Blocks)
                 /\ \A c \in LoadChip : Waits(c) /\ Holds(c))
  BY DEF InOrder, Waits, Holds, Load!Block

\* Nothing was sent but was answered, so every chip has all blocks up to the last.
LEMMA ToSend ==
  ASSUME LoadTypes, InOrder, ~ spoilt, pc = "send"
  PROVE  /\ pos = index /\ (step = 0 => index = 0) /\ (step >= 2 => index = Blocks)
         /\ \A c \in LoadChip :
              /\ commands[c] = <<>> /\ answers[c] = <<>>
              /\ \A b \in 1 .. index : image[c][b] = b
  <1>1. index \in 0 .. Blocks
    BY LoadFields
  <1> QED BY <1>1, InOrderParts, LoadConstants DEF Waits, Holds, Answered, HasLast

\* What is sent then is the one thing on its way.
LEMMA SentInOrder ==
  ASSUME LoadTypes, InOrder, ~ spoilt, pc = "send", ~ timeUp,
         NEW command \in Load!Command, NEW at \in 0 .. Blocks, Load!Sent(command, at),
         pos' = at, step' \in 1 .. 4, step' >= 2 => at = Blocks,
         command = IF step' = 4 THEN Load!Enable ELSE [at |-> at, data |-> at],
         IF step' = 4 THEN at = index ELSE at <= index + 1
  PROVE  InOrder'
  <1>1. /\ pc' = "await" /\ got' = {} /\ index' = at
        /\ UNCHANGED <<image, answers, spoilt>>
        /\ \A c \in LoadChip : commands'[c] = Append(commands[c], command)
    BY SentFacts
  <1>2. command = Current'
    BY <1>1 DEF Current, Load!Enable
  <1>3. ASSUME NEW c \in LoadChip PROVE Waits(c)'
    <2>1. commands[c] = <<>> /\ answers[c] = <<>>
      BY ToSend
    <2>2. commands'[c] = <<command>>
      BY <1>1, <2>1
    <2>3. ~ Answered(c)'
      BY <1>1 DEF Answered
    <2> QED BY <1>1, <1>2, <2>1, <2>2, <2>3 DEF Waits
  <1>4. ASSUME NEW c \in LoadChip PROVE Holds(c)'
    <2>1. answers'[c] = <<>>
      BY <1>1, ToSend
    <2>2. HasLast(c)' => step' = 4
      BY <1>1, <2>1 DEF HasLast
    <2>3. \A b \in 1 .. index : image[c][b] = b
      BY ToSend
    <2>4. ASSUME NEW b \in 1 .. Blocks, b < at \/ (b = at /\ step' = 4) PROVE b \in 1 .. index
      <3>1. index \in Nat /\ at \in Nat /\ b \in Nat /\ 1 <= b
        BY LoadFields, LoadConstants
      <3>2. CASE step' = 4
        BY <2>4, <3>1, <3>2
      <3>3. CASE step' # 4
        BY <2>4, <3>1, <3>3
      <3> QED BY <3>2, <3>3
    <2>5. ASSUME NEW b \in 1 .. Blocks, b < at \/ (b = at /\ HasLast(c)') PROVE image'[c][b] = b
      <3>1. b \in 1 .. index
        BY <2>2, <2>4, <2>5
      <3> QED BY <1>1, <2>3, <3>1
    <2>6. \A b \in 1 .. Blocks :
            b < index' \/ (b = index' /\ HasLast(c)') => image'[c][b] = b
      BY <1>1, <2>5
    <2> QED BY <2>6 DEF Holds
  <1>5. pos' = index' /\ (step' = 0 => index' = 0) /\ (step' >= 2 => index' = Blocks)
    BY <1>1
  <1> QED BY <1>3, <1>4, <1>5, InOrderParts DEF InOrder, Waits, Holds, Load!Block

LEMMA Singleton == \A x : Head(<<x>>) = x /\ Tail(<<x>>) = <<>>
  OBVIOUS

LEMMA SendsInOrder ==
  LoadTypes /\ InOrder /\ (Load!SendHandshake \/ Load!SendBlock \/ Load!SendEnable)
    => InOrder' /\ Whole'
  <1> SUFFICES ASSUME LoadTypes, InOrder,
                      Load!SendHandshake \/ Load!SendBlock \/ Load!SendEnable
               PROVE  InOrder' /\ Whole'
    OBVIOUS
  <1>1. pc = "send" /\ ~ timeUp /\ spoilt' = spoilt
    BY DEF Load!SendHandshake, Load!SendBlock, Load!SendEnable, Load!Running, Load!Sent
  <1>2. index \in 0 .. Blocks
    BY LoadFields
  <1>3. CASE spoilt
    BY <1>1, <1>3 DEF InOrder, Whole
  <1>4. ASSUME ~ spoilt, Load!SendHandshake PROVE InOrder' /\ progress' \in 0 .. Blocks
    <2>1. /\ step = 0 /\ step' = 1 /\ pos' = pos /\ Load!Sent(Load!Handshake, 0)
      BY <1>4 DEF Load!SendHandshake
    <2>2. pos = 0
      BY <1>1, <1>4, <2>1, ToSend
    <2>3. Load!Handshake = [at |-> 0, data |-> 0]
      BY DEF Load!Handshake, Load!Junk
    <2>4. progress' = 0
      BY <2>1 DEF Load!Sent
    <2>5. 0 \in 0 .. Blocks
      BY LoadConstants
    <2> QED BY <1>1, <1>2, <1>4, <2>1, <2>2, <2>3, <2>4, <2>5, CommandTypes, SentInOrder
  <1>5. ASSUME ~ spoilt, Load!SendBlock PROVE InOrder' /\ progress' \in 0 .. Blocks
    <2> DEFINE at == index + 1
               command == [at |-> at, data |-> at]
    <2>1. step = 1 /\ pos = index
      BY <1>1, <1>5, ToSend DEF Load!SendBlock
    <2>2. index < Blocks
      BY <2>1 DEF LoadTypes
    <2>3. /\ Load!Sent([at |-> at, data |-> IF pos < Blocks THEN pos + 1 ELSE Load!Junk], at)
          /\ pos' = (IF pos < Blocks THEN pos + 1 ELSE pos)
          /\ step' = IF Load!Whole(at) THEN 2 ELSE 1
      BY <1>5 DEF Load!SendBlock
    <2>4. Load!Sent(command, at) /\ pos' = at
      BY <2>1, <2>2, <2>3
    <2>5. at \in 1 .. Blocks /\ at \in 0 .. Blocks /\ at <= index + 1
      BY <1>2, <2>2, LoadConstants
    <2>6. step' \in 1 .. 4 /\ step' # 4 /\ (step' >= 2 => at = Blocks)
      BY <2>3, <2>5, LoadConstants DEF Load!Whole
    <2>7. command \in Load!Command
      BY <2>5, CommandTypes
    <2>8. progress' = at
      BY <2>4 DEF Load!Sent
    <2> HIDE DEF at
    <2> QED BY <1>1, <1>5, <2>4, <2>5, <2>6, <2>7, <2>8, SentInOrder
  <1>6. ASSUME ~ spoilt, Load!SendEnable PROVE InOrder' /\ progress' \in 0 .. Blocks
    <2>1. step = 3 /\ step' = 4 /\ pos' = pos /\ Load!Sent(Load!Enable, index)
      BY <1>6 DEF Load!SendEnable
    <2>2. pos = index /\ index = Blocks
      BY <1>1, <1>6, <2>1, ToSend
    <2>3. progress' = index
      BY <2>1 DEF Load!Sent
    <2> QED BY <1>1, <1>2, <1>6, <2>1, <2>2, <2>3, CommandTypes, SentInOrder
  <1>7. progress' \in 0 .. Blocks => Whole'
    BY LoadConstants DEF Whole, Load!Success
  <1> QED BY <1>3, <1>4, <1>5, <1>6, <1>7

LEMMA ThreadInOrder ==
  LoadTypes /\ InOrder /\ Whole
    /\ (Load!Try \/ Load!Finish \/ Load!Leave \/ Load!StartOver \/ Load!Done)
    => InOrder' /\ Whole'
  <1> SUFFICES ASSUME LoadTypes, InOrder, Whole,
                      Load!Try \/ Load!Finish \/ Load!Leave \/ Load!StartOver \/ Load!Done
               PROVE  InOrder' /\ Whole'
    OBVIOUS
  <1>1. CASE Load!Try
    <2>1. /\ step' = 0 /\ index' = 0 /\ pos' = 0 /\ progress' = 0
          /\ commands' = [c \in LoadChip |-> <<>>] /\ answers' = [c \in LoadChip |-> <<>>]
      BY <1>1 DEF Load!Try, Load!Nothing
    <2>2. InOrder'
      BY <2>1, LoadConstants DEF InOrder, Load!Block
    <2>3. Whole'
      BY <2>1, LoadConstants DEF Whole, Load!Success
    <2> QED BY <2>2, <2>3
  <1>2. CASE Load!Finish \/ Load!Leave \/ Load!Done
    <2>1. pc' \in {"try", "done"} /\ UNCHANGED <<progress, spoilt, commands, image>>
      BY <1>2 DEF Load!Finish, Load!Leave, Load!Done, Load!vars, Load!wire
    <2> QED BY <2>1 DEF InOrder, Whole, Load!IsFile
  <1>3. CASE Load!StartOver
    BY <1>3 DEF Load!StartOver, InOrder, Whole
  <1> QED BY <1>1, <1>2, <1>3

LEMMA SucceedInOrder ==
  LoadTypes /\ InOrder /\ Whole /\ (Load!Succeed \/ Load!SkipRead) => InOrder' /\ Whole'
  <1> SUFFICES ASSUME LoadTypes, InOrder, Whole, Load!Succeed \/ Load!SkipRead
               PROVE  InOrder' /\ Whole'
    OBVIOUS
  <1>1. /\ pc = "send" /\ UNCHANGED <<pc, index, pos, got, image, commands, answers, spoilt>>
        /\ step >= 2 /\ step' \in {3, 4}
    BY DEF Load!Succeed, Load!SkipRead, Load!wire
  <1>2. CASE spoilt
    BY <1>1, <1>2 DEF InOrder, Whole
  <1>3. CASE ~ spoilt
    <2>1. /\ pos = index /\ index = Blocks
          /\ \A c \in LoadChip :
               /\ commands[c] = <<>> /\ answers[c] = <<>>
               /\ \A b \in 1 .. index : image[c][b] = b
      BY <1>1, <1>3, ToSend
    <2>2. \A c \in LoadChip : commands[c] = <<>> /\ Load!IsFile(c)
      BY <2>1 DEF Load!IsFile, Load!Block
    <2>3. InOrder'
      BY <1>1, <2>1 DEF InOrder, Load!Block
    <2>4. Whole'
      BY <1>1, <2>2 DEF Whole, Load!IsFile
    <2> QED BY <2>3, <2>4
  <1> QED BY <1>2, <1>3

LEMMA ReceiveInOrder ==
  ASSUME NEW c \in LoadChip
  PROVE  LoadTypes /\ InOrder /\ Whole /\ Load!Receive(c) => InOrder' /\ Whole'
  <1> SUFFICES ASSUME LoadTypes, InOrder, Whole, Load!Receive(c) PROVE InOrder' /\ Whole'
    OBVIOUS
  <1>1. /\ pc = "await" /\ answers[c] # <<>>
        /\ pc' = IF got' = LoadChip THEN "send" ELSE "await"
        /\ UNCHANGED <<step, index, pos, progress, image, commands, spoilt>>
    BY DEF Load!Receive, Load!AllAnswered, Load!timing
  <1>2. Whole'
    BY <1>1 DEF Whole, Load!IsFile
  <1>3. CASE spoilt
    BY <1>1, <1>2, <1>3 DEF InOrder
  <1>4. CASE ~ spoilt
    <2>1. /\ pos = index /\ (step = 0 => index = 0) /\ (step >= 2 => index = Blocks)
          /\ \A d \in LoadChip : Waits(d) /\ Holds(d)
      BY <1>1, <1>4, InOrderParts
    <2>2. answers \in [LoadChip -> Seq({"answer"})]
      BY LoadFields
    <2>3. ~ Answered(c) /\ answers[c] = <<"answer">> /\ commands[c] = <<>>
      BY <1>1, <2>1 DEF Waits
    <2>5. answers' = [answers EXCEPT ![c] = Tail(@)] => answers'[c] = <<>>
      BY <2>2, <2>3
    <2>6. /\ got' = got \cup {c} /\ answers' = [answers EXCEPT ![c] = Tail(@)]
          /\ answers'[c] = <<>>
      BY <2>3, <2>5 DEF Load!Receive, Load!Read, Answered
    <2>4. ASSUME NEW d \in LoadChip PROVE Waits(d)' /\ Holds(d)'
      <3>1. CASE d = c
        <4>1. HasLast(c)
          BY <2>3 DEF HasLast
        <4> QED BY <1>1, <2>1, <2>3, <2>6, <3>1, <4>1 DEF Waits, Holds
      <3>2. CASE d # c
        <4>1. answers'[d] = answers[d] /\ commands'[d] = commands[d] /\ Current' = Current
          BY <1>1, <2>2, <2>6, <3>2 DEF Current, Load!Enable, Load!Junk
        <4>2. Answered(d)' <=> Answered(d)
          BY <1>1, <2>6, <3>2 DEF Answered
        <4>3. HasLast(d)' => HasLast(d)
          BY <1>1, <4>1, <4>2 DEF HasLast, Answered
        <4> QED BY <1>1, <2>1, <4>1, <4>2, <4>3 DEF Waits, Holds
      <3> QED BY <3>1, <3>2
    <2> QED BY <1>1, <1>2, <2>1, <2>4 DEF InOrder, Waits, Holds, Load!Block
  <1> QED BY <1>3, <1>4

\* A chip that is served writes what was sent last; what gets lost is missed.
LEMMA ServeInOrder ==
  ASSUME NEW c \in LoadChip
  PROVE  LoadTypes /\ InOrder /\ Whole /\ Load!Serve(c) => InOrder' /\ Whole'
  <1> SUFFICES ASSUME LoadTypes, InOrder, Whole, Load!Serve(c) PROVE InOrder' /\ Whole'
    OBVIOUS
  <1>1. /\ commands[c] # <<>> /\ commands' = [commands EXCEPT ![c] = Tail(@)]
        /\ UNCHANGED <<pc, step, index, pos, progress, got>>
    BY DEF Load!Serve, Load!Taken
  <1>2. CASE spoilt' = TRUE
    BY <1>2 DEF InOrder, Whole
  <1>3. CASE spoilt' # TRUE
    <2> DEFINE cmd == Head(commands[c])
    <2>1. /\ spoilt' = spoilt
          /\ \/ UNCHANGED <<answers, image>>
             \/ Load!Written(c, cmd) /\ answers' = [answers EXCEPT ![c] = Append(@, "answer")]
      BY <1>3 DEF Load!Serve, Load!Answer
    <2>2. ~ spoilt
      BY <1>3, <2>1, LoadFields
    <2>3. Whole'
      <3>1. progress # Load!Success
        BY <1>1, <2>2 DEF Whole
      <3> QED BY <1>1, <3>1 DEF Whole, Load!Success
    <2>4. CASE pc \in {"send", "await"}
      <3>1. /\ pos = index /\ (step = 0 => index = 0) /\ (step >= 2 => index = Blocks)
            /\ \A d \in LoadChip : Waits(d) /\ Holds(d)
        BY <2>2, <2>4, InOrderParts
      <3>2. /\ commands \in [LoadChip -> Seq(Load!Command)] /\ answers \in [LoadChip -> Seq({"answer"})]
            /\ image \in [LoadChip -> [1 .. Blocks -> 0 .. Blocks + 1]] /\ index \in 0 .. Blocks
        BY LoadFields
      <3>3. /\ commands[c] = <<Current>> /\ answers[c] = <<>> /\ ~ Answered(c)
            /\ commands'[c] = <<>> /\ cmd = Current
        <4>1. commands[c] = <<Current>> /\ answers[c] = <<>> /\ ~ Answered(c)
          BY <1>1, <3>1 DEF Waits
        <4>2. commands'[c] = Tail(commands[c])
          BY <1>1, <3>2
        <4> QED BY <4>1, <4>2, Singleton
      <3>4. Current' = Current /\ \A d \in LoadChip : Answered(d)' <=> Answered(d)
        BY <1>1 DEF Current, Load!Enable, Load!Junk, Answered
      <3>5. ASSUME NEW d \in LoadChip, d # c PROVE Waits(d)' /\ Holds(d)'
        <4>1. answers'[d] = answers[d] /\ commands'[d] = commands[d]
          BY <1>1, <2>1, <3>2, <3>5
        <4>2. image'[d] = image[d]
          BY <2>1, <3>2, <3>5 DEF Load!Written
        <4>3. HasLast(d)' <=> HasLast(d)
          BY <1>1, <4>1 DEF HasLast
        <4> QED BY <1>1, <3>1, <3>4, <4>1, <4>2, <4>3 DEF Waits, Holds
      <3>6. CASE UNCHANGED <<answers, image>>
        <4>1. HasLast(c)' <=> HasLast(c)
          BY <1>1, <3>6 DEF HasLast
        <4>2. Waits(c)' /\ Holds(c)'
          BY <1>1, <3>1, <3>3, <3>6, <4>1 DEF Waits, Holds
        <4> QED BY <1>1, <2>1, <2>3, <3>1, <3>5, <4>2 DEF InOrder, Waits, Holds, Load!Block
      <3>7. CASE Load!Written(c, cmd) /\ answers' = [answers EXCEPT ![c] = Append(@, "answer")]
        <4>1. answers'[c] = <<"answer">>
          BY <3>2, <3>3, <3>7
        <4>2. Waits(c)'
          BY <3>3, <3>4, <4>1 DEF Waits
        <4>3. step # 4 => image' = IF index \in 1 .. Blocks THEN [image EXCEPT ![c][index] = index]
                                  ELSE image
          <5>1. step # 4 => cmd.at = index /\ cmd.data = index
            BY <3>3 DEF Current
          <5> HIDE DEF cmd
          <5> QED BY <3>7, <5>1 DEF Load!Written, Load!Block
        <4>4. step = 4 => image' = image
          BY <3>3, <3>7, LoadConstants DEF Load!Written, Load!Block, Current, Load!Enable
        <4>5. Holds(c)'
          <5>1. CASE step = 4
            BY <1>1, <3>1, <4>4, <5>1 DEF Holds, HasLast
          <5>2. CASE step # 4
            <6>1. ASSUME NEW b \in 1 .. Blocks, b <= index PROVE image'[c][b] = b
              <7>1. index \in 1 .. Blocks
                BY <3>2, <6>1, LoadConstants
              <7>2. image' = [image EXCEPT ![c] = [image[c] EXCEPT ![index] = index]]
                BY <4>3, <5>2, <7>1
              <7>3. image'[c] = [image[c] EXCEPT ![index] = index]
                BY <3>2, <7>2
              <7>4. b # index => image[c][b] = b
                BY <3>1, <3>2, <6>1, <7>1, LoadConstants DEF Holds
              <7> QED BY <3>2, <7>3, <7>4
            <6> QED BY <1>1, <3>2, <6>1 DEF Holds
          <5> QED BY <5>1, <5>2
        <4> QED BY <1>1, <2>1, <2>3, <3>1, <3>5, <4>2, <4>5 DEF InOrder, Waits, Holds, Load!Block
      <3> QED BY <2>1, <3>6, <3>7
    <2>5. CASE pc \notin {"send", "await"}
      BY <1>1, <2>3, <2>5 DEF InOrder
    <2> QED BY <2>4, <2>5
  <1> QED BY <1>2, <1>3

LEMMA LoseInOrder ==
  ASSUME NEW c \in LoadChip
  PROVE  LoadTypes /\ InOrder /\ Whole /\ Load!Lose(c) => InOrder' /\ Whole'
  <1> SUFFICES ASSUME LoadTypes, InOrder, Whole, Load!Lose(c) PROVE InOrder' /\ Whole'
    OBVIOUS
  <1>1. /\ UNCHANGED <<pc, step, index, pos, progress, got, image, spoilt>>
        /\ \/ commands[c] # <<>> /\ commands' = [commands EXCEPT ![c] = Tail(@)] /\ UNCHANGED answers
           \/ answers[c] # <<>> /\ answers' = [answers EXCEPT ![c] = Tail(@)] /\ UNCHANGED commands
    BY DEF Load!Lose, Load!Taken, Load!Read
  <1>2. commands \in [LoadChip -> Seq(Load!Command)] /\ answers \in [LoadChip -> Seq({"answer"})]
    BY LoadFields
  <1>3. Whole'
    BY <1>1, <1>2 DEF Whole, Load!IsFile, Load!Success
  <1>4. CASE ~ spoilt /\ pc \in {"send", "await"}
    <2>1. /\ pos = index /\ (step = 0 => index = 0) /\ (step >= 2 => index = Blocks)
          /\ \A d \in LoadChip : Waits(d) /\ Holds(d)
      BY <1>4, InOrderParts
    <2>2. Current' = Current /\ \A d \in LoadChip : Answered(d)' <=> Answered(d)
      BY <1>1 DEF Current, Load!Enable, Load!Junk, Answered
    <2>3. ASSUME NEW d \in LoadChip, d # c PROVE Waits(d)' /\ Holds(d)'
      <3>1. answers'[d] = answers[d] /\ commands'[d] = commands[d]
        BY <1>1, <1>2, <2>3
      <3>2. HasLast(d)' <=> HasLast(d)
        BY <1>1, <3>1 DEF HasLast
      <3> QED BY <1>1, <2>1, <2>2, <3>1, <3>2 DEF Waits, Holds
    <2>4. Waits(c)' /\ (HasLast(c)' => HasLast(c))
      <3>1. commands'[c] = <<>> /\ answers'[c] = <<>>
        <4>1. CASE commands[c] = <<>> /\ answers[c] = <<>>
          BY <1>1, <1>2, <4>1
        <4>2. CASE commands[c] = <<Current>> /\ answers[c] = <<>>
          BY <1>1, <1>2, <4>2, Singleton
        <4>3. CASE commands[c] = <<>> /\ answers[c] = <<"answer">>
          BY <1>1, <1>2, <4>3, Singleton
        <4> QED BY <2>1, <4>1, <4>2, <4>3 DEF Waits
      <3> QED BY <1>1, <3>1 DEF Waits, HasLast
    <2>5. Holds(c)'
      BY <1>1, <2>1, <2>4 DEF Holds
    <2> QED BY <1>1, <1>3, <2>1, <2>3, <2>4, <2>5 DEF InOrder, Waits, Holds, Load!Block
  <1>5. CASE ~ (~ spoilt /\ pc \in {"send", "await"})
    BY <1>1, <1>3, <1>5 DEF InOrder
  <1> QED BY <1>4, <1>5

LEMMA LoadStep == LoadInv /\ [Load!Next]_Load!vars => LoadInv'
  <1> SUFFICES ASSUME LoadInv, [Load!Next]_Load!vars PROVE LoadInv'
    OBVIOUS
  <1>1. LoadTypes /\ InOrder /\ Whole
    BY DEF LoadInv
  <1>2. LoadTypes'
    BY <1>1, LoadTypeStep
  <1>3. CASE Load!Thread \/ Load!Done
    BY <1>1, <1>2, <1>3, ThreadInOrder, SucceedInOrder, SendsInOrder, ReceiveInOrder
       DEF Load!Thread, LoadInv
  <1>4. ASSUME NEW c \in LoadChip, Load!Serve(c) \/ Load!Lose(c) PROVE LoadInv'
    BY <1>1, <1>2, <1>4, ServeInOrder, LoseInOrder DEF LoadInv
  <1>5. CASE Load!Tick \/ UNCHANGED Load!vars
    <2>1. UNCHANGED <<pc, step, index, pos, progress, got, image, commands, answers, spoilt>>
      BY <1>5 DEF Load!Tick, Load!vars, Load!wire
    <2> QED BY <1>1, <1>2, <2>1
            DEF LoadInv, InOrder, Whole, Load!IsFile, Current, HasLast, Answered
  <1> QED BY <1>3, <1>4, <1>5 DEF Load!Next

LEMMA LoadWhole == LoadInv => Load!WholeUnlessSpoilt
  BY DEF LoadInv, LoadTypes, Whole, Load!WholeUnlessSpoilt

\* No chip is enabled that missed a block, unless the load started over or a
\* block was refused: for any file, chips and times, and whatever is lost.
THEOREM FirmwareIsWhole == Load!Spec => []Load!WholeUnlessSpoilt
  BY LoadInit, LoadStep, LoadWhole, PTL DEF Load!Spec

\* The same of the behaviours of the run, where the other gateways stand still.
THEOREM WholeOfTheRun == MCInit /\ [][MCNext]_MCVars => []WholeFirmware
  <1> DEFINE RunInv == gateway = "load" => LoadInv
  <1>1. MCInit => RunInv
    BY LoadInit DEF MCInit
  <1>2. RunInv /\ [MCNext]_MCVars => RunInv'
    <2> SUFFICES ASSUME RunInv, [MCNext]_MCVars, gateway' = "load" PROVE RunInv'
      OBVIOUS
    <2>1. gateway = "load" /\ [Load!Next]_Load!vars
      BY DEF MCNext, MCVars, load, Load!vars, Load!wire, Load!timing
    <2> QED BY <2>1, LoadStep
  <1>3. RunInv => WholeFirmware
    BY LoadWhole DEF WholeFirmware
  <1> QED BY <1>1, <1>2, <1>3, PTL

-----------------------------------------------------------------------------
(* The networks                                                            *)

TwoP == INSTANCE NetworkProofs WITH
  Chips <- <<"master", "slave">>, Family <- {1}, Changes <- 1
ShakyP == INSTANCE NetworkProofs WITH
  Family <- {1}, Faults <- 1, Fails <- 0, Restarts <- 1

\* What is proved of TwoP and ShakyP is proved of the gateways of the run: the
\* definitions of both are the same.
LEMMA SameTwo ==
  /\ TwoP!CoordinatorAssumption
  /\ Two!Init <=> TwoP!Init
  /\ [Two!Next]_Two!vars <=> [TwoP!Next]_TwoP!vars
  /\ Two!NetworkOfItsFamily <=> TwoP!NetworkOfItsFamily
  <1> USE DEF
        Two!Message, TwoP!Message, Two!cloudVars, TwoP!cloudVars, Two!netVars, TwoP!netVars,
        Two!ports, TwoP!ports, Two!wires, TwoP!wires, Two!vars, TwoP!vars, Two!Chip, TwoP!Chip,
        Two!InNetwork, TwoP!InNetwork, Two!Use, TwoP!Use, Two!Init, TwoP!Init,
        Two!Write, TwoP!Write, Two!Delay, TwoP!Delay, Two!Marked, TwoP!Marked,
        Two!onStartNewNetWork, TwoP!onStartNewNetWork, Two!Starts, TwoP!Starts,
        Two!SetFamily, TwoP!SetFamily, Two!Adopts, TwoP!Adopts, Two!Asks, TwoP!Asks,
        Two!Handle, TwoP!Handle, Two!StartNext, TwoP!StartNext, Two!ResetNext, TwoP!ResetNext,
        Two!AllTreated, TwoP!AllTreated, Two!Return, TwoP!Return, Two!Fire, TwoP!Fire,
        Two!Received, TwoP!Received, Two!Changed, TwoP!Changed,
        Two!HasNoNetwork, TwoP!HasNoNetwork, Two!HasNetwork, TwoP!HasNetwork,
        Two!IsStarting, TwoP!IsStarting, Two!SerialThread, TwoP!SerialThread,
        Two!Older, TwoP!Older, Two!Tick, TwoP!Tick, Two!Sends, TwoP!Sends,
        Two!Becomes, TwoP!Becomes, Two!ChipDoes, TwoP!ChipDoes, Two!Form, TwoP!Form,
        Two!Fail, TwoP!Fail, Two!Change, TwoP!Change, Two!Answer, TwoP!Answer,
        Two!Reconnect, TwoP!Reconnect, Two!Lose, TwoP!Lose, Two!Restart, TwoP!Restart,
        Two!NetThread, TwoP!NetThread, Two!Next, TwoP!Next, Two!TypeOK, TwoP!TypeOK,
        Two!NetworkOfItsFamily, TwoP!NetworkOfItsFamily,
        Two!CoordinatorAssumption, TwoP!CoordinatorAssumption, Two!Range, TwoP!Range,
        Two!RemoveAt, TwoP!RemoveAt, Two!IsSuffix, TwoP!IsSuffix, Two!IsPrefix, TwoP!IsPrefix,
        Two!Reverse, TwoP!Reverse
  <1>1. TwoP!CoordinatorAssumption
    BY NetworkAssumption
  <1>2. Two!Init <=> TwoP!Init
    OBVIOUS
  <1>3. [Two!Next]_Two!vars <=> [TwoP!Next]_TwoP!vars
    OBVIOUS
  <1>4. Two!NetworkOfItsFamily <=> TwoP!NetworkOfItsFamily
    OBVIOUS
  <1> QED BY <1>1, <1>2, <1>3, <1>4

LEMMA SameShaky ==
  /\ ShakyP!CoordinatorAssumption
  /\ Shaky!Init <=> ShakyP!Init
  /\ [Shaky!Next]_Shaky!vars <=> [ShakyP!Next]_ShakyP!vars
  /\ Shaky!TypeOK <=> ShakyP!TypeOK
  <1> USE DEF
        Shaky!Message, ShakyP!Message, Shaky!cloudVars, ShakyP!cloudVars,
        Shaky!netVars, ShakyP!netVars, Shaky!ports, ShakyP!ports, Shaky!wires, ShakyP!wires,
        Shaky!vars, ShakyP!vars, Shaky!Chip, ShakyP!Chip, Shaky!InNetwork, ShakyP!InNetwork,
        Shaky!Use, ShakyP!Use, Shaky!Init, ShakyP!Init, Shaky!Write, ShakyP!Write,
        Shaky!Delay, ShakyP!Delay, Shaky!Marked, ShakyP!Marked,
        Shaky!onStartNewNetWork, ShakyP!onStartNewNetWork, Shaky!Starts, ShakyP!Starts,
        Shaky!SetFamily, ShakyP!SetFamily, Shaky!Adopts, ShakyP!Adopts,
        Shaky!Asks, ShakyP!Asks, Shaky!Handle, ShakyP!Handle,
        Shaky!StartNext, ShakyP!StartNext, Shaky!ResetNext, ShakyP!ResetNext,
        Shaky!AllTreated, ShakyP!AllTreated, Shaky!Return, ShakyP!Return,
        Shaky!Fire, ShakyP!Fire, Shaky!Received, ShakyP!Received,
        Shaky!Changed, ShakyP!Changed, Shaky!HasNoNetwork, ShakyP!HasNoNetwork,
        Shaky!HasNetwork, ShakyP!HasNetwork, Shaky!IsStarting, ShakyP!IsStarting,
        Shaky!SerialThread, ShakyP!SerialThread, Shaky!Older, ShakyP!Older,
        Shaky!Tick, ShakyP!Tick, Shaky!Sends, ShakyP!Sends, Shaky!Becomes, ShakyP!Becomes,
        Shaky!ChipDoes, ShakyP!ChipDoes, Shaky!Form, ShakyP!Form, Shaky!Fail, ShakyP!Fail,
        Shaky!Change, ShakyP!Change, Shaky!Answer, ShakyP!Answer,
        Shaky!Reconnect, ShakyP!Reconnect, Shaky!Lose, ShakyP!Lose,
        Shaky!Restart, ShakyP!Restart, Shaky!NetThread, ShakyP!NetThread,
        Shaky!Next, ShakyP!Next, Shaky!TypeOK, ShakyP!TypeOK,
        Shaky!NetworkOfItsFamily, ShakyP!NetworkOfItsFamily,
        Shaky!CoordinatorAssumption, ShakyP!CoordinatorAssumption, Shaky!Range, ShakyP!Range,
        Shaky!RemoveAt, ShakyP!RemoveAt, Shaky!IsSuffix, ShakyP!IsSuffix,
        Shaky!IsPrefix, ShakyP!IsPrefix, Shaky!Reverse, ShakyP!Reverse
  <1>1. ShakyP!CoordinatorAssumption
    BY NetworkAssumption
  <1>2. Shaky!Init <=> ShakyP!Init
    OBVIOUS
  <1>3. [Shaky!Next]_Shaky!vars <=> [ShakyP!Next]_ShakyP!vars
    OBVIOUS
  <1>4. Shaky!TypeOK <=> ShakyP!TypeOK
    OBVIOUS
  <1> QED BY <1>1, <1>2, <1>3, <1>4

NetworksInv ==
  /\ gateway \in {"one", "two", "shaky", "load"}
  /\ gateway = "one" => NetTypes /\ Kept
  /\ gateway = "two" => TwoP!NetTypes /\ TwoP!Kept
  /\ gateway = "shaky" => ShakyP!NetTypes

LEMMA NetworksInit == MCInit => NetworksInv
  <1> SUFFICES ASSUME MCInit PROVE NetworksInv
    OBVIOUS
  <1>1. gateway \in {"one", "two", "shaky", "load"}
    BY DEF MCInit
  <1>2. gateway = "one" => NetTypes /\ Kept
    BY NetInit DEF MCInit
  <1>3. gateway = "two" => TwoP!NetTypes /\ TwoP!Kept
    BY SameTwo, TwoP!NetInit DEF MCInit
  <1>4. gateway = "shaky" => ShakyP!NetTypes
    BY SameShaky, ShakyP!NetInit DEF MCInit
  <1> QED BY <1>1, <1>2, <1>3, <1>4 DEF NetworksInv

LEMMA NetworksStep ==
  ASSUME Faults = 0, Restarts = 0 PROVE NetworksInv /\ [MCNext]_MCVars => NetworksInv'
  <1> SUFFICES ASSUME NetworksInv, [MCNext]_MCVars PROVE NetworksInv'
    OBVIOUS
  <1>1. /\ gateway' = gateway
        /\ gateway = "one" => [Next]_vars
        /\ gateway = "two" => [Two!Next]_Two!vars
        /\ gateway = "shaky" => [Shaky!Next]_Shaky!vars
    <2>1. Two!vars = vars /\ Shaky!vars = vars
      BY DEF vars, cloudVars, netVars, ports, wires,
             Two!vars, Two!cloudVars, Two!netVars, Two!ports, Two!wires,
             Shaky!vars, Shaky!cloudVars, Shaky!netVars, Shaky!ports, Shaky!wires
    <2>2. CASE MCNext
      BY <2>2 DEF MCNext
    <2>3. CASE UNCHANGED MCVars
      <3>1. UNCHANGED gateway /\ UNCHANGED vars
        BY <2>3 DEF MCVars
      <3>2. UNCHANGED Two!vars /\ UNCHANGED Shaky!vars
        BY <3>1 DEF vars, cloudVars, netVars, ports, wires,
             Two!vars, Two!cloudVars, Two!netVars, Two!ports, Two!wires,
             Shaky!vars, Shaky!cloudVars, Shaky!netVars, Shaky!ports, Shaky!wires
      <3> QED BY <3>1, <3>2
    <2> QED BY <2>2, <2>3
  <1>2. CASE gateway = "one"
    BY <1>1, <1>2, NetStep DEF NetworksInv
  <1>3. CASE gateway = "two"
    <2>1. TwoP!NetTypes /\ TwoP!Kept /\ [TwoP!Next]_TwoP!vars
      BY <1>1, <1>3, SameTwo DEF NetworksInv
    <2>2. TwoP!NetTypes' /\ TwoP!Kept'
      BY <2>1, SameTwo, TwoP!NetStep
    <2> QED BY <1>1, <1>3, <2>2 DEF NetworksInv
  <1>4. CASE gateway = "shaky"
    <2>1. ShakyP!NetTypes /\ [ShakyP!Next]_ShakyP!vars
      BY <1>1, <1>4, SameShaky DEF NetworksInv
    <2>2. ShakyP!NetTypes'
      BY <2>1, SameShaky, ShakyP!NetStep
    <2> QED BY <1>1, <1>4, <2>2 DEF NetworksInv
  <1>5. CASE gateway = "load"
    BY <1>1, <1>5 DEF NetworksInv
  <1> QED BY <1>2, <1>3, <1>4, <1>5 DEF NetworksInv

\* NewNetworks of the run: for the gateways with one and with two chips, of which
\* nothing gets lost, and the types of the one that is restarted.
THEOREM NetworksOfTheRun ==
  Faults = 0 /\ Restarts = 0 => (MCInit /\ [][MCNext]_MCVars => []NewNetworks)
  <1> SUFFICES ASSUME Faults = 0, Restarts = 0 PROVE MCInit /\ [][MCNext]_MCVars => []NewNetworks
    OBVIOUS
  <1>1. NetworksInv /\ [MCNext]_MCVars => NetworksInv'
    BY NetworksStep
  <1>2. NetworksInv => NewNetworks
    <2> SUFFICES ASSUME NetworksInv PROVE NewNetworks
      OBVIOUS
    <2>1. gateway = "one" => NetworkOfItsFamily
      BY NetRight DEF NetworksInv
    <2>2. gateway = "two" => Two!NetworkOfItsFamily
      BY SameTwo, TwoP!NetRight DEF NetworksInv
    <2>3. gateway = "shaky" => Shaky!TypeOK
      BY SameShaky, ShakyP!NetTypesRight DEF NetworksInv
    <2> QED BY <2>1, <2>2, <2>3 DEF NewNetworks, NetworksInv
  <1> QED BY <1>1, <1>2, NetworksInit, PTL
=============================================================================
