--------------------------- MODULE NetworkProofs ----------------------------
(* For any chips, families, delays and bounds: types are right, and a       *)
(* network of the family before is always about to be reset, as its chip is *)
(* still to be treated, or its reset is delayed, or on its way (Kept).      *)
EXTENDS Coordinator, TLAPS

\* What makes a chip forget its network is under way.
Leaving(c) ==
  \/ netPc = "start" /\ \E n \in DOMAIN todo : todo[n] = c
  \/ \E n \in DOMAIN delayed[c] : delayed[c][n].cmd = "reset"
  \/ \E n \in DOMAIN down[c] : down[c][n] = "reset"

Later == [cmd : {"start", "reset"}, due : 0 .. LeaveDelay]
ToChip == {"info", "reset", "start"}
FromChip == {"init", "starting", "own", "foreign", "reset", "started"}
Counted == [{"change", "fault", "fail", "restart"} -> Nat]

\* The chips that are still to be treated are the last ones.
LastOnes(s) ==
  /\ s \in Seq(Chip) /\ Len(s) <= Len(Chips)
  /\ \A n \in 1 .. Len(s) : s[n] = Chips[Len(Chips) - Len(s) + n]

CloudTypes ==
  /\ family \in Family \cup {0} /\ cloud \in Family \cup {0}
  /\ asked \in Seq({"info", "all"}) /\ inbox \in Seq(Message)

ThreadTypesN ==
  /\ netPc \in {"idle", "start", "reset"} /\ LastOnes(todo)
  /\ netPc = "idle" => todo = <<>> /\ job = None
  /\ netPc # "idle" => job \in Message
  /\ netPc = "start" => family # 0
  /\ netPc = "reset" => job.family = 0

PortTypes ==
  /\ delayed \in [Chip -> Seq(Later)]
  /\ failAge \in [Chip -> 0 .. FailTime + 1 \cup {None}] /\ check \in 0 .. CheckTime - 1

ChipTypes ==
  /\ down \in [Chip -> Seq(ToChip)] /\ up \in [Chip -> Seq(FromChip)]
  /\ radio \in [Chip -> {"init", "starting", "failed", "own", "foreign"}]
  /\ old \in [Chip -> BOOLEAN]

NetTypes == CloudTypes /\ ThreadTypesN /\ PortTypes /\ ChipTypes /\ used \in Counted

LEMMA NetConstants ==
  /\ StartDelay \in 0 .. LeaveDelay /\ ResetDelay \in 0 .. LeaveDelay
  /\ LeaveDelay \in 0 .. LeaveDelay /\ LeaveDelay \in Nat
  /\ CheckTime \in Nat \ {0} /\ FailTime \in Nat
  BY CoordinatorAssumption

LEMMA ChipsFacts ==
  /\ Chips \in Seq(Chip) /\ Len(Chips) \in Nat /\ LastOnes(Chips) /\ LastOnes(<<>>)
  /\ \A c \in Chip : \E n \in DOMAIN Chips : Chips[n] = c
  <1>1. Chips \in Seq(Chip) /\ Len(Chips) \in Nat
    BY CoordinatorAssumption DEF Chip
  <1>2. LastOnes(Chips) /\ LastOnes(<<>>)
    BY <1>1 DEF LastOnes
  <1>3. \A c \in Chip : \E n \in DOMAIN Chips : Chips[n] = c
    BY DEF Chip, Range
  <1> QED BY <1>1, <1>2, <1>3

LEMMA LastTail ==
  ASSUME NEW s, LastOnes(s), s # <<>>
  PROVE  LastOnes(Tail(s)) /\ Head(s) \in Chip
  <1> DEFINE t == Tail(s)
  <1>1. s \in Seq(Chip) /\ Len(s) \in Nat /\ Len(s) > 0
    BY DEF LastOnes
  <1>2. /\ t \in Seq(Chip) /\ Len(t) = Len(s) - 1 /\ \A n \in 1 .. Len(t) : t[n] = s[n + 1]
    BY <1>1
  <1> HIDE DEF t
  <1>3. ASSUME NEW n \in 1 .. Len(t) PROVE t[n] = Chips[Len(Chips) - Len(t) + n]
    <2>1. n + 1 \in 1 .. Len(s) /\ Len(Chips) - Len(s) + (n + 1) = Len(Chips) - Len(t) + n
      BY <1>1, <1>2, ChipsFacts
    <2> QED BY <1>2, <2>1 DEF LastOnes
  <1>4. Len(t) <= Len(Chips)
    BY <1>1, <1>2, ChipsFacts DEF LastOnes
  <1> QED BY <1>1, <1>2, <1>3, <1>4 DEF LastOnes, t

LEMMA LastSuffix ==
  ASSUME NEW s, LastOnes(s) PROVE IsSuffix(s, Chips)
  <1> DEFINE m == Len(s)
             n == Len(Chips)
             r == Reverse(s)
             rc == Reverse(Chips)
  <1>1. m \in Nat /\ n \in Nat /\ m <= n
    BY ChipsFacts DEF LastOnes
  <1>2. /\ s \in Seq(Chip) /\ Chips \in Seq(Chip)
        /\ \A k \in 1 .. m : s[k] = Chips[n - m + k]
    BY ChipsFacts DEF LastOnes
  <1> HIDE DEF m, n
  <1>3. /\ r \in Seq(Chip) /\ Len(r) = m /\ \A k \in 1 .. m : r[k] = s[(m - k) + 1]
        /\ rc \in Seq(Chip) /\ Len(rc) = n /\ \A k \in 1 .. n : rc[k] = Chips[(n - k) + 1]
    <2>1. ASSUME NEW x \in Seq(Chip)
          PROVE  /\ Reverse(x) \in Seq(Chip) /\ Len(Reverse(x)) = Len(x)
                 /\ \A k \in 1 .. Len(x) : Reverse(x)[k] = x[(Len(x) - k) + 1]
      BY DEF Reverse
    <2> QED BY <1>2, <2>1 DEF m, n
  <1> HIDE DEF r, rc
  <1>4. ASSUME NEW k \in 1 .. m PROVE r[k] = rc[k]
    <2>1. (m - k) + 1 \in 1 .. m /\ n - m + ((m - k) + 1) = (n - k) + 1 /\ k \in 1 .. n
      BY <1>1
    <2>2. s[(m - k) + 1] = Chips[n - m + ((m - k) + 1)]
      BY <1>2, <2>1
    <2>3. r[k] = s[(m - k) + 1] /\ rc[k] = Chips[(n - k) + 1]
      BY <1>3, <2>1
    <2> QED BY <2>1, <2>2, <2>3
  <1>5. SubSeq(r, 1, m) = SubSeq(rc, 1, m)
    BY <1>1, <1>3, <1>4
  <1> QED BY <1>1, <1>3, <1>5 DEF IsSuffix, IsPrefix, r, rc, m, n

LEMMA NetTypesRight == NetTypes => TypeOK
  <1> SUFFICES ASSUME NetTypes PROVE TypeOK
    OBVIOUS
  <1>1. job \in Message \cup {None} /\ (job = None <=> netPc = "idle")
    BY CoordinatorAssumption DEF NetTypes, ThreadTypesN
  <1>2. IsSuffix(todo, Chips)
    BY LastSuffix DEF NetTypes, ThreadTypesN
  <1> QED BY <1>1, <1>2 DEF NetTypes, CloudTypes, ThreadTypesN, PortTypes, ChipTypes, TypeOK,
                            Later, ToChip, FromChip

-----------------------------------------------------------------------------
(* One chip's queue is changed *)

LEMMA Longer ==
  ASSUME NEW S, NEW f \in [Chip -> Seq(S)], NEW c \in Chip, NEW e \in S, NEW g,
         g = [f EXCEPT ![c] = Append(@, e)]
  PROVE  /\ g \in [Chip -> Seq(S)] /\ g[c] = Append(f[c], e)
         /\ \A d \in Chip : d # c => g[d] = f[d]
  <1>1. Append(f[c], e) \in Seq(S)
    OBVIOUS
  <1> QED BY <1>1

LEMMA Shorter ==
  ASSUME NEW S, NEW f \in [Chip -> Seq(S)], NEW c \in Chip, f[c] # <<>>, NEW g,
         g = [f EXCEPT ![c] = Tail(@)]
  PROVE  /\ g \in [Chip -> Seq(S)] /\ g[c] = Tail(f[c])
         /\ \A d \in Chip : d # c => g[d] = f[d]
  <1>1. Tail(f[c]) \in Seq(S)
    OBVIOUS
  <1> QED BY <1>1

LEMMA Started ==
  ASSUME PortTypes, NEW c \in Chip, NEW anew \in BOOLEAN, onStartNewNetWork(c, anew)
  PROVE  /\ delayed' \in [Chip -> Seq(Later)]
         /\ failAge' \in [Chip -> 0 .. FailTime + 1 \cup {None}]
         /\ delayed' = [delayed EXCEPT ![c] = Append(@, IF anew THEN [cmd |-> "reset", due |-> ResetDelay]
                                                        ELSE [cmd |-> "start", due |-> StartDelay])]
  <1> DEFINE e == IF anew THEN [cmd |-> "reset", due |-> ResetDelay]
                  ELSE [cmd |-> "start", due |-> StartDelay]
  <1>1. e \in Later
    BY NetConstants DEF Later
  <1>2. delayed' = [delayed EXCEPT ![c] = Append(@, e)]
    BY DEF onStartNewNetWork, Delay
  <1> HIDE DEF e
  <1>3. delayed' \in [Chip -> Seq(Later)]
    <2>1. Append(delayed[c], e) \in Seq(Later)
      BY <1>1 DEF PortTypes
    <2> QED BY <1>2, <2>1 DEF PortTypes
  <1>4. failAge' \in [Chip -> 0 .. FailTime + 1 \cup {None}]
    <2>1. 0 \in 0 .. FailTime + 1
      BY NetConstants
    <2> QED BY <2>1 DEF PortTypes, onStartNewNetWork, Marked
  <1> QED BY <1>2, <1>3, <1>4 DEF e

-----------------------------------------------------------------------------
(* Each step keeps the types, and what makes a chip forget its network *)

Kept == \A c \in Chip : old[c] => Leaving(c)

LEMMA NetInit == Init => NetTypes /\ Kept
  <1> SUFFICES ASSUME Init PROVE NetTypes /\ Kept
    OBVIOUS
  <1>1. /\ <<"info">> \in Seq({"info", "all"}) /\ <<>> \in Seq(Message) /\ <<>> \in Seq(Later)
        /\ <<"info">> \in Seq(ToChip) /\ <<>> \in Seq(FromChip)
    BY DEF ToChip
  <1>2. CloudTypes
    BY <1>1 DEF Init, CloudTypes
  <1>3. ThreadTypesN
    BY ChipsFacts DEF Init, ThreadTypesN
  <1>4. PortTypes
    <2>1. 0 \in 0 .. CheckTime - 1
      BY NetConstants
    <2> QED BY <1>1, <2>1 DEF Init, PortTypes
  <1>5. ChipTypes /\ Kept
    BY <1>1 DEF Init, ChipTypes, Kept
  <1>6. used \in Counted
    BY DEF Init, Counted
  <1> QED BY <1>2, <1>3, <1>4, <1>5, <1>6 DEF NetTypes

\* A family that the gateway gets makes networks those of before; another
\* change of family does not.
LEMMA FamilySet ==
  ASSUME NetTypes, NEW f \in Family \cup {0}, SetFamily(f)
  PROVE  /\ family' \in Family \cup {0} /\ family' = f /\ old' \in [Chip -> BOOLEAN]
         /\ ~ Starts(f) => old' = old
  <1>1. [c \in Chip |-> radio[c] \in InNetwork] \in [Chip -> BOOLEAN]
    OBVIOUS
  <1> QED BY <1>1 DEF SetFamily, NetTypes, ChipTypes

LEMMA HandleNet == NetTypes /\ Handle => NetTypes' /\ (Kept => Kept')
  <1> SUFFICES ASSUME NetTypes, Handle PROVE NetTypes' /\ (Kept => Kept')
    OBVIOUS
  <1> DEFINE m == Head(inbox)
  <1>1. /\ netPc = "idle" /\ inbox # <<>> /\ inbox' = Tail(inbox)
        /\ UNCHANGED <<cloud, delayed, failAge, check, down, up, radio, used>>
    BY DEF Handle, ports, wires
  <1>2. m \in Message /\ inbox' \in Seq(Message) /\ m.family \in Family \cup {0}
        /\ m.kind \in {"add", "del", "info", "all"}
    <2>1. m \in Message /\ inbox' \in Seq(Message)
      BY <1>1 DEF NetTypes, CloudTypes
    <2> QED BY <2>1 DEF Message
  <1>3. \/ asked' = Append(asked, "info") /\ UNCHANGED <<family, old, netPc, todo, job>>
        \/ /\ asked' = asked \o Asks(m)
           /\ \/ Starts(m.family) /\ SetFamily(m.family)
                 /\ netPc' = "start" /\ todo' = Chips /\ job' = m
              \/ m.family = 0 /\ family # 0
                 /\ netPc' = "reset" /\ todo' = Chips /\ job' = m /\ UNCHANGED <<family, old>>
              \/ ~Starts(m.family) /\ (m.family # 0 \/ family = 0)
                 /\ SetFamily(IF Adopts(m) THEN m.family ELSE family)
                 /\ UNCHANGED <<netPc, todo, job>>
    BY DEF Handle, netVars
  <1> HIDE DEF m
  <1>4. asked' \in Seq({"info", "all"})
    <2> DEFINE R == {"info", "all"}
    <2>1. <<"all">> \in Seq(R) /\ <<>> \in Seq(R) /\ "info" \in R
      OBVIOUS
    <2>2. Asks(m) \in Seq(R) /\ asked \in Seq(R)
      BY <2>1 DEF Asks, NetTypes, CloudTypes
    <2>3. asked' = Append(asked, "info") \/ asked' = asked \o Asks(m)
      BY <1>3
    <2> HIDE DEF R
    <2>4. asked' \in Seq(R)
      <3>1. CASE asked' = Append(asked, "info")
        BY <2>1, <2>2, <3>1
      <3>2. CASE asked' = asked \o Asks(m)
        BY <2>2, <3>2
      <3> QED BY <2>3, <3>1, <3>2
    <2> QED BY <2>4 DEF R
  <1>5. CASE UNCHANGED <<family, old, netPc, todo, job>>
    BY <1>1, <1>2, <1>4, <1>5
       DEF NetTypes, CloudTypes, ThreadTypesN, PortTypes, ChipTypes, Kept, Leaving
  <1>6. CASE Starts(m.family) /\ SetFamily(m.family)
             /\ netPc' = "start" /\ todo' = Chips /\ job' = m
    <2>1. family' \in Family \cup {0} /\ family' = m.family /\ old' \in [Chip -> BOOLEAN]
      BY <1>2, <1>6, FamilySet
    <2>2. family' # 0
      BY <1>6, <2>1 DEF Starts
    <2>3. NetTypes'
      BY <1>1, <1>2, <1>4, <1>6, <2>1, <2>2, ChipsFacts
         DEF NetTypes, CloudTypes, ThreadTypesN, PortTypes, ChipTypes
    <2>4. Kept'
      BY <1>6, ChipsFacts DEF Kept, Leaving
    <2> QED BY <2>3, <2>4
  <1>7. CASE m.family = 0 /\ family # 0
             /\ netPc' = "reset" /\ todo' = Chips /\ job' = m /\ UNCHANGED <<family, old>>
    BY <1>1, <1>2, <1>4, <1>7, ChipsFacts
       DEF NetTypes, CloudTypes, ThreadTypesN, PortTypes, ChipTypes, Kept, Leaving
  <1>8. CASE ~Starts(m.family) /\ (m.family # 0 \/ family = 0)
             /\ SetFamily(IF Adopts(m) THEN m.family ELSE family)
             /\ UNCHANGED <<netPc, todo, job>>
    <2> DEFINE f == IF Adopts(m) THEN m.family ELSE family
    <2>1. f \in Family \cup {0} /\ ~ Starts(f)
      BY <1>2, <1>8 DEF NetTypes, CloudTypes, Starts
    <2>2. SetFamily(f)
      BY <1>8
    <2> HIDE DEF f
    <2>3. family' \in Family \cup {0} /\ old' = old
      BY <2>1, <2>2, FamilySet
    <2> QED BY <1>1, <1>2, <1>4, <1>8, <2>3
            DEF NetTypes, CloudTypes, ThreadTypesN, PortTypes, ChipTypes, Kept, Leaving
  <1> QED BY <1>3, <1>5, <1>6, <1>7, <1>8

LEMMA ReturnNet == NetTypes /\ Return => NetTypes' /\ (Kept => Kept')
  <1> SUFFICES ASSUME NetTypes, Return PROVE NetTypes' /\ (Kept => Kept')
    OBVIOUS
  <1> DEFINE f == IF netPc = "reset" \/ Adopts(job) THEN job.family ELSE family
  <1>1. /\ netPc # "idle" /\ todo = <<>> /\ netPc' = "idle" /\ job' = None /\ SetFamily(f)
        /\ UNCHANGED <<cloud, asked, inbox, todo, delayed, failAge, check, down, up, radio, used>>
    BY DEF Return, AllTreated, cloudVars, ports, wires
  <1>2. job \in Message /\ job.family \in Family \cup {0}
    BY <1>1 DEF NetTypes, ThreadTypesN, Message
  <1>3. f \in Family \cup {0} /\ ~ Starts(f)
    BY <1>1, <1>2 DEF NetTypes, CloudTypes, ThreadTypesN, Starts
  <1> HIDE DEF f
  <1>4. family' \in Family \cup {0} /\ old' = old
    BY <1>1, <1>3, FamilySet
  <1>5. NetTypes'
    BY <1>1, <1>4 DEF NetTypes, CloudTypes, ThreadTypesN, PortTypes, ChipTypes
  <1> QED BY <1>1, <1>4, <1>5 DEF Kept, Leaving

LEMMA LongerKeeps ==
  ASSUME NEW S, NEW f \in [Chip -> Seq(S)], NEW c \in Chip, NEW e \in S, NEW g,
         g = [f EXCEPT ![c] = Append(@, e)]
  PROVE  /\ \A d \in Chip : \A n \in DOMAIN f[d] : n \in DOMAIN g[d] /\ g[d][n] = f[d][n]
         /\ \E n \in DOMAIN g[c] : g[c][n] = e
  <1>1. g[c] = Append(f[c], e) /\ \A d \in Chip : d # c => g[d] = f[d]
    BY Longer
  <1>2. /\ \A n \in DOMAIN f[c] : n \in DOMAIN g[c] /\ g[c][n] = f[c][n]
        /\ Len(f[c]) + 1 \in DOMAIN g[c] /\ g[c][Len(f[c]) + 1] = e
    <2>1. f[c] \in Seq(S)
      OBVIOUS
    <2> QED BY <1>1, <2>1
  <1> QED BY <1>1, <1>2

LEMMA DelayedLonger ==
  ASSUME NetTypes, NEW c \in Chip, NEW e \in Later,
         delayed' = [delayed EXCEPT ![c] = Append(@, e)]
  PROVE  /\ delayed' \in [Chip -> Seq(Later)]
         /\ \A d \in Chip : \A n \in DOMAIN delayed[d] :
              n \in DOMAIN delayed'[d] /\ delayed'[d][n] = delayed[d][n]
         /\ \E n \in DOMAIN delayed'[c] : delayed'[c][n] = e
  <1>1. delayed \in [Chip -> Seq(Later)]
    BY DEF NetTypes, PortTypes
  <1>2. delayed' \in [Chip -> Seq(Later)]
    BY <1>1, Longer
  <1> QED BY <1>1, <1>2, LongerKeeps

\* The next chip gets a command later on; so it leaves if it is told to reset.
LEMMA TreatNet ==
  ASSUME NetTypes, netPc \in {"start", "reset"}, todo # <<>>, todo' = Tail(todo),
         NEW e \in Later, e.cmd = "reset",
         delayed' = [delayed EXCEPT ![Head(todo)] = Append(@, e)],
         failAge' \in [Chip -> 0 .. FailTime + 1 \cup {None}],
         UNCHANGED <<family, cloudVars, netPc, job, check, wires, radio, old, used>>
  PROVE  NetTypes' /\ (Kept => Kept')
  <1> DEFINE c == Head(todo)
  <1>1. LastOnes(todo) /\ LastOnes(todo') /\ c \in Chip
    BY LastTail DEF NetTypes, ThreadTypesN
  <1>2. delayed \in [Chip -> Seq(Later)]
    BY DEF NetTypes, PortTypes
  <1>3. delayed' = [delayed EXCEPT ![c] = Append(@, e)]
    OBVIOUS
  <1>4. \A n \in DOMAIN todo :
          (n = 1 /\ todo[n] = c) \/ (n - 1 \in DOMAIN todo' /\ todo'[n - 1] = todo[n])
    <2>1. todo \in Seq(Chip)
      BY <1>1 DEF LastOnes
    <2> QED BY <2>1
  <1> HIDE DEF c
  <1>5. /\ delayed' \in [Chip -> Seq(Later)]
        /\ \A d \in Chip : \A n \in DOMAIN delayed[d] :
             n \in DOMAIN delayed'[d] /\ delayed'[d][n] = delayed[d][n]
        /\ \E n \in DOMAIN delayed'[c] : delayed'[c][n] = e
    BY <1>1, <1>3, DelayedLonger
  <1>6. NetTypes'
    BY <1>1, <1>5 DEF NetTypes, CloudTypes, ThreadTypesN, PortTypes, ChipTypes, cloudVars, wires
  <1>7. ASSUME NEW d \in Chip, Leaving(d) PROVE Leaving(d)'
    <2>1. CASE d = c
      BY <1>5, <2>1 DEF Leaving
    <2>2. CASE d # c
      <3>1. down' = down
        BY DEF wires
      <3>2. CASE \E n \in DOMAIN down[d] : down[d][n] = "reset"
        BY <3>1, <3>2 DEF Leaving
      <3>3. CASE \E n \in DOMAIN delayed[d] : delayed[d][n].cmd = "reset"
        BY <1>5, <3>3 DEF Leaving
      <3>4. CASE netPc = "start" /\ \E n \in DOMAIN todo : todo[n] = d
        <4>1. PICK n \in DOMAIN todo : todo[n] = d
          BY <3>4
        <4>2. n - 1 \in DOMAIN todo' /\ todo'[n - 1] = d
          BY <1>4, <2>2, <4>1
        <4> QED BY <3>4, <4>2 DEF Leaving
      <3> QED BY <1>7, <3>2, <3>3, <3>4 DEF Leaving
    <2> QED BY <2>1, <2>2
  <1> QED BY <1>6, <1>7 DEF Kept

LEMMA TreatedNet == NetTypes /\ (StartNext \/ ResetNext) => NetTypes' /\ (Kept => Kept')
  <1> SUFFICES ASSUME NetTypes, StartNext \/ ResetNext PROVE NetTypes' /\ (Kept => Kept')
    OBVIOUS
  <1>1. CASE StartNext
    <2>1. Head(todo) \in Chip
      BY <1>1, LastTail DEF NetTypes, ThreadTypesN, StartNext
    <2> DEFINE e == [cmd |-> "reset", due |-> ResetDelay]
    <2>2. e \in Later
      BY NetConstants DEF Later
    <2>3. /\ delayed' = [delayed EXCEPT ![Head(todo)] = Append(@, e)]
          /\ failAge' \in [Chip -> 0 .. FailTime + 1 \cup {None}]
      BY <1>1, <2>1, Started DEF StartNext, NetTypes
    <2>4. e.cmd = "reset"
      OBVIOUS
    <2> HIDE DEF e
    <2> QED BY <1>1, <2>2, <2>3, <2>4, TreatNet DEF StartNext
  <1>2. CASE ResetNext
    <2> DEFINE e == [cmd |-> "reset", due |-> LeaveDelay]
    <2>1. e \in Later /\ e.cmd = "reset"
      BY NetConstants DEF Later
    <2>2. /\ delayed' = [delayed EXCEPT ![Head(todo)] = Append(@, e)]
          /\ failAge' \in [Chip -> 0 .. FailTime + 1 \cup {None}]
      BY <1>2 DEF ResetNext, Delay, NetTypes, PortTypes
    <2> HIDE DEF e
    <2> QED BY <1>2, <2>1, <2>2, TreatNet DEF ResetNext
  <1> QED BY <1>1, <1>2

\* A command is written, or delayed, behind those that are there.
LEMMA WriteNet ==
  ASSUME NetTypes, NEW c \in Chip, NEW cmd \in ToChip, Write(c, cmd),
         UNCHANGED <<netPc, todo, delayed>>
  PROVE  /\ down' \in [Chip -> Seq(ToChip)]
         /\ \A d \in Chip : Leaving(d) => Leaving(d)'
  <1>1. down \in [Chip -> Seq(ToChip)] /\ down' = [down EXCEPT ![c] = Append(@, cmd)]
    BY DEF NetTypes, ChipTypes, Write
  <1>2. /\ down' \in [Chip -> Seq(ToChip)]
        /\ \A d \in Chip : \A n \in DOMAIN down[d] : n \in DOMAIN down'[d] /\ down'[d][n] = down[d][n]
    BY <1>1, Longer, LongerKeeps
  <1> QED BY <1>2 DEF Leaving

LEMMA DelayNet ==
  ASSUME NetTypes, NEW c \in Chip, NEW anew \in BOOLEAN, onStartNewNetWork(c, anew),
         UNCHANGED <<netPc, todo, down>>
  PROVE  /\ delayed' \in [Chip -> Seq(Later)]
         /\ failAge' \in [Chip -> 0 .. FailTime + 1 \cup {None}]
         /\ \A d \in Chip : Leaving(d) => Leaving(d)'
  <1> DEFINE e == IF anew THEN [cmd |-> "reset", due |-> ResetDelay]
                  ELSE [cmd |-> "start", due |-> StartDelay]
  <1>1. /\ delayed' = [delayed EXCEPT ![c] = Append(@, e)]
        /\ delayed' \in [Chip -> Seq(Later)] /\ failAge' \in [Chip -> 0 .. FailTime + 1 \cup {None}]
    BY Started DEF NetTypes
  <1>2. e \in Later
    BY NetConstants DEF Later
  <1> HIDE DEF e
  <1>3. \A d \in Chip : \A n \in DOMAIN delayed[d] :
          n \in DOMAIN delayed'[d] /\ delayed'[d][n] = delayed[d][n]
    BY <1>1, <1>2, DelayedLonger
  <1> QED BY <1>1, <1>3 DEF Leaving

LEMMA ConcatBoth ==
  ASSUME NEW M, NEW l \in Seq(M), NEW r \in Seq(M)
  PROVE  /\ DOMAIN (l \o r) = 1 .. (Len(l) + Len(r))
         /\ \A n \in 1 .. Len(l) : (l \o r)[n] = l[n]
         /\ \A n \in 1 .. (Len(l) + Len(r)) : n > Len(l) => (l \o r)[n] = r[n - Len(l)]
  OBVIOUS

\* A delayed command that is written is on its way, and the others stay.
LEMMA FireNet ==
  ASSUME NEW c \in Chip PROVE NetTypes /\ Fire(c) => NetTypes' /\ (Kept => Kept')
  <1> SUFFICES ASSUME NetTypes, Fire(c) PROVE NetTypes' /\ (Kept => Kept')
    OBVIOUS
  <1>1. /\ UNCHANGED <<family, cloud, asked, inbox, netPc, todo, job, failAge, check, up, radio, old, used>>
        /\ \E n \in DOMAIN delayed[c] :
             /\ Write(c, delayed[c][n].cmd)
             /\ delayed' = [delayed EXCEPT ![c] = RemoveAt(@, n)]
    BY DEF Fire, cloudVars, netVars
  <1>2. PICK n \in DOMAIN delayed[c] :
               /\ Write(c, delayed[c][n].cmd)
               /\ delayed' = [delayed EXCEPT ![c] = RemoveAt(@, n)]
    BY <1>1
  <1> DEFINE l == delayed[c]
             cmd == l[n].cmd
  <1>3. delayed \in [Chip -> Seq(Later)] /\ l \in Seq(Later) /\ n \in 1 .. Len(l)
    BY DEF NetTypes, PortTypes
  <1>4. cmd \in ToChip
    <2>1. l[n] \in Later
      BY <1>3
    <2> QED BY <2>1 DEF Later, ToChip
  <1>5. RemoveAt(l, n) \in Seq(Later)
    BY <1>3 DEF RemoveAt
  <1>6. \A k \in 1 .. Len(l) : k # n => \E q \in DOMAIN RemoveAt(l, n) : RemoveAt(l, n)[q] = l[k]
    <2> SUFFICES ASSUME NEW k \in 1 .. Len(l), k # n
                 PROVE  \E q \in DOMAIN RemoveAt(l, n) : RemoveAt(l, n)[q] = l[k]
      OBVIOUS
    <2> DEFINE before == SubSeq(l, 1, n - 1)
               after == SubSeq(l, n + 1, Len(l))
    <2>1. /\ before \in Seq(Later) /\ Len(before) = n - 1
          /\ \A q \in 1 .. (n - 1) : before[q] = l[q]
      BY <1>3
    <2>2. /\ after \in Seq(Later) /\ Len(after) = Len(l) - n
          /\ \A q \in 1 .. (Len(l) - n) : after[q] = l[n + q]
      BY <1>3
    <2>3. RemoveAt(l, n) = before \o after
      BY DEF RemoveAt
    <2> HIDE DEF before, after, l
    <2>4. CASE k < n
      <3>0. k \in 1 .. (n - 1)
        BY <1>3, <2>4
      <3>1. k \in 1 .. Len(before) /\ k \in 1 .. (Len(before) + Len(after)) /\ before[k] = l[k]
        <4>1. Len(after) \in Nat /\ n - 1 \in Nat
          BY <1>3, <2>2
        <4> QED BY <2>1, <3>0, <4>1
      <3>2. k \in DOMAIN (before \o after) /\ (before \o after)[k] = l[k]
        BY <2>1, <2>2, <3>1, ConcatBoth
      <3> QED BY <2>3, <3>2
    <2>5. CASE k > n
      <3>1. /\ k - n \in 1 .. Len(after) /\ n + (k - n) = k
            /\ k - 1 \in 1 .. (Len(before) + Len(after))
            /\ k - 1 > Len(before) /\ (k - 1) - Len(before) = k - n
        <4>1. Len(before) = n - 1 /\ Len(after) = Len(l) - n
          BY <2>1, <2>2
        <4>2. Len(l) \in Nat /\ n \in 1 .. Len(l) /\ k \in 1 .. Len(l) /\ k > n
          BY <1>3, <2>5
        <4> QED BY <4>1, <4>2
      <3>2. k - 1 \in DOMAIN (before \o after) /\ (before \o after)[k - 1] = after[k - n]
        BY <2>1, <2>2, <3>1, ConcatBoth
      <3>3. after[k - n] = l[k]
        BY <2>2, <3>1
      <3> QED BY <2>3, <3>2, <3>3
    <2> QED BY <1>3, <2>4, <2>5
  <1>7. down \in [Chip -> Seq(ToChip)] /\ down' = [down EXCEPT ![c] = Append(@, cmd)]
    BY <1>2 DEF Write, NetTypes, ChipTypes
  <1>8. delayed' = [delayed EXCEPT ![c] = RemoveAt(l, n)]
    BY <1>2
  <1> HIDE DEF cmd
  <1>9. /\ down' \in [Chip -> Seq(ToChip)]
        /\ \A d \in Chip : \A k \in DOMAIN down[d] : k \in DOMAIN down'[d] /\ down'[d][k] = down[d][k]
        /\ \E k \in DOMAIN down'[c] : down'[c][k] = cmd
    <2>1. down' \in [Chip -> Seq(ToChip)]
      BY <1>4, <1>7, Longer
    <2>2. /\ \A d \in Chip : \A k \in DOMAIN down[d] : k \in DOMAIN down'[d] /\ down'[d][k] = down[d][k]
          /\ \E k \in DOMAIN down'[c] : down'[c][k] = cmd
      BY <1>4, <1>7, LongerKeeps
    <2> QED BY <2>1, <2>2
  <1>10. delayed' \in [Chip -> Seq(Later)] /\ delayed'[c] = RemoveAt(l, n)
         /\ \A d \in Chip : d # c => delayed'[d] = delayed[d]
    BY <1>3, <1>5, <1>8
  <1>11. NetTypes'
    BY <1>1, <1>9, <1>10 DEF NetTypes, CloudTypes, ThreadTypesN, PortTypes, ChipTypes
  <1>12. ASSUME NEW d \in Chip, Leaving(d) PROVE Leaving(d)'
    <2>1. CASE \E k \in DOMAIN delayed[d] : delayed[d][k].cmd = "reset"
      <3>1. PICK k \in DOMAIN delayed[d] : delayed[d][k].cmd = "reset"
        BY <2>1
      <3>2. CASE d = c /\ k = n
        BY <1>9, <3>1, <3>2 DEF Leaving, cmd
      <3>3. CASE d = c /\ k # n
        <4>1. k \in 1 .. Len(l)
          BY <1>3, <3>1, <3>3
        <4>2. PICK q \in DOMAIN RemoveAt(l, n) : RemoveAt(l, n)[q] = l[k]
          BY <1>6, <3>3, <4>1
        <4> QED BY <1>10, <3>1, <3>3, <4>2 DEF Leaving
      <3>4. CASE d # c
        BY <1>10, <3>1, <3>4 DEF Leaving
      <3> QED BY <3>2, <3>3, <3>4
    <2>2. CASE \E k \in DOMAIN down[d] : down[d][k] = "reset"
      BY <1>9, <2>2 DEF Leaving
    <2>3. CASE netPc = "start" /\ \E k \in DOMAIN todo : todo[k] = d
      BY <1>1, <2>3 DEF Leaving
    <2> QED BY <1>12, <2>1, <2>2, <2>3 DEF Leaving
  <1> QED BY <1>1, <1>11, <1>12 DEF Kept

LEMMA ReceivedNet ==
  ASSUME NetTypes, NEW c \in Chip, NEW m, Received(c, m)
  PROVE  up' \in [Chip -> Seq(FromChip)]
  BY Shorter DEF NetTypes, ChipTypes, Received

LEMMA ChangedNet ==
  ASSUME NEW c \in Chip PROVE NetTypes /\ Changed(c) => NetTypes' /\ (Kept => Kept')
  <1> SUFFICES ASSUME NetTypes, Changed(c) PROVE NetTypes' /\ (Kept => Kept')
    OBVIOUS
  <1>1. /\ Received(c, "reset") \/ Received(c, "started")
        /\ Write(c, "info")
        /\ UNCHANGED <<family, cloud, asked, inbox, netPc, todo, job, delayed, failAge,
                       check, radio, old, used>>
    BY DEF Changed, cloudVars, netVars, ports
  <1>2. up' \in [Chip -> Seq(FromChip)]
    BY <1>1, ReceivedNet
  <1>3. "info" \in ToChip
    BY DEF ToChip
  <1>4. /\ down' \in [Chip -> Seq(ToChip)]
        /\ \A d \in Chip : Leaving(d) => Leaving(d)'
    BY <1>1, <1>3, WriteNet
  <1>5. NetTypes'
    BY <1>1, <1>2, <1>4 DEF NetTypes, CloudTypes, ThreadTypesN, PortTypes, ChipTypes
  <1> QED BY <1>1, <1>4, <1>5 DEF Kept

\* A start of any kind, or nothing, is ordered in answer to what a chip has sent.
LEMMA OrderedNet ==
  ASSUME NetTypes, NEW c \in Chip, NEW m, Received(c, m), NEW anew \in BOOLEAN,
         onStartNewNetWork(c, anew) \/ UNCHANGED ports,
         UNCHANGED <<family, cloudVars, netVars, check, down, radio, old, used>>
  PROVE  NetTypes' /\ (Kept => Kept')
  <1>1. UNCHANGED <<family, cloud, asked, inbox, netPc, todo, job, check, down, radio, old, used>>
    BY DEF cloudVars, netVars
  <1>2. up' \in [Chip -> Seq(FromChip)]
    BY ReceivedNet
  <1>3. /\ delayed' \in [Chip -> Seq(Later)]
        /\ failAge' \in [Chip -> 0 .. FailTime + 1 \cup {None}]
        /\ \A d \in Chip : Leaving(d) => Leaving(d)'
    <2>1. CASE onStartNewNetWork(c, anew)
      BY <1>1, <2>1, DelayNet
    <2>2. CASE UNCHANGED ports
      BY <1>1, <2>2 DEF ports, NetTypes, PortTypes, Leaving
    <2> QED BY <2>1, <2>2
  <1>4. NetTypes'
    BY <1>1, <1>2, <1>3 DEF NetTypes, CloudTypes, ThreadTypesN, PortTypes, ChipTypes
  <1> QED BY <1>1, <1>3, <1>4 DEF Kept

LEMMA AnsweredNet ==
  ASSUME NEW c \in Chip
  PROVE  NetTypes /\ (HasNoNetwork(c) \/ HasNetwork(c) \/ IsStarting(c)) => NetTypes' /\ (Kept => Kept')
  <1> SUFFICES ASSUME NetTypes, HasNoNetwork(c) \/ HasNetwork(c) \/ IsStarting(c)
               PROVE  NetTypes' /\ (Kept => Kept')
    OBVIOUS
  <1>1. CASE HasNoNetwork(c)
    <2>1. Received(c, "init") /\ (onStartNewNetWork(c, FALSE) \/ UNCHANGED ports)
          /\ UNCHANGED <<family, cloudVars, netVars, check, down, radio, old, used>>
      BY <1>1 DEF HasNoNetwork
    <2> QED BY <2>1, OrderedNet
  <1>2. CASE IsStarting(c)
    <2>1. Received(c, "starting") /\ (onStartNewNetWork(c, FALSE) \/ UNCHANGED ports)
          /\ UNCHANGED <<family, cloudVars, netVars, check, down, radio, old, used>>
      BY <1>2 DEF IsStarting
    <2> QED BY <2>1, OrderedNet
  <1>3. CASE HasNetwork(c)
    <2>1. PICK state \in InNetwork :
            /\ Received(c, state)
            /\ \/ family = 0 /\ Write(c, "reset") /\ UNCHANGED ports
               \/ /\ family # 0 /\ state = "own"
                  /\ failAge' = [failAge EXCEPT ![c] = None] /\ UNCHANGED <<down, delayed>>
               \/ family # 0 /\ state = "foreign" /\ onStartNewNetWork(c, TRUE) /\ UNCHANGED down
      BY <1>3 DEF HasNetwork
    <2>2. UNCHANGED <<family, cloudVars, netVars, check, radio, old, used>>
      BY <1>3 DEF HasNetwork
    <2>3. UNCHANGED <<family, cloud, asked, inbox, netPc, todo, job, check, radio, old, used>>
      BY <2>2 DEF cloudVars, netVars
    <2>4. CASE onStartNewNetWork(c, TRUE) /\ UNCHANGED down
      BY <2>1, <2>2, <2>4, OrderedNet
    <2>5. up' \in [Chip -> Seq(FromChip)]
      BY <2>1, ReceivedNet
    <2>6. CASE Write(c, "reset") /\ UNCHANGED ports
      <3>1. "reset" \in ToChip /\ UNCHANGED <<delayed, failAge>>
        BY <2>6 DEF ToChip, ports
      <3>2. /\ down' \in [Chip -> Seq(ToChip)]
            /\ \A d \in Chip : Leaving(d) => Leaving(d)'
        BY <2>3, <2>6, <3>1, WriteNet
      <3>3. NetTypes'
        BY <2>3, <2>5, <3>1, <3>2 DEF NetTypes, CloudTypes, ThreadTypesN, PortTypes, ChipTypes
      <3> QED BY <2>3, <3>2, <3>3 DEF Kept
    <2>7. CASE failAge' = [failAge EXCEPT ![c] = None] /\ UNCHANGED <<down, delayed>>
      <3>1. failAge' \in [Chip -> 0 .. FailTime + 1 \cup {None}]
        BY <2>7 DEF NetTypes, PortTypes
      <3>2. NetTypes'
        BY <2>3, <2>5, <2>7, <3>1 DEF NetTypes, CloudTypes, ThreadTypesN, PortTypes, ChipTypes
      <3> QED BY <2>3, <2>7, <3>2 DEF Kept, Leaving
    <2> QED BY <2>1, <2>4, <2>6, <2>7
  <1> QED BY <1>1, <1>2, <1>3

LEMMA IsSequence ==
  ASSUME NEW M, NEW n \in Nat, NEW s \in [1 .. n -> M] PROVE s \in Seq(M)
  OBVIOUS

\* Time passes for what is delayed; nothing is due, and nothing is lost of it.
LEMMA TickNet == NetTypes /\ Tick => NetTypes' /\ (Kept => Kept')
  <1> SUFFICES ASSUME NetTypes, Tick PROVE NetTypes' /\ (Kept => Kept')
    OBVIOUS
  <1> DEFINE Sooner(c) == [i \in DOMAIN delayed[c] |-> [delayed[c][i] EXCEPT !.due = @ - 1]]
  <1>1. /\ \A c \in Chip : down[c] = <<>> /\ \A i \in DOMAIN delayed[c] : delayed[c][i].due # 0
        /\ delayed' = [c \in Chip |-> Sooner(c)]
        /\ failAge' = [c \in Chip |-> Older(failAge[c])]
        /\ check' = (check + 1) % CheckTime
        /\ down' = [c \in Chip |-> <<"info">>] \/ down' = down
        /\ UNCHANGED <<family, cloud, asked, inbox, netPc, todo, job, up, radio, old, used>>
    BY DEF Tick, cloudVars, netVars
  <1>2. ASSUME NEW c \in Chip
        PROVE  /\ Sooner(c) \in Seq(Later) /\ DOMAIN Sooner(c) = DOMAIN delayed[c]
               /\ \A i \in DOMAIN delayed[c] : Sooner(c)[i].cmd = delayed[c][i].cmd
    <2> DEFINE l == delayed[c]
    <2>1. l \in Seq(Later) /\ DOMAIN l = 1 .. Len(l) /\ Len(l) \in Nat
      BY DEF NetTypes, PortTypes
    <2>2. ASSUME NEW i \in DOMAIN l
          PROVE  /\ [l[i] EXCEPT !.due = @ - 1] \in Later
                 /\ [l[i] EXCEPT !.due = @ - 1].cmd = l[i].cmd
      <3>1. l[i] \in Later /\ l[i].due # 0
        BY <1>1, <2>1
      <3> HIDE DEF l
      <3> QED BY <3>1, NetConstants DEF Later
    <2> HIDE DEF l
    <2>3. Sooner(c) = [i \in 1 .. Len(l) |-> [l[i] EXCEPT !.due = @ - 1]]
      BY <2>1 DEF l
    <2>4. Sooner(c) \in [1 .. Len(l) -> Later]
      BY <2>1, <2>2, <2>3
    <2>5. Sooner(c) \in Seq(Later)
      BY <2>1, <2>4, IsSequence
    <2> QED BY <2>1, <2>2, <2>3, <2>5 DEF l
  <1> HIDE DEF Sooner
  <1>3. delayed' \in [Chip -> Seq(Later)] /\ \A c \in Chip : delayed'[c] = Sooner(c)
    BY <1>1, <1>2
  <1>4. failAge' \in [Chip -> 0 .. FailTime + 1 \cup {None}]
    <2>1. ASSUME NEW c \in Chip PROVE Older(failAge[c]) \in 0 .. FailTime + 1 \cup {None}
      <3>1. failAge[c] \in 0 .. FailTime + 1 \cup {None}
        BY DEF NetTypes, PortTypes
      <3> QED BY <3>1, NetConstants DEF Older
    <2> QED BY <1>1, <2>1
  <1>5. check' \in 0 .. CheckTime - 1
    <2>1. check \in 0 .. CheckTime - 1 /\ check + 1 \in Int
      BY NetConstants DEF NetTypes, PortTypes
    <2> QED BY <1>1, <2>1, NetConstants
  <1>6. down' \in [Chip -> Seq(ToChip)]
    <2>1. "info" \in ToChip
      BY DEF ToChip
    <2>2. <<"info">> \in Seq(ToChip)
      BY <2>1
    <2> QED BY <1>1, <2>2 DEF NetTypes, ChipTypes
  <1>7. NetTypes'
    BY <1>1, <1>3, <1>4, <1>5, <1>6 DEF NetTypes, CloudTypes, ThreadTypesN, PortTypes, ChipTypes
  <1>8. ASSUME NEW c \in Chip, Leaving(c) PROVE Leaving(c)'
    <2>1. ~ \E n \in DOMAIN down[c] : down[c][n] = "reset"
      BY <1>1
    <2>2. CASE \E n \in DOMAIN delayed[c] : delayed[c][n].cmd = "reset"
      BY <1>2, <1>3, <2>2 DEF Leaving
    <2>3. CASE netPc = "start" /\ \E n \in DOMAIN todo : todo[n] = c
      BY <1>1, <2>3 DEF Leaving
    <2> QED BY <1>8, <2>1, <2>2, <2>3 DEF Leaving
  <1> QED BY <1>1, <1>7, <1>8 DEF Kept

LEMMA SentNet ==
  ASSUME NetTypes, NEW c \in Chip, NEW m \in FromChip, Sends(c, m)
  PROVE  up' \in [Chip -> Seq(FromChip)]
  <1>1. up \in [Chip -> Seq(FromChip)] /\ up' = [up EXCEPT ![c] = Append(@, m)]
    BY DEF NetTypes, ChipTypes, Sends
  <1> QED BY <1>1, Longer

\* What is behind the first command stays on its way.
LEMMA TailKeeps ==
  ASSUME NEW s \in Seq(ToChip), s # <<>>, Head(s) # "reset",
         NEW n \in DOMAIN s, s[n] = "reset"
  PROVE  \E k \in DOMAIN Tail(s) : Tail(s)[k] = "reset"
  <1>1. n > 1 /\ n - 1 \in DOMAIN Tail(s) /\ Tail(s)[n - 1] = s[n]
    OBVIOUS
  <1> QED BY <1>1

\* A chip that is reset has forgotten its network; another command leaves the
\* reset on its way.
LEMMA ChipDoesNet ==
  ASSUME NEW c \in Chip PROVE NetTypes /\ ChipDoes(c) => NetTypes' /\ (Kept => Kept')
  <1> SUFFICES ASSUME NetTypes, ChipDoes(c) PROVE NetTypes' /\ (Kept => Kept')
    OBVIOUS
  <1> DEFINE cmd == Head(down[c])
  <1>1. /\ down[c] # <<>> /\ down' = [down EXCEPT ![c] = Tail(@)]
        /\ \/ cmd = "info" /\ Sends(c, IF radio[c] = "failed" THEN "starting" ELSE radio[c])
              /\ UNCHANGED <<radio, old>>
           \/ cmd = "reset" /\ Sends(c, "reset") /\ Becomes(c, "init") /\ old' = [old EXCEPT ![c] = FALSE]
           \/ cmd = "start" /\ Becomes(c, IF radio[c] \in {"init", "failed"} THEN "starting" ELSE radio[c])
              /\ UNCHANGED <<up, old>>
        /\ UNCHANGED <<family, cloud, asked, inbox, netPc, todo, job, delayed, failAge, check, used>>
    BY DEF ChipDoes, cloudVars, netVars, ports
  <1> HIDE DEF cmd
  <1>2. /\ down \in [Chip -> Seq(ToChip)] /\ up \in [Chip -> Seq(FromChip)]
        /\ radio \in [Chip -> {"init", "starting", "failed", "own", "foreign"}]
        /\ old \in [Chip -> BOOLEAN]
    BY DEF NetTypes, ChipTypes
  <1>3. /\ down' \in [Chip -> Seq(ToChip)] /\ down'[c] = Tail(down[c])
        /\ \A d \in Chip : d # c => down'[d] = down[d]
    BY <1>1, <1>2, Shorter
  <1>4. up' \in [Chip -> Seq(FromChip)]
    <2>1. CASE UNCHANGED up
      BY <1>2, <2>1
    <2>2. CASE Sends(c, "reset")
      <3>1. "reset" \in FromChip
        BY DEF FromChip
      <3> QED BY <2>2, <3>1, SentNet
    <2>3. CASE Sends(c, IF radio[c] = "failed" THEN "starting" ELSE radio[c])
      <3> DEFINE m == IF radio[c] = "failed" THEN "starting" ELSE radio[c]
      <3>1. m \in FromChip
        BY <1>2 DEF FromChip
      <3>2. Sends(c, m)
        BY <2>3
      <3> HIDE DEF m
      <3> QED BY <3>1, <3>2, SentNet
    <2> QED BY <1>1, <2>1, <2>2, <2>3
  <1>5. radio' \in [Chip -> {"init", "starting", "failed", "own", "foreign"}]
    BY <1>1, <1>2 DEF Becomes
  <1>6. /\ old' \in [Chip -> BOOLEAN] /\ \A d \in Chip : old'[d] => old[d]
        /\ cmd = "reset" => ~ old'[c]
    <2>1. CASE cmd = "reset" /\ old' = [old EXCEPT ![c] = FALSE]
      BY <1>2, <2>1
    <2>2. CASE cmd # "reset" /\ old' = old
      BY <1>2, <2>2
    <2>3. (cmd = "reset" /\ old' = [old EXCEPT ![c] = FALSE]) \/ (cmd # "reset" /\ old' = old)
      BY <1>1
    <2> QED BY <2>1, <2>2, <2>3
  <1>7. NetTypes'
    BY <1>1, <1>3, <1>4, <1>5, <1>6 DEF NetTypes, CloudTypes, ThreadTypesN, PortTypes, ChipTypes
  <1>8. ASSUME NEW d \in Chip, Leaving(d), d # c \/ cmd # "reset" PROVE Leaving(d)'
    <2>1. CASE \E n \in DOMAIN down[d] : down[d][n] = "reset"
      <3>1. CASE d # c
        BY <1>3, <2>1, <3>1 DEF Leaving
      <3>2. CASE d = c
        <4>1. PICK n \in DOMAIN down[c] : down[c][n] = "reset"
          BY <2>1, <3>2
        <4>2. \E k \in DOMAIN Tail(down[c]) : Tail(down[c])[k] = "reset"
          BY <1>1, <1>2, <1>8, <3>2, <4>1, TailKeeps DEF cmd
        <4> QED BY <1>3, <3>2, <4>2 DEF Leaving
      <3> QED BY <3>1, <3>2
    <2>2. CASE \E n \in DOMAIN delayed[d] : delayed[d][n].cmd = "reset"
      BY <1>1, <2>2 DEF Leaving
    <2>3. CASE netPc = "start" /\ \E n \in DOMAIN todo : todo[n] = d
      BY <1>1, <2>3 DEF Leaving
    <2> QED BY <1>8, <2>1, <2>2, <2>3 DEF Leaving
  <1> QED BY <1>6, <1>7, <1>8 DEF Kept

LEMMA UseCounts ==
  ASSUME NetTypes, NEW e \in {"change", "fault", "fail", "restart"}, NEW bound, Use(e, bound)
  PROVE  used' \in Counted
  BY DEF NetTypes, Counted, Use

\* The other steps of the chips and of the cloud leave alone what is delayed, on
\* its way to a chip, or still to be treated.
LEMMA WorldNet ==
  NetTypes /\ (Change \/ Answer \/ Reconnect \/ \E c \in Chip : Form(c) \/ Fail(c))
    => NetTypes' /\ (Kept => Kept')
  <1> SUFFICES ASSUME NetTypes, Change \/ Answer \/ Reconnect \/ \E c \in Chip : Form(c) \/ Fail(c)
               PROVE  NetTypes' /\ (Kept => Kept')
    OBVIOUS
  <1>1. UNCHANGED <<family, netPc, todo, job, delayed, failAge, check, down, old>>
    BY DEF Change, Answer, Reconnect, Form, Fail, netVars, ports, wires
  <1>2. Kept => Kept'
    BY <1>1 DEF Kept, Leaving
  <1>3. ASSUME CloudTypes', up' \in [Chip -> Seq(FromChip)],
               radio' \in [Chip -> {"init", "starting", "failed", "own", "foreign"}], used' \in Counted
        PROVE  NetTypes'
    BY <1>1, <1>3 DEF NetTypes, ThreadTypesN, PortTypes, ChipTypes
  <1>4. /\ family \in Family \cup {0} /\ cloud \in Family \cup {0}
        /\ asked \in Seq({"info", "all"}) /\ inbox \in Seq(Message)
        /\ up \in [Chip -> Seq(FromChip)] /\ used \in Counted
        /\ radio \in [Chip -> {"init", "starting", "failed", "own", "foreign"}]
    BY DEF NetTypes, CloudTypes, ChipTypes
  <1>5. CASE Change
    <2> DEFINE m == [kind |-> IF cloud' = 0 THEN "del" ELSE "add", family |-> cloud']
    <2>1. /\ cloud' \in Family \cup {0} /\ inbox' = Append(inbox, m) /\ used' \in Counted
          /\ UNCHANGED <<asked, up, radio>>
      BY <1>5, UseCounts DEF Change, wires
    <2>2. m \in Message
      BY <2>1 DEF Message
    <2> HIDE DEF m
    <2>3. inbox' \in Seq(Message)
      BY <1>4, <2>1, <2>2
    <2>4. CloudTypes'
      BY <1>1, <1>4, <2>1, <2>3 DEF CloudTypes
    <2> QED BY <1>2, <1>3, <1>4, <2>1, <2>4
  <1>6. CASE Answer
    <2> DEFINE m == [kind |-> Head(asked), family |-> cloud]
               R == {"info", "all"}
    <2>1. /\ asked # <<>> /\ asked' = Tail(asked) /\ inbox' \in {inbox, Append(inbox, m)}
          /\ UNCHANGED <<cloud, up, radio, used>>
      BY <1>6 DEF Answer, wires
    <2>2. asked' \in Seq(R) /\ Head(asked) \in R
      <3>1. asked \in Seq(R)
        BY <1>4
      <3> HIDE DEF R
      <3> QED BY <2>1, <3>1
    <2>3. m \in Message
      BY <1>4, <2>2 DEF Message
    <2> HIDE DEF m
    <2>4. inbox' \in Seq(Message)
      <3>1. inbox \in Seq(Message)
        BY <1>4
      <3>2. Append(inbox, m) \in Seq(Message)
        BY <2>3, <3>1
      <3> QED BY <2>1, <3>1, <3>2
    <2>5. CloudTypes'
      BY <1>1, <1>4, <2>1, <2>2, <2>4 DEF CloudTypes
    <2> QED BY <1>2, <1>3, <1>4, <2>1, <2>5
  <1>7. CASE Reconnect
    <2>1. <<"info">> \in Seq({"info", "all"}) /\ <<>> \in Seq(Message)
      OBVIOUS
    <2>2. used' \in Counted /\ UNCHANGED <<cloud, up, radio>> /\ asked' = <<"info">> /\ inbox' = <<>>
      BY <1>7, UseCounts DEF Reconnect, wires
    <2>3. CloudTypes'
      BY <1>1, <1>4, <2>1, <2>2 DEF CloudTypes
    <2> QED BY <1>2, <1>3, <1>4, <2>2, <2>3
  <1>8. ASSUME NEW c \in Chip, Form(c) PROVE NetTypes' /\ (Kept => Kept')
    <2>1. Sends(c, "started") /\ Becomes(c, "own") /\ UNCHANGED <<cloud, asked, inbox, used>>
      BY <1>8 DEF Form, cloudVars
    <2>2. "started" \in FromChip
      BY DEF FromChip
    <2>3. up' \in [Chip -> Seq(FromChip)]
      BY <2>1, <2>2, SentNet
    <2>4. CloudTypes' /\ radio' \in [Chip -> {"init", "starting", "failed", "own", "foreign"}]
      BY <1>1, <1>4, <2>1 DEF CloudTypes, Becomes
    <2> QED BY <1>2, <1>3, <1>4, <2>1, <2>3, <2>4
  <1>9. ASSUME NEW c \in Chip, Fail(c) PROVE NetTypes' /\ (Kept => Kept')
    <2>1. Becomes(c, "failed") /\ used' \in Counted /\ UNCHANGED <<cloud, asked, inbox, up>>
      BY <1>9, UseCounts DEF Fail, cloudVars, wires
    <2>2. CloudTypes' /\ radio' \in [Chip -> {"init", "starting", "failed", "own", "foreign"}]
      BY <1>1, <1>4, <2>1 DEF CloudTypes, Becomes
    <2> QED BY <1>2, <1>3, <1>4, <2>1, <2>2
  <1> QED BY <1>5, <1>6, <1>7, <1>8, <1>9

\* What gets lost, and a restart, keep the types; and they take a bound that is
\* not 0.
LEMMA LossNet ==
  NetTypes /\ (Restart \/ \E c \in Chip : Lose(c)) => NetTypes' /\ (Faults # 0 \/ Restarts # 0)
  <1> SUFFICES ASSUME NetTypes, Restart \/ \E c \in Chip : Lose(c)
               PROVE  NetTypes' /\ (Faults # 0 \/ Restarts # 0)
    OBVIOUS
  <1>1. used["fault"] \in Nat /\ used["restart"] \in Nat
    BY DEF NetTypes, Counted
  <1>2. down \in [Chip -> Seq(ToChip)] /\ up \in [Chip -> Seq(FromChip)]
    BY DEF NetTypes, ChipTypes
  <1>3. CASE Restart
    <2>1. /\ asked' = <<"info">> /\ inbox' = <<>> /\ netPc' = "idle" /\ todo' = <<>> /\ job' = None
          /\ delayed' = [c \in Chip |-> <<>>] /\ failAge' = [c \in Chip |-> None] /\ check' = 0
          /\ down' = [c \in Chip |-> Append(down[c], "info")] /\ up' = [c \in Chip |-> <<>>]
          /\ UNCHANGED <<family, cloud, radio, old>> /\ used["restart"] < Restarts
      BY <1>3 DEF Restart, Use
    <2>2. used' \in Counted
      BY <1>3, UseCounts DEF Restart
    <2>3. /\ <<"info">> \in Seq({"info", "all"}) /\ <<>> \in Seq(Message) /\ <<>> \in Seq(Later)
          /\ <<>> \in Seq(FromChip) /\ 0 \in 0 .. CheckTime - 1
      BY NetConstants
    <2>4. ASSUME NEW c \in Chip PROVE Append(down[c], "info") \in Seq(ToChip)
      <3>1. "info" \in ToChip /\ down[c] \in Seq(ToChip)
        BY <1>2 DEF ToChip
      <3> QED BY <3>1
    <2>5. down' \in [Chip -> Seq(ToChip)]
      BY <2>1, <2>4
    <2>6. CloudTypes' /\ PortTypes'
      BY <2>1, <2>3 DEF NetTypes, CloudTypes, PortTypes
    <2>7. ThreadTypesN'
      BY <2>1, ChipsFacts DEF ThreadTypesN
    <2>8. ChipTypes'
      BY <2>1, <2>3, <2>5 DEF NetTypes, ChipTypes
    <2>9. Restarts # 0
      BY <1>1, <2>1
    <2> QED BY <2>2, <2>6, <2>7, <2>8, <2>9 DEF NetTypes
  <1>4. ASSUME NEW c \in Chip, Lose(c) PROVE NetTypes' /\ (Faults # 0 \/ Restarts # 0)
    <2>1. /\ used["fault"] < Faults
          /\ UNCHANGED <<family, cloud, asked, inbox, netPc, todo, job, delayed, failAge, check, radio, old>>
          /\ \/ down[c] # <<>> /\ down' = [down EXCEPT ![c] = Tail(@)] /\ UNCHANGED up
             \/ up[c] # <<>> /\ up' = [up EXCEPT ![c] = Tail(@)] /\ UNCHANGED down
      BY <1>4 DEF Lose, Use, cloudVars, netVars, ports
    <2>2. used' \in Counted
      BY <1>4, UseCounts DEF Lose
    <2>3. down' \in [Chip -> Seq(ToChip)] /\ up' \in [Chip -> Seq(FromChip)]
      <3>1. CASE down[c] # <<>> /\ down' = [down EXCEPT ![c] = Tail(@)] /\ UNCHANGED up
        BY <1>2, <3>1, Shorter
      <3>2. CASE up[c] # <<>> /\ up' = [up EXCEPT ![c] = Tail(@)] /\ UNCHANGED down
        BY <1>2, <3>2, Shorter
      <3> QED BY <2>1, <3>1, <3>2
    <2>4. NetTypes'
      BY <2>1, <2>2, <2>3 DEF NetTypes, CloudTypes, ThreadTypesN, PortTypes, ChipTypes
    <2> QED BY <1>1, <2>1, <2>4
  <1> QED BY <1>3, <1>4

-----------------------------------------------------------------------------
LEMMA NetStep ==
  NetTypes /\ [Next]_vars =>
    NetTypes' /\ (Faults = 0 /\ Restarts = 0 /\ Kept => Kept')
  <1> SUFFICES ASSUME NetTypes, [Next]_vars
               PROVE  NetTypes' /\ (Faults = 0 /\ Restarts = 0 /\ Kept => Kept')
    OBVIOUS
  <1>1. CASE NetThread
    BY <1>1, HandleNet, TreatedNet, ReturnNet DEF NetThread
  <1>2. ASSUME NEW c \in Chip, SerialThread(c)
        PROVE  NetTypes' /\ (Kept => Kept')
    BY <1>2, FireNet, ChangedNet, AnsweredNet DEF SerialThread
  <1>3. CASE Tick
    BY <1>3, TickNet
  <1>4. ASSUME NEW c \in Chip, ChipDoes(c) PROVE NetTypes' /\ (Kept => Kept')
    BY <1>4, ChipDoesNet
  <1>5. CASE Change \/ Answer \/ Reconnect \/ \E c \in Chip : Form(c) \/ Fail(c)
    BY <1>5, WorldNet
  <1>6. CASE Restart \/ \E c \in Chip : Lose(c)
    BY <1>6, LossNet
  <1>7. CASE UNCHANGED vars
    <2>1. UNCHANGED <<family, cloud, asked, inbox, netPc, todo, job, delayed, failAge, check,
                      down, up, radio, old, used>>
      BY <1>7 DEF vars, cloudVars, netVars, ports, wires
    <2> QED BY <2>1 DEF NetTypes, CloudTypes, ThreadTypesN, PortTypes, ChipTypes, Kept, Leaving
  <1> QED BY <1>1, <1>2, <1>3, <1>4, <1>5, <1>6, <1>7 DEF Next

\* When nothing is left to do, nothing is about to be reset.
LEMMA NetRight == NetTypes /\ Kept => NetworkOfItsFamily
  <1> SUFFICES ASSUME NetTypes, Kept PROVE NetworkOfItsFamily
    OBVIOUS
  <1>1. TypeOK
    BY NetTypesRight
  <1>2. ASSUME NEW c \in Chip, netPc = "idle", delayed[c] = <<>>, down[c] = <<>> PROVE ~ old[c]
    BY <1>2 DEF Kept, Leaving
  <1> QED BY <1>1, <1>2 DEF NetworkOfItsFamily

\* Types are right in every gateway, whatever is lost or restarted.
THEOREM NetworkTypes == Spec => []TypeOK
  <1>1. Init => NetTypes
    BY NetInit
  <1>2. NetTypes /\ [Next]_vars => NetTypes'
    BY NetStep
  <1> QED BY <1>1, <1>2, NetTypesRight, PTL DEF Spec

\* Of a gateway that loses nothing and is not restarted, no chip keeps the
\* network of a family before, in whatever order the cloud, the thread, the
\* chips and time do their steps.
THEOREM NewNetworkInNewFamily ==
  Faults = 0 /\ Restarts = 0 => (Spec => []NetworkOfItsFamily)
  <1> SUFFICES ASSUME Faults = 0, Restarts = 0 PROVE Spec => []NetworkOfItsFamily
    OBVIOUS
  <1>1. Init => NetTypes /\ Kept
    BY NetInit
  <1>2. NetTypes /\ Kept /\ [Next]_vars => NetTypes' /\ Kept'
    BY NetStep
  <1> QED BY <1>1, <1>2, NetRight, PTL DEF Spec
=============================================================================
