-------------------------- MODULE TcpSessionProofs --------------------------
(* Whatever the numbers, delays and faults of send, and whichever thread     *)
(* ends the session, the next session starts from nothing.  The argument    *)
(* follows a session from NetStatusConnect to the end of NetStatusClose:    *)
(* what belongs to it lives in NetStatusRec and NetStatusClose only, its     *)
(* timers and its traffic not past the first second of NetStatusClose.       *)
EXTENDS MCCommandReceive, TLAPS, SequenceTheorems, FiniteSetTheorems, WellFoundedInduction

Status == {"Init", "HttpCertification", "Connect", "Login", "Rec", "Close"}

\* The session is open, or its clean-up has still to come.
Ending == status = "Rec" \/ (status = "Close" /\ delayCount = 0)

ControlOK ==
  /\ status \in Status
  /\ delayCount \in Nat
  /\ sent \in [Sender -> SeqNo \cup {None}]
  /\ delayCount # 0 => status = "Close"

\* The network thread is inside NetStatusRec or NetStatusLogin for a session
\* that has not been cleaned up.
NetInside == netPc # "loop" \/ sent["net"] # None => Ending

\* So are its timers and its traffic.
SessionOnly == repeatTimer \/ beatTimer \/ wire # <<>> \/ inbox # <<>> => Ending

\* The other threads may be late, for as long as NetStatusClose is held.
OthersLate == ~ OthersDone => status \in {"Rec", "Close"}

ListLate == sendList # <<>> => status \in {"Rec", "Close", "Init"}

SocketKnown ==
  /\ status \in {"Connect", "Login", "Rec"} => sock
  /\ status \in {"Init", "HttpCertification"} => ~ sock
  /\ delayCount # 0 => ~ sock

SessionInv ==
  ControlOK /\ NetInside /\ SessionOnly /\ OthersLate /\ ListLate /\ SocketKnown

-----------------------------------------------------------------------------
LEMMA SessionInit == Init => SessionInv
  BY SessionAssumption
  DEF Init, SessionInv, ControlOK, Status, Sender, NetInside, SessionOnly,
      OthersLate, OthersDone, ListLate, SocketKnown, Ending

\* Whatever send returns, mfTCPBuffSend changes the status from NetStatusRec to
\* NetStatusClose at most, and sends in NetStatusRec only.
LEMMA BuffSendFacts ==
  ASSUME NEW n, NEW login, NEW result, BuffSend(n, login, result)
  PROVE  /\ status' = status \/ (status = "Rec" /\ status' = "Close")
         /\ wire' # wire => status = "Rec" /\ status' = "Rec"
  BY DEF BuffSend

LEMMA TransmitFacts ==
  ASSUME ControlOK, NEW t \in Sender, NEW n \in SeqNo, Transmit(t, n)
  PROVE  /\ status' = status \/ (status = "Rec" /\ status' = "Close")
         /\ wire' # wire => status = "Rec" /\ status' = "Rec"
         /\ sent' # sent => status = "Rec"
         /\ sent' \in [Sender -> SeqNo \cup {None}]
         /\ \A u \in Sender \ {t} : sent'[u] = sent[u]
  <1>1. PICK result \in {"sent"} \cup SendFaults :
          /\ BuffSend(n, n = "login", result)
          /\ sent' = IF status = "Rec" /\ result = "sent"
                       THEN [sent EXCEPT ![t] = n] ELSE sent
    BY DEF Transmit
  <1>2. /\ status' = status \/ (status = "Rec" /\ status' = "Close")
        /\ wire' # wire => status = "Rec" /\ status' = "Rec"
    BY <1>1, BuffSendFacts
  <1> QED BY <1>1, <1>2 DEF ControlOK

\* Steps of another thread: the status may go from NetStatusRec to
\* NetStatusClose, and a thread begins something in NetStatusRec only.
LEMMA OtherThreadStep ==
  ASSUME SessionInv,
         UNCHANGED <<delayCount, sock, netPc, repeatTimer, beatTimer>>,
         status' = status \/ (status = "Rec" /\ status' = "Close"),
         wire' # <<>> => wire # <<>> \/ (status = "Rec" /\ status' = "Rec"),
         inbox' # <<>> => inbox # <<>> \/ wire # <<>>,
         sendList' # <<>> => sendList # <<>> \/ ~ OthersDone \/ sent["net"] # None,
         sent' \in [Sender -> SeqNo \cup {None}],
         sent'["net"] # None => sent["net"] # None,
         ~ OthersDone' => ~ OthersDone \/ Ending
  PROVE  SessionInv'
  <1> USE DEF SessionInv
  <1>1. Ending => Ending'
    BY DEF Ending, ControlOK
  <1>2. ControlOK'
    BY DEF ControlOK, Status
  <1>3. NetInside'
    BY <1>1 DEF NetInside
  <1>4. SessionOnly'
    BY <1>1 DEF SessionOnly, Ending, ControlOK
  <1>5. OthersLate'
    BY DEF OthersLate, Ending
  <1>6. ListLate'
    BY DEF ListLate, OthersLate, NetInside, Ending
  <1>7. SocketKnown'
    BY DEF SocketKnown
  <1> QED BY <1>2, <1>3, <1>4, <1>5, <1>6, <1>7

-----------------------------------------------------------------------------
(* The steps *)

LEMMA NetSteps ==
  ASSUME SessionInv,
         \/ NetInit \/ NetCertify \/ NetConnect \/ NetLogin \/ NetSendLogin
         \/ NetStartTimer \/ NetEnterRecv \/ NetRecvEnds \/ NetReceiveAck
         \/ NetReceiveAuth \/ NetGetInfo \/ NetClose
  PROVE  SessionInv'
  <1> USE SessionAssumption
      DEF SessionInv, ControlOK, Status, NetInside, SessionOnly, OthersLate,
          OthersDone, ListLate, SocketKnown, Ending, netVars, timerVars, serverVars
  <1>0. "net" \in Sender /\ "timer" \in Sender /\ "app" \in Sender
    BY DEF Sender
  <1>1. CASE NetInit
    BY <1>1 DEF NetInit, At
  <1>2. CASE NetCertify
    BY <1>2 DEF NetCertify, At
  <1>3. CASE NetConnect
    BY <1>3 DEF NetConnect, At
  <1>4. CASE NetLogin
    BY <1>4 DEF NetLogin, At
  <1>5. CASE NetSendLogin \/ NetGetInfo
    <2>1. PICK n \in SeqNo : Transmit("net", n)
      BY <1>5 DEF NetSendLogin, NetGetInfo, SeqNo
    <2>2. /\ status' = status \/ (status = "Rec" /\ status' = "Close")
          /\ wire' # wire => status = "Rec" /\ status' = "Rec"
          /\ sent' # sent => status = "Rec"
          /\ sent' \in [Sender -> SeqNo \cup {None}]
          /\ \A u \in Sender \ {"net"} : sent'[u] = sent[u]
      BY <1>0, <2>1, TransmitFacts
    <2>3. /\ netPc # "loop"
          /\ UNCHANGED <<delayCount, sock, sendList, timerVars, repeatTimer,
                          beatTimer, inbox>>
      BY <1>5 DEF NetSendLogin, NetGetInfo
    <2>4. Ending /\ Ending'
      BY <2>2, <2>3
    <2> QED BY <1>0, <2>2, <2>3, <2>4
  <1>6. CASE NetStartTimer
    BY <1>6 DEF NetStartTimer
  <1>7. CASE NetEnterRecv
    BY <1>7 DEF NetEnterRecv, At
  <1>8. CASE NetRecvEnds
    BY <1>8 DEF NetRecvEnds
  <1>9. CASE NetReceiveAck
    BY <1>9 DEF NetReceiveAck
  <1>10. CASE NetReceiveAuth
    BY <1>10 DEF NetReceiveAuth
  <1>11. CASE NetClose
    <2>1. /\ netPc = "loop" /\ status = "Close" /\ sent["net"] = None
          /\ UNCHANGED <<netPc, sent, timerVars>>
          /\ CleanUp
      BY <1>11 DEF NetClose, At
    <2>2. /\ ~ repeatTimer' /\ ~ beatTimer' /\ ~ sock'
          /\ wire' = <<>> /\ inbox' = <<>>
      BY <2>1 DEF CleanUp
    <2>3. \/ delayCount' = delayCount + 1 /\ status' = status
          \/ OthersDone /\ delayCount' = 0 /\ status' = "Init"
      BY <1>11 DEF NetClose
    <2> QED BY <2>1, <2>2, <2>3
  <1> QED BY <1>1, <1>2, <1>3, <1>4, <1>5, <1>6, <1>7, <1>8, <1>9, <1>10, <1>11

LEMMA EnlistStep ==
  ASSUME SessionInv, NEW t \in Sender, Enlist(t) PROVE SessionInv'
  <1>1. /\ UNCHANGED <<netVars, timerVars, repeatTimer, beatTimer, serverVars>>
        /\ sent[t] # None
        /\ sent' = [sent EXCEPT ![t] = None]
    BY DEF Enlist
  <1>2. /\ sent' \in [Sender -> SeqNo \cup {None}]
        /\ \A u \in Sender : sent'[u] # None => sent[u] # None
        /\ t = "net" \/ ~ OthersDone
    BY <1>1 DEF SessionInv, ControlOK, Sender, OthersDone
  <1> QED BY <1>1, <1>2, OtherThreadStep
      DEF netVars, timerVars, serverVars, OthersDone, Sender

LEMMA SenderSteps ==
  ASSUME SessionInv, AppSend \/ Heartbeat PROVE SessionInv'
  <1>1. PICK t \in {"app", "timer"}, n \in SeqNo : Transmit(t, n)
    BY DEF AppSend, Heartbeat, SeqNo
  <1>2. /\ status' = status \/ (status = "Rec" /\ status' = "Close")
        /\ wire' # wire => status = "Rec" /\ status' = "Rec"
        /\ sent' # sent => status = "Rec"
        /\ sent' \in [Sender -> SeqNo \cup {None}]
        /\ sent'["net"] = sent["net"]
    BY <1>1, TransmitFacts DEF SessionInv, Sender
  <1>3. UNCHANGED <<delayCount, sock, netPc, sendList, timerVars, repeatTimer,
                    beatTimer, inbox>>
    BY DEF AppSend, Heartbeat
  <1> QED BY <1>2, <1>3, OtherThreadStep DEF timerVars, OthersDone, Ending

LEMMA RepeatSteps ==
  ASSUME SessionInv, RepeatCheck PROVE SessionInv'
  <1>1. CASE Tick
    <2>1. Ending
      BY <1>1 DEF Tick, SessionInv, SessionOnly
    <2> QED BY <1>1, <2>1, OtherThreadStep
        DEF Tick, netVars, serverVars, SessionInv, ControlOK
  <1>2. CASE ScanEntry
    <2>1. /\ status' = status \/ (status = "Rec" /\ status' = "Close")
          /\ wire' # wire => status = "Rec" /\ status' = "Rec"
      BY <1>2, BuffSendFacts DEF ScanEntry, Repeat
    <2>2. /\ UNCHANGED <<delayCount, sock, netPc, sent, repeatTimer, beatTimer, inbox>>
          /\ ~ OthersDone
      BY <1>2 DEF ScanEntry, OthersDone
    <2> QED BY <2>1, <2>2, OtherThreadStep DEF SessionInv, ControlOK
  <1>3. CASE Judge
    <2>1. status' = "Close" \/ status' = status
      BY <1>3 DEF Judge
    <2>2. /\ UNCHANGED <<delayCount, sock, netPc, sent, repeatTimer, beatTimer,
                          wire, inbox>>
          /\ ~ OthersDone
      BY <1>3 DEF Judge, serverVars, OthersDone
    <2>3. status \in {"Rec", "Close"}
      BY <2>2 DEF SessionInv, OthersLate
    <2> QED BY <2>1, <2>2, <2>3, OtherThreadStep DEF SessionInv, ControlOK
  <1>4. CASE EndScan
    BY <1>4, OtherThreadStep
    DEF EndScan, netVars, serverVars, SessionInv, ControlOK, OthersDone
  <1> QED BY <1>1, <1>2, <1>3, <1>4 DEF RepeatCheck

LEMMA ServerSteps ==
  ASSUME SessionInv, ServerAnswers \/ PeerChanges \/ ResetConnect
  PROVE  SessionInv'
  <1>1. CASE ServerAnswers
    <2>1. wire # <<>> /\ UNCHANGED <<netVars, sent, sendList, timerVars,
                                     repeatTimer, beatTimer>>
      BY <1>1 DEF ServerAnswers
    <2> QED BY <2>1, OtherThreadStep
        DEF netVars, timerVars, SessionInv, ControlOK, OthersDone
  <1>2. CASE PeerChanges
    BY <1>2, OtherThreadStep
    DEF PeerChanges, netVars, timerVars, SessionInv, ControlOK, OthersDone
  <1>3. CASE ResetConnect
    BY <1>3, OtherThreadStep
    DEF ResetConnect, timerVars, serverVars, SessionInv, ControlOK, OthersDone
  <1> QED BY <1>1, <1>2, <1>3

LEMMA SessionStep == SessionInv /\ [Next]_vars => SessionInv'
  <1> SUFFICES ASSUME SessionInv, [Next]_vars PROVE SessionInv'
    OBVIOUS
  <1>1. CASE NetStep
    BY <1>1, NetSteps, EnlistStep DEF NetStep, Sender
  <1>2. CASE RepeatCheck \/ Heartbeat \/ AppSend
    BY <1>2, RepeatSteps, SenderSteps
  <1>3. CASE Enlist("timer") \/ Enlist("app")
    BY <1>3, EnlistStep DEF Sender
  <1>4. CASE ServerAnswers \/ PeerChanges \/ ResetConnect
    BY <1>4, ServerSteps
  <1>5. CASE UNCHANGED vars
    BY <1>5, OtherThreadStep
    DEF vars, netVars, timerVars, serverVars, SessionInv, ControlOK, OthersDone
  <1> QED BY <1>1, <1>2, <1>3, <1>4, <1>5 DEF Next

\* No command, timer, answer or socket of one session is there when the next is
\* opened, whichever thread ended the old one and whatever was still going on.
THEOREM SessionsStartFresh == Spec => []FreshSession
  <1>1. SessionInv => FreshSession
    BY DEF SessionInv, ControlOK, NetInside, SessionOnly, OthersLate, OthersDone,
           ListLate, SocketKnown, Ending, FreshSession, Sender
  <1> QED BY <1>1, SessionInit, SessionStep, PTL DEF Spec
-----------------------------------------------------------------------------
(* A server that answers in time is never given up, for any number of       *)
(* commands and repetitions.  The argument is about where the answer to a   *)
(* command is that was repeated: it is under way until the entry goes, and   *)
(* the next repeat check starts only when nothing is under way any more.     *)

\* A set of naturals has a least element.
LEMMA Least ==
  ASSUME NEW S, S \subseteq Nat, S # {}
  PROVE  \E m \in S : \A k \in S : m <= k
  <1>1. PICK m \in S : \A k \in S : <<k, m>> \notin OpToRel(<, Nat)
    BY NatLessThanWellFounded, WFMin
  <1>2. ASSUME NEW k \in S PROVE m <= k
    <2>1. <<k, m>> \notin OpToRel(<, Nat)
      BY <1>1
    <2>2. ~ (k < m)
      BY <2>1 DEF OpToRel
    <2> QED BY <2>2
  <1> QED BY <1>2

-----------------------------------------------------------------------------
(* Without keeps the other messages, in order                              *)

Upto(S, i) == {j \in S : j <= i}

LEMMA UptoFacts ==
  ASSUME NEW L \in Nat, NEW S, \A j \in S : j \in Nat /\ 1 <= j /\ j <= L, NEW i \in Nat
  PROVE  /\ IsFiniteSet(S) /\ Cardinality(S) \in Nat
         /\ IsFiniteSet(Upto(S, i)) /\ Cardinality(Upto(S, i)) \in Nat
         /\ Cardinality(Upto(S, i)) <= Cardinality(S)
         /\ i > 0 => Cardinality(Upto(S, i)) =
              Cardinality(Upto(S, i - 1)) + (IF i \in S THEN 1 ELSE 0)
         /\ i = 0 => Cardinality(Upto(S, i)) = 0
         /\ i >= L => Upto(S, i) = S
  <1>1. IsFiniteSet(S)
    <2>1. S \in SUBSET (1..L) /\ IsFiniteSet(1..L)
      BY FS_Interval
    <2> QED BY <2>1, FS_Subset
  <1>2. Upto(S, i) \in SUBSET S
    BY DEF Upto
  <1>3. IsFiniteSet(Upto(S, i)) /\ Cardinality(Upto(S, i)) <= Cardinality(S)
    BY <1>1, <1>2, FS_Subset
  <1>4. ASSUME i > 0 PROVE Cardinality(Upto(S, i)) =
          Cardinality(Upto(S, i - 1)) + (IF i \in S THEN 1 ELSE 0)
    <2>1. Upto(S, i) = IF i \in S THEN Upto(S, i - 1) \cup {i} ELSE Upto(S, i - 1)
      BY <1>4 DEF Upto
    <2>2. i \notin Upto(S, i - 1)
      BY DEF Upto
    <2>3. IsFiniteSet(Upto(S, i - 1))
      <3>1. Upto(S, i - 1) \in SUBSET S
        BY DEF Upto
      <3> QED BY <1>1, <3>1, FS_Subset
    <2>4. Cardinality(Upto(S, i - 1)) \in Nat
      BY <2>3, FS_CardinalityType
    <2>5. Cardinality(Upto(S, i - 1) \cup {i}) = Cardinality(Upto(S, i - 1)) + 1
      BY <2>2, <2>3, FS_AddElement
    <2> QED BY <2>1, <2>4, <2>5
  <1>5. i = 0 => Upto(S, i) = {}
    BY DEF Upto
  <1>6. i >= L => Upto(S, i) = S
    BY DEF Upto
  <1> QED BY <1>1, <1>3, <1>4, <1>5, <1>6, FS_CardinalityType, FS_EmptySet

\* Every rank is that of one element.
LEMMA RankReached ==
  ASSUME NEW L \in Nat, NEW S, \A j \in S : j \in Nat /\ 1 <= j /\ j <= L, NEW k \in 1..Cardinality(S)
  PROVE  \E i \in S : Cardinality(Upto(S, i)) = k
  <1> DEFINE C(i) == Cardinality(Upto(S, i))
             High == {i \in Nat : C(i) >= k}
  <1>0. Cardinality(S) \in Nat /\ k \in Nat /\ k > 0
    BY UptoFacts
  <1>1. \A i \in Nat : /\ C(i) \in Nat
                       /\ i > 0 => C(i) = C(i - 1) + (IF i \in S THEN 1 ELSE 0)
                       /\ i = 0 => C(i) = 0
    BY UptoFacts
  <1>2. C(L) = Cardinality(S)
    BY UptoFacts
  <1> HIDE DEF C
  <1>3. L \in High
    BY <1>0, <1>2
  <1>4. PICK i \in High : \A j \in High : i <= j
    BY <1>3, Least
  <1>5. i \in Nat /\ i > 0 /\ C(i) >= k
    BY <1>0, <1>1, <1>4
  <1>6. C(i - 1) < k
    BY <1>0, <1>1, <1>4, <1>5
  <1>7. i \in S /\ C(i) = k
    BY <1>0, <1>1, <1>5, <1>6
  <1> QED BY <1>7 DEF C

LEMMA RankOrders ==
  ASSUME NEW L \in Nat, NEW S, \A j \in S : j \in Nat /\ 1 <= j /\ j <= L,
         NEW i \in S, NEW k \in S, i < k
  PROVE  Cardinality(Upto(S, i)) < Cardinality(Upto(S, k))
  <1>0. i \in Nat /\ k \in Nat /\ k > 0 /\ k - 1 \in Nat
    OBVIOUS
  <1>1. Upto(S, i) \in SUBSET Upto(S, k - 1)
    <2>1. \A j \in S : j <= i => j <= k - 1
      BY <1>0
    <2> QED BY <2>1 DEF Upto
  <1>2. /\ IsFiniteSet(Upto(S, k - 1)) /\ Cardinality(Upto(S, k - 1)) \in Nat
        /\ Cardinality(Upto(S, i)) \in Nat
        /\ Cardinality(Upto(S, k)) = Cardinality(Upto(S, k - 1)) + 1
    <2>1. \A j \in Nat :
            /\ IsFiniteSet(Upto(S, j)) /\ Cardinality(Upto(S, j)) \in Nat
            /\ j > 0 => Cardinality(Upto(S, j)) =
                 Cardinality(Upto(S, j - 1)) + (IF j \in S THEN 1 ELSE 0)
      BY UptoFacts
    <2> QED BY <1>0, <2>1
  <1>3. Cardinality(Upto(S, i)) <= Cardinality(Upto(S, k - 1))
    BY <1>1, <1>2, FS_Subset
  <1> QED BY <1>2, <1>3

LEMMA SeqOfPlaces ==
  ASSUME NEW M, NEW n \in Nat, NEW r \in [1..n -> M]
  PROVE  r \in Seq(M)
  OBVIOUS

LEMMA WithoutFacts ==
  ASSUME NEW M, NEW s \in Seq(M), NEW n
  PROVE  /\ Without(s, n) \in Seq(M)
         /\ \A k \in DOMAIN Without(s, n) :
              \E i \in DOMAIN s : s[i].seq # n /\ Without(s, n)[k] = s[i]
         /\ \A i \in DOMAIN s : s[i].seq # n =>
              \E k \in DOMAIN Without(s, n) : Without(s, n)[k] = s[i]
  <1> DEFINE kept == {i \in DOMAIN s : s[i].seq # n}
             at(k) == CHOOSE i \in kept : Cardinality(Upto(kept, i)) = k
  <1>1. /\ Len(s) \in Nat /\ DOMAIN s = 1..Len(s) /\ \A j \in kept : j \in Nat /\ 1 <= j /\ j <= Len(s)
        /\ \A i \in DOMAIN s : s[i] \in M
    OBVIOUS
  <1>2. Without(s, n) = [k \in 1..Cardinality(kept) |-> s[at(k)]]
    BY DEF Without, Upto
  <1>3. Cardinality(kept) \in Nat
    BY <1>1, UptoFacts
  <1>4. \A k \in 1..Cardinality(kept) :
          at(k) \in kept /\ Cardinality(Upto(kept, at(k))) = k
    <2> TAKE k \in 1..Cardinality(kept)
    <2>1. \E i \in kept : Cardinality(Upto(kept, i)) = k
      BY <1>1, RankReached
    <2> QED BY <2>1
  <1>5. \A i \in kept : /\ Cardinality(Upto(kept, i)) \in 1..Cardinality(kept)
                        /\ at(Cardinality(Upto(kept, i))) = i
    <2> TAKE i \in kept
    <2>1. i \in Nat /\ i > 0 /\ i - 1 \in Nat
      BY <1>1
    <2>2. /\ Cardinality(Upto(kept, i)) \in Nat
          /\ Cardinality(Upto(kept, i - 1)) \in Nat
          /\ Cardinality(Upto(kept, i)) = Cardinality(Upto(kept, i - 1)) + 1
          /\ Cardinality(Upto(kept, i)) <= Cardinality(kept)
      <3>1. \A j \in Nat :
              /\ Cardinality(Upto(kept, j)) \in Nat
              /\ j > 0 => Cardinality(Upto(kept, j)) =
                   Cardinality(Upto(kept, j - 1)) + (IF j \in kept THEN 1 ELSE 0)
              /\ Cardinality(Upto(kept, j)) <= Cardinality(kept)
        <4> HIDE DEF kept, at
        <4> QED BY <1>1, UptoFacts
      <3> HIDE DEF kept, at
      <3> QED BY <2>1, <3>1
    <2>3. Cardinality(Upto(kept, i)) \in 1..Cardinality(kept)
      BY <1>3, <2>2
    <2> DEFINE j == at(Cardinality(Upto(kept, i)))
    <2>4. j \in kept /\ Cardinality(Upto(kept, j)) = Cardinality(Upto(kept, i))
      BY <1>4, <2>3
    <2> HIDE DEF j, kept
    <2>5. i \in Nat /\ j \in Nat
      BY <1>1, <2>4
    <2>6. ~ (i < j) /\ ~ (j < i)
      BY <1>1, <2>2, <2>4, RankOrders
    <2> QED BY <2>3, <2>5, <2>6 DEF j
  <1> HIDE DEF at
  <1>6. Without(s, n) \in Seq(M)
    <2>1. \A k \in 1..Cardinality(kept) : s[at(k)] \in M
      BY <1>1, <1>4
    <2>2. Without(s, n) \in [1..Cardinality(kept) -> M]
      BY <1>2, <2>1
    <2> QED BY <1>3, <2>2, SeqOfPlaces
  <1>7. DOMAIN Without(s, n) = 1..Cardinality(kept)
    BY <1>2
  <1>8. \A k \in DOMAIN Without(s, n) :
          \E i \in DOMAIN s : s[i].seq # n /\ Without(s, n)[k] = s[i]
    BY <1>2, <1>4, <1>7
  <1>9. \A i \in DOMAIN s : s[i].seq # n =>
          \E k \in DOMAIN Without(s, n) : Without(s, n)[k] = s[i]
    BY <1>2, <1>5, <1>7
  <1> QED BY <1>6, <1>8, <1>9

-----------------------------------------------------------------------------
(* Remove takes out one entry of the number, if there is one               *)

LEMMA ConcatRight ==
  ASSUME NEW M, NEW l \in Seq(M), NEW r \in Seq(M),
         NEW k \in 1..(Len(l) + Len(r)), k > Len(l)
  PROVE  (l \o r)[k] = r[k - Len(l)]
  OBVIOUS

LEMMA RemoveFacts ==
  ASSUME sendList \in Seq(Entry), NEW n
  PROVE  /\ Remove(n) \in Seq(Entry)
         /\ \/ Remove(n) = sendList /\ \A i \in DOMAIN sendList : sendList[i].seq # n
            \/ \E at \in DOMAIN sendList :
                 /\ sendList[at].seq = n
                 /\ DOMAIN Remove(n) = 1..(Len(sendList) - 1)
                 /\ \A k \in DOMAIN Remove(n) :
                      Remove(n)[k] = IF k < at THEN sendList[k] ELSE sendList[k + 1]
  <1> DEFINE hits == {i \in DOMAIN sendList : sendList[i].seq = n}
             at == CHOOSE i \in hits : \A j \in hits : i <= j
             left == SubSeq(sendList, 1, at - 1)
             right == SubSeq(sendList, at + 1, Len(sendList))
  <1>1. Remove(n) = IF hits = {} THEN sendList ELSE left \o right
    BY DEF Remove
  <1>2. CASE hits = {}
    BY <1>1, <1>2
  <1>3. CASE hits # {}
    <2>1. at \in hits
      <3>1. hits \subseteq Nat
        OBVIOUS
      <3>2. \E i \in hits : \A j \in hits : i <= j
        BY <1>3, <3>1, Least
      <3> QED BY <3>2
    <2>2. at \in DOMAIN sendList /\ sendList[at].seq = n /\ at \in 1..Len(sendList)
      BY <2>1
    <2> HIDE DEF at, hits
    <2>3. /\ left \in Seq(Entry) /\ Len(left) = at - 1
          /\ \A k \in 1..(at - 1) : left[k] = sendList[k]
      BY <2>2
    <2>4. /\ right \in Seq(Entry) /\ Len(right) = Len(sendList) - at
          /\ \A k \in 1..(Len(sendList) - at) : right[k] = sendList[at + k]
      BY <2>2
    <2> HIDE DEF left, right
    <2>5. Remove(n) = left \o right
      BY <1>1, <1>3
    <2>6. /\ Remove(n) \in Seq(Entry) /\ DOMAIN Remove(n) = 1..(Len(sendList) - 1)
      BY <2>2, <2>3, <2>4, <2>5
    <2>7. ASSUME NEW k \in DOMAIN Remove(n)
          PROVE  Remove(n)[k] = IF k < at THEN sendList[k] ELSE sendList[k + 1]
      <3>1. CASE k < at
        BY <2>2, <2>3, <2>4, <2>5, <2>6, <3>1
      <3>2. CASE ~ (k < at)
        <4>1. k - (at - 1) \in 1..(Len(sendList) - at)
          BY <2>2, <2>6, <3>2
        <4>2. Remove(n)[k] = right[k - (at - 1)]
          <5>2. k \in 1..(Len(left) + Len(right)) /\ k > Len(left)
            BY <2>2, <2>3, <2>4, <2>6, <3>2
          <5> QED BY <2>3, <2>4, <2>5, <5>2, ConcatRight
        <4>3. at + (k - (at - 1)) = k + 1
          BY <2>2, <2>6
        <4> QED BY <2>4, <3>2, <4>1, <4>2, <4>3
      <3> QED BY <3>1, <3>2
    <2> QED BY <2>2, <2>6, <2>7
  <1> QED BY <1>2, <1>3

-----------------------------------------------------------------------------
(* Types                                                                   *)

LEMMA TypeInit == Init => TypeOK
  <1>1. <<>> \in Seq(Entry) /\ <<>> \in Seq(Request) /\ <<>> \in Seq(Answer)
    OBVIOUS
  <1>2. ASSUME Init PROVE sent \in [Sender -> SeqNo \cup {None}]
    BY <1>2 DEF Init
  <1>3. ASSUME Init
        PROVE  /\ sendList \in Seq(Entry) /\ wire \in Seq(Request)
               /\ inbox \in Seq(Answer)
    BY <1>1, <1>3 DEF Init
  <1>4. 0 \in 0..(CloseHold - 1) /\ 1 \in Nat \ {0}
    BY SessionAssumption
  <1> QED BY <1>2, <1>3, <1>4 DEF Init, TypeOK

LEMMA BuffSendTypes ==
  ASSUME TypeOK, NEW n \in SeqNo, NEW login \in BOOLEAN, NEW result,
         BuffSend(n, login, result)
  PROVE  /\ status' \in Status /\ wire' \in Seq(Request)
  <1>1. [seq |-> n, login |-> login] \in Request
    BY DEF Request
  <1>2. Append(wire, [seq |-> n, login |-> login]) \in Seq(Request)
    BY <1>1 DEF TypeOK
  <1> QED BY <1>2 DEF BuffSend, TypeOK, Status

LEMMA TransmitTypes ==
  ASSUME TypeOK, NEW t \in Sender, NEW n \in SeqNo, Transmit(t, n)
  PROVE  /\ status' \in Status /\ wire' \in Seq(Request)
         /\ sent' \in [Sender -> SeqNo \cup {None}]
  <1>1. PICK result \in {"sent"} \cup SendFaults :
          /\ BuffSend(n, n = "login", result)
          /\ sent' = IF status = "Rec" /\ result = "sent"
                       THEN [sent EXCEPT ![t] = n] ELSE sent
    BY DEF Transmit
  <1>2. status' \in Status /\ wire' \in Seq(Request)
    BY <1>1, BuffSendTypes
  <1> QED BY <1>1, <1>2 DEF TypeOK

LEMMA TypeStep == TypeOK /\ [Next]_vars => TypeOK'
  <1> SUFFICES ASSUME TypeOK, [Next]_vars PROVE TypeOK'
    OBVIOUS
  <1> USE SessionAssumption
  <1>0. "net" \in Sender /\ "timer" \in Sender /\ "app" \in Sender
    BY DEF Sender
  <1>1. CASE NetInit
    <2>1. sendList' \in Seq(Entry)
      BY <1>1 DEF NetInit
    <2> QED BY <1>1, <2>1 DEF NetInit, TypeOK, timerVars, serverVars
  <1>2. CASE NetCertify
    BY <1>2 DEF NetCertify, TypeOK, timerVars, serverVars
  <1>3. CASE NetConnect
    <2>1. /\ status' \in {"Init", "HttpCertification", "Connect", "Login", "Rec", "Close"}
          /\ peer' \in {"none", "up", "silent", "closed"}
      BY <1>3 DEF NetConnect, TypeOK
    <2>2. UNCHANGED <<delayCount, sock, netPc, sent, sendList, timerPc, index,
                         held, repeatTimer, beatTimer, wire, inbox>>
      BY <1>3 DEF NetConnect, timerVars
    <2> QED BY <2>1, <2>2 DEF TypeOK
  <1>4. CASE NetLogin \/ NetStartTimer \/ NetEnterRecv \/ NetRecvEnds
    <2>1. CASE NetLogin
      BY <2>1 DEF NetLogin, TypeOK, timerVars, serverVars
    <2>2. CASE NetStartTimer
      BY <2>2 DEF NetStartTimer, TypeOK, timerVars, serverVars
    <2>3. CASE NetEnterRecv
      BY <2>3 DEF NetEnterRecv, TypeOK, timerVars, serverVars
    <2>4. CASE NetRecvEnds
      BY <2>4 DEF NetRecvEnds, TypeOK, timerVars, serverVars
    <2> QED BY <1>4, <2>1, <2>2, <2>3, <2>4
  <1>5. CASE NetSendLogin \/ NetGetInfo
    <2>1. PICK n \in SeqNo : Transmit("net", n)
      BY <1>5 DEF NetSendLogin, NetGetInfo, SeqNo
    <2>2. /\ status' \in Status /\ wire' \in Seq(Request)
          /\ sent' \in [Sender -> SeqNo \cup {None}]
      BY <1>0, <2>1, TransmitTypes
    <2> QED BY <1>5, <2>2
        DEF TypeOK, Status, NetSendLogin, NetGetInfo, timerVars
  <1>6. CASE NetReceiveAck
    <2> DEFINE n == Head(inbox).seq
    <2>1. Tail(inbox) \in Seq(Answer) /\ sendList \in Seq(Entry) /\ wire \in Seq(Request)
      BY <1>6 DEF NetReceiveAck, TypeOK
    <2>2. Remove(n) \in Seq(Entry)
      BY <2>1, RemoveFacts
    <2>3. Without(Tail(inbox), n) \in Seq(Answer)
      BY <2>1, WithoutFacts
    <2>4. Without(wire, n) \in Seq(Request)
      BY <2>1, WithoutFacts
    <2> QED BY <1>6, <2>2, <2>3, <2>4 DEF NetReceiveAck, TypeOK, timerVars
  <1>7. CASE NetReceiveAuth
    BY <1>7 DEF NetReceiveAuth, TypeOK, timerVars
  <1>8. CASE NetClose
    <2>1. /\ sock' \in BOOLEAN /\ repeatTimer' \in BOOLEAN /\ beatTimer' \in BOOLEAN
          /\ sendList' = sendList \/ sendList' = <<>>
          /\ wire' = wire \/ wire' = <<>>
          /\ inbox' = inbox \/ inbox' = <<>>
          /\ peer' \in {"none", "up", "silent", "closed"}
      BY <1>8 DEF NetClose, CleanUp, TypeOK, serverVars
    <2>2. delayCount' \in 0..(CloseHold - 1) /\ status' \in Status
      BY <1>8 DEF NetClose, TypeOK, Status
    <2>3. sendList' \in Seq(Entry) /\ wire' \in Seq(Request) /\ inbox' \in Seq(Answer)
      <3>1. <<>> \in Seq(Entry) /\ <<>> \in Seq(Request) /\ <<>> \in Seq(Answer)
        OBVIOUS
      <3> QED BY <2>1, <3>1 DEF TypeOK
    <2> QED BY <1>8, <2>1, <2>2, <2>3 DEF NetClose, TypeOK, Status, timerVars
  <1>9. CASE \E t \in Sender : Enlist(t)
    <2>1. PICK t \in Sender : Enlist(t)
      BY <1>9
    <2>2. [seq |-> sent[t], count |-> SendCount, delay |-> ResendDelay] \in Entry
      BY <2>1 DEF Enlist, Entry, TypeOK
    <2> QED BY <2>1, <2>2 DEF Enlist, TypeOK, netVars, timerVars, serverVars
  <1>10. CASE Tick \/ EndScan
    BY <1>10 DEF Tick, EndScan, TypeOK, netVars, serverVars
  <1>11. CASE ScanEntry
    <2> DEFINE e == sendList[index]
    <2>1. /\ index \in DOMAIN sendList /\ e \in Entry /\ sendList \in Seq(Entry)
          /\ index \in Nat
      BY <1>11 DEF ScanEntry, TypeOK
    <2>2. CASE e.delay > 1
      <3>1. sendList' = [sendList EXCEPT ![index].delay = @ - 1]
        BY <1>11, <2>2 DEF ScanEntry
      <3>2. sendList' \in Seq(Entry)
        BY <2>1, <2>2, <3>1 DEF Entry
      <3> QED BY <1>11, <2>1, <2>2, <3>2 DEF ScanEntry, TypeOK
    <2>3. CASE ~ (e.delay > 1)
      <3>1. PICK result : Repeat(e, result)
        BY <1>11, <2>3 DEF ScanEntry
      <3>2. e.seq \in SeqNo
        BY <2>1 DEF Entry
      <3>3. status' \in Status /\ wire' \in Seq(Request)
        <4>1. CASE e.count > 0
          BY <3>1, <3>2, <4>1, BuffSendTypes DEF Repeat
        <4>2. CASE ~ (e.count > 0)
          BY <3>1, <4>2 DEF Repeat, TypeOK, Status
        <4> QED BY <4>1, <4>2
      <3>4. sendList' \in Seq(Entry)
        <4>1. CASE e.count > 0
          <5>1. sendList' = [sendList EXCEPT ![index].count = @ - 1,
                                             ![index].delay = ResendDelay]
            BY <3>1, <4>1 DEF Repeat
          <5>2. e.count \in Nat /\ e.count <= SendCount
            BY <2>1 DEF Entry
          <5>3. e.count - 1 \in 0..SendCount /\ ResendDelay \in 0..ResendDelay
            BY <4>1, <5>2
          <5>4. sendList' = [sendList EXCEPT ![index] = [e EXCEPT !.count = @ - 1,
                                                                  !.delay = ResendDelay]]
            BY <2>1, <5>1
          <5>5. [e EXCEPT !.count = @ - 1, !.delay = ResendDelay] \in Entry
            BY <2>1, <5>3 DEF Entry
          <5> QED BY <2>1, <5>4, <5>5
        <4>2. CASE ~ (e.count > 0)
          <5>1. sendList' = [sendList EXCEPT ![index].delay = 0]
            BY <3>1, <4>2 DEF Repeat
          <5>2. sendList' = [sendList EXCEPT ![index] = [e EXCEPT !.delay = 0]]
            BY <2>1, <5>1
          <5>3. [e EXCEPT !.delay = 0] \in Entry
            <6>1. 0 \in 0..ResendDelay
              OBVIOUS
            <6> QED BY <2>1, <6>1 DEF Entry
          <5> QED BY <2>1, <5>2, <5>3
        <4> QED BY <4>1, <4>2
      <3> QED BY <1>11, <2>3, <3>2, <3>3, <3>4 DEF ScanEntry, TypeOK, Status
    <2> QED BY <2>2, <2>3
  <1>12. CASE Judge
    <2>1. Remove(held) \in Seq(Entry)
      BY RemoveFacts DEF TypeOK
    <2> QED BY <1>12, <2>1 DEF Judge, TypeOK, serverVars
  <1>13. CASE Heartbeat \/ AppSend
    <2>1. PICK t \in Sender, n \in SeqNo : Transmit(t, n)
      BY <1>0, <1>13 DEF Heartbeat, AppSend, SeqNo
    <2>2. /\ status' \in Status /\ wire' \in Seq(Request)
          /\ sent' \in [Sender -> SeqNo \cup {None}]
      BY <2>1, TransmitTypes
    <2> QED BY <1>13, <2>2 DEF TypeOK, Status, Heartbeat, AppSend, timerVars
  <1>14. CASE ResetConnect \/ PeerChanges
    BY <1>14 DEF ResetConnect, PeerChanges, TypeOK, netVars, timerVars, serverVars
  <1>15. CASE ServerAnswers
    <2> DEFINE ack == [kind |-> "ack", seq |-> Head(wire).seq]
    <2>1. wire # <<>> /\ Head(wire) \in Request /\ Tail(wire) \in Seq(Request)
      BY <1>15 DEF ServerAnswers, TypeOK
    <2>2. ack \in Answer
      BY <2>1 DEF Answer, Request
    <2>3. \A k \in {"authOk", "authErr"} : [kind |-> k, seq |-> None] \in Answer
      BY DEF Answer
    <2>4. inbox' \in Seq(Answer)
      <3>1. CASE Head(wire).login
        <4>1. PICK k \in {"authOk", "authErr"} :
                inbox' = inbox \o <<ack, [kind |-> k, seq |-> None]>>
          BY <1>15, <3>1 DEF ServerAnswers
        <4>2. <<ack, [kind |-> k, seq |-> None]>> \in Seq(Answer)
          BY <2>2, <2>3
        <4> QED BY <4>1, <4>2 DEF TypeOK
      <3>2. CASE ~ Head(wire).login
        <4>1. inbox' = Append(inbox, ack)
          BY <1>15, <3>2 DEF ServerAnswers
        <4> QED BY <2>2, <4>1 DEF TypeOK
      <3> QED BY <3>1, <3>2
    <2> QED BY <1>15, <2>1, <2>4 DEF ServerAnswers, TypeOK, netVars, timerVars
  <1>16. CASE UNCHANGED vars
    BY <1>16 DEF vars, TypeOK, netVars, timerVars, serverVars
  <1> QED BY <1>0, <1>1, <1>2, <1>3, <1>4, <1>5, <1>6, <1>7, <1>8, <1>9, <1>10,
             <1>11, <1>12, <1>13, <1>14, <1>15, <1>16 DEF Next, NetStep, RepeatCheck

\* Whatever fails and whoever sends, no attempt goes below zero, no index below
\* the list, and every message is one that the other side knows.
THEOREM TypeCorrect == Spec => []TypeOK
  BY TypeInit, TypeStep, PTL DEF Spec

-----------------------------------------------------------------------------
(* Where the answer to a repeated command is                               *)

UnderWay(n) ==
  \/ \E i \in DOMAIN wire : wire[i].seq = n
  \/ \E i \in DOMAIN inbox : inbox[i].kind = "ack" /\ inbox[i].seq = n

Full(i) == sendList[i].count = SendCount

\* A number stands for one command: on the list once, or still with its sender.
OneEntry == \A i, j \in DOMAIN sendList : sendList[i].seq = sendList[j].seq => i = j

OneSender ==
  \A t \in Sender : sent[t] # None =>
    ~ Listed(sent[t]) /\ \A u \in Sender : sent[u] = sent[t] => u = t

\* A command repeated once has its request or its acknowledgement under way.
RepeatedOnce ==
  status = "Rec" =>
    \A i \in DOMAIN sendList : ~ Full(i) =>
      sendList[i].count + 1 = SendCount /\ UnderWay(sendList[i].seq)

\* What the repeat check has still to visit was not repeated yet: entries only
\* go from the list, or join it at its end.
AheadFull ==
  status = "Rec" =>
    \A i \in DOMAIN sendList :
      \/ Full(i)
      \/ timerPc = "idle"
      \/ timerPc = "scan" /\ i < index
      \/ timerPc = "judge" /\ i <= index

\* Numbers stand for one command whatever the server does; where the answers are
\* is known of a prompt one that send does not fail to reach.
PromptInv ==
  /\ OneEntry /\ OneSender
  /\ Prompt /\ SendFaults = {} => RepeatedOnce /\ AheadFull

LEMMA PromptInit == Init => PromptInv
  BY DEF Init, PromptInv, OneEntry, OneSender, RepeatedOnce, AheadFull

LEMMA Appended ==
  ASSUME NEW M, NEW s \in Seq(M), NEW e
  PROVE  /\ DOMAIN Append(s, e) = 1..(Len(s) + 1)
         /\ DOMAIN s = 1..Len(s) /\ Len(s) \in Nat
         /\ Append(s, e)[Len(s) + 1] = e
         /\ \A i \in DOMAIN s : i \in DOMAIN Append(s, e) /\ Append(s, e)[i] = s[i]
  OBVIOUS

LEMMA Entries ==
  ASSUME TypeOK
  PROVE  \A i \in DOMAIN sendList : /\ sendList[i] \in Entry
                                    /\ sendList[i].seq \in SeqNo
                                    /\ sendList[i].count \in 0..SendCount
                                    /\ i \in Nat
  <1>1. sendList \in Seq(Entry)
    BY DEF TypeOK
  <1>2. \A i \in DOMAIN sendList : sendList[i] \in Entry /\ i \in Nat
    BY <1>1
  <1> QED BY <1>2 DEF Entry

\* Steps that leave the list and the repeat check alone.
LEMMA ListKept ==
  ASSUME TypeOK, PromptInv,
         UNCHANGED <<sendList, timerPc, index>>,
         status' = "Rec" => status = "Rec",
         status' = "Rec" => \A n \in SeqNo : UnderWay(n) => UnderWay(n)',
         OneSender'
  PROVE  PromptInv'
  <1>1. \A i \in DOMAIN sendList : sendList[i].seq \in SeqNo
    BY Entries
  <1>2. OneEntry'
    BY DEF PromptInv, OneEntry
  <1>3. ASSUME RepeatedOnce PROVE RepeatedOnce'
    BY <1>1, <1>3 DEF RepeatedOnce, Full
  <1>4. ASSUME AheadFull PROVE AheadFull'
    BY <1>4 DEF AheadFull, Full
  <1> QED BY <1>2, <1>3, <1>4 DEF PromptInv

\* Steps that send no command.
LEMMA SendersKept ==
  ASSUME PromptInv, UNCHANGED <<sendList, sent>> PROVE OneSender'
  BY DEF PromptInv, OneSender, Listed

LEMMA EmptyList ==
  ASSUME PromptInv, sendList' = <<>>, UNCHANGED sent PROVE PromptInv'
  BY DEF PromptInv, OneEntry, OneSender, Listed, RepeatedOnce, AheadFull

LEMMA TransmitPrompt ==
  ASSUME TypeOK, PromptInv, NEW t \in Sender, NEW n \in SeqNo, Transmit(t, n),
         UNCHANGED <<sendList, timerPc, index, inbox>>
  PROVE  PromptInv'
  <1>1. PICK result \in {"sent"} \cup SendFaults :
          /\ Unused(n)
          /\ BuffSend(n, n = "login", result)
          /\ sent' = IF status = "Rec" /\ result = "sent"
                       THEN [sent EXCEPT ![t] = n] ELSE sent
    BY DEF Transmit
  <1>2. status' = "Rec" => status = "Rec"
    BY <1>1 DEF BuffSend
  <1>3. wire' = wire \/ wire' = Append(wire, [seq |-> n, login |-> (n = "login")])
    BY <1>1 DEF BuffSend
  <1>4. ASSUME NEW m \in SeqNo, UnderWay(m) PROVE UnderWay(m)'
    <2>1. ASSUME NEW i \in DOMAIN wire PROVE i \in DOMAIN wire' /\ wire'[i] = wire[i]
      <3>1. wire \in Seq(Request)
        BY DEF TypeOK
      <3> QED BY <1>3, <3>1, Appended
    <2> QED BY <1>4, <2>1 DEF UnderWay
  <1>5. OneSender'
    <2>1. ~ Listed(n) /\ \A u \in Sender : sent[u] # n
      BY <1>1 DEF Unused
    <2>2. Listed(n)' = Listed(n) /\ \A u \in Sender : Listed(sent[u]) <=> \E i \in DOMAIN sendList' : sendList'[i].seq = sent[u]
      BY DEF Listed
    <2>3. sent \in [Sender -> SeqNo \cup {None}]
      BY DEF TypeOK
    <2> QED BY <1>1, <2>1, <2>2, <2>3 DEF PromptInv, OneSender, Listed
  <1> QED BY <1>2, <1>4, <1>5, ListKept

LEMMA EnlistPrompt ==
  ASSUME TypeOK, PromptInv, NEW t \in Sender, Enlist(t) PROVE PromptInv'
  <1> DEFINE e == [seq |-> sent[t], count |-> SendCount, delay |-> ResendDelay]
             last == Len(sendList) + 1
  <1>1. /\ sent \in [Sender -> SeqNo \cup {None}] /\ sent[t] # None
        /\ sent' = [sent EXCEPT ![t] = None]
        /\ UNCHANGED <<status, timerPc, index, wire, inbox>>
    BY DEF Enlist, TypeOK, netVars, timerVars, serverVars
  <1>2. /\ DOMAIN sendList' = 1..last
        /\ DOMAIN sendList = 1..Len(sendList) /\ Len(sendList) \in Nat
        /\ sendList'[last] = e
        /\ \A i \in DOMAIN sendList : i \in DOMAIN sendList' /\ sendList'[i] = sendList[i]
    BY Appended DEF Enlist, TypeOK
  <1>3. \A i \in DOMAIN sendList' : i = last \/ i \in DOMAIN sendList
    BY <1>2
  <1>4. ~ Listed(sent[t]) /\ \A u \in Sender : sent[u] = sent[t] => u = t
    BY <1>1 DEF PromptInv, OneSender
  <1>5. OneEntry'
    BY <1>2, <1>3, <1>4 DEF PromptInv, OneEntry, Listed
  <1>6. OneSender'
    BY <1>1, <1>2, <1>3, <1>4 DEF PromptInv, OneSender, Listed
  <1>7. ASSUME RepeatedOnce PROVE RepeatedOnce'
    BY <1>1, <1>2, <1>3, <1>7 DEF RepeatedOnce, Full, UnderWay
  <1>8. ASSUME AheadFull PROVE AheadFull'
    BY <1>1, <1>2, <1>3, <1>8 DEF AheadFull, Full
  <1> QED BY <1>5, <1>6, <1>7, <1>8 DEF PromptInv

\* The entry of the number goes, and the others move down by one at most.
LEMMA Removed ==
  ASSUME TypeOK, PromptInv, NEW n
  PROVE  /\ \A i \in DOMAIN Remove(n) :
              \E j \in DOMAIN sendList :
                i <= j /\ Remove(n)[i] = sendList[j] /\ sendList[j].seq # n
         /\ \A i, k \in DOMAIN Remove(n) : Remove(n)[i].seq = Remove(n)[k].seq => i = k
  <1>1. /\ \A i, j \in DOMAIN sendList : sendList[i].seq = sendList[j].seq => i = j
        /\ sendList \in Seq(Entry) /\ DOMAIN sendList = 1..Len(sendList)
        /\ Len(sendList) \in Nat
    BY DEF PromptInv, OneEntry, TypeOK
  <1>2. CASE Remove(n) = sendList /\ \A i \in DOMAIN sendList : sendList[i].seq # n
    BY <1>1, <1>2
  <1>3. CASE \E at \in DOMAIN sendList :
               /\ sendList[at].seq = n
               /\ DOMAIN Remove(n) = 1..(Len(sendList) - 1)
               /\ \A k \in DOMAIN Remove(n) :
                    Remove(n)[k] = IF k < at THEN sendList[k] ELSE sendList[k + 1]
    <2>1. PICK at \in DOMAIN sendList :
            /\ sendList[at].seq = n
            /\ DOMAIN Remove(n) = 1..(Len(sendList) - 1)
            /\ \A k \in DOMAIN Remove(n) :
                 Remove(n)[k] = IF k < at THEN sendList[k] ELSE sendList[k + 1]
      BY <1>3
    <2> DEFINE from(i) == IF i < at THEN i ELSE i + 1
    <2>2. \A i \in DOMAIN Remove(n) :
            /\ from(i) \in DOMAIN sendList /\ from(i) # at /\ i <= from(i)
            /\ Remove(n)[i] = sendList[from(i)]
      BY <1>1, <2>1
    <2>3. \A i, k \in DOMAIN Remove(n) : from(i) = from(k) => i = k
      BY <1>1, <2>1
    <2> HIDE DEF from
    <2> QED BY <1>1, <2>1, <2>2, <2>3
  <1> QED BY <1>1, <1>2, <1>3, RemoveFacts

LEMMA JudgePrompt ==
  ASSUME TypeOK, PromptInv, Judge PROVE PromptInv'
  <1>1. CASE sendList' = Remove(held) /\ status' = "Close"
    <2>1. sent' = sent
      BY DEF Judge
    <2>2. OneEntry'
      BY <1>1, Removed DEF OneEntry
    <2>3. \A m : Listed(m)' => Listed(m)
      BY <1>1, Removed DEF Listed
    <2>4. OneSender'
      BY <2>1, <2>3 DEF PromptInv, OneSender
    <2> QED BY <1>1, <2>2, <2>4 DEF PromptInv, RepeatedOnce, AheadFull
  <1>2. CASE index' = index + 1 /\ UNCHANGED <<sendList, status>>
    <2>1. timerPc = "judge" /\ timerPc' = "scan" /\ UNCHANGED <<sent, wire, inbox>>
      BY DEF Judge, serverVars
    <2>2. OneEntry' /\ OneSender'
      BY <1>2, <2>1, SendersKept DEF PromptInv, OneEntry
    <2>3. ASSUME RepeatedOnce PROVE RepeatedOnce'
      BY <1>2, <2>1, <2>3 DEF RepeatedOnce, Full, UnderWay
    <2>4. ASSUME AheadFull PROVE AheadFull'
      <3>1. index \in Nat
        BY DEF TypeOK
      <3> QED BY <1>2, <2>1, <2>4, <3>1, Entries DEF AheadFull, Full
    <2> QED BY <2>2, <2>3, <2>4 DEF PromptInv
  <1> QED BY <1>1, <1>2 DEF Judge

LEMMA AckPrompt ==
  ASSUME TypeOK, PromptInv, NetReceiveAck PROVE PromptInv'
  <1> DEFINE n == Head(inbox).seq
  <1>1. /\ inbox # <<>> /\ inbox \in Seq(Answer) /\ wire \in Seq(Request)
        /\ Tail(inbox) \in Seq(Answer) /\ index \in Nat
        /\ sendList' = Remove(n)
        /\ inbox' = Without(Tail(inbox), n) /\ wire' = Without(wire, n)
        /\ UNCHANGED <<status, sent, timerPc, index>>
    BY DEF NetReceiveAck, TypeOK, timerVars
  <1> HIDE DEF n
  <1>2. \A i \in DOMAIN sendList' :
          \E j \in DOMAIN sendList :
            i <= j /\ sendList'[i] = sendList[j] /\ sendList[j].seq # n
    BY <1>1, Removed
  <1>3. OneEntry'
    BY <1>1, Removed DEF OneEntry
  <1>4. \A m : Listed(m)' => Listed(m)
    BY <1>2 DEF Listed
  <1>5. OneSender'
    BY <1>1, <1>4 DEF PromptInv, OneSender
  <1>6. ASSUME NEW m, m # n, UnderWay(m) PROVE UnderWay(m)'
    <2>1. CASE \E i \in DOMAIN wire : wire[i].seq = m
      BY <1>1, <1>6, <2>1, WithoutFacts DEF UnderWay
    <2>2. CASE \E i \in DOMAIN inbox : inbox[i].kind = "ack" /\ inbox[i].seq = m
      <3>1. PICK i \in DOMAIN inbox : inbox[i].kind = "ack" /\ inbox[i].seq = m
        BY <2>2
      <3>2. i # 1
        BY <1>1, <1>6, <3>1 DEF n
      <3>3. i - 1 \in DOMAIN Tail(inbox) /\ Tail(inbox)[i - 1] = inbox[i]
        BY <1>1, <3>1, <3>2
      <3>4. \E k \in DOMAIN inbox' : inbox'[k] = inbox[i]
        <4> DEFINE rest == Tail(inbox)
        <4>1. rest \in Seq(Answer) /\ inbox' = Without(rest, n)
          BY <1>1
        <4>2. i - 1 \in DOMAIN rest /\ rest[i - 1] = inbox[i] /\ rest[i - 1].seq # n
          BY <1>6, <3>1, <3>3
        <4> HIDE DEF rest
        <4> QED BY <4>1, <4>2, WithoutFacts
      <3> QED BY <3>1, <3>4 DEF UnderWay
    <2> QED BY <1>6, <2>1, <2>2 DEF UnderWay
  <1>7. ASSUME RepeatedOnce PROVE RepeatedOnce'
    <2> SUFFICES ASSUME status = "Rec", NEW i \in DOMAIN sendList', ~ Full(i)'
                 PROVE  (sendList[i].count + 1 = SendCount /\ UnderWay(sendList[i].seq))'
      BY <1>1 DEF RepeatedOnce
    <2>1. PICK j \in DOMAIN sendList :
            i <= j /\ sendList'[i] = sendList[j] /\ sendList[j].seq # n
      BY <1>2
    <2> QED BY <1>6, <1>7, <2>1 DEF RepeatedOnce, Full
  <1>8. ASSUME AheadFull PROVE AheadFull'
    <2> SUFFICES ASSUME status = "Rec", NEW i \in DOMAIN sendList', ~ Full(i)'
                 PROVE  \/ timerPc = "idle"
                        \/ timerPc = "scan" /\ i < index
                        \/ timerPc = "judge" /\ i <= index
      BY <1>1 DEF AheadFull
    <2>1. PICK j \in DOMAIN sendList : i <= j /\ sendList'[i] = sendList[j]
      BY <1>2
    <2>2. i \in Nat /\ j \in Nat /\ index \in Nat
      BY <1>1, RemoveFacts, Entries DEF TypeOK
    <2>3. ~ Full(j)
      BY <2>1 DEF Full
    <2> QED BY <1>8, <2>1, <2>2, <2>3 DEF AheadFull
  <1> QED BY <1>3, <1>5, <1>7, <1>8 DEF PromptInv

LEMMA TickPrompt ==
  ASSUME TypeOK, PromptInv, Tick PROVE PromptInv'
  <1>1. /\ UNCHANGED <<status, sent, sendList, wire, inbox>>
        /\ timerPc' = "scan" /\ Calm
    BY DEF Tick, netVars, serverVars
  <1>2. OneEntry' /\ OneSender'
    BY <1>1, SendersKept DEF PromptInv, OneEntry
  <1>3. ASSUME RepeatedOnce PROVE RepeatedOnce'
    BY <1>1, <1>3 DEF RepeatedOnce, Full, UnderWay
  <1>4. ASSUME Prompt, RepeatedOnce PROVE AheadFull'
    <2>1. \A m : ~ UnderWay(m)
      BY <1>1, <1>4 DEF Calm, UnderWay
    <2> QED BY <1>1, <1>4, <2>1 DEF AheadFull, RepeatedOnce, Full
  <1> QED BY <1>2, <1>3, <1>4 DEF PromptInv

LEMMA ScanPrompt ==
  ASSUME TypeOK, PromptInv, ScanEntry PROVE PromptInv'
  <1>1. /\ UNCHANGED <<sent, inbox>> /\ timerPc = "scan"
        /\ index \in DOMAIN sendList /\ index \in Nat
        /\ sendList \in Seq(Entry) /\ wire \in Seq(Request)
    BY DEF ScanEntry, TypeOK
  <1>2. /\ DOMAIN sendList' = DOMAIN sendList
        /\ \A i \in DOMAIN sendList : sendList'[i].seq = sendList[i].seq
        /\ \A i \in DOMAIN sendList : i # index => sendList'[i] = sendList[i]
    <2>1. CASE sendList[index].delay > 1
      BY <1>1, <2>1, Entries DEF ScanEntry, Entry
    <2>2. CASE ~ (sendList[index].delay > 1)
      <3>1. \/ sendList' = [sendList EXCEPT ![index].count = @ - 1,
                                             ![index].delay = ResendDelay]
            \/ sendList' = [sendList EXCEPT ![index].delay = 0]
        BY <2>2 DEF ScanEntry, Repeat
      <3>2. \A i \in DOMAIN sendList : sendList[i] \in Entry
        BY Entries
      <3>3. CASE sendList' = [sendList EXCEPT ![index].count = @ - 1,
                                              ![index].delay = ResendDelay]
        BY <1>1, <3>2, <3>3 DEF Entry
      <3>4. CASE sendList' = [sendList EXCEPT ![index].delay = 0]
        BY <1>1, <3>2, <3>4 DEF Entry
      <3> QED BY <3>1, <3>3, <3>4
    <2> QED BY <2>1, <2>2
  <1>3. OneEntry' /\ OneSender'
    BY <1>1, <1>2 DEF PromptInv, OneEntry, OneSender, Listed
  <1>4. CASE sendList[index].delay > 1
    <2>1. /\ UNCHANGED <<status, wire, timerPc>> /\ index' = index + 1
          /\ sendList'[index].count = sendList[index].count
      BY <1>1, <1>4, Entries DEF ScanEntry, Entry
    <2>2. ASSUME RepeatedOnce PROVE RepeatedOnce'
      BY <1>1, <1>2, <2>1, <2>2 DEF RepeatedOnce, Full, UnderWay
    <2>3. ASSUME AheadFull PROVE AheadFull'
      BY <1>1, <1>2, <2>1, <2>3, Entries DEF AheadFull, Full
    <2> QED BY <1>3, <2>2, <2>3 DEF PromptInv
  <1>5. CASE ~ (sendList[index].delay > 1)
    <2>1. PICK result \in {"sent"} \cup SendFaults : Repeat(sendList[index], result)
      BY <1>5 DEF ScanEntry
    <2>2. timerPc' = "judge" /\ index' = index
      BY <1>5 DEF ScanEntry
    <2>3. ASSUME SendFaults = {}, RepeatedOnce, AheadFull, status' = "Rec"
          PROVE  RepeatedOnce' /\ AheadFull'
      <3>1. status = "Rec"
        BY <2>1, <2>3 DEF Repeat, BuffSend
      <3>2. \A i \in DOMAIN sendList : Full(i) \/ i < index
        BY <1>1, <2>3, <3>1 DEF AheadFull
      <3>3. sendList[index].count = SendCount
        BY <1>1, <3>2 DEF Full
      <3>4. /\ sendList'[index].count + 1 = SendCount
            /\ wire' = Append(wire, [seq |-> sendList[index].seq, login |-> FALSE])
        BY <1>1, <2>1, <2>3, <3>1, <3>3, Entries, SessionAssumption
        DEF Repeat, BuffSend, Entry
      <3>5. ASSUME NEW m, m = sendList[index].seq PROVE UnderWay(m)'
        <4>1. [seq |-> sendList[index].seq, login |-> FALSE].seq = m
          BY <3>5
        <4>2. \E i \in DOMAIN wire' : wire'[i].seq = m
          <5>1. Len(wire) + 1 \in DOMAIN wire' /\ wire'[Len(wire) + 1].seq = m
            BY <1>1, <3>4, <4>1, Appended
          <5> QED BY <5>1
        <4> QED BY <4>2 DEF UnderWay
      <3>6. \A m : UnderWay(m) => UnderWay(m)'
        BY <1>1, <3>4, Appended DEF UnderWay
      <3>7. RepeatedOnce'
        <4>1. ASSUME NEW i \in DOMAIN sendList, sendList'[i].count # SendCount
              PROVE  /\ sendList'[i].count + 1 = SendCount
                     /\ \A m : m = sendList'[i].seq => UnderWay(m)'
          <5>1. CASE i = index
            BY <1>2, <3>4, <3>5, <4>1, <5>1
          <5>2. CASE i # index
            <6>1. /\ sendList'[i] = sendList[i] /\ ~ Full(i)
              BY <1>2, <4>1, <5>2 DEF Full
            <6> QED BY <2>3, <3>1, <3>6, <6>1 DEF RepeatedOnce
          <5> QED BY <5>1, <5>2
        <4> QED BY <1>2, <4>1 DEF RepeatedOnce, Full
      <3>8. AheadFull'
        BY <1>1, <1>2, <2>2, <3>2, Entries DEF AheadFull, Full
      <3> QED BY <3>7, <3>8
    <2>4. status' # "Rec" => RepeatedOnce' /\ AheadFull'
      BY DEF RepeatedOnce, AheadFull
    <2> QED BY <1>3, <2>3, <2>4 DEF PromptInv
  <1> QED BY <1>4, <1>5

LEMMA AnswerPrompt ==
  ASSUME TypeOK, PromptInv, ServerAnswers PROVE PromptInv'
  <1>1. /\ UNCHANGED <<status, sent, sendList, timerPc, index>>
        /\ wire # <<>> /\ wire' = Tail(wire)
        /\ wire \in Seq(Request) /\ inbox \in Seq(Answer)
    BY DEF ServerAnswers, TypeOK, netVars, timerVars
  <1> DEFINE ack == [kind |-> "ack", seq |-> Head(wire).seq]
  <1>2. /\ \A i \in DOMAIN inbox : i \in DOMAIN inbox' /\ inbox'[i] = inbox[i]
        /\ \E i \in DOMAIN inbox' : inbox'[i] = ack
    <2> HIDE DEF ack
    <2>1. CASE inbox' = Append(inbox, ack)
      BY <1>1, <2>1, Appended
    <2>2. CASE \E a : inbox' = inbox \o <<ack, a>>
      <3>1. PICK a : inbox' = inbox \o <<ack, a>>
        BY <2>2
      <3>2. Len(inbox) + 1 \in DOMAIN inbox' /\ inbox'[Len(inbox) + 1] = ack
        BY <1>1, <3>1
      <3>3. \A i \in DOMAIN inbox : i \in DOMAIN inbox' /\ inbox'[i] = inbox[i]
        BY <1>1, <3>1
      <3> QED BY <3>2, <3>3
    <2> QED BY <2>1, <2>2 DEF ServerAnswers, ack
  <1>3. ASSUME NEW m \in SeqNo, UnderWay(m) PROVE UnderWay(m)'
    <2>1. CASE \E i \in DOMAIN inbox : inbox[i].kind = "ack" /\ inbox[i].seq = m
      BY <1>2, <2>1 DEF UnderWay
    <2>2. CASE \E i \in DOMAIN wire : wire[i].seq = m
      <3>1. PICK i \in DOMAIN wire : wire[i].seq = m
        BY <2>2
      <3>2. CASE i = 1
        BY <1>1, <1>2, <3>1, <3>2 DEF UnderWay
      <3>3. CASE i # 1
        <4>1. i - 1 \in DOMAIN Tail(wire) /\ Tail(wire)[i - 1] = wire[i]
          BY <1>1, <3>1, <3>3
        <4> QED BY <1>1, <3>1, <4>1 DEF UnderWay
      <3> QED BY <3>2, <3>3
    <2> QED BY <1>3, <2>1, <2>2 DEF UnderWay
  <1>4. OneSender'
    BY <1>1, SendersKept
  <1> QED BY <1>1, <1>3, <1>4, ListKept

LEMMA NetPrompt ==
  ASSUME TypeOK, SessionInv, PromptInv,
         \/ NetInit \/ NetCertify \/ NetConnect \/ NetLogin \/ NetSendLogin
         \/ NetStartTimer \/ NetEnterRecv \/ NetRecvEnds \/ NetReceiveAuth
         \/ NetGetInfo \/ NetClose
  PROVE  PromptInv'
  <1>1. CASE NetInit
    BY <1>1, EmptyList DEF NetInit
  <1>2. CASE NetCertify \/ NetConnect \/ NetStartTimer \/ NetEnterRecv \/ NetRecvEnds
    <2>1. /\ UNCHANGED <<sendList, sent, timerPc, index, wire, inbox>>
          /\ status' = "Rec" => status = "Rec"
      BY <1>2 DEF NetCertify, NetConnect, NetStartTimer, NetEnterRecv, NetRecvEnds,
                  timerVars, serverVars
    <2>2. \A n \in SeqNo : UnderWay(n) => UnderWay(n)'
      BY <2>1 DEF UnderWay
    <2> QED BY <2>1, <2>2, SendersKept, ListKept
  <1>3. CASE NetLogin
    <2>1. status = "Login" /\ UNCHANGED <<sent, sendList>>
      BY <1>3 DEF NetLogin, At
    <2>2. sendList = <<>>
      BY <2>1 DEF SessionInv, ListLate
    <2> QED BY <2>1, <2>2, EmptyList
  <1>4. CASE NetSendLogin \/ NetGetInfo
    <2>1. PICK n \in SeqNo : Transmit("net", n)
      BY <1>4 DEF NetSendLogin, NetGetInfo, SeqNo
    <2>2. UNCHANGED <<sendList, timerPc, index, inbox>> /\ "net" \in Sender
      BY <1>4 DEF NetSendLogin, NetGetInfo, timerVars, Sender
    <2> QED BY <2>1, <2>2, TransmitPrompt
  <1>5. CASE NetReceiveAuth
    <2>1. /\ UNCHANGED <<sendList, sent, timerPc, index, wire, status>>
          /\ inbox \in Seq(Answer) /\ inbox # <<>> /\ inbox[1].kind # "ack"
          /\ inbox' = Tail(inbox)
      BY <1>5 DEF NetReceiveAuth, TypeOK, timerVars
    <2>2. ASSUME NEW n, UnderWay(n) PROVE UnderWay(n)'
      <3>1. CASE \E i \in DOMAIN wire : wire[i].seq = n
        BY <2>1, <3>1 DEF UnderWay
      <3>2. CASE \E i \in DOMAIN inbox : inbox[i].kind = "ack" /\ inbox[i].seq = n
        <4>1. PICK i \in DOMAIN inbox : inbox[i].kind = "ack" /\ inbox[i].seq = n
          BY <3>2
        <4>2. i - 1 \in DOMAIN inbox' /\ inbox'[i - 1] = inbox[i]
          BY <2>1, <4>1
        <4> QED BY <4>1, <4>2 DEF UnderWay
      <3> QED BY <2>2, <3>1, <3>2 DEF UnderWay
    <2> QED BY <2>1, <2>2, SendersKept, ListKept
  <1>6. CASE NetClose
    <2>1. UNCHANGED <<sent, timerVars>> /\ status' # "Rec"
      BY <1>6 DEF NetClose, At
    <2>2. CASE delayCount = 0
      BY <1>6, <2>1, <2>2, EmptyList DEF NetClose, CleanUp
    <2>3. CASE delayCount # 0
      BY <1>6, <2>1, <2>3, SendersKept, ListKept DEF NetClose, CleanUp, timerVars
    <2> QED BY <2>2, <2>3
  <1> QED BY <1>1, <1>2, <1>3, <1>4, <1>5, <1>6

LEMMA PromptStep ==
  TypeOK /\ SessionInv /\ PromptInv /\ [Next]_vars => PromptInv'
  <1> SUFFICES ASSUME TypeOK, SessionInv, PromptInv, [Next]_vars PROVE PromptInv'
    OBVIOUS
  <1>1. CASE NetStep
    BY <1>1, NetPrompt, AckPrompt, EnlistPrompt DEF NetStep, Sender
  <1>2. CASE Tick \/ ScanEntry \/ Judge
    BY <1>2, TickPrompt, ScanPrompt, JudgePrompt
  <1>3. CASE EndScan
    <2>1. timerPc' = "idle" /\ UNCHANGED <<status, sent, sendList, wire, inbox>>
      BY <1>3 DEF EndScan, netVars, serverVars
    <2>2. OneEntry' /\ OneSender' /\ AheadFull'
      BY <2>1, SendersKept DEF PromptInv, OneEntry, AheadFull
    <2>3. ASSUME RepeatedOnce PROVE RepeatedOnce'
      BY <2>1, <2>3 DEF RepeatedOnce, Full, UnderWay
    <2> QED BY <2>2, <2>3 DEF PromptInv
  <1>4. CASE Heartbeat \/ AppSend
    <2>1. PICK t \in Sender, n \in SeqNo : Transmit(t, n)
      BY <1>4 DEF Heartbeat, AppSend, Sender, SeqNo
    <2>2. UNCHANGED <<sendList, timerPc, index, inbox>>
      BY <1>4 DEF Heartbeat, AppSend, timerVars
    <2> QED BY <2>1, <2>2, TransmitPrompt
  <1>5. CASE Enlist("timer") \/ Enlist("app")
    BY <1>5, EnlistPrompt DEF Sender
  <1>6. CASE ServerAnswers
    BY <1>6, AnswerPrompt
  <1>7. CASE ResetConnect \/ PeerChanges \/ UNCHANGED vars
    <2>1. /\ UNCHANGED <<sent, sendList, timerPc, index, wire, inbox>>
          /\ status' = "Rec" => status = "Rec"
      BY <1>7 DEF ResetConnect, PeerChanges, vars, netVars, timerVars, serverVars
    <2>2. \A n \in SeqNo : UnderWay(n) => UnderWay(n)'
      BY <2>1 DEF UnderWay
    <2> QED BY <2>1, <2>2, SendersKept, ListKept
  <1> QED BY <1>1, <1>2, <1>3, <1>4, <1>5, <1>6, <1>7 DEF Next, RepeatCheck

LEMMA PromptServerRight ==
  ASSUME TypeOK, PromptInv, SendFaults = {} PROVE PromptServerKept
  <1> SUFFICES ASSUME Prompt, status = "Rec", NEW i \in DOMAIN sendList
               PROVE  sendList[i].count + 1 >= SendCount
    BY DEF PromptServerKept
  <1>1. sendList[i].count = SendCount \/ sendList[i].count + 1 = SendCount
    BY DEF PromptInv, RepeatedOnce, Full
  <1> QED BY <1>1, SessionAssumption

\* A server that answers before the next repeat check is never given up, as long
\* as send does not fail: whenever the answer comes, and however many commands
\* the threads have under way, no command is repeated twice.
THEOREM PromptServerNeverGivenUp == Spec => [](SendFaults = {} => PromptServerKept)
  <1>1. TypeOK /\ PromptInv => (SendFaults = {} => PromptServerKept)
    BY PromptServerRight
  <1> QED BY <1>1, TypeCorrect, SessionInit, SessionStep, PromptInit, PromptStep,
             PTL DEF Spec

\* The same of the behaviours that the run explores: a change of the poor server
\* does not concern the prompt one (mfTcpCheckRepeatSendCB).
THEOREM PromptServerOfTheRun ==
  SendFaults = {} => (MCInit /\ [][MCNext]_MCVars => []PromptServer)
  <1> SUFFICES ASSUME SendFaults = {}
               PROVE  MCInit /\ [][MCNext]_MCVars => []PromptServer
    OBVIOUS
  <1> DEFINE RunInv == server = "prompt" => TypeOK /\ SessionInv /\ PromptInv
  <1>1. MCInit => RunInv
    BY TypeInit, SessionInit, PromptInit DEF MCInit
  <1>2. RunInv /\ [MCNext]_MCVars => RunInv'
    <2> SUFFICES ASSUME RunInv, [MCNext]_MCVars, server' = "prompt" PROVE RunInv'
      OBVIOUS
    <2>1. server = "prompt" /\ [Next]_vars
      BY DEF MCNext, MCVars
    <2> QED BY <2>1, TypeStep, SessionStep, PromptStep
  <1>3. RunInv => PromptServer
    BY PromptServerRight DEF PromptServer
  <1> QED BY <1>1, <1>2, <1>3, PTL

-----------------------------------------------------------------------------
(* The commands received in the sessions                                   *)
(*                                                                         *)
(* For any commands, however often repeated, and any number of broken      *)
(* sessions: the gateway carries out what it has acknowledged, although it *)
(* acknowledges first and searches a list that another thread shortens.    *)

Known == [cmd : Command, life : 1 .. Keep]

\* Only what is being carried out may be in the list and not have been.
ListedIsCarriedOut ==
  \A k \in DOMAIN list : list[k].cmd \in done \cup (IF stage = "do" THEN {cmd} ELSE {})

ReceiveInv == Repeats!TypeOK /\ ListedIsCarriedOut /\ Repeats!AckedIsCarriedOut

-----------------------------------------------------------------------------
LEMMA TailFacts ==
  ASSUME NEW S, NEW s \in Seq(S), s # <<>>
  PROVE  Head(s) \in S /\ Tail(s) \in Seq(S)
  OBVIOUS

\* Removing an entry moves those behind it up by one.
LEMMA RemoveAtFacts ==
  ASSUME NEW S, NEW s \in Seq(S), NEW k \in 1 .. Len(s)
  PROVE  /\ Repeats!RemoveAt(s, k) \in Seq(S) /\ Len(Repeats!RemoveAt(s, k)) = Len(s) - 1
         /\ DOMAIN Repeats!RemoveAt(s, k) = 1 .. Len(s) - 1
         /\ \A n \in 1 .. Len(s) - 1 :
              Repeats!RemoveAt(s, k)[n] = IF n < k THEN s[n] ELSE s[n + 1]
  <1> DEFINE a == SubSeq(s, 1, k - 1)
             b == SubSeq(s, k + 1, Len(s))
  <1>1. /\ a \in Seq(S) /\ Len(a) = k - 1
        /\ \A n \in 1 .. Len(a) : a[n] = s[n]
    OBVIOUS
  <1>2. /\ b \in Seq(S) /\ Len(b) = Len(s) - k
        /\ \A n \in 1 .. Len(b) : b[n] = s[n + k]
    OBVIOUS
  <1>3. Repeats!RemoveAt(s, k) = a \o b
    BY DEF Repeats!RemoveAt
  <1>4. k \in Nat /\ Len(s) \in Nat /\ k >= 1 /\ k <= Len(s)
    OBVIOUS
  <1> HIDE DEF a, b
  <1>5. /\ a \o b \in Seq(S) /\ Len(a \o b) = Len(a) + Len(b)
        /\ \A n \in 1 .. Len(a) + Len(b) :
             (a \o b)[n] = IF n <= Len(a) THEN a[n] ELSE b[n - Len(a)]
    BY <1>1, <1>2, ConcatProperties
  <1>6. Len(a) + Len(b) = Len(s) - 1
    BY <1>1, <1>2, <1>4
  <1>7. ASSUME NEW n \in 1 .. Len(s) - 1
        PROVE  (a \o b)[n] = IF n < k THEN s[n] ELSE s[n + 1]
    <2>1. CASE n < k
      BY <1>1, <1>4, <1>5, <1>6, <2>1
    <2>2. CASE ~ (n < k)
      <3>1. n - Len(a) \in 1 .. Len(b) /\ (n - Len(a)) + k = n + 1 /\ ~ (n <= Len(a))
        BY <1>1, <1>2, <1>4, <2>2
      <3>2. (a \o b)[n] = b[n - Len(a)]
        BY <1>5, <1>6, <3>1
      <3> QED BY <1>2, <2>2, <3>1, <3>2
    <2> QED BY <2>1, <2>2
  <1> QED BY <1>3, <1>4, <1>5, <1>6, <1>7

-----------------------------------------------------------------------------
LEMMA ListFacts ==
  ASSUME Repeats!TypeOK
  PROVE  /\ list \in Seq(Known) /\ Len(list) \in Nat /\ DOMAIN list = 1 .. Len(list)
         /\ \A k \in 1 .. Len(list) : /\ list[k] \in Known
                                      /\ list[k].cmd \in Command
                                      /\ list[k].life \in 1 .. Keep
  <1>1. list \in Seq(Known)
    BY DEF Repeats!TypeOK, Known
  <1>2. \A k \in 1 .. Len(list) : list[k] \in Known
    BY <1>1
  <1> QED BY <1>1, <1>2 DEF Known

\* What the three changes of the list do to its entries.
LEMMA Enlisted ==
  ASSUME Repeats!TypeOK, NEW c \in Command, list' = Append(list, [cmd |-> c, life |-> Keep])
  PROVE  /\ list' \in Seq(Known) /\ DOMAIN list' = 1 .. Len(list) + 1
         /\ \A k \in 1 .. Len(list) : list'[k] = list[k]
         /\ list'[Len(list) + 1].cmd = c /\ list'[Len(list) + 1].life = Keep
  <1> DEFINE e == [cmd |-> c, life |-> Keep]
  <1>1. e \in Known /\ e.cmd = c /\ e.life = Keep
    BY RepeatsAssumption DEF Repeats!CommandAssumption, Known
  <1>2. list \in Seq(Known) /\ list' = Append(list, e)
    BY ListFacts
  <1> HIDE DEF e
  <1>3. /\ list' \in Seq(Known) /\ DOMAIN list' = 1 .. Len(list) + 1
        /\ \A k \in 1 .. Len(list) : list'[k] = list[k]
        /\ list'[Len(list) + 1] = e
    BY <1>1, <1>2
  <1> QED BY <1>1, <1>3

LEMMA Lowered ==
  ASSUME Repeats!TypeOK, age \in 1 .. Len(list), list[age].life > 1,
         list' = [list EXCEPT ![age].life = list[age].life - 1]
  PROVE  /\ list' \in Seq(Known) /\ DOMAIN list' = 1 .. Len(list)
         /\ \A k \in 1 .. Len(list) :
              /\ list'[k].cmd = list[k].cmd
              /\ list'[k].life = IF k = age THEN list[k].life - 1 ELSE list[k].life
  <1> DEFINE e == [list[age] EXCEPT !.life = list[age].life - 1]
  <1>1. list[age] \in Known /\ list[age].life \in 1 .. Keep
    BY ListFacts
  <1>2. e \in Known /\ e.cmd = list[age].cmd /\ e.life = list[age].life - 1
    BY <1>1, RepeatsAssumption DEF Repeats!CommandAssumption, Known
  <1>3. list' = [list EXCEPT ![age] = e]
    OBVIOUS
  <1> HIDE DEF e
  <1>4. list \in Seq(Known) /\ Len(list) \in Nat /\ DOMAIN list = 1 .. Len(list)
    BY ListFacts
  <1>5. /\ list' \in Seq(Known) /\ DOMAIN list' = 1 .. Len(list)
        /\ \A k \in 1 .. Len(list) : list'[k] = IF k = age THEN e ELSE list[k]
    BY <1>2, <1>3, <1>4
  <1> QED BY <1>2, <1>5

LEMMA RemovedKnown ==
  ASSUME Repeats!TypeOK, age \in 1 .. Len(list), list' = Repeats!RemoveAt(list, age)
  PROVE  /\ list' \in Seq(Known) /\ DOMAIN list' = 1 .. Len(list) - 1
         /\ \A k \in 1 .. Len(list) - 1 :
              list'[k] = IF k < age THEN list[k] ELSE list[k + 1]
  <1>1. list \in Seq(Known)
    BY ListFacts
  <1> HIDE DEF Known
  <1> QED BY <1>1, RemoveAtFacts

LEMMA InitInv == Repeats!Init => ReceiveInv
  <1> SUFFICES ASSUME Repeats!Init PROVE ReceiveInv
    OBVIOUS
  <1>1. list = <<>> /\ list \in Seq(Known) /\ toGateway \in Seq(Command) /\ DOMAIN list = {}
    BY DEF Repeats!Init
  <1>2. recent \in [Command -> 0 .. Keep \cup {None}]
    BY DEF Repeats!Init
  <1>3. Repeats!TypeOK
    <2>1. list \in Seq([cmd : Command, life : 1 .. Keep])
      BY <1>1 DEF Known
    <2>2. stage = "recv" /\ cmd = None /\ place = 1 /\ age = 0 /\ moved \in BOOLEAN
          /\ open = "Rec" /\ acks = {} /\ acked = {} /\ done = {} /\ sends = 0 /\ closes = 0
      BY DEF Repeats!Init
    <2> QED BY <1>1, <1>2, <2>1, <2>2, RepeatsAssumption DEF Repeats!CommandAssumption, Repeats!TypeOK
  <1> QED BY <1>1, <1>3 DEF Repeats!Init, ReceiveInv, ListedIsCarriedOut,
                            Repeats!AckedIsCarriedOut

LEMMA StepInv == ReceiveInv /\ [Repeats!Next]_Repeats!vars => ReceiveInv'
  <1> SUFFICES ASSUME ReceiveInv, [Repeats!Next]_Repeats!vars PROVE ReceiveInv'
    OBVIOUS
  <1> USE RepeatsAssumption DEF Repeats!CommandAssumption, ReceiveInv, Repeats!TypeOK,
              ListedIsCarriedOut, Repeats!AckedIsCarriedOut
  <1>1. CASE Repeats!ServerSends
    BY <1>1 DEF Repeats!ServerSends, Repeats!net
  <1>2. CASE Repeats!AckArrives
    BY <1>2 DEF Repeats!AckArrives, Repeats!net
  <1>3. CASE Repeats!Receive
    <2>1. cmd' \in Command /\ toGateway' \in Seq(Command)
      BY <1>3, TailFacts DEF Repeats!Receive
    <2>2. Repeats!TypeOK'
      BY <1>3, <2>1 DEF Repeats!Receive
    <2>3. ListedIsCarriedOut'
      BY <1>3 DEF Repeats!Receive
    <2>4. cmd = None /\ acks \cup acked \subseteq done
      BY <1>3 DEF Repeats!Receive
    <2>5. Repeats!AckedIsCarriedOut'
      BY <1>3, <2>4 DEF Repeats!Receive
    <2> QED BY <2>2, <2>3, <2>5
  <1>4. CASE Repeats!Acknowledge
    <2>1. acks' \subseteq acks \cup {cmd} /\ cmd \in Command /\ acked' = acked
      BY <1>4 DEF Repeats!Acknowledge
    <2>2. Repeats!TypeOK'
      <3>1. acks' \subseteq Command
        BY <2>1
      <3>2. /\ stage' = "search" /\ stage = "ack" /\ place' = 1 /\ moved' \in BOOLEAN
            /\ UNCHANGED <<open, toGateway, acked, sends, cmd, list, age, done, recent, closes>>
        BY <1>4 DEF Repeats!Acknowledge
      <3> QED BY <3>1, <3>2
    <2>3. ListedIsCarriedOut'
      BY <1>4 DEF Repeats!Acknowledge
    <2>4. Repeats!AckedIsCarriedOut'
      BY <1>4, <2>1 DEF Repeats!Acknowledge
    <2> QED BY <2>2, <2>3, <2>4
  <1>5. CASE Repeats!Search
    <2>1. CASE place <= Len(list) /\ ~Repeats!Matches(list[place])
      <3>1. /\ place' = place + 1
            /\ UNCHANGED <<stage, cmd, list, recent, open, Repeats!external, age, done, moved, closes>>
        BY <1>5, <2>1 DEF Repeats!Search
      <3> QED BY <3>1 DEF Repeats!external
    <2>2. CASE place <= Len(list) /\ Repeats!Matches(list[place])
      <3>1. place \in DOMAIN list /\ list[place] \in Known
        BY <2>2, ListFacts
      <3>2. list[place].cmd = cmd
        BY <1>5, <2>2, <3>1 DEF Repeats!Search, Repeats!Matches, Known
      <3>3. cmd \in done
        BY <1>5, <3>1, <3>2 DEF Repeats!Search
      <3>4. /\ stage' = "recv" /\ cmd' = None /\ place' = 1 /\ cmd \in Command
            /\ UNCHANGED <<list, recent, open, Repeats!external, age, done, moved, closes>>
            /\ stage = "search"
        BY <1>5, <2>2 DEF Repeats!Search
      <3>5. Repeats!TypeOK'
        BY <3>4 DEF Repeats!external
      <3>6. ListedIsCarriedOut' /\ Repeats!AckedIsCarriedOut'
        BY <3>3, <3>4 DEF Repeats!external
      <3> QED BY <3>5, <3>6
    <2>3. CASE place > Len(list)
      <3>1. /\ list' = Append(list, [cmd |-> cmd, life |-> Keep])
            /\ recent' = [recent EXCEPT ![cmd] = 0]
            /\ stage' = "do" /\ place' = 1 /\ cmd' = cmd /\ stage = "search"
            /\ UNCHANGED <<open, Repeats!external, age, done, moved, closes>>
        BY <1>5, <2>3 DEF Repeats!Search
      <3>2. cmd \in Command
        BY <3>1
      <3>3. /\ list' \in Seq(Known) /\ DOMAIN list' = 1 .. Len(list) + 1
            /\ \A k \in 1 .. Len(list) : list'[k] = list[k]
            /\ list'[Len(list) + 1].cmd = cmd
        BY <3>1, <3>2, Enlisted
      <3>4. ListedIsCarriedOut'
        <4>1. \A k \in 1 .. Len(list) : list[k].cmd \in done
          BY <3>1, ListFacts
        <4>2. Len(list) \in Nat
          BY ListFacts
        <4> QED BY <3>1, <3>3, <4>1, <4>2
      <3>5. recent' \in [Command -> 0 .. Keep \cup {None}]
        BY <3>1, <3>2
      <3>6. Repeats!TypeOK'
        BY <3>1, <3>2, <3>3, <3>5 DEF Repeats!external, Known
      <3> QED BY <3>1, <3>4, <3>6 DEF Repeats!external
    <2> QED BY <1>5, <2>1, <2>2, <2>3 DEF Repeats!Search
  <1>6. CASE Repeats!CarryOut
    BY <1>6 DEF Repeats!CarryOut, Repeats!external
  <1>7. CASE Repeats!Reconnect
    BY <1>7 DEF Repeats!Reconnect, Repeats!net
  <1>8. CASE Repeats!BeginAgeing
    BY <1>8 DEF Repeats!BeginAgeing, Repeats!external, Repeats!net
  <1>9. CASE Repeats!Age
    <2>1. CASE age <= Len(list) /\ list[age].life > 1
      <3>1. /\ list' = [list EXCEPT ![age].life = list[age].life - 1]
            /\ age' = age + 1
            /\ UNCHANGED <<open, Repeats!external, Repeats!net, done, recent, closes, moved>>
        BY <1>9, <2>1 DEF Repeats!Age
      <3>2. age \in 1 .. Len(list) /\ DOMAIN list = 1 .. Len(list)
        BY <1>9, <2>1, ListFacts DEF Repeats!Age
      <3>3. /\ list' \in Seq(Known) /\ DOMAIN list' = DOMAIN list
            /\ \A k \in DOMAIN list : list'[k].cmd = list[k].cmd
        BY <2>1, <3>1, <3>2, Lowered
      <3> QED BY <3>1, <3>3 DEF Repeats!external, Repeats!net, Known
    <2>2. CASE age <= Len(list) /\ list[age].life = 1
      <3>1. /\ list' = Repeats!RemoveAt(list, age) /\ moved' = TRUE
            /\ UNCHANGED <<open, Repeats!external, Repeats!net, done, recent, closes, age>>
        BY <1>9, <2>2 DEF Repeats!Age
      <3>2. age \in 1 .. Len(list) /\ DOMAIN list = 1 .. Len(list) /\ Len(list) \in Nat
        BY <1>9, <2>2, ListFacts DEF Repeats!Age
      <3>3. /\ list' \in Seq(Known) /\ DOMAIN list' = 1 .. Len(list) - 1
            /\ \A n \in 1 .. Len(list) - 1 :
                 list'[n] = IF n < age THEN list[n] ELSE list[n + 1]
        BY <3>1, <3>2, RemovedKnown
      <3>4. ASSUME NEW n \in DOMAIN list'
            PROVE  \E m \in DOMAIN list : list'[n] = list[m]
        <4>1. n \in 1 .. Len(list) - 1 /\ n \in DOMAIN list /\ n + 1 \in DOMAIN list
          BY <3>2, <3>3
        <4>2. list'[n] = list[n] \/ list'[n] = list[n + 1]
          BY <3>3, <4>1
        <4> QED BY <4>1, <4>2
      <3> QED BY <3>1, <3>3, <3>4 DEF Repeats!external, Repeats!net, Known
    <2>3. CASE age > Len(list)
      BY <1>9, <2>3 DEF Repeats!Age, Repeats!external, Repeats!net
    <2> QED BY <1>9, <2>1, <2>2, <2>3 DEF Repeats!Age, Known
  <1>10. CASE Repeats!Break
    BY <1>10 DEF Repeats!Break, Repeats!external, Repeats!net
  <1>11. CASE UNCHANGED Repeats!vars
    BY <1>11 DEF Repeats!vars, Repeats!external, Repeats!net
  <1> QED BY <1>1, <1>2, <1>3, <1>4, <1>5, <1>6, <1>7, <1>8, <1>9, <1>10, <1>11 DEF Repeats!Next

LEMMA ReceiveInvariant == Repeats!Spec => []ReceiveInv
  <1>1. Repeats!Init => ReceiveInv
    BY InitInv
  <1>2. ReceiveInv /\ [Repeats!Next]_Repeats!vars => ReceiveInv'
    BY StepInv
  <1> QED BY <1>1, <1>2, PTL DEF Repeats!Spec

\* The list, the place of the search and the command at hand stay in range, and
\* acknowledging before the search loses no command.
THEOREM AcknowledgedIsDone == Repeats!Spec => []AckedIsCarriedOut
  <1>1. Repeats!Spec => []ReceiveInv
    BY ReceiveInvariant
  <1>2. ReceiveInv => AckedIsCarriedOut
    BY DEF ReceiveInv, AckedIsCarriedOut
  <1> QED BY <1>1, <1>2, PTL

-----------------------------------------------------------------------------
(* Remembering *)

\* The pass under way has still to lower the entry at k.
Due(k) == age > 0 /\ k >= age

\* A command taken for new fewer than Keep - 1 passes ago is in the list, with
\* a life for each pass that is left.
Kept ==
  \A c \in Command : recent[c] # None /\ recent[c] < Keep - 1 =>
    \E k \in DOMAIN list :
      /\ list[k].cmd = c
      /\ list[k].life + recent[c] >= IF Due(k) THEN Keep ELSE Keep - 1

\* As long as nothing is removed, the search has seen all places before i.
SearchedSoFar ==
  stage = "search" /\ ~moved => \A k \in DOMAIN list : k < place => ~Repeats!Matches(list[k])

MemoryInv == ReceiveInv /\ Kept /\ SearchedSoFar

\* What Kept depends on.
LEMMA KeptUnchanged ==
  ASSUME Kept, UNCHANGED <<list, recent, age>>
  PROVE  Kept'
  BY DEF Kept, Due

LEMMA RecentNumbers ==
  ASSUME Repeats!TypeOK, NEW c \in Command, recent[c] # None
  PROVE  recent[c] \in 0 .. Keep
  BY DEF Repeats!TypeOK

LEMMA AgeCases ==
  ASSUME Repeats!TypeOK, Repeats!Age
  PROVE  /\ age \in Nat /\ age > 0
         /\ \/ /\ age \in 1 .. Len(list) /\ list[age].life > 1
               /\ list' = [list EXCEPT ![age].life = list[age].life - 1]
               /\ age' = age + 1 /\ moved' = moved
            \/ /\ age \in 1 .. Len(list) /\ list[age].life = 1
               /\ list' = Repeats!RemoveAt(list, age) /\ age' = age /\ moved' = TRUE
            \/ age > Len(list) /\ list' = list /\ age' = 0 /\ moved' = moved
  <1>1. age \in Nat /\ age > 0 /\ Len(list) \in Nat
    BY ListFacts DEF Repeats!TypeOK, Repeats!Age
  <1> QED BY <1>1 DEF Repeats!Age

LEMMA KeptStep == ReceiveInv /\ Kept /\ [Repeats!Next]_Repeats!vars => Kept'
  <1> SUFFICES ASSUME ReceiveInv, Kept, [Repeats!Next]_Repeats!vars PROVE Kept'
    OBVIOUS
  <1>0. Repeats!TypeOK /\ Keep \in Nat /\ Keep > 1
    BY RepeatsAssumption DEF Repeats!CommandAssumption, ReceiveInv
  <1>1. CASE UNCHANGED <<list, recent, age>>
    BY <1>1, KeptUnchanged
  <1>2. ASSUME Repeats!Search, place > Len(list) PROVE Kept'
    <2>1. /\ cmd \in Command /\ list' = Append(list, [cmd |-> cmd, life |-> Keep])
          /\ recent' = [recent EXCEPT ![cmd] = 0] /\ age' = age
      BY <1>0, <1>2 DEF Repeats!Search, Repeats!TypeOK
    <2>2. /\ DOMAIN list' = 1 .. Len(list) + 1
          /\ \A k \in 1 .. Len(list) : list'[k] = list[k]
          /\ list'[Len(list) + 1].cmd = cmd /\ list'[Len(list) + 1].life = Keep
      BY <1>0, <2>1, Enlisted
    <2>3. Len(list) \in Nat /\ DOMAIN list = 1 .. Len(list)
      BY <1>0, ListFacts
    <2> SUFFICES ASSUME NEW c \in Command, recent'[c] # None, recent'[c] < Keep - 1
                 PROVE  \E k \in DOMAIN list' :
                          /\ list'[k].cmd = c
                          /\ list'[k].life + recent'[c] >= IF Due(k)' THEN Keep ELSE Keep - 1
      BY DEF Kept
    <2>4. CASE c = cmd
      <3>1. recent'[c] = 0
        BY <1>0, <2>1, <2>4 DEF Repeats!TypeOK
      <3>2. Len(list) + 1 \in DOMAIN list'
        BY <2>2, <2>3
      <3> QED BY <1>0, <2>2, <2>4, <3>1, <3>2
    <2>5. CASE c # cmd
      <3>1. recent'[c] = recent[c]
        BY <1>0, <2>1, <2>5 DEF Repeats!TypeOK
      <3>2. PICK k \in DOMAIN list :
              /\ list[k].cmd = c
              /\ list[k].life + recent[c] >= IF Due(k) THEN Keep ELSE Keep - 1
        BY <3>1 DEF Kept
      <3>3. k \in DOMAIN list' /\ list'[k] = list[k] /\ (Due(k)' <=> Due(k))
        BY <2>1, <2>2, <2>3 DEF Due
      <3> QED BY <3>1, <3>2, <3>3
    <2> QED BY <2>4, <2>5
  <1>3. ASSUME Repeats!BeginAgeing PROVE Kept'
    <2>1. /\ age = 0 /\ age' = 1 /\ list' = list
          /\ recent' = [c \in Command |->
                          IF recent[c] \in {None, Keep} THEN recent[c] ELSE recent[c] + 1]
      BY <1>3 DEF Repeats!BeginAgeing
    <2> SUFFICES ASSUME NEW c \in Command, recent'[c] # None, recent'[c] < Keep - 1
                 PROVE  \E k \in DOMAIN list' :
                          /\ list'[k].cmd = c
                          /\ list'[k].life + recent'[c] >= IF Due(k)' THEN Keep ELSE Keep - 1
      BY DEF Kept
    <2>2. recent[c] # None
      BY <2>1
    <2>3. recent[c] \in 0 .. Keep
      BY <1>0, <2>2, RecentNumbers
    <2>4. recent'[c] = recent[c] + 1 /\ recent[c] < Keep - 1
      <3>1. recent[c] # Keep
        BY <1>0, <2>1
      <3>2. recent'[c] = recent[c] + 1
        BY <2>1, <2>2, <3>1
      <3> QED BY <1>0, <2>3, <3>2
    <2>5. PICK k \in DOMAIN list :
            /\ list[k].cmd = c
            /\ list[k].life + recent[c] >= IF Due(k) THEN Keep ELSE Keep - 1
      BY <2>2, <2>4 DEF Kept
    <2>6. list[k].life \in 1 .. Keep
      BY <1>0, ListFacts
    <2>7. list[k].life + recent[c] >= Keep - 1
      BY <2>1, <2>5 DEF Due
    <2>8. list[k].life + recent'[c] >= Keep
      BY <1>0, <2>3, <2>4, <2>6, <2>7
    <2>9. list[k].life + recent'[c] >= Keep - 1
      BY <1>0, <2>3, <2>4, <2>6, <2>7
    <2> QED BY <2>1, <2>5, <2>8, <2>9
  <1>4. ASSUME Repeats!Age PROVE Kept'
    <2>1. recent' = recent /\ age \in Nat /\ age > 0
      BY <1>0, <1>4 DEF Repeats!Age, Repeats!TypeOK
    <2>2. Len(list) \in Nat /\ DOMAIN list = 1 .. Len(list)
      BY <1>0, ListFacts
    <2> SUFFICES ASSUME NEW c \in Command, recent[c] # None, recent[c] < Keep - 1
                 PROVE  \E k \in DOMAIN list' :
                          /\ list'[k].cmd = c
                          /\ list'[k].life + recent[c] >= IF Due(k)' THEN Keep ELSE Keep - 1
      BY <2>1 DEF Kept
    <2>3. recent[c] \in 0 .. Keep
      BY <1>0, RecentNumbers
    <2>4. PICK k \in DOMAIN list :
            /\ list[k].cmd = c
            /\ list[k].life + recent[c] >= IF Due(k) THEN Keep ELSE Keep - 1
      BY DEF Kept
    <2>5. list[k].life \in 1 .. Keep /\ k \in 1 .. Len(list)
      BY <1>0, <2>2, ListFacts
    <2> DEFINE Goal == \E n \in DOMAIN list' :
                         /\ list'[n].cmd = c
                         /\ list'[n].life + recent[c] >= IF Due(n)' THEN Keep ELSE Keep - 1
    <2>6. ASSUME age \in 1 .. Len(list), list[age].life > 1, age' = age + 1,
                 list' = [list EXCEPT ![age].life = list[age].life - 1]
          PROVE  Goal
      <3>2. /\ DOMAIN list' = 1 .. Len(list)
            /\ list'[k].cmd = list[k].cmd
            /\ list'[k].life = IF k = age THEN list[k].life - 1 ELSE list[k].life
        BY <1>0, <2>5, <2>6, Lowered
      <3>3. list'[k].life + recent[c] >= IF Due(k)' THEN Keep ELSE Keep - 1
        <4>1. CASE k = age
          BY <1>0, <2>1, <2>3, <2>4, <2>5, <2>6, <3>2, <4>1 DEF Due
        <4>2. CASE k # age
          BY <1>0, <2>1, <2>3, <2>4, <2>5, <2>6, <3>2, <4>2 DEF Due
        <4> QED BY <4>1, <4>2
      <3> QED BY <2>4, <2>5, <3>2, <3>3
    <2>7. ASSUME age \in 1 .. Len(list), list[age].life = 1, age' = age,
                 list' = Repeats!RemoveAt(list, age)
          PROVE  Goal
      <3>2. /\ DOMAIN list' = 1 .. Len(list) - 1
            /\ \A n \in 1 .. Len(list) - 1 :
                 list'[n] = IF n < age THEN list[n] ELSE list[n + 1]
        BY <1>0, <2>7, RemovedKnown
      <3>3. k # age
        BY <1>0, <2>1, <2>3, <2>4, <2>7 DEF Due
      <3>4. CASE k < age
        <4>1. k \in 1 .. Len(list) - 1 /\ list'[k] = list[k] /\ (Due(k)' <=> Due(k))
          BY <2>1, <2>2, <2>5, <2>7, <3>2, <3>4 DEF Due
        <4> QED BY <2>4, <3>2, <4>1
      <3>5. CASE k > age
        <4>1. k - 1 \in 1 .. Len(list) - 1 /\ list'[k - 1] = list[k]
          <5>1. k - 1 \in 1 .. Len(list) - 1 /\ ~ (k - 1 < age) /\ (k - 1) + 1 = k
            BY <2>1, <2>2, <2>5, <3>5
          <5> QED BY <3>2, <5>1
        <4>2. Due(k)
          BY <2>1, <2>5, <3>5 DEF Due
        <4>3. list'[k - 1].life + recent[c] >= IF Due(k - 1)' THEN Keep ELSE Keep - 1
          BY <1>0, <2>3, <2>4, <2>5, <4>1, <4>2
        <4> QED BY <2>4, <3>2, <4>1, <4>3
      <3> QED BY <2>1, <2>5, <3>3, <3>4, <3>5
    <2>8. ASSUME age' = 0, list' = list PROVE Goal
      <3>2. list[k].life + recent[c] >= Keep - 1
        BY <1>0, <2>3, <2>4, <2>5
      <3> QED BY <2>4, <2>8, <3>2 DEF Due
    <2> HIDE DEF Goal
    <2>9. Goal
      BY <1>0, <1>4, <2>6, <2>7, <2>8, AgeCases
    <2> QED BY <2>9 DEF Goal
  <1>5. ASSUME Repeats!Reconnect PROVE Kept'
    BY <1>5 DEF Repeats!Reconnect, Kept
  <1>6. CASE Repeats!ServerSends \/ Repeats!AckArrives \/ Repeats!Receive \/ Repeats!Acknowledge \/ Repeats!CarryOut \/ Repeats!Break
    BY <1>1, <1>6 DEF Repeats!ServerSends, Repeats!AckArrives, Repeats!Receive,
                      Repeats!Acknowledge, Repeats!CarryOut, Repeats!Break
  <1>7. ASSUME Repeats!Search, ~ (place > Len(list)) PROVE Kept'
    BY <1>1, <1>7 DEF Repeats!Search
  <1>8. CASE UNCHANGED Repeats!vars
    BY <1>1, <1>8 DEF Repeats!vars
  <1> QED BY <1>2, <1>3, <1>4, <1>5, <1>6, <1>7, <1>8 DEF Repeats!Next

\* The search: what it has passed stays passed.
LEMMA SearchStep == ReceiveInv /\ SearchedSoFar /\ [Repeats!Next]_Repeats!vars => SearchedSoFar'
  <1> SUFFICES ASSUME ReceiveInv, SearchedSoFar,
                      [Repeats!Next]_Repeats!vars, stage' = "search", ~moved'
               PROVE  \A k \in DOMAIN list' : k < place' => ~Repeats!Matches(list[k])'
    BY DEF SearchedSoFar
  <1>0. Repeats!TypeOK
    BY DEF ReceiveInv
  <1>1. CASE Repeats!Acknowledge
    <2>1. place' = 1 /\ list' = list
      BY <1>1 DEF Repeats!Acknowledge
    <2> QED BY <1>0, <2>1, ListFacts
  <1>2. CASE Repeats!Search
    <2>1. /\ stage = "search" /\ place <= Len(list) /\ ~Repeats!Matches(list[place])
          /\ place' = place + 1 /\ UNCHANGED <<cmd, list>> /\ moved' = moved
      BY <1>2 DEF Repeats!Search
    <2>2. place \in Nat /\ DOMAIN list = 1 .. Len(list) /\ Len(list) \in Nat
      BY <1>0, ListFacts DEF Repeats!TypeOK
    <2>3. \A k \in DOMAIN list : k < place => ~Repeats!Matches(list[k])
      BY <2>1 DEF SearchedSoFar
    <2>4. \A k \in DOMAIN list : k < place' => ~Repeats!Matches(list[k])
      BY <2>1, <2>2, <2>3
    <2> QED BY <2>1, <2>4 DEF Repeats!Matches
  <1>3. CASE Repeats!Age
    <2>1. stage = "search" /\ UNCHANGED <<stage, cmd, place>>
      BY <1>3 DEF Repeats!Age, Repeats!net
    <2>2. Len(list) \in Nat /\ DOMAIN list = 1 .. Len(list)
      BY <1>0, ListFacts
    <2>3. CASE /\ age \in 1 .. Len(list) /\ list[age].life > 1 /\ moved' = moved
               /\ list' = [list EXCEPT ![age].life = list[age].life - 1]
      <3>1. /\ DOMAIN list' = DOMAIN list
            /\ \A k \in DOMAIN list : list'[k].cmd = list[k].cmd
        BY <1>0, <2>2, <2>3, Lowered
      <3>2. \A k \in DOMAIN list : k < place => ~Repeats!Matches(list[k])
        BY <2>1, <2>3 DEF SearchedSoFar
      <3> QED BY <2>1, <3>1, <3>2 DEF Repeats!Matches
    <2>4. CASE list' = list /\ moved' = moved
      BY <2>1, <2>4 DEF SearchedSoFar, Repeats!Matches
    <2> QED BY <1>0, <1>3, <2>3, <2>4, AgeCases
  <1>4. CASE Repeats!ServerSends \/ Repeats!AckArrives \/ Repeats!BeginAgeing \/ Repeats!Break \/ UNCHANGED Repeats!vars
    <2>1. UNCHANGED <<stage, cmd, place, list, moved>>
      BY <1>4 DEF Repeats!ServerSends, Repeats!AckArrives, Repeats!BeginAgeing,
                  Repeats!Break, Repeats!vars, Repeats!net
    <2> QED BY <2>1 DEF SearchedSoFar, Repeats!Matches
  <1>5. CASE Repeats!Receive \/ Repeats!CarryOut \/ Repeats!Reconnect
    BY <1>5 DEF Repeats!Receive, Repeats!CarryOut, Repeats!Reconnect, Repeats!net
  <1> QED BY <1>1, <1>2, <1>3, <1>4, <1>5 DEF Repeats!Next

LEMMA MemoryInvariant == Repeats!Spec => []MemoryInv
  <1>1. Repeats!Init => Kept /\ SearchedSoFar
    BY DEF Repeats!Init, Kept, SearchedSoFar
  <1>2. ReceiveInv /\ Kept /\ SearchedSoFar /\ [Repeats!Next]_Repeats!vars => Kept' /\ SearchedSoFar'
    BY KeptStep, SearchStep
  <1>3. Repeats!Spec => []ReceiveInv
    BY ReceiveInvariant
  <1> QED BY <1>1, <1>2, <1>3, PTL DEF Repeats!Spec, MemoryInv

\* A command repeated in the same session within Keep - 1 passes is not carried
\* out again, unless an entry was removed while it was searched for.
THEOREM RepetitionsNotRepeated == Repeats!Spec => OnceWhileRemembered
  <1> DEFINE Once == stage = "search" /\ stage' = "do" =>
                       \/ recent[cmd] = None \/ recent[cmd] >= Keep - 1
                       \/ moved
  <1>1. MemoryInv /\ [Repeats!Next]_Repeats!vars => [Once]_Repeats!vars
    <2> SUFFICES ASSUME MemoryInv, [Repeats!Next]_Repeats!vars, stage = "search", stage' = "do",
                        recent[cmd] # None, ~ (recent[cmd] >= Keep - 1), ~moved
                 PROVE  FALSE
      OBVIOUS
    <2>1. Repeats!Search
      BY DEF Repeats!Next, Repeats!vars, Repeats!net, Repeats!ServerSends,
             Repeats!AckArrives, Repeats!Receive, Repeats!Acknowledge,
             Repeats!CarryOut, Repeats!Reconnect, Repeats!BeginAgeing, Repeats!Age, Repeats!Break
    <2>2. place > Len(list) /\ cmd \in Command
      BY <2>1 DEF Repeats!Search, MemoryInv, ReceiveInv, Repeats!TypeOK
    <2>3. /\ DOMAIN list = 1 .. Len(list) /\ Len(list) \in Nat /\ place \in Nat
          /\ recent[cmd] \in 0 .. Keep /\ Keep \in Nat
      BY <2>2, ListFacts, RecentNumbers, RepeatsAssumption DEF Repeats!CommandAssumption, MemoryInv,
                                            ReceiveInv, Repeats!TypeOK
    <2>4. recent[cmd] < Keep - 1
      BY <2>3
    <2>5. PICK k \in DOMAIN list : list[k].cmd = cmd
      BY <2>2, <2>4 DEF MemoryInv, Kept
    <2>6. k < place
      BY <2>2, <2>3
    <2>7. ~Repeats!Matches(list[k])
      BY <2>5, <2>6 DEF MemoryInv, SearchedSoFar
    <2> QED BY <2>5, <2>7 DEF Repeats!Matches
  <1>2. Repeats!Spec => []MemoryInv
    BY MemoryInvariant
  <1> QED BY <1>1, <1>2, PTL DEF Repeats!Spec, OnceWhileRemembered, Repeats!OnceWhileRemembered
=============================================================================
