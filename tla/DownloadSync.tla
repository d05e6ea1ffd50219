---------------------------- MODULE DownloadSync ----------------------------
(***************************************************************************)
(* How the gateway's device, room and scene lists follow the cloud's.      *)
(* Notifications and logins flag what to download (onDownLoadWithFlag,     *)
(* onDownLoadResetAll: network thread); the timer thread turns flags into  *)
(* requests (mfTcpCheckRepeatSendCB); the answers replace the lists and    *)
(* clear the flags (onGetCMDGetDeviceRes: network thread).                 *)
(*                                                                         *)
(* A list is the number of its version: 0 is the empty list, and of two    *)
(* versions the server's greater one is newer.  The masks of the kinds of  *)
(* sub-devices go with "device", which sets them, and are not told apart.  *)
(*                                                                         *)
(* The server answers in order and the connection keeps the order, until   *)
(* it breaks.                                                              *)
(***************************************************************************)
EXTENDS Integers, Sequences

CONSTANTS
  MaxChanges, \* bound: changes on the server
  MaxBreaks,  \* bound: sessions that end
  MaxFaults   \* bound: requests lost by send, and answers with an error code

SyncAssumption ==
  /\ MaxChanges \in Nat /\ MaxBreaks \in Nat /\ MaxFaults \in Nat

Kind == {"device", "room", "scene"}
Bits == Kind \cup {"inFamily"}

VARIABLES
  want,     \* mDownLoadFlag
  loading,  \* mDownLoadingFlag
  family,   \* is pDataBase->onGetFamilyID() other than 0?
  lists,    \* the gateway's lists
  session,  \* "closed", "login" until the gateway's own data is in, "ready"
  pc, saved,  \* the timer thread: the two flag words it has read, if it has
  server,   \* the server's lists
  member,   \* the server has the gateway in a family
  up, down, \* requests and messages under way
  missed,   \* history: a change of the scenes may not be asked for again
  torn,     \* history: the timer thread has overwritten a change of the flags,
            \* and they have not all been set since
  changes, breaks, faults

flags == <<want, loading>>
gateway == <<family, lists, session, missed>>
timer == <<pc, saved, torn>>
cloud == <<server, member>>
counters == <<changes, breaks, faults>>
vars == <<flags, gateway, timer, cloud, up, down, counters>>

Empty == [k \in Kind |-> 0]
\* What the server answers for the gateway.
View == IF member THEN server ELSE Empty

Info == [type |-> "info"]
Scenes == [type |-> "scenes"]
Get(mask) == [type |-> "get", mask |-> mask]

Init ==
  /\ want = {} /\ loading = {} /\ family = FALSE /\ lists = Empty
  /\ session = "closed" /\ pc = "idle" /\ saved = <<{}, {}>>
  /\ server = [k \in Kind |-> 1] /\ member \in BOOLEAN
  /\ up = <<>> /\ down = <<>>
  /\ missed = FALSE /\ torn = FALSE /\ changes = 0 /\ breaks = 0 /\ faults = 0

-----------------------------------------------------------------------------
(* The session                                                             *)

\* The login is answered, and the gateway asks for its own data.
Login ==
  /\ session = "closed"
  /\ session' = "login" /\ up' = <<Info>>
  /\ UNCHANGED <<flags, family, lists, missed, timer, cloud, down, counters>>

Break ==
  /\ session # "closed" /\ breaks < MaxBreaks
  /\ session' = "closed" /\ breaks' = breaks + 1
  /\ up' = <<>> /\ down' = <<>>
  /\ UNCHANGED <<flags, family, lists, missed, timer, cloud, changes, faults>>

(* The timer thread                                                        *)

\* What is flagged and not being downloaded counts as being downloaded from
\* now on, before anything is sent; scenes are asked for on their own and are
\* done at once; the rest is asked for if the gateway has a family.
Started(w, l) == w \ l

Requests(new) ==
  (IF "scene" \in new THEN <<Scenes>> ELSE <<>>)
    \o (IF family /\ new \ {"scene", "inFamily"} # {} THEN <<Get(new \ {"scene"})>> ELSE <<>>)

BeingLoaded(new, l) == l \cup (new \ {"scene"})

Download(w, l) ==
  LET new == Started(w, l) IN
    /\ want' = w \ new
    /\ loading' = BeingLoaded(new, l)
    /\ \/ session # "closed" /\ up' = up \o Requests(new) /\ UNCHANGED <<missed, faults>>
       \/ session = "closed" /\ UNCHANGED <<up, missed, faults>>
       \/ /\ session # "closed" /\ faults < MaxFaults
          /\ faults' = faults + 1 /\ UNCHANGED up
          /\ missed' = (missed \/ "scene" \in new)
    /\ UNCHANGED <<family, lists, session, cloud, down, changes, breaks>>

\* The words are read and written back without a lock.
ReadFlags ==
  /\ pc = "idle" /\ Started(want, loading) # {}
  /\ pc' = "read" /\ saved' = <<want, loading>>
  /\ UNCHANGED <<torn, flags, gateway, cloud, up, down, counters>>

WriteFlags ==
  /\ pc = "read"
  /\ Download(saved[1], saved[2])
  /\ pc' = "idle" /\ saved' = <<{}, {}>>
  /\ torn' = (torn \/ saved # <<want, loading>>)

(* The network thread                                                      *)

onDownLoadWithFlag(k) == want' = want \cup {k, "inFamily"} /\ UNCHANGED loading

\* Mutant: what is being downloaded is not given up.
onDownLoadResetAllMore == want' = Bits /\ UNCHANGED loading
onDownLoadResetAll == want' = Bits /\ loading' = {}

\* Mutant: an answer is taken over whatever was asked for last.
TakeListsBlind(r) ==
  /\ lists' = [k \in Kind |-> IF k \in r.mask THEN r.data[k] ELSE lists[k]]
  /\ loading' = {}
  /\ UNCHANGED <<want, family, session, missed, up>>

\* onGetCMDGetDeviceRes: only what is being downloaded is taken over.
TakeLists(r) ==
  LET taken == r.mask \cap loading \cap Kind IN
    /\ lists' = [k \in Kind |-> IF k \in taken THEN r.data[k] ELSE lists[k]]
    /\ loading' = loading \ r.mask
    /\ UNCHANGED <<want, family, session, missed, up>>

\* mfZigbeeUpdateNetWork: a gateway that has no family empties its lists.
JoinOrLeave(in) ==
  /\ family' = in
  /\ lists' = IF in THEN lists ELSE Empty

Handle(r) ==
  \/ /\ r.type = "info"
     /\ JoinOrLeave(r.in) /\ onDownLoadResetAll
     /\ session' = "ready" /\ missed' = FALSE /\ UNCHANGED up
  \/ /\ r.type = "added"
     /\ JoinOrLeave(TRUE) /\ onDownLoadResetAll
     /\ missed' = FALSE /\ UNCHANGED <<session, up>>
  \/ /\ r.type = "removed"
     /\ up' = Append(up, Info)
     /\ UNCHANGED <<flags, gateway>>
  \/ /\ r.type = "addDevice"
     /\ onDownLoadWithFlag("device")
     /\ UNCHANGED <<gateway, up>>
  \/ /\ r.type = "deleteRoom" /\ family
     /\ onDownLoadResetAll
     /\ missed' = FALSE /\ UNCHANGED <<family, lists, session, up>>
  \/ /\ r.type = "deleteRoom" /\ ~family
     /\ UNCHANGED <<flags, gateway, up>>
  \* mfLeaveToGateway: the device leaves the list and the scenes are reloaded.
  \/ /\ r.type = "deleteDevice" /\ lists["device"] # 0
     /\ lists' = IF lists["device"] = r.version - 1
                 THEN [lists EXCEPT !["device"] = r.version] ELSE lists
     /\ onDownLoadWithFlag("scene")
     /\ missed' = FALSE /\ UNCHANGED <<family, session, up>>
  \* A device that is not in the list, which is empty yet.
  \/ /\ r.type = "deleteDevice" /\ lists["device"] = 0
     /\ missed' = TRUE /\ UNCHANGED <<flags, family, lists, session, up>>
  \/ /\ r.type = "lists"
     /\ TakeLists(r)
  \/ /\ r.type = "scenes"
     /\ lists' = [lists EXCEPT !["scene"] = r.data["scene"]]
     /\ UNCHANGED <<flags, family, session, missed, up>>
  \/ /\ r.type = "error"
     /\ missed' = TRUE /\ UNCHANGED <<flags, family, lists, session, up>>

Receive ==
  /\ session # "closed" /\ down # <<>>
  /\ Handle(Head(down)) /\ down' = Tail(down)
  /\ torn' = (torn /\ <<want', loading'>> # <<Bits, {}>>)
  /\ UNCHANGED <<pc, saved, cloud, counters>>

(* The server                                                              *)

Notify(m) == down' = IF session = "closed" THEN down ELSE Append(down, m)

Change ==
  /\ changes < MaxChanges /\ changes' = changes + 1
  /\ \/ /\ member
        /\ \/ /\ server' = [server EXCEPT !["device"] = @ + 1]
              /\ Notify([type |-> "addDevice"])
           \/ /\ server' = [server EXCEPT !["device"] = @ + 1, !["scene"] = @ + 1]
              /\ Notify([type |-> "deleteDevice", version |-> server'["device"]])
           \/ /\ server' = [server EXCEPT !["room"] = @ + 1]
              /\ Notify([type |-> "deleteRoom"])
        /\ UNCHANGED member
     \/ /\ member' = ~member
        /\ Notify([type |-> IF member THEN "removed" ELSE "added"])
        /\ UNCHANGED server
  /\ UNCHANGED <<flags, gateway, timer, up, breaks, faults>>

Answer ==
  /\ up # <<>> /\ up' = Tail(up)
  /\ LET q == Head(up) IN
       \/ /\ down' = Append(down,
               CASE q.type = "info" -> [type |-> "info", in |-> member]
                 [] q.type = "scenes" -> [type |-> "scenes", data |-> View]
                 [] q.type = "get" -> [type |-> "lists", mask |-> q.mask, data |-> View])
          /\ UNCHANGED faults
       \/ /\ q.type # "info" /\ faults < MaxFaults /\ faults' = faults + 1
          /\ down' = Append(down, [type |-> "error"])
  /\ UNCHANGED <<flags, gateway, timer, cloud, changes, breaks>>

-----------------------------------------------------------------------------
Timer == ReadFlags \/ WriteFlags
Next == Login \/ Break \/ Timer \/ Receive \/ Change \/ Answer

Spec == Init /\ [][Next]_vars
\* Both threads run, the gateway logs in again, the server answers.
FairSpec ==
  Spec /\ WF_vars(Login) /\ WF_vars(Timer) /\ WF_vars(Receive) /\ WF_vars(Answer)

(* Properties                                                              *)

Message ==
  [type : {"info"}, in : BOOLEAN]
    \cup [type : {"added", "removed", "addDevice", "deleteRoom", "error"}]
    \cup [type : {"deleteDevice"}, version : Nat]
    \cup [type : {"scenes"}, data : [Kind -> Nat]]
    \cup [type : {"lists"}, mask : SUBSET Bits, data : [Kind -> Nat]]

\* Scenes are never waited for: their bit is cleared in the turn that sets it.
TypeOK ==
  /\ want \subseteq Bits /\ loading \subseteq Bits \ {"scene"}
  /\ family \in BOOLEAN /\ member \in BOOLEAN
  /\ lists \in [Kind -> Nat] /\ server \in [Kind -> Nat]
  /\ session \in {"closed", "login", "ready"}
  /\ {missed, torn} \subseteq BOOLEAN
  /\ pc \in {"idle", "read"} /\ saved \in (SUBSET Bits) \X (SUBSET Bits)
  /\ up \in Seq({Info, Scenes} \cup {Get(mask) : mask \in SUBSET Bits})
  /\ down \in Seq(Message)
  /\ changes \in 0 .. MaxChanges /\ breaks \in 0 .. MaxBreaks /\ faults \in 0 .. MaxFaults

\* The gateway has nothing left to do.
AtRest ==
  /\ session = "ready" /\ pc = "idle" /\ up = <<>> /\ down = <<>>
  /\ want \ {"inFamily"} = {} /\ loading \ {"inFamily"} = {}

\* Types are right, and when nothing is flagged and nothing under way the lists
\* are the server's: no change is lost, though one may come while the lists are
\* being downloaded, a reset gives up a download whose answer still comes and is
\* then taken for the answer to the next request, and answers are dropped by
\* their flags.  The exceptions: the timer thread has overwritten flags that the
\* network thread set meanwhile, and nobody has set them all since; a download
\* of the scenes failed, which is not repeated, or a device was deleted while
\* the list of the devices was still empty.
RestMeansFresh ==
  /\ TypeOK
  /\ AtRest /\ ~torn => \A k \in Kind : lists[k] = View[k] \/ (k = "scene" /\ missed)

\* Once the server's lists stay as they are the gateway gets them and keeps
\* them, after sessions that broke at any moment of a download, if no request
\* and no answer failed; with the exceptions above.
FinallyFresh ==
  <>[](\/ torn \/ faults > 0
       \/ \A k \in Kind : lists[k] = View[k] \/ (k = "scene" /\ missed))
=============================================================================
