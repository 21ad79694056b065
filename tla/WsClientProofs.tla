--------------------------- MODULE WsClientProofs ---------------------------
(***************************************************************************)
(* The safety of WsClient and of the station below it, for every number of *)
(* client objects and every length of the event queue.                     *)
(*                                                                         *)
(* NeverStranded looks at the end of the queue only when it is empty.  To  *)
(* be kept it has to know what is last in it: while the station is idle,   *)
(* a loss (so that no address taken after it can hide it), or the start,   *)
(* which is alone in the queue and finds everything as WifiInit left it.   *)
(*                                                                         *)
(* Only the object made last can have a task; what it can be doing, and    *)
(* whether s_client names it, follows from where its owner stands          *)
(* (Phases).  ReadyIsReal needs to know of the flags also while they say   *)
(* nothing: behind the gate they are never both set, since the last        *)
(* connection of the old object cannot have been answered (Flags).         *)
(***************************************************************************)
EXTENDS WsClient, FiniteSetTheorems, TLAPS

-----------------------------------------------------------------------------
(* The station.                                                            *)

Fresh == handler = "idle" /\ ~hasIp /\ ~notified /\ retry = "wait"

OffIsFresh == station = "off" => events = <<>> /\ Fresh

StartIsFirst ==
  \A i \in 1..Len(events) :
    events[i] = "start" => station = "idle" /\ Len(events) = 1 /\ Fresh

LossIsLast ==
  station = "idle" /\ Len(events) > 0 => events[Len(events)] \in {"lost", "start"}

LostHasNoIp == handler = "lost" => ~hasIp

WifiInv ==
  WifiTypeOK /\ OffIsFresh /\ StartIsFirst /\ LossIsLast /\ LostHasNoIp /\ NeverStranded

-----------------------------------------------------------------------------

LEMMA WifiInitInv == WifiInit => WifiInv
<1> SUFFICES ASSUME WifiInit PROVE WifiInv
  OBVIOUS
<1>1. events \in Seq({"start", "lost", "got_ip"}) /\ Len(events) = 0
  BY DEF WifiInit
<1>2. Len(events) <= MaxEvents
  BY <1>1, WifiAssumption
<1>3. WifiTypeOK
  BY <1>1, <1>2, Zenon DEF WifiInit, WifiTypeOK
<1> QED
  BY <1>1, <1>3 DEF WifiInit, WifiInv, OffIsFresh, StartIsFirst, LossIsLast,
     LostHasNoIp, NeverStranded, Fresh

(* What Post leaves in the queue. *)
LEMMA Posted ==
  ASSUME WifiTypeOK, NEW event \in {"start", "lost", "got_ip"}, Post(event)
  PROVE  /\ events' \in Seq({"start", "lost", "got_ip"})
         /\ Len(events') = Len(events) + 1 /\ Len(events') <= MaxEvents
         /\ \A i \in 1..Len(events) : events'[i] = events[i]
         /\ events'[Len(events')] = event
         /\ Len(events) \in Nat
  BY WifiAssumption DEF WifiTypeOK, Post

(* What Take leaves in the queue. *)
LEMMA Taken ==
  ASSUME WifiTypeOK, NEW event, Take(event)
  PROVE  /\ events' \in Seq({"start", "lost", "got_ip"})
         /\ Len(events) \in Nat /\ Len(events) > 0 /\ events[1] = event
         /\ Len(events') = Len(events) - 1 /\ Len(events') <= MaxEvents
         /\ \A i \in 1..Len(events') : events'[i] = events[i + 1]
         /\ handler = "idle"
  BY WifiAssumption DEF WifiTypeOK, Take

(* An empty queue is one of length 0. *)
LEMMA EmptyQueue ==
  ASSUME WifiTypeOK PROVE (events = <<>>) <=> (Len(events) = 0)
  BY DEF WifiTypeOK

LEMMA EmptyQueueAfter ==
  ASSUME events' \in Seq({"start", "lost", "got_ip"})
  PROVE  (events' = <<>>) <=> (Len(events') = 0)
  OBVIOUS

LEMMA DriverInv ==
  ASSUME WifiInv,
         StationStart \/ StationJoined \/ StationIp \/ StationLost \/ Settle
  PROVE  WifiInv'
<1> USE DEF WifiInv, WifiTypeOK, OffIsFresh, StartIsFirst, LossIsLast,
            LostHasNoIp, NeverStranded, Fresh
<1>1. CASE StationStart
  BY <1>1, Posted, EmptyQueue DEF StationStart
<1>2. CASE StationJoined
  BY <1>2 DEF StationJoined
<1>3. CASE StationIp
  BY <1>3, Posted, EmptyQueue DEF StationIp
<1>4. CASE StationLost
  BY <1>4, Posted, EmptyQueue DEF StationLost
<1>5. CASE Settle
  BY <1>5 DEF Settle
<1> QED
  BY <1>1, <1>2, <1>3, <1>4, <1>5

LEMMA EventTaskInv ==
  ASSUME WifiInv, EventTask
  PROVE  WifiInv'
<1> USE DEF WifiInv, WifiTypeOK, OffIsFresh, StartIsFirst, LossIsLast,
            LostHasNoIp, NeverStranded, Fresh
<1>1. CASE StaStart
  BY <1>1, Taken, EmptyQueue, EmptyQueueAfter DEF StaStart
<1>2. CASE StaDisconnected
  <2>1. /\ events' \in Seq({"start", "lost", "got_ip"})
        /\ Len(events) \in Nat /\ Len(events) > 0 /\ events[1] = "lost"
        /\ Len(events') = Len(events) - 1 /\ Len(events') <= MaxEvents
        /\ \A i \in 1..Len(events') : events'[i] = events[i + 1]
    BY <1>2, Taken DEF StaDisconnected
  <2>2. /\ handler = "idle" /\ handler' = "lost" /\ hasIp' = FALSE
        /\ UNCHANGED <<station, notified, retry, settled>>
    BY <1>2 DEF StaDisconnected, Take
  <2>3. WifiTypeOK'
    BY <2>1, <2>2
  <2>4. OffIsFresh'
    BY <2>1, <2>2, EmptyQueue
  <2>5. StartIsFirst'
    BY <2>1, <2>2
  <2>6. LossIsLast'
    BY <2>1, <2>2
  <2> QED
    BY <2>2, <2>3, <2>4, <2>5, <2>6
<1>3. CASE ScheduleReconnect
  BY <1>3 DEF ScheduleReconnect
<1>4. CASE GotIp
  BY <1>4, Taken, EmptyQueue, EmptyQueueAfter DEF GotIp
<1> QED
  BY <1>1, <1>2, <1>3, <1>4 DEF EventTask

LEMMA ReconnectTaskInv ==
  ASSUME WifiInv, ReconnectTask
  PROVE  WifiInv'
<1> USE DEF WifiInv, WifiTypeOK, OffIsFresh, StartIsFirst, LossIsLast,
            LostHasNoIp, NeverStranded, Fresh
<1>1. CASE RetryTake
  BY <1>1 DEF RetryTake
<1>2. CASE RetryCheck
  BY <1>2 DEF RetryCheck
<1>3. CASE RetryDelayed
  BY <1>3 DEF RetryDelayed
<1>4. CASE RetryConnect
  BY <1>4 DEF RetryConnect
<1>5. CASE RetryFailed
  BY <1>5 DEF RetryFailed
<1> QED
  BY <1>1, <1>2, <1>3, <1>4, <1>5 DEF ReconnectTask

LEMMA WifiNextInv == WifiInv /\ [WifiNext]_wifi => WifiInv'
<1> SUFFICES ASSUME WifiInv, [WifiNext]_wifi PROVE WifiInv'
  OBVIOUS
<1>1. CASE UNCHANGED wifi
  BY <1>1 DEF wifi, WifiInv, WifiTypeOK, OffIsFresh, StartIsFirst, LossIsLast,
     LostHasNoIp, NeverStranded, Fresh
<1> QED
  BY <1>1, DriverInv, EventTaskInv, ReconnectTaskInv DEF WifiNext

(* A station that is neither joined nor joining, with nothing left to be   *)
(* handled, has wifi_reconnect_task awake or about to be.                  *)
THEOREM NotStranded == WifiSpec => []NeverStranded
<1>1. WifiInv => NeverStranded
  BY DEF WifiInv
<1> QED
  BY <1>1, WifiInitInv, WifiNextInv, PTL DEF WifiSpec

-----------------------------------------------------------------------------
(* The WebSocket client.                                                   *)

State(id) == objects[id].state

InOrder ==
  /\ Latest \in 0..MaxClients
  /\ \A id \in Clients : (State(id) # "none") <=> (id <= Latest)
  /\ \A id \in Clients : id # Latest => State(id) \in {"none", "gone"}

HandlerIsOpen ==
  \A id \in Clients :
    objects[id].at # "loop" => State(id) = "open" /\ objects[id].hello = "none"

Named(states) == Latest > 0 /\ client = Latest /\ State(Latest) \in states
Detached(states) == Latest > 0 /\ client = 0 /\ State(Latest) \in states

Phases ==
  /\ owner = "boot" => Latest = 0 /\ client = 0
  /\ owner = "idle" =>
       \/ client = 0 /\ (Latest > 0 => State(Latest) = "gone")
       \/ Named({"made", "waiting", "open", "stopped"})
  /\ owner \in {"delay", "detach"} => Named({"waiting", "open"})
  /\ owner = "stop" => Detached({"waiting", "open"})
  /\ owner = "destroy" => Detached({"stopped"})
  /\ owner = "create" => Detached({"gone"})
  /\ owner \in {"opengate", "start"} => Named({"made"})

Room ==
  owner \in {"delay", "detach", "stop", "destroy", "create"} => Latest < MaxClients

Flags ==
  /\ gate <=> owner \in {"detach", "stop", "destroy", "create", "opengate"}
  /\ connected /\ acked =>
       /\ ~gate /\ client # 0 /\ State(client) = "open"
       /\ objects[client].hello = "acked" \/ objects[client].at = "connected"
  /\ owner = "detach" =>
       /\ State(Latest) = "waiting" => ~acked
       /\ connected => objects[Latest].hello # "sent"

WsTypeOK ==
  /\ client \in {0} \cup Clients
  /\ objects \in [Clients -> Object]
  /\ {gate, connected, acked} \subseteq BOOLEAN
  /\ owner \in {"boot", "idle", "delay", "detach", "stop", "destroy",
                "create", "opengate", "start"}

WsInv == WsTypeOK /\ InOrder /\ HandlerIsOpen /\ Phases /\ Room /\ Flags

-----------------------------------------------------------------------------
(* How many objects were made, when they were made in order. *)
LEMMA MadeInOrder ==
  ASSUME NEW f, NEW n \in 0..MaxClients,
         \A id \in Clients : (f[id].state # "none") <=> (id <= n)
  PROVE  Cardinality({id \in Clients : f[id].state # "none"}) = n
<1>1. {id \in Clients : f[id].state # "none"} = 1..n
  BY ClientAssumption DEF Clients
<1>2. Cardinality(1..n) = n
  BY FS_Interval
<1> QED
  BY <1>1, <1>2

(* A step that makes no object leaves Latest alone. *)
LEMMA SameLatest ==
  ASSUME InOrder, \A id \in Clients : (State(id)' = "none") <=> (State(id) = "none")
  PROVE  Latest' = Latest
  BY MadeInOrder DEF InOrder, Latest, State

(* A step that makes the next one. *)
LEMMA NextLatest ==
  ASSUME InOrder, Latest < MaxClients,
         \A id \in Clients : (State(id)' # "none") <=> (id <= Latest + 1)
  PROVE  Latest' = Latest + 1
<1> DEFINE n == Latest + 1
<1>1. n \in 0..MaxClients
  BY ClientAssumption DEF InOrder
<1> HIDE DEF n
<1>2. \A id \in Clients : (objects'[id].state # "none") <=> (id <= n)
  BY DEF State, n
<1>3. Latest' = n
  BY <1>1, <1>2, MadeInOrder DEF Latest
<1> QED
  BY <1>3 DEF n

LEMMA WsInitInv == WsInit => WsInv
<1> SUFFICES ASSUME WsInit PROVE WsInv
  OBVIOUS
<1>1. Latest = 0
  BY MadeInOrder, ClientAssumption DEF WsInit, Latest, Clients
<1>2. WsTypeOK
  BY DEF WsInit, WsTypeOK, Object
<1> QED
  BY <1>1, <1>2, ClientAssumption DEF WsInit, WsInv, InOrder, HandlerIsOpen, Phases, Room, Flags,
     State, Named, Detached, Clients

-----------------------------------------------------------------------------
(* The task of an object: it is the one made last, and it makes none. *)

LEMMA TaskIsLatest ==
  ASSUME WsInv, NEW id \in Clients, State(id) \notin {"none", "gone"}
  PROVE  id = Latest /\ Latest > 0
  BY DEF WsInv, InOrder, Clients

LEMMA ClientTaskInv ==
  ASSUME WsInv, NEW id \in Clients, ClientTask(id)
  PROVE  WsInv'
<1>1. id = Latest /\ Latest > 0 /\ Latest \in Clients
  BY TaskIsLatest DEF ClientTask, Open, ResetAck, HelloSent, HelloRefused, HelloFailed,
     HelloLost, HelloAck, Dropped, WsInv, HandlerIsOpen, State
<1>2. WsTypeOK /\ InOrder /\ HandlerIsOpen /\ Phases /\ Room /\ Flags
  BY DEF WsInv
<1>3. /\ objects' \in [Clients -> Object]
      /\ \A other \in Clients \ {id} : objects'[other] = objects[other]
      /\ State(id)' \in {"waiting", "open"} /\ State(id) \in {"waiting", "open"}
      /\ objects'[id].at # "loop" => State(id)' = "open" /\ objects'[id].hello = "none"
  <2> USE <1>2 DEF WsTypeOK, Object, HandlerIsOpen, State
  <2>1. CASE Open(id)
    BY <2>1 DEF Open
  <2>2. CASE ResetAck(id)
    BY <2>2 DEF ResetAck
  <2>3. CASE HelloSent(id)
    BY <2>3 DEF HelloSent
  <2>4. CASE HelloRefused(id)
    BY <2>4 DEF HelloRefused
  <2>5. CASE HelloFailed(id)
    BY <2>5 DEF HelloFailed
  <2>6. CASE HelloLost(id)
    BY <2>6 DEF HelloLost
  <2>7. CASE HelloAck(id)
    BY <2>7 DEF HelloAck
  <2>8. CASE Dropped(id)
    BY <2>8 DEF Dropped
  <2> QED
    BY <2>1, <2>2, <2>3, <2>4, <2>5, <2>6, <2>7, <2>8 DEF ClientTask
<1>4. Latest' = Latest
  BY <1>2, <1>3, SameLatest DEF State
<1>5. InOrder' /\ HandlerIsOpen'
  BY <1>1, <1>2, <1>3, <1>4 DEF InOrder, HandlerIsOpen, State
<1>6. /\ client' = client /\ gate' = gate
      /\ owner' = owner \/ /\ owner = "idle" /\ owner' = "delay" /\ Latest < MaxClients
                           /\ client = id /\ ~gate /\ State(id)' = "open"
  BY <1>2 DEF ClientTask, Open, ResetAck, HelloSent, HelloRefused, HelloFailed, HelloLost,
     HelloAck, Dropped, WsTypeOK, Object, Flags, State
<1>7. Phases' /\ Room'
  BY <1>1, <1>2, <1>3, <1>4, <1>6 DEF Phases, Room, Named, Detached, State, WsTypeOK
<1>8. connected' \in BOOLEAN /\ acked' \in BOOLEAN
  BY <1>2 DEF ClientTask, Open, ResetAck, HelloSent, HelloRefused, HelloFailed, HelloLost,
     HelloAck, Dropped, LinkDown, WsTypeOK
<1>9. WsTypeOK'
  BY <1>2, <1>3, <1>6, <1>8 DEF WsTypeOK
<1>10. Flags'
  <2> USE <1>1, <1>2, <1>4, <1>6 DEF WsTypeOK, Object, HandlerIsOpen, Phases, Flags, Named,
         Detached, State
  <2>1. CASE Open(id)
    BY <2>1 DEF Open
  <2>2. CASE ResetAck(id)
    BY <2>2 DEF ResetAck
  <2>3. CASE HelloSent(id)
    BY <2>3 DEF HelloSent, TransportReady
  <2>4. CASE HelloRefused(id)
    BY <2>4 DEF HelloRefused
  <2>5. CASE HelloFailed(id)
    BY <2>5 DEF HelloFailed
  <2>6. CASE HelloLost(id)
    BY <2>6 DEF HelloLost, LinkDown
  <2>7. CASE HelloAck(id)
    BY <2>7 DEF HelloAck
  <2>8. CASE Dropped(id)
    BY <2>8 DEF Dropped, LinkDown
  <2> QED
    BY <2>1, <2>2, <2>3, <2>4, <2>5, <2>6, <2>7, <2>8 DEF ClientTask
<1> QED
  BY <1>5, <1>7, <1>9, <1>10 DEF WsInv

-----------------------------------------------------------------------------
(* Who owns the objects.  First the steps that touch none of them, ...     *)

LEMMA FlagsOnlyInv ==
  ASSUME WsInv,
         \/ SenderGivesUp \/ RefreshGate \/ RefreshDetach \/ RefreshDestroyFailed
         \/ RefreshCreateFailed \/ RefreshOpenGate \/ RefreshStartFailed
  PROVE  WsInv'
<1>1. objects' = objects
  BY DEF SenderGivesUp, RefreshGate, RefreshDetach, RefreshDestroyFailed,
     RefreshCreateFailed, RefreshOpenGate, RefreshStartFailed
<1>2. Latest' = Latest
  BY <1>1 DEF Latest
<1> USE <1>1, <1>2 DEF WsInv, WsTypeOK, InOrder, HandlerIsOpen, Phases, Room, Flags, Named,
        Detached, State, Clients
<1>3. CASE SenderGivesUp
  BY <1>3 DEF SenderGivesUp, LinkDown
<1>4. CASE RefreshGate
  BY <1>4 DEF RefreshGate, LinkDown, To
<1>5. CASE RefreshDetach
  BY <1>5 DEF RefreshDetach, To
<1>6. CASE RefreshDestroyFailed
  <2>1. /\ owner = "destroy" /\ owner' = "idle" /\ client' = Latest /\ gate' = FALSE
        /\ UNCHANGED <<connected, acked>> /\ gate /\ ~(connected /\ acked)
        /\ Latest > 0 /\ Latest \in Clients
    BY <1>6 DEF RefreshDestroyFailed, To
  <2>2. WsTypeOK' /\ InOrder' /\ HandlerIsOpen'
    BY <2>1
  <2>3. Phases' /\ Room' /\ Flags'
    BY <2>1
  <2> QED
    BY <2>2, <2>3
<1>7. CASE RefreshCreateFailed
  BY <1>7 DEF RefreshCreateFailed, To
<1>8. CASE RefreshOpenGate
  BY <1>8 DEF RefreshOpenGate, To
<1>9. CASE RefreshStartFailed
  BY <1>9 DEF RefreshStartFailed, To
<1> QED
  BY <1>3, <1>4, <1>5, <1>6, <1>7, <1>8, <1>9

(* ... then those that move the object made last, ... *)
LEMMA MoveLatestInv ==
  ASSUME WsInv, RefreshStop \/ RefreshDestroy \/ RefreshStart
  PROVE  WsInv'
<1>1. WsTypeOK /\ InOrder /\ HandlerIsOpen /\ Phases /\ Room /\ Flags
  BY DEF WsInv
<1>2. /\ Latest \in Clients /\ Latest > 0 /\ objects[Latest].at = "loop"
      /\ State(Latest) \in {"waiting", "open", "stopped", "made"}
  BY <1>1 DEF RefreshStop, RefreshDestroy, RefreshStart, To, Phases, Named, Detached,
     InOrder, HandlerIsOpen, State, Clients
<1>3. /\ objects' \in [Clients -> Object]
      /\ \A other \in Clients \ {Latest} : objects'[other] = objects[other]
      /\ objects'[Latest].at = "loop"
      /\ RefreshStop => objects'[Latest].state = "stopped"
      /\ RefreshDestroy => objects'[Latest].state = "gone"
      /\ RefreshStart => objects'[Latest].state = "waiting"
  BY <1>1, <1>2 DEF RefreshStop, RefreshDestroy, RefreshStart, Set, WsTypeOK, Object
<1>4. Latest' = Latest
  BY <1>1, <1>2, <1>3, SameLatest DEF State
<1>5. InOrder' /\ HandlerIsOpen'
  BY <1>1, <1>2, <1>3, <1>4 DEF InOrder, HandlerIsOpen, State, RefreshStart, RefreshStop,
     RefreshDestroy
<1> USE <1>1, <1>2, <1>3, <1>4, <1>5 DEF WsInv, WsTypeOK, Phases, Room, Flags, Named,
        Detached, State, To
<1>6. CASE RefreshStop
  BY <1>6 DEF RefreshStop
<1>7. CASE RefreshDestroy
  BY <1>7 DEF RefreshDestroy
<1>8. CASE RefreshStart
  BY <1>8 DEF RefreshStart
<1> QED
  BY <1>6, <1>7, <1>8

(* ... and those that make one. *)
LEMMA CreateInv ==
  ASSUME WsInv, RefreshCreate
  PROVE  WsInv'
<1>1. WsTypeOK /\ InOrder /\ HandlerIsOpen /\ Phases /\ Room /\ Flags
  BY DEF WsInv
<1>2. PICK id \in Clients : id = Latest + 1
  BY <1>1, ClientAssumption DEF RefreshCreate, To, Room, InOrder, Clients
<1>3. State(id) = "none" /\ objects[id].at = "loop" /\ Latest < MaxClients
  BY <1>1, <1>2 DEF RefreshCreate, To, Room, InOrder, HandlerIsOpen, State
<1>4. /\ objects' \in [Clients -> Object]
      /\ \A other \in Clients \ {id} : objects'[other] = objects[other]
      /\ State(id)' = "made" /\ objects'[id].at = "loop"
  BY <1>1, <1>2, <1>3 DEF RefreshCreate, Set, WsTypeOK, Object, State
<1>5. /\ State(Latest) = "gone" /\ Latest \in Clients
      /\ owner = "create" /\ owner' = "opengate" /\ client' = id
      /\ UNCHANGED <<gate, connected, acked>>
  BY <1>1, <1>2 DEF RefreshCreate, To, Phases, Detached, InOrder, Clients
<1>6. Latest' = id
  BY <1>1, <1>2, <1>3, <1>4, NextLatest DEF InOrder, State, Clients
<1>7. InOrder' /\ HandlerIsOpen'
  BY <1>1, <1>2, <1>3, <1>4, <1>5, <1>6 DEF InOrder, HandlerIsOpen, State, Clients
<1>8. WsTypeOK'
  BY <1>1, <1>2, <1>3, <1>4, <1>5 DEF WsTypeOK
<1>9. Phases' /\ Room' /\ Flags'
  BY <1>1, <1>2, <1>3, <1>4, <1>5, <1>6 DEF Phases, Room, Flags, Named, State, WsTypeOK, Clients
<1> QED
  BY <1>7, <1>8, <1>9 DEF WsInv

LEMMA BootInv ==
  ASSUME WsInv, Boot
  PROVE  WsInv'
<1>1. WsTypeOK /\ InOrder /\ HandlerIsOpen /\ Phases /\ Room /\ Flags
  BY DEF WsInv
<1>2. /\ Latest = 0 /\ client = 0 /\ owner = "boot" /\ owner' = "idle"
      /\ UNCHANGED <<gate, connected, acked>> /\ 1 \in Clients /\ State(1) = "none"
      /\ Latest < MaxClients
  BY <1>1, ClientAssumption DEF Boot, Phases, InOrder, Clients
<1>3. CASE UNCHANGED <<objects, client>>
  <2>1. Latest' = Latest
    BY <1>3 DEF Latest
  <2> QED
    BY <1>1, <1>2, <1>3, <2>1 DEF WsInv, WsTypeOK, InOrder, HandlerIsOpen, Phases, Room, Flags,
       State
<1>4. CASE client' = 1 /\ (Set(1, "waiting") \/ Set(1, "made"))
  <2>1. /\ objects' \in [Clients -> Object]
        /\ \A other \in Clients \ {1} : objects'[other] = objects[other]
        /\ State(1)' \in {"waiting", "made"} /\ objects'[1].at = objects[1].at
    BY <1>1, <1>2, <1>4 DEF Set, WsTypeOK, Object, State
  <2>2. Latest' = 1
    BY <1>1, <1>2, <2>1, NextLatest DEF InOrder, State, Clients
  <2>3. InOrder' /\ HandlerIsOpen' /\ WsTypeOK'
    BY <1>1, <1>2, <1>4, <2>1, <2>2 DEF InOrder, HandlerIsOpen, WsTypeOK, State, Clients
  <2>4. Phases' /\ Room' /\ Flags'
    BY <1>1, <1>2, <1>4, <2>1, <2>2 DEF Phases, Room, Flags, Named, State, WsTypeOK
  <2> QED
    BY <2>3, <2>4 DEF WsInv
<1> QED
  BY <1>3, <1>4 DEF Boot

-----------------------------------------------------------------------------

LEMMA WsNextInv == WsInv /\ [Next]_vars => WsInv'
<1> SUFFICES ASSUME WsInv, [Next]_vars PROVE WsInv'
  OBVIOUS
<1>1. CASE UNCHANGED ws
  BY <1>1 DEF ws, WsInv, WsTypeOK, InOrder, HandlerIsOpen, Phases, Room, Flags, Named,
     Detached, State, Latest
<1>2. CASE Owner \/ SenderGivesUp
  BY <1>2, FlagsOnlyInv, MoveLatestInv, CreateInv, BootInv DEF Owner
<1>3. CASE \E id \in Clients : ClientTask(id)
  BY <1>3, ClientTaskInv
<1> QED
  BY <1>1, <1>2, <1>3 DEF Next, vars

LEMMA SpecInv == Spec => []WsInv
<1>1. Init => WsInv
  BY WsInitInv DEF Init
<1> QED
  BY <1>1, WsNextInv, PTL DEF Spec

(* What the connection does is nothing to the Wi-Fi below it. *)
LEMMA SpecWifiInv == Spec => []WifiInv
<1>1. Init => WifiInv
  BY WifiInitInv DEF Init
<1>2. [Next]_vars => [WifiNext]_wifi
  BY DEF Next, vars
<1> QED
  BY <1>1, <1>2, WifiNextInv, PTL DEF Spec

LEMMA InvTypes == WsInv /\ WifiInv => TypeOK
<1>1. WsInv => client \in 0..Latest
  BY DEF WsInv, WsTypeOK, InOrder, Phases, Named, Detached
<1> QED
  BY <1>1 DEF WsInv, WsTypeOK, WifiInv, TypeOK

(* The states, flags and positions of both modules keep their types.       *)
THEOREM TypeCorrect == Spec => []TypeOK
<1> QED
  BY InvTypes, SpecInv, SpecWifiInv, PTL

(* No order of losses, addresses, refused attempts and wake-ups leaves the *)
(* station without its reconnect task, whatever the connection does.       *)
THEOREM ConnectionNotStranded == Spec => []NeverStranded
<1>1. WifiInv => NeverStranded
  BY DEF WifiInv
<1> QED
  BY <1>1, SpecWifiInv, PTL

LEMMA OneRuns == WsInv => NoOverlap
<1> SUFFICES ASSUME WsInv PROVE NoOverlap
  OBVIOUS
<1> DEFINE running == {id \in Clients : objects[id].state \in {"waiting", "open"}}
<1>1. running \subseteq {Latest}
  BY DEF WsInv, InOrder, State
<1>2. Cardinality(running) <= 1
  <2>1. running = {} \/ running = {Latest}
    BY <1>1
  <2> QED
    BY <2>1, FS_EmptySet, FS_Singleton
<1>3. client # 0 => objects[client].state \notin {"none", "gone"}
  BY DEF WsInv, WsTypeOK, Phases, Named, Detached, State
<1> QED
  BY <1>2, <1>3 DEF NoOverlap

(* Never two client objects with a running task, and s_client is no freed  *)
(* object, however often refresh_websocket_auth_client replaces it and     *)
(* wherever it fails.                                                      *)
THEOREM SingleOwner == Spec => []NoOverlap
<1> QED
  BY OneRuns, SpecInv, PTL

(* websocket_ready holds only while s_client has an open transport whose   *)
(* hello was answered, but for the moment within CONNECTED.                *)
THEOREM ReadyMeansAnswered == Spec => []ReadyIsReal
<1>1. WsInv => ReadyIsReal
  BY DEF WsInv, Flags, ReadyIsReal, Ready, TransportReady, State
<1> QED
  BY <1>1, SpecInv, PTL

=============================================================================
