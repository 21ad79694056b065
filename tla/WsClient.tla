------------------------------ MODULE WsClient ------------------------------
(***************************************************************************)
(* The connection to the server: the client handle and the three flags     *)
(* that main/tater_protocol.c keeps of it, on the Wi-Fi of WifiRecovery.   *)
(* A client object of the library reconnects by itself and calls           *)
(* websocket_event_handler from its own task; hello is sent in the handler *)
(* of CONNECTED.  When hello.ack brings a new credential, a task replaces  *)
(* the object by one that carries it.                                      *)
(*                                                                         *)
(* The assignments of mark_link_down to s_connected and s_hello_acked are  *)
(* one step; those of CONNECTED are two.  Not more than one refresh runs   *)
(* at a time: it takes two new credentials within half a second for that.  *)
(***************************************************************************)
EXTENDS WifiRecovery, FiniteSets

CONSTANT MaxClients   \* bound: client objects made since the start

ASSUME ClientAssumption == MaxClients \in Nat \ {0}

VARIABLES
  client,     \* s_client, 0 for NULL
  objects,    \* the client objects
  gate,       \* s_ws_lifecycle_restart
  connected,  \* s_connected
  acked,      \* s_hello_acked
  owner       \* who makes, stops and starts objects, and where he stands

ws == <<client, objects, gate, connected, acked, owner>>
vars == <<wifi, ws>>

Clients == 1..MaxClients
Latest == Cardinality({id \in Clients : objects[id].state # "none"})

(* state: "waiting" has a running task and no transport.  at: where its    *)
(* task is in the handler of CONNECTED.  hello: of the present transport.  *)
Object == [state : {"none", "made", "waiting", "open", "stopped", "gone"},
           at    : {"loop", "connected", "hello"},
           hello : {"none", "sent", "refused", "failed", "acked"}]

TypeOK ==
  /\ WifiTypeOK
  /\ client \in 0..Latest
  /\ objects \in [Clients -> Object]
  /\ {gate, connected, acked} \subseteq BOOLEAN
  /\ owner \in {"boot", "idle", "delay", "detach", "stop", "destroy",
                "create", "opengate", "start"}

WsInit ==
  /\ client = 0
  /\ objects = [id \in Clients |-> [state |-> "none", at |-> "loop", hello |-> "none"]]
  /\ gate = FALSE /\ connected = FALSE /\ acked = FALSE
  /\ owner = "boot"

TransportReady == ~gate /\ client # 0 /\ connected
Ready == TransportReady /\ acked   \* websocket_ready

LinkDown == connected' = FALSE /\ acked' = FALSE   \* mark_link_down

Set(id, state) == objects' = [objects EXCEPT ![id].state = state]

-----------------------------------------------------------------------------
(* tater_protocol_start: the first object.  Making it or starting it may   *)
(* fail.                                                                   *)

Boot ==
  /\ owner = "boot" /\ owner' = "idle"
  /\ \/ Set(1, "waiting") /\ client' = 1
     \/ Set(1, "made") /\ client' = 1
     \/ UNCHANGED <<objects, client>>
  /\ UNCHANGED <<gate, connected, acked>>

-----------------------------------------------------------------------------
(* The task of a client object, and websocket_event_handler, which ignores *)
(* what comes from another object than s_client.                           *)

Open(id) ==
  /\ objects[id].state = "waiting" /\ station = "ip"
  /\ objects' = [objects EXCEPT ![id] =
       [state |-> "open", hello |-> "none", at |-> IF client = id THEN "connected" ELSE "loop"]]
  /\ connected' = (connected \/ client = id)
  /\ UNCHANGED <<client, gate, acked, owner>>

ResetAck(id) ==
  /\ objects[id].at = "connected"
  /\ objects' = [objects EXCEPT ![id].at = "hello"]
  /\ acked' = FALSE
  /\ UNCHANGED <<client, gate, connected, owner>>

HelloSent(id) ==
  /\ objects[id].at = "hello" /\ TransportReady
  /\ objects' = [objects EXCEPT ![id].at = "loop", ![id].hello = "sent"]
  /\ UNCHANGED <<client, gate, connected, acked, owner>>

HelloRefused(id) ==
  /\ objects[id].at = "hello" /\ ~TransportReady
  /\ objects' = [objects EXCEPT ![id].at = "loop", ![id].hello = "refused"]
  /\ UNCHANGED <<client, gate, connected, acked, owner>>

(* A send that fails is tolerated while the transport is still there. *)
HelloFailed(id) ==
  /\ objects[id].at = "hello" /\ TransportReady /\ ~settled
  /\ objects' = [objects EXCEPT ![id].at = "loop", ![id].hello = "failed"]
  /\ UNCHANGED <<client, gate, connected, acked, owner>>

(* The send lost the transport. *)
HelloLost(id) ==
  /\ objects[id].at = "hello" /\ TransportReady /\ (~settled \/ station # "ip")
  /\ objects' = [objects EXCEPT ![id] = [state |-> "waiting", at |-> "loop", hello |-> "none"]]
  /\ LinkDown
  /\ UNCHANGED <<client, gate, owner>>

(* hello.ack; with a credential that differs from the stored one, and when *)
(* the credential is saved and the task created, the object is replaced.   *)
HelloAck(id) ==
  /\ objects[id].state = "open" /\ objects[id].at = "loop" /\ objects[id].hello = "sent"
  /\ objects' = [objects EXCEPT ![id].hello = "acked"]
  /\ acked' = (acked \/ client = id)
  /\ \/ UNCHANGED owner
     \/ client = id /\ owner = "idle" /\ Latest < MaxClients /\ owner' = "delay"
  /\ UNCHANGED <<client, gate, connected>>

(* DISCONNECTED, CLOSED, ERROR or a close frame. *)
Dropped(id) ==
  /\ objects[id].state = "open" /\ objects[id].at = "loop" /\ (~settled \/ station # "ip")
  /\ objects' = [objects EXCEPT ![id].state = "waiting", ![id].hello = "none"]
  /\ IF client = id THEN LinkDown ELSE UNCHANGED <<connected, acked>>
  /\ UNCHANGED <<client, gate, owner>>

(* Three sends of any task failed: it marks the link down, and leaves the  *)
(* transport to the library.                                               *)
SenderGivesUp ==
  /\ Ready /\ ~settled
  /\ LinkDown
  /\ UNCHANGED <<client, objects, gate, owner>>

ClientTask(id) ==
  \/ Open(id) \/ ResetAck(id) \/ HelloSent(id) \/ HelloRefused(id) \/ HelloFailed(id)
  \/ HelloLost(id) \/ HelloAck(id) \/ Dropped(id)

-----------------------------------------------------------------------------
(* websocket_auth_refresh_task and refresh_websocket_auth_client.          *)

To(from, to) == owner = from /\ owner' = to

RefreshGate ==
  /\ To("delay", "detach")
  /\ gate' = TRUE /\ LinkDown
  /\ UNCHANGED <<client, objects>>

(* Behind the lock of the senders, which lets a frame in flight finish. *)
RefreshDetach ==
  /\ To("detach", "stop")
  /\ client' = 0
  /\ UNCHANGED <<objects, gate, connected, acked>>

(* Faulty form of RefreshStop: the object goes on running. *)
RefreshStopNot ==
  /\ To("stop", "create")
  /\ UNCHANGED <<client, objects, gate, connected, acked>>

(* esp_websocket_client_stop waits until the object's task has ended. *)
RefreshStop ==
  /\ To("stop", "destroy")
  /\ objects[Latest].at = "loop"
  /\ Set(Latest, "stopped")
  /\ UNCHANGED <<client, gate, connected, acked>>

RefreshDestroy ==
  /\ To("destroy", "create")
  /\ Set(Latest, "gone")
  /\ UNCHANGED <<client, gate, connected, acked>>

RefreshDestroyFailed ==
  /\ To("destroy", "idle")
  /\ client' = Latest /\ gate' = FALSE
  /\ UNCHANGED <<objects, connected, acked>>

RefreshCreate ==
  /\ To("create", "opengate")
  /\ Set(Latest + 1, "made") /\ client' = Latest + 1
  /\ UNCHANGED <<gate, connected, acked>>

(* Faulty form of RefreshCreateFailed: s_client is set before the events   *)
(* are registered, and the object is destroyed when that fails.            *)
RefreshCreateFailedNamed ==
  /\ To("create", "idle")
  /\ client' = Latest + 1 /\ gate' = FALSE
  /\ UNCHANGED <<objects, connected, acked>>

RefreshCreateFailed ==
  /\ To("create", "idle")
  /\ gate' = FALSE
  /\ UNCHANGED <<client, objects, connected, acked>>

(* Faulty form of RefreshOpenGate: the object is started behind the gate.  *)
(* The hello of its connection may then come too early.                    *)
RefreshOpenGateLate ==
  \/ /\ owner = "opengate" /\ gate /\ objects[Latest].state = "made"
     /\ Set(Latest, "waiting")
     /\ UNCHANGED <<client, gate, connected, acked, owner>>
  \/ /\ To("opengate", "idle") /\ objects[Latest].state # "made"
     /\ gate' = FALSE
     /\ UNCHANGED <<client, objects, connected, acked>>

RefreshOpenGate ==
  /\ To("opengate", "start")
  /\ gate' = FALSE
  /\ UNCHANGED <<client, objects, connected, acked>>

RefreshStart ==
  /\ To("start", "idle")
  /\ Set(Latest, "waiting")
  /\ UNCHANGED <<client, gate, connected, acked>>

RefreshStartFailed ==
  /\ To("start", "idle")
  /\ UNCHANGED <<client, objects, gate, connected, acked>>

Owner ==
  \/ Boot \/ RefreshGate \/ RefreshDetach \/ RefreshStop
  \/ RefreshDestroy \/ RefreshDestroyFailed \/ RefreshCreate \/ RefreshCreateFailed
  \/ RefreshOpenGate \/ RefreshStart \/ RefreshStartFailed

-----------------------------------------------------------------------------

Init == WifiInit /\ WsInit

Next ==
  \/ WifiNext /\ UNCHANGED ws
  \/ (Owner \/ SenderGivesUp) /\ UNCHANGED wifi
  \/ \E id \in Clients : ClientTask(id) /\ UNCHANGED wifi

(* The tasks run, the server answers a hello, and a transport without      *)
(* Wi-Fi is noticed in the end (pingpong_timeout_sec, keep_alive).         *)
Fairness ==
  /\ WifiFairness
  /\ WF_ws(Owner)
  /\ \A id \in Clients : WF_vars(ClientTask(id) /\ UNCHANGED wifi)

Spec == Init /\ [][Next]_vars /\ Fairness

-----------------------------------------------------------------------------
(* Properties.                                                             *)

(* README.md:88, "a single-owner WebSocket lifecycle [...] preventing      *)
(* overlapping connections": never two objects with a running task, and    *)
(* s_client is no freed object.                                            *)
NoOverlap ==
  /\ Cardinality({id \in Clients : objects[id].state \in {"waiting", "open"}}) <= 1
  /\ client # 0 => objects[client].state \notin {"none", "gone"}

(* websocket_ready holds only while s_client has an open transport whose   *)
(* hello was answered, whatever connection, loss and replacement came      *)
(* before; but for the moment between the two assignments of CONNECTED.    *)
ReadyIsReal ==
  Ready => /\ objects[client].state = "open"
           /\ objects[client].hello = "acked" \/ objects[client].at = "connected"

(* No task has anything more to do for the connection: there is no running *)
(* object, or there is one whose transport stays while a send that failed  *)
(* left it without its hello or its flag.                                  *)
Stuck ==
  /\ owner = "idle"
  /\ \/ client = 0
     \/ objects[client].state \in {"made", "stopped"}
     \/ /\ objects[client].state = "open" /\ objects[client].at = "loop"
        /\ ~connected \/ objects[client].hello = "failed"

(* Once the access point and the server fail no more, the satellite gets   *)
(* ready and stays it, unless it is stuck: the refresh ends, the gate is   *)
(* opened again, and the new object's hello is not refused.                *)
Recovers == <>[](settled /\ ~Stuck) => <>[]Ready

(* README.md:90, the lifecycle watchdog goes on "recovering a stuck        *)
(* client": an open transport of s_client gets ready in the end.           *)
ClientRecovers ==
  settled /\ owner = "idle" /\ client # 0 /\ objects[client].state = "open" ~> Ready

=============================================================================
