---------------------------- MODULE WifiRecovery ----------------------------
(***************************************************************************)
(* How the satellite gets its Wi-Fi back: wifi_event_handler, which runs   *)
(* in the system event task, and wifi_reconnect_task of                    *)
(* main/wifi_station.c, above the Wi-Fi driver.  The driver posts its      *)
(* events to a queue, so what the handler is told may be long past.  The   *)
(* delay before an attempt is a step that takes its time.                  *)
(***************************************************************************)
EXTENDS Naturals, Sequences

CONSTANT MaxEvents   \* bound: events the driver may have posted and unhandled

ASSUME WifiAssumption == MaxEvents \in Nat \ {0}

VARIABLES
  station,   \* the driver: "off", "idle", "joining", "joined", "ip"
  events,    \* what it has posted and the event task has not taken
  handler,   \* the event task: "idle", or "lost" within a handler
  hasIp,     \* s_wifi_has_ip
  notified,  \* the notification value of wifi_reconnect_task, cut to 0 or 1
  retry,     \* where wifi_reconnect_task stands
  settled    \* the access point and the server fail no more

wifi == <<station, events, handler, hasIp, notified, retry, settled>>

WifiTypeOK ==
  /\ station \in {"off", "idle", "joining", "joined", "ip"}
  /\ events \in Seq({"start", "lost", "got_ip"}) /\ Len(events) <= MaxEvents
  /\ handler \in {"idle", "lost"}
  /\ hasIp \in BOOLEAN /\ notified \in BOOLEAN /\ settled \in BOOLEAN
  /\ retry \in {"wait", "check", "delay", "connect"}

WifiInit ==
  /\ station = "off" /\ events = <<>> /\ handler = "idle"
  /\ hasIp = FALSE /\ notified = FALSE /\ retry = "wait"
  /\ settled = FALSE

-----------------------------------------------------------------------------
(* The driver, as esp_wifi_start, esp_wifi_connect and the access point    *)
(* move it.                                                                *)

Post(event) == Len(events) < MaxEvents /\ events' = Append(events, event)

StationStart ==
  /\ station = "off" /\ station' = "idle"
  /\ Post("start")
  /\ UNCHANGED <<handler, hasIp, notified, retry, settled>>

StationJoined ==
  /\ station = "joining" /\ station' = "joined"
  /\ UNCHANGED <<events, handler, hasIp, notified, retry, settled>>

StationIp ==
  /\ station = "joined" /\ station' = "ip"
  /\ Post("got_ip")
  /\ UNCHANGED <<handler, hasIp, notified, retry, settled>>

StationLost ==
  /\ ~settled
  /\ station \in {"joining", "joined", "ip"} /\ station' = "idle"
  /\ Post("lost")
  /\ UNCHANGED <<handler, hasIp, notified, retry, settled>>

Settle ==
  /\ ~settled /\ settled' = TRUE
  /\ UNCHANGED <<station, events, handler, hasIp, notified, retry>>

-----------------------------------------------------------------------------
(* wifi_event_handler.                                                     *)

Take(event) ==
  /\ handler = "idle"
  /\ events # <<>> /\ Head(events) = event
  /\ events' = Tail(events)

StaStart ==
  /\ Take("start")
  /\ notified' = TRUE
  /\ UNCHANGED <<station, handler, hasIp, retry, settled>>

(* Faulty form of StaDisconnected: the address is not forgotten. *)
StaDisconnectedKeepsIp ==
  /\ Take("lost")
  /\ handler' = "lost"
  /\ UNCHANGED <<station, hasIp, notified, retry, settled>>

StaDisconnected ==
  /\ Take("lost")
  /\ handler' = "lost"
  /\ hasIp' = FALSE
  /\ UNCHANGED <<station, notified, retry, settled>>

ScheduleReconnect ==
  /\ handler = "lost" /\ handler' = "idle"
  /\ notified' = TRUE
  /\ UNCHANGED <<station, events, hasIp, retry, settled>>

GotIp ==
  /\ Take("got_ip")
  /\ hasIp' = TRUE
  /\ UNCHANGED <<station, handler, notified, retry, settled>>

EventTask == StaStart \/ StaDisconnected \/ ScheduleReconnect \/ GotIp

-----------------------------------------------------------------------------
(* wifi_reconnect_task.                                                    *)

RetryTake ==
  /\ retry = "wait" /\ retry' = "check"
  /\ notified /\ notified' = FALSE
  /\ UNCHANGED <<station, events, handler, hasIp, settled>>

RetryCheck ==
  /\ retry = "check" /\ retry' = IF hasIp THEN "wait" ELSE "delay"
  /\ UNCHANGED <<station, events, handler, hasIp, notified, settled>>

RetryDelayed ==
  /\ retry = "delay" /\ retry' = IF hasIp THEN "wait" ELSE "connect"
  /\ UNCHANGED <<station, events, handler, hasIp, notified, settled>>

RetryConnect ==
  /\ retry = "connect" /\ retry' = "wait"
  /\ station = "idle" /\ station' = "joining"
  /\ UNCHANGED <<events, handler, hasIp, notified, settled>>

(* esp_wifi_connect refuses, as it does when it is joining already. *)
RetryFailed ==
  /\ retry = "connect" /\ retry' = "wait"
  /\ settled => station # "idle"
  /\ notified' = TRUE
  /\ UNCHANGED <<station, events, handler, hasIp, settled>>

ReconnectTask == RetryTake \/ RetryCheck \/ RetryDelayed \/ RetryConnect \/ RetryFailed

-----------------------------------------------------------------------------

WifiNext ==
  \/ StationStart \/ StationJoined \/ StationIp \/ StationLost \/ Settle
  \/ EventTask \/ ReconnectTask

(* The tasks run; the driver answers an attempt one way or the other.  No  *)
(* fairness is asked of Settle: it is an assumption of what follows it.    *)
WifiFairness ==
  /\ WF_wifi(StationStart) /\ WF_wifi(StationJoined) /\ WF_wifi(StationIp)
  /\ WF_wifi(EventTask) /\ WF_wifi(ReconnectTask)

WifiSpec == WifiInit /\ [][WifiNext]_wifi /\ WifiFairness

-----------------------------------------------------------------------------
(* Properties.                                                             *)

(* A station that is neither joined nor joining, with nothing left to be   *)
(* handled, has the reconnect task awake or about to be: no order of       *)
(* losses, addresses, refused attempts and wake-ups strands it.            *)
NeverStranded ==
  station = "idle" /\ events = <<>> /\ handler = "idle" =>
    ~hasIp /\ (notified \/ retry # "wait")

=============================================================================
