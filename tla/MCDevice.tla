------------------------------ MODULE MCDevice ------------------------------
(***************************************************************************)
(* Small instances of components that share no state, side by side: a      *)
(* behaviour picks one of them and leaves the others where they start.     *)
(* (Their product has the same behaviours of each, and is far larger.)     *)
(* The cache starts with one of the URLs: they are all alike, and to the   *)
(* others it is as good as empty.                                          *)
(***************************************************************************)
EXTENDS WsClient, WakeVerification, WakeModel, OtaUpdate, BleScanner, BleAdverts,
        Sat1Output, SetupGesture, ScoreWindow

CONSTANTS b1, b2   \* bytes

(* A marker that, as the real ones do, begins again in its own middle.     *)
TheMarker == <<b1, b2, b1, b1>>

VARIABLE part   \* the component this behaviour is about

Only(name) == part = name /\ UNCHANGED part

DeviceInit ==
  /\ part \in {"connection", "verification", "model", "update", "scanner", "adverts",
               "power", "output", "button", "window"}
  /\ Init /\ VerificationInit /\ ModelInit /\ UpdateInit /\ ScannerInit /\ AdvertsInit
  /\ PowerInit /\ OutputInit /\ GestureInit /\ WindowInit
  /\ part # "verification" => mode = "off"
  /\ part # "window" => size = MaxWindow
  /\ cache.data = IF part = "model" THEN CHOOSE url \in Urls : TRUE ELSE NoUrl

(* What a step of one part leaves alone, by groups. *)
server == <<vars, verification, model, update>>
radios == <<ble, radio>>
board  == <<delivery, output, pushing, scoring>>

DeviceNext ==
  \/ Only("connection") /\ Next
     /\ UNCHANGED <<verification, model, update, radios, board>>
  \/ Only("verification") /\ VerificationNext
     /\ UNCHANGED <<vars, model, update, radios, board>>
  \/ Only("model") /\ ModelNext
     /\ UNCHANGED <<vars, verification, update, radios, board>>
  \/ Only("update") /\ UpdateNext
     /\ UNCHANGED <<vars, verification, model, radios, board>>
  \/ Only("scanner") /\ ScannerNext /\ UNCHANGED <<server, radio, board>>
  \/ Only("adverts") /\ AdvertsNext /\ UNCHANGED <<server, ble, board>>
  \/ Only("power") /\ PowerNext /\ UNCHANGED <<server, radios, output, pushing, scoring>>
  \/ Only("output") /\ OutputNext
     /\ UNCHANGED <<server, radios, sink, rx, line, pushing, scoring>>
  \/ Only("button") /\ GestureNext
     /\ UNCHANGED <<server, radios, delivery, output, scoring>>
  \/ Only("window") /\ WindowNext
     /\ UNCHANGED <<server, radios, delivery, output, pushing>>

(* The fairness of each component, while it is the one that runs. *)
ConnectionFair ==
  LET Now(A) == part = "connection" /\ A
  IN /\ WF_wifi(Now(StationStart)) /\ WF_wifi(Now(StationJoined)) /\ WF_wifi(Now(StationIp))
     /\ WF_wifi(Now(EventTask)) /\ WF_wifi(Now(ReconnectTask))
     /\ WF_ws(Now(Owner))
     /\ \A id \in Clients : WF_vars(Now(ClientTask(id) /\ UNCHANGED wifi))

VerificationFair ==
  LET Now(A) == part = "verification" /\ A
  IN /\ WF_verification(Now(WakeTask))
     /\ \A id \in Detections :
          WF_verification(Now(StartSession(id))) /\ WF_verification(Now(TimedOut(id)))

ModelFair ==
  LET Now(A) == part = "model" /\ A
  IN /\ WF_model(Now(CountSelection)) /\ WF_model(Now(RetryPasses))
     /\ WF_model(Now(EnsureTask))
     /\ \A g \in Generations : WF_model(Now(DownloadTask(g)))

UpdateFair ==
  WF_update(part = "update" /\ Asker) /\ WF_update(part = "update" /\ Updater)

ScannerFair ==
  WF_ble(part = "scanner" /\ PollTask) /\ WF_ble(part = "scanner" /\ HostTask)

BoardFair == WF_delivery(part = "power" /\ PdTask)

DeviceSpec ==
  /\ DeviceInit
  /\ [][DeviceNext]_<<part, server, radios, board>>
  /\ ConnectionFair /\ VerificationFair /\ ModelFair /\ UpdateFair /\ ScannerFair
  /\ BoardFair

(* The types of all of them. *)
DeviceTypeOK ==
  /\ TypeOK /\ VerificationTypeOK /\ ModelTypeOK
  /\ UpdateTypeOK /\ ScannerTypeOK /\ AdvertsTypeOK
  /\ PowerTypeOK /\ OutputTypeOK /\ GestureTypeOK /\ WindowTypeOK

=============================================================================
