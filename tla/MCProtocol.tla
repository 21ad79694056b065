----------------------------- MODULE MCProtocol -----------------------------
(***************************************************************************)
(* Small instances of two parts of main/tater_protocol.c that share        *)
(* nothing here, side by side: the local timers, and a continued chat with *)
(* the watchdog of its session.  A behaviour picks one of them and leaves  *)
(* the other where it starts.                                              *)
(***************************************************************************)
EXTENDS MCLocalTimers, VoiceSession

VARIABLE part   \* the part this behaviour is about

Only(name) == part = name /\ UNCHANGED part

ProtocolInit == part \in {"timers", "voice"} /\ Init /\ VoiceInit

ProtocolNext ==
  \/ Only("timers") /\ Next /\ UNCHANGED voicing
  \/ Only("voice") /\ VoiceNext /\ UNCHANGED vars

(* The fairness of each part, while it is the one that runs. *)
TimersFair ==
  LET Now(A) == part = "timers" /\ A
  IN /\ WF_vars(Now(MonitorStep)) /\ WF_vars(Now(ServerStep))
     /\ \A d \in Devices : WF_vars(Now(DeviceStep(d)))
     /\ \A a \in AlarmTasks : WF_vars(Now(Alarm(a)))

ChatFair ==
  LET Now(A) == part = "voice" /\ A
  IN /\ \A u \in Users : WF_voicing(Now(StartTask(u) \/ Stop(u)))
     /\ \A w \in Watchdogs : WF_voicing(Now(Watchdog(w)))
     /\ WF_voicing(Now(MicCall(0))) /\ SF_voicing(Now(MicExpire))
     /\ WF_voicing(Now(MicPass \/ MicPut))
     /\ WF_voicing(Now(TxTask)) /\ WF_voicing(Now(RxTask))

ProtocolSpec ==
  ProtocolInit /\ [][ProtocolNext]_<<part, vars, voicing>> /\ TimersFair /\ ChatFair

=============================================================================
