---------------------------- MODULE LocalTimers ----------------------------
(***************************************************************************)
(* The satellite's local timers: the table s_timers of                     *)
(* main/tater_protocol.c and the tasks that share it.                      *)
(*                                                                         *)
(*   Server     the WebSocket event task, which runs the timer.* commands  *)
(*   Monitor    timer_monitor_task, which expires and cuts off timers      *)
(*   Devices    the tasks that call tater_protocol_timer_stop_from_device  *)
(*              (button task, wake-word audio task)                        *)
(*   AlarmTasks the instances of timer_alarm_task that may exist at once   *)
(*                                                                         *)
(* The table is read and written under s_timer_lock, so each locked        *)
(* section is one step.  Everything a task does to the wake engine, the    *)
(* playback, the visible state and the alarm task's handle happens outside *)
(* that lock, so each such effect is a step of its own.                    *)
(***************************************************************************)
EXTENDS Naturals, FiniteSets

CONSTANTS
  MaxTimers,   \* TATER_MAX_LOCAL_TIMERS
  Ids,         \* timer ids
  Names,       \* timer names a command may give
  Durations,   \* original durations, as far as a criterion tells them apart
  None,        \* an absent field: "" in a slot, a criterion not given
  Requests,    \* the timer.start and timer.arm payloads that may arrive
  Payloads,    \* the timer.cancel, .clear, .snooze and .alarm payloads
  Server, Monitor, Devices, AlarmTasks,
  RingLimit    \* whether a timer may ring for TATER_TIMER_MAX_RING_MS

Slots == 1..MaxTimers
Workers == {Server, Monitor} \cup Devices

(* deadline_us and ringing_started_us matter only through what the monitor *)
(* decides from them, and which of them have passed when it looks is open. *)
Stages == {"free", "armed", "ringing"}
Slot == [id : Ids \cup {None}, name : Names \cup {None},
         duration : Durations \cup {None}, stage : Stages]
FreeSlot == [id |-> None, name |-> None, duration |-> None, stage |-> "free"]

Request == [id : Ids, name : Names \cup {None}, duration : Durations,
            replace : BOOLEAN]
Payload == [all : BOOLEAN, ids : SUBSET Ids, id : Ids \cup {None},
            name : Names \cup {None}, duration : Durations \cup {None}]
EmptyPayload ==
  [all |-> FALSE, ids |-> {}, id |-> None, name |-> None, duration |-> None]

ASSUME TimersAssumption ==
  /\ MaxTimers \in Nat \ {0}
  /\ None \notin Ids \cup Names \cup Durations
  /\ None \notin AlarmTasks
  /\ RingLimit \in BOOLEAN
  /\ Requests \subseteq Request
  /\ Payloads \subseteq Payload
  /\ Server # Monitor
  /\ Server \notin Devices /\ Monitor \notin Devices
  /\ AlarmTasks \cap ({Server, Monitor} \cup Devices) = {}

VARIABLES
  slots,       \* s_timers
  stopMode,    \* s_timer_stop_mode_requested of the wake engine
  led,         \* whether s_current_state is TATER_STATE_TIMER
  handle,      \* s_timer_alarm_task
  autoStopped, \* the monitor's auto_stopped_count > 0 in this pass
  pc           \* where each task stands between two steps

vars == <<slots, stopMode, led, handle, autoStopped, pc>>
effects == <<stopMode, led>>

FinishSteps == {"finish_check", "finish_mode", "finish_state"}
BeginSteps == {"begin_mode", "begin_emit", "begin_task", "begin_create"}
WorkerSteps == {"idle", "cancel", "recheck", "recover_task", "recover_create"}
                 \cup FinishSteps \cup BeginSteps
AlarmSteps == {"none", "loop", "emit", "exit"}

Active(t) == t.stage # "free"
Ringing(t) == t.stage = "ringing"
AnyRinging == \E s \in Slots : Ringing(slots[s])
ActiveSlots == {s \in Slots : Active(slots[s])}
RingingSlots == {s \in Slots : Ringing(slots[s])}

TypeOK ==
  /\ slots \in [Slots -> Slot]
  /\ stopMode \in BOOLEAN
  /\ led \in {"timer", "other"}
  /\ handle \in AlarmTasks \cup {None}
  /\ autoStopped \in BOOLEAN
  /\ pc \in [Workers \cup AlarmTasks -> WorkerSteps \cup AlarmSteps]

Init ==
  /\ slots = [s \in Slots |-> FreeSlot]
  /\ stopMode = FALSE
  /\ led = "other"
  /\ handle = None
  /\ autoStopped = FALSE
  /\ pc = [t \in Workers \cup AlarmTasks |->
             IF t \in AlarmTasks THEN "none" ELSE "idle"]

Goto(t, from, to) == pc[t] = from /\ pc' = [pc EXCEPT ![t] = to]

-----------------------------------------------------------------------------
(* Selection: which timers a cancel, snooze or alarm payload means.        *)

HasCriteria(p) ==
  p.ids # {} \/ p.id # None \/ p.name # None \/ p.duration # None

(* timer_payload_matches: every criterion that is given must agree. *)
Matches(p, t) ==
  /\ Active(t)
  /\ p.ids # {} => t.id \in p.ids
  /\ p.id # None => t.id = p.id
  /\ p.name # None => t.name = p.name
  /\ p.duration # None => t.duration = p.duration

(* timer_select_locked.  An empty answer is "not found" or "ambiguous". *)
Selected(p) ==
  LET matching == {s \in Slots : Matches(p, slots[s])}
  IN IF p.all THEN ActiveSlots
     ELSE IF HasCriteria(p)
       THEN IF p.ids = {} /\ Cardinality(matching) > 1 THEN {} ELSE matching
     ELSE IF AnyRinging THEN RingingSlots
     ELSE IF Cardinality(ActiveSlots) = 1 THEN ActiveSlots ELSE {}

-----------------------------------------------------------------------------
(* The end of a command that may have silenced the last ringing timer:     *)
(* timer_finish_ringing_if_idle.  Where the task goes on afterwards.       *)

AfterFinish(t) == IF t = Monitor THEN "recheck" ELSE "idle"
AfterCommand(t, wasRinging) ==
  IF wasRinging THEN "finish_check" ELSE AfterFinish(t)

FinishCheck(t) ==
  /\ Goto(t, "finish_check", IF AnyRinging THEN AfterFinish(t) ELSE "finish_mode")
  /\ UNCHANGED <<slots, effects, handle, autoStopped>>

FinishMode(t) ==
  /\ Goto(t, "finish_mode", "finish_state")
  /\ stopMode' = FALSE
  /\ UNCHANGED <<slots, led, handle, autoStopped>>

(* emit_state drops IDLE while a timer rings and while playback holds the  *)
(* visible state, which lasts up to 30 s past its end: it may be dropped   *)
(* either way.  A late write that passed the gate is one of OtherState.    *)
FinishState(t) ==
  /\ Goto(t, "finish_state", AfterFinish(t))
  /\ \/ UNCHANGED led
     \/ led = "timer" /\ ~AnyRinging /\ led' = "other"
  /\ UNCHANGED <<slots, stopMode, handle, autoStopped>>

FinishRinging(t) == FinishCheck(t) \/ FinishMode(t) \/ FinishState(t)

-----------------------------------------------------------------------------
(* timer_begin_ringing, after a timer was set ringing.                     *)

AfterBegin(t) ==
  IF t = Monitor /\ autoStopped THEN "finish_check" ELSE AfterFinish(t)

(* A voice turn is aborted first (tater_protocol_stop_voice): its capture  *)
(* state is VoiceSession's, its IDLE one of OtherState.                    *)
BeginMode(t) ==
  /\ Goto(t, "begin_mode", "begin_emit")
  /\ stopMode' = TRUE
  /\ UNCHANGED <<slots, led, handle, autoStopped>>

BeginEmit(t) ==
  /\ Goto(t, "begin_emit", "begin_task")
  /\ led' = "timer"
  /\ UNCHANGED <<slots, stopMode, handle, autoStopped>>

(* timer_start_alarm_task looks at the handle, then creates the task.  The *)
(* task is created when one of AlarmTasks is left, else creation fails.    *)
AlarmHandleCheck(t, from, create, next) ==
  /\ Goto(t, from, IF handle = None THEN create ELSE next)
  /\ UNCHANGED <<slots, effects, handle, autoStopped>>

AlarmCreate(t, from, next) ==
  /\ pc[t] = from
  /\ \/ \E a \in AlarmTasks :
          /\ pc[a] = "none"
          /\ handle' = a
          /\ pc' = [pc EXCEPT ![t] = next, ![a] = "loop"]
     \/ /\ \A a \in AlarmTasks : pc[a] # "none"
        /\ handle' = None
        /\ pc' = [pc EXCEPT ![t] = next]
  /\ UNCHANGED <<slots, effects, autoStopped>>

BeginTask(t) == AlarmHandleCheck(t, "begin_task", "begin_create", AfterBegin(t))
BeginCreate(t) == AlarmCreate(t, "begin_create", AfterBegin(t))

BeginRinging(t) ==
  \/ BeginMode(t) \/ BeginEmit(t) \/ BeginTask(t) \/ BeginCreate(t)

-----------------------------------------------------------------------------
(* Commands.                                                               *)

LowestFree == {s \in Slots : /\ ~Active(slots[s])
                             /\ \A r \in 1..(s - 1) : Active(slots[r])}
Holding(i) == {s \in Slots : Active(slots[s]) /\ slots[s].id = i}

(* Faulty form of StartTarget: a free slot is taken without looking for    *)
(* the id among the timers that are already there.                         *)
StartTargetUnsearched(i) ==
  IF LowestFree # {} THEN LowestFree ELSE Holding(i)

(* The slot the search loop of timer_start_from_payload ends with: one     *)
(* that holds the id, else the first free one, else none (timer_limit).    *)
StartTarget(i) == IF Holding(i) # {} THEN Holding(i) ELSE LowestFree

(* timer.start keeps a timer that has the id ("already_exists"), timer.arm *)
(* replaces it and inherits its name when none is given.                   *)
TimerStart(req) ==
  LET target == StartTarget(req.id)
  IN /\ pc[Server] = "idle"
     /\ \/ \E s \in target :
             /\ req.replace \/ Holding(req.id) = {}
             /\ slots' = [slots EXCEPT ![s] =
                  [id |-> req.id, duration |-> req.duration, stage |-> "armed",
                   name |-> IF req.name # None THEN req.name ELSE slots[s].name]]
             /\ pc' = [pc EXCEPT ![Server] = AfterCommand(Server, Ringing(slots[s]))]
        \/ /\ target = {} \/ (Holding(req.id) # {} /\ ~req.replace)
           /\ UNCHANGED <<slots, pc>>
     /\ UNCHANGED <<effects, handle, autoStopped>>

(* timer_cancel_from_payload, from the server or, with an empty payload,   *)
(* from the device.                                                        *)
Cancel(t, from, p) ==
  LET chosen == Selected(p)
  IN /\ pc[t] = from
     /\ slots' = [s \in Slots |-> IF s \in chosen THEN FreeSlot ELSE slots[s]]
     /\ pc' = [pc EXCEPT ![t] = AfterCommand(t, chosen \cap RingingSlots # {})]
     /\ UNCHANGED <<effects, handle, autoStopped>>

TimerCancel(p) == Cancel(Server, "idle", p)

(* timer_snooze_from_payload *)
TimerSnooze(p, d) ==
  LET chosen == Selected(p)
  IN /\ pc[Server] = "idle"
     /\ slots' = [s \in Slots |->
          IF s \in chosen THEN [slots[s] EXCEPT !.stage = "armed", !.duration = d]
          ELSE slots[s]]
     /\ pc' = [pc EXCEPT ![Server] =
                 AfterCommand(Server, chosen \cap RingingSlots # {})]
     /\ UNCHANGED <<effects, handle, autoStopped>>

(* timer_force_alarm_from_payload *)
TimerAlarm(p) ==
  LET chosen == Selected(p)
  IN /\ pc[Server] = "idle"
     /\ slots' = [s \in Slots |->
          IF s \in chosen THEN [slots[s] EXCEPT !.stage = "ringing"] ELSE slots[s]]
     /\ pc' = [pc EXCEPT ![Server] = IF chosen = {} THEN "idle" ELSE "begin_mode"]
     /\ UNCHANGED <<effects, handle, autoStopped>>

(* tater_protocol_timer_stop_from_device: a look at the table, and in a    *)
(* second locked section the cancellation of whatever is selected then.    *)
DeviceStop(d) ==
  /\ Goto(d, "idle", "cancel")
  /\ AnyRinging
  /\ UNCHANGED <<slots, effects, handle, autoStopped>>

DeviceCancel(d) == Cancel(d, "cancel", EmptyPayload)

-----------------------------------------------------------------------------
(* timer_monitor_task, every 200 ms.                                       *)

(* expired: the deadline has passed; cutOff: rung for 15 minutes. *)
MonitorScan(expired, cutOff) ==
  /\ pc[Monitor] = "idle"
  /\ cutOff # {} => RingLimit
  /\ slots' = [s \in Slots |->
       IF s \in expired THEN [slots[s] EXCEPT !.stage = "ringing"]
       ELSE IF s \in cutOff THEN FreeSlot ELSE slots[s]]
  /\ autoStopped' = (cutOff # {})
  /\ pc' = [pc EXCEPT ![Monitor] = IF expired # {} THEN "begin_mode"
                                   ELSE AfterCommand(Monitor, cutOff # {})]
  /\ UNCHANGED <<effects, handle>>

(* Faulty form of MonitorRecheck: the pass ends without looking again for  *)
(* a ringing timer that no alarm task serves.                              *)
MonitorNoRecovery ==
  /\ Goto(Monitor, "recheck", "idle")
  /\ autoStopped' = FALSE
  /\ UNCHANGED <<slots, effects, handle>>

(* The recovery of "the tiny handoff window" at the end of a pass. *)
MonitorRecheck ==
  /\ Goto(Monitor, "recheck", IF AnyRinging THEN "recover_task" ELSE "idle")
  /\ autoStopped' = FALSE
  /\ UNCHANGED <<slots, effects, handle>>

RecoverTask == AlarmHandleCheck(Monitor, "recover_task", "recover_create", "idle")
RecoverCreate == AlarmCreate(Monitor, "recover_create", "idle")

-----------------------------------------------------------------------------
(* timer_alarm_task.                                                       *)

(* Faulty form of AlarmLoop: the dismissal is not looked for. *)
AlarmLoopForever(a) ==
  /\ Goto(a, "loop", "emit")
  /\ UNCHANGED <<slots, effects, handle, autoStopped>>

AlarmLoop(a) ==
  /\ Goto(a, "loop", IF AnyRinging THEN "emit" ELSE "exit")
  /\ UNCHANGED <<slots, effects, handle, autoStopped>>

AlarmEmit(a) ==
  /\ Goto(a, "emit", "loop")
  /\ led' = "timer"
  /\ UNCHANGED <<slots, stopMode, handle, autoStopped>>

AlarmExit(a) ==
  /\ Goto(a, "exit", "none")
  /\ handle' = None
  /\ UNCHANGED <<slots, effects, autoStopped>>

Alarm(a) == AlarmLoop(a) \/ AlarmEmit(a) \/ AlarmExit(a)

-----------------------------------------------------------------------------
(* Other visible states.  OTA and provisioning are shown over a ringing    *)
(* timer, and so is what a task writes that passed the gate of emit_state  *)
(* before the timer rang.                                                  *)
OtherState ==
  /\ led' = "other"
  /\ UNCHANGED <<slots, stopMode, handle, autoStopped, pc>>

-----------------------------------------------------------------------------

Command ==
  \/ \E req \in Requests : TimerStart(req)
  \/ \E p \in Payloads : TimerCancel(p) \/ TimerAlarm(p)
  \/ \E p \in Payloads, d \in Durations : TimerSnooze(p, d)

MonitorStep ==
  \/ \E expired \in SUBSET (ActiveSlots \ RingingSlots) :
       \E cutOff \in SUBSET RingingSlots : MonitorScan(expired, cutOff)
  \/ MonitorRecheck \/ RecoverTask \/ RecoverCreate
  \/ BeginRinging(Monitor) \/ FinishRinging(Monitor)

ServerStep == BeginRinging(Server) \/ FinishRinging(Server)

DeviceStep(d) == DeviceCancel(d) \/ FinishRinging(d)

Next ==
  \/ Command \/ ServerStep
  \/ MonitorStep
  \/ \E d \in Devices : DeviceStop(d) \/ DeviceStep(d)
  \/ \E a \in AlarmTasks : Alarm(a)
  \/ OtherState

(* FreeRTOS runs every ready task: whoever is inside a handler gets on     *)
(* with it.  Nobody has to send a command, press the button or let a       *)
(* deadline pass.                                                          *)
Fairness ==
  /\ WF_vars(MonitorStep)
  /\ WF_vars(ServerStep)
  /\ \A d \in Devices : WF_vars(DeviceStep(d))
  /\ \A a \in AlarmTasks : WF_vars(Alarm(a))

Spec == Init /\ [][Next]_vars /\ Fairness

-----------------------------------------------------------------------------
(* Properties.                                                             *)

(* timer_start_from_payload: no id names two timers, however starts,       *)
(* replacements, cancellations and cut-offs interleave.                    *)
UniqueIds ==
  \A s, r \in ActiveSlots : slots[s].id = slots[r].id => s = r

(* timer_alarm_task clears s_timer_alarm_task on its way out: the handle   *)
(* never names a task that is gone, which would keep every later alarm     *)
(* silent, the monitor's recovery included.                                *)
HandleLive == handle # None => pc[handle] # "none"

(* A timer that keeps ringing is shown again and again, whatever state was *)
(* shown over it and whichever alarm task exited meanwhile.                *)
RingingIsShown == []<>(led = "timer" \/ ~AnyRinging)

(* Once no timer rings any more, every alarm task goes away. *)
AlarmTasksEnd ==
  <>[](~AnyRinging) => <>[](\A a \in AlarmTasks : pc[a] = "none")

(* Both: the alarm follows the timers, on and off. *)
AlarmFollows == RingingIsShown /\ AlarmTasksEnd

(* README.md:98, "Embedded alarm-only `stop` model that is active only     *)
(* while a timer rings": when every task is at rest, the stop model is     *)
(* asked for exactly when a timer rings.                                   *)
AtRest == \A t \in Workers : pc[t] = "idle"
StopModelMatchesAlarm == AtRest => (stopMode <=> AnyRinging)

(* README.md:240, "Saying `stop` or pressing the device button dismisses   *)
(* every timer currently ringing while later timers continue counting": a  *)
(* dismissal from the device takes no timer that has not rung.             *)
LaterTimersContinue ==
  [][\A d \in Devices : DeviceCancel(d) =>
       \A s \in ActiveSlots : ~Ringing(slots[s]) => Active(slots'[s])]_vars

=============================================================================
