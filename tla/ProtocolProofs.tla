--------------------------- MODULE ProtocolProofs ---------------------------
(***************************************************************************)
(* Theorems about two parts of main/tater_protocol.c that share nothing    *)
(* here: LocalTimers, for every number of slots, ids, devices and alarm    *)
(* tasks, and VoiceSession, for every set of users and watchdogs and every *)
(* size of its two buffers.                                                *)
(***************************************************************************)
EXTENDS LocalTimers, VoiceSession, Integers, FiniteSetTheorems, SequenceTheorems, TLAPS

-----------------------------------------------------------------------------
(* LocalTimers.                                                            *)


(* pc as TypeOK has it, but with each task kept to the steps of its kind:  *)
(* TypeOK alone lets an alarm task stand at "idle", and then a step of a   *)
(* worker would not be told from a step of an alarm task.                  *)
TypeInv ==
  /\ TypeOK
  /\ \A t \in Workers : pc[t] \in WorkerSteps
  /\ \A a \in AlarmTasks : pc[a] \in AlarmSteps

LEMMA KindsOfTasks ==
  /\ Workers \cap AlarmTasks = {}
  /\ WorkerSteps \cap AlarmSteps = {}
  /\ Server \in Workers /\ Monitor \in Workers /\ Devices \subseteq Workers
BY TimersAssumption DEF Workers, WorkerSteps, AlarmSteps, FinishSteps, BeginSteps

LEMMA FreeSlotType == FreeSlot \in Slot
BY DEF FreeSlot, Slot, Stages

(* Goto moves one worker to a worker step and nothing else. *)
LEMMA GotoType ==
  ASSUME TypeInv, NEW t \in Workers, NEW from, NEW to \in WorkerSteps,
         Goto(t, from, to)
  PROVE  /\ pc' \in [Workers \cup AlarmTasks -> WorkerSteps \cup AlarmSteps]
         /\ \A u \in Workers : pc'[u] \in WorkerSteps
         /\ \A a \in AlarmTasks : pc'[a] = pc[a]
BY KindsOfTasks DEF TypeInv, TypeOK, Goto

LEMMA WorkerPcType ==
  ASSUME TypeInv, NEW t \in Workers, NEW to \in WorkerSteps,
         pc' = [pc EXCEPT ![t] = to]
  PROVE  /\ pc' \in [Workers \cup AlarmTasks -> WorkerSteps \cup AlarmSteps]
         /\ \A u \in Workers : pc'[u] \in WorkerSteps
         /\ \A a \in AlarmTasks : pc'[a] = pc[a]
BY KindsOfTasks DEF TypeInv, TypeOK

LEMMA NextStepTypes ==
  ASSUME NEW t \in Workers, NEW b \in BOOLEAN
  PROVE  /\ AfterFinish(t) \in WorkerSteps
         /\ AfterCommand(t, b) \in WorkerSteps
         /\ AfterBegin(t) \in WorkerSteps
BY DEF AfterFinish, AfterCommand, AfterBegin, WorkerSteps, FinishSteps, BeginSteps

-----------------------------------------------------------------------------
(* The effect of each kind of step on what the invariants speak of.  Most  *)
(* steps leave the table alone and keep every alarm task where it was.     *)

Quiet ==
  /\ slots' = slots
  /\ handle' = handle
  /\ TypeInv'
  /\ \A a \in AlarmTasks : pc'[a] = pc[a]

LEMMA FinishQuiet ==
  ASSUME TypeInv, NEW t \in Workers, FinishRinging(t)
  PROVE  Quiet
<1> USE DEF effects, TypeInv, TypeOK, Quiet
<1>0. /\ AfterFinish(t) \in WorkerSteps
      /\ "finish_mode" \in WorkerSteps /\ "finish_state" \in WorkerSteps
  BY DEF AfterFinish, WorkerSteps, FinishSteps
<1>1. CASE FinishCheck(t)
  BY <1>0, <1>1, GotoType DEF FinishCheck
<1>2. CASE FinishMode(t)
  BY <1>0, <1>2, GotoType DEF FinishMode
<1>3. CASE FinishState(t)
  BY <1>0, <1>3, GotoType DEF FinishState
<1> QED BY <1>1, <1>2, <1>3 DEF FinishRinging

LEMMA HandleCheckQuiet ==
  ASSUME TypeInv, NEW t \in Workers, NEW from, NEW create \in WorkerSteps,
         NEW next \in WorkerSteps, AlarmHandleCheck(t, from, create, next)
  PROVE  Quiet
BY GotoType DEF AlarmHandleCheck, effects, TypeInv, TypeOK, Quiet

(* A creation starts a task that was not there and points the handle at    *)
(* it, or leaves no handle.                                                *)
Created ==
  /\ slots' = slots
  /\ TypeInv'
  /\ handle' # None => handle' \in AlarmTasks /\ pc'[handle'] = "loop"

LEMMA AlarmCreateEffect ==
  ASSUME TypeInv, NEW t \in Workers, NEW from, NEW next \in WorkerSteps,
         AlarmCreate(t, from, next)
  PROVE  Created
<1> USE KindsOfTasks DEF effects, TypeInv, TypeOK, Created
<1>1. CASE \E a \in AlarmTasks :
             /\ pc[a] = "none"
             /\ handle' = a
             /\ pc' = [pc EXCEPT ![t] = next, ![a] = "loop"]
  <2>1. PICK a \in AlarmTasks : /\ handle' = a
                                /\ pc' = [pc EXCEPT ![t] = next, ![a] = "loop"]
    BY <1>1
  <2>2. "loop" \in AlarmSteps
    BY DEF AlarmSteps
  <2>3. t # a
    OBVIOUS
  <2> QED BY <2>1, <2>2, <2>3 DEF AlarmCreate
<1>2. CASE handle' = None /\ pc' = [pc EXCEPT ![t] = next]
  BY <1>2, WorkerPcType DEF AlarmCreate
<1> QED BY <1>1, <1>2 DEF AlarmCreate

LEMMA BeginEffect ==
  ASSUME TypeInv, NEW t \in Workers, BeginRinging(t)
  PROVE  Quiet \/ Created
<1>0. /\ AfterBegin(t) \in WorkerSteps
      /\ {"begin_mode", "begin_emit", "begin_task", "begin_create"} \subseteq WorkerSteps
  BY DEF AfterBegin, AfterFinish, WorkerSteps, BeginSteps, FinishSteps
<1>1. CASE BeginMode(t)
  BY <1>0, <1>1, GotoType DEF BeginMode, TypeInv, TypeOK, Quiet
<1>2. CASE BeginEmit(t)
  BY <1>0, <1>2, GotoType DEF BeginEmit, TypeInv, TypeOK, Quiet
<1>3. CASE BeginTask(t)
  BY <1>0, <1>3, HandleCheckQuiet DEF BeginTask
<1>4. CASE BeginCreate(t)
  BY <1>0, <1>4, AlarmCreateEffect DEF BeginCreate
<1> QED BY <1>1, <1>2, <1>3, <1>4 DEF BeginRinging

-----------------------------------------------------------------------------
(* Steps that write the table never give two slots the same id.  They keep *)
(* the handle and the alarm tasks.                                         *)

TableStep ==
  /\ slots' \in [Slots -> Slot]
  /\ UniqueIds'
  /\ handle' = handle
  /\ TypeInv'
  /\ \A a \in AlarmTasks : pc'[a] = pc[a]

(* Rows that are only re-staged or cleared keep ids unique. *)
LEMMA RestageKeepsUnique ==
  ASSUME UniqueIds,
         \A s \in Slots : Active(slots'[s]) =>
            Active(slots[s]) /\ slots'[s].id = slots[s].id
  PROVE  UniqueIds'
BY DEF UniqueIds, ActiveSlots

LEMMA CancelStep ==
  ASSUME TypeInv, UniqueIds, NEW t \in Workers, NEW from, NEW p, Cancel(t, from, p)
  PROVE  TableStep
<1> DEFINE chosen == Selected(p)
<1>1. slots' = [s \in Slots |-> IF s \in chosen THEN FreeSlot ELSE slots[s]]
  BY DEF Cancel
<1>2. slots' \in [Slots -> Slot]
  BY <1>1, FreeSlotType DEF TypeInv, TypeOK
<1>3. UniqueIds'
  BY <1>1, RestageKeepsUnique DEF Active, FreeSlot
<1>4. AfterCommand(t, chosen \cap RingingSlots # {}) \in WorkerSteps
  BY NextStepTypes
<1> QED BY <1>2, <1>3, <1>4, WorkerPcType DEF Cancel, TableStep, TypeInv, TypeOK, effects

LEMMA StartStep ==
  ASSUME TypeInv, UniqueIds, NEW req \in Requests, TimerStart(req)
  PROVE  TableStep
<1> USE KindsOfTasks DEF effects
<1>0. req \in Request
  BY TimersAssumption
<1>1. CASE UNCHANGED <<slots, pc>>
  BY <1>1 DEF TimerStart, TableStep, TypeInv, TypeOK, UniqueIds, ActiveSlots
<1>2. CASE \E s \in StartTarget(req.id) :
             /\ slots' = [slots EXCEPT ![s] =
                  [id |-> req.id, duration |-> req.duration, stage |-> "armed",
                   name |-> IF req.name # None THEN req.name ELSE slots[s].name]]
             /\ pc' = [pc EXCEPT ![Server] = AfterCommand(Server, Ringing(slots[s]))]
  <2>1. PICK s \in StartTarget(req.id) :
             /\ slots' = [slots EXCEPT ![s] =
                  [id |-> req.id, duration |-> req.duration, stage |-> "armed",
                   name |-> IF req.name # None THEN req.name ELSE slots[s].name]]
             /\ pc' = [pc EXCEPT ![Server] = AfterCommand(Server, Ringing(slots[s]))]
    BY <1>2
  <2>2. s \in Slots
    BY DEF StartTarget, Holding, LowestFree
  <2>3. slots' \in [Slots -> Slot]
    BY <1>0, <2>1, <2>2 DEF TypeInv, TypeOK, Slot, Request, Stages
  <2>4. slots'[s].id = req.id /\ \A r \in Slots \ {s} : slots'[r] = slots[r]
    BY <2>1, <2>2 DEF TypeInv, TypeOK
  <2>5. \A r \in Slots \ {s} : ~(Active(slots[r]) /\ slots[r].id = req.id)
    <3>1. CASE Holding(req.id) = {}
      BY <3>1 DEF Holding
    <3>2. CASE Holding(req.id) # {}
      <4>1. s \in Holding(req.id)
        BY <3>2 DEF StartTarget
      <4> QED BY <4>1 DEF Holding, UniqueIds, ActiveSlots
    <3> QED BY <3>1, <3>2
  <2>6. UniqueIds'
    BY <2>4, <2>5 DEF UniqueIds, ActiveSlots
  <2>7. AfterCommand(Server, Ringing(slots[s])) \in WorkerSteps
    BY NextStepTypes DEF Ringing
  <2> QED BY <2>1, <2>3, <2>6, <2>7, WorkerPcType DEF TimerStart, TableStep, TypeInv, TypeOK
<1> QED BY <1>1, <1>2 DEF TimerStart

LEMMA SnoozeStep ==
  ASSUME TypeInv, UniqueIds, NEW p \in Payloads, NEW d \in Durations, TimerSnooze(p, d)
  PROVE  TableStep
<1> USE KindsOfTasks DEF effects
<1> DEFINE chosen == Selected(p)
<1>1. slots' = [s \in Slots |->
        IF s \in chosen THEN [slots[s] EXCEPT !.stage = "armed", !.duration = d]
        ELSE slots[s]]
  BY DEF TimerSnooze
<1>2. chosen \subseteq ActiveSlots
  BY DEF Selected, Matches, ActiveSlots, RingingSlots, Ringing, Active
<1>3. slots' \in [Slots -> Slot]
  BY <1>1 DEF TypeInv, TypeOK, Slot, Stages
<1>4. UniqueIds'
  BY <1>1, <1>2, RestageKeepsUnique DEF Active, ActiveSlots, TypeInv, TypeOK, Slot
<1>5. AfterCommand(Server, chosen \cap RingingSlots # {}) \in WorkerSteps
  BY NextStepTypes
<1> QED BY <1>3, <1>4, <1>5, WorkerPcType DEF TimerSnooze, TableStep, TypeInv, TypeOK

LEMMA AlarmCommandStep ==
  ASSUME TypeInv, UniqueIds, NEW p \in Payloads, TimerAlarm(p)
  PROVE  TableStep
<1> USE KindsOfTasks DEF effects
<1> DEFINE chosen == Selected(p)
<1>1. slots' = [s \in Slots |->
        IF s \in chosen THEN [slots[s] EXCEPT !.stage = "ringing"] ELSE slots[s]]
  BY DEF TimerAlarm
<1>2. chosen \subseteq ActiveSlots
  BY DEF Selected, Matches, ActiveSlots, RingingSlots, Ringing, Active
<1>3. slots' \in [Slots -> Slot]
  BY <1>1 DEF TypeInv, TypeOK, Slot, Stages
<1>4. UniqueIds'
  BY <1>1, <1>2, RestageKeepsUnique DEF Active, ActiveSlots, TypeInv, TypeOK, Slot
<1>5. "idle" \in WorkerSteps /\ "begin_mode" \in WorkerSteps
  BY DEF WorkerSteps, BeginSteps
<1> QED BY <1>3, <1>4, <1>5, WorkerPcType DEF TimerAlarm, TableStep, TypeInv, TypeOK

LEMMA ScanStep ==
  ASSUME TypeInv, UniqueIds, NEW expired \in SUBSET (ActiveSlots \ RingingSlots),
         NEW cutOff \in SUBSET RingingSlots, MonitorScan(expired, cutOff)
  PROVE  TableStep
<1> USE KindsOfTasks DEF effects
<1>1. slots' = [s \in Slots |->
        IF s \in expired THEN [slots[s] EXCEPT !.stage = "ringing"]
        ELSE IF s \in cutOff THEN FreeSlot ELSE slots[s]]
  BY DEF MonitorScan
<1>2. slots' \in [Slots -> Slot]
  BY <1>1, FreeSlotType DEF TypeInv, TypeOK, Slot, Stages
<1>3. UniqueIds'
  BY <1>1, RestageKeepsUnique DEF Active, ActiveSlots, FreeSlot, TypeInv, TypeOK, Slot
<1>4. AfterCommand(Monitor, cutOff # {}) \in WorkerSteps /\ "begin_mode" \in WorkerSteps
  BY NextStepTypes DEF WorkerSteps, BeginSteps
<1> QED BY <1>2, <1>3, <1>4, WorkerPcType DEF MonitorScan, TableStep, TypeInv, TypeOK

-----------------------------------------------------------------------------

(* The inductive invariant: types, unique ids and a live handle.  HandleLive *)
(* needs the types (a handle names an alarm task, not a worker); the ids    *)
(* need nothing from it, but share the case analysis.                       *)
IInv == TypeInv /\ UniqueIds /\ HandleLive

LEMMA QuietKeeps == ASSUME IInv, Quiet PROVE IInv'
BY KindsOfTasks DEF IInv, Quiet, UniqueIds, ActiveSlots, Active, HandleLive, TypeInv, TypeOK

LEMMA CreatedKeeps == ASSUME IInv, Created PROVE IInv'
BY DEF IInv, Created, UniqueIds, ActiveSlots, Active, HandleLive

LEMMA TableStepKeeps == ASSUME IInv, TableStep PROVE IInv'
BY DEF IInv, TableStep, HandleLive, TypeInv, TypeOK

LEMMA AlarmKeeps == ASSUME IInv, NEW a \in AlarmTasks, Alarm(a) PROVE IInv'
<1> USE KindsOfTasks DEF effects, Goto, IInv, TypeInv, TypeOK
<1>0. {"none", "loop", "emit", "exit"} = AlarmSteps
  BY DEF AlarmSteps
<1>1. CASE AlarmLoop(a)
  BY <1>0, <1>1 DEF AlarmLoop, UniqueIds, ActiveSlots, HandleLive
<1>2. CASE AlarmEmit(a)
  BY <1>0, <1>2 DEF AlarmEmit, UniqueIds, ActiveSlots, HandleLive
<1>3. CASE AlarmExit(a)
  BY <1>0, <1>3 DEF AlarmExit, UniqueIds, ActiveSlots, HandleLive
<1> QED BY <1>1, <1>2, <1>3 DEF Alarm

LEMMA InitEstablishes == Init => IInv
<1> SUFFICES ASSUME Init PROVE IInv
  OBVIOUS
<1>1. "idle" \in WorkerSteps /\ "none" \in AlarmSteps
  BY DEF WorkerSteps, AlarmSteps
<1>2. TypeInv
  BY <1>1, KindsOfTasks, FreeSlotType DEF Init, TypeInv, TypeOK
<1>3. ActiveSlots = {}
  BY DEF Init, ActiveSlots, Active, FreeSlot
<1> QED BY <1>2, <1>3 DEF Init, IInv, UniqueIds, HandleLive

LEMMA NextPreserves == IInv /\ [Next]_vars => IInv'
<1> SUFFICES ASSUME IInv, [Next]_vars PROVE IInv'
  OBVIOUS
<1> USE KindsOfTasks
<1>0. TypeInv /\ UniqueIds
  BY DEF IInv
<1>1. CASE Command
  BY <1>0, <1>1, StartStep, CancelStep, AlarmCommandStep, SnoozeStep, TableStepKeeps
     DEF Command, TimerCancel
<1>2. CASE ServerStep
  BY <1>0, <1>2, BeginEffect, FinishQuiet, QuietKeeps, CreatedKeeps DEF ServerStep
<1>3. CASE MonitorStep
  <2>1. CASE BeginRinging(Monitor) \/ FinishRinging(Monitor)
    BY <1>0, <2>1, BeginEffect, FinishQuiet, QuietKeeps, CreatedKeeps
  <2>2. CASE \E expired \in SUBSET (ActiveSlots \ RingingSlots) :
               \E cutOff \in SUBSET RingingSlots : MonitorScan(expired, cutOff)
    BY <1>0, <2>2, ScanStep, TableStepKeeps
  <2>3. CASE MonitorRecheck
    <3>1. {"idle", "recover_task", "recover_create"} \subseteq WorkerSteps
      BY DEF WorkerSteps
    <3>2. Quiet
      BY <1>0, <2>3, <3>1, GotoType DEF MonitorRecheck, Quiet, TypeInv, TypeOK, effects
    <3> QED BY <3>2, QuietKeeps
  <2>4. CASE RecoverTask
    <3>1. {"idle", "recover_task", "recover_create"} \subseteq WorkerSteps
      BY DEF WorkerSteps
    <3> QED BY <1>0, <2>4, <3>1, HandleCheckQuiet, QuietKeeps DEF RecoverTask
  <2>5. CASE RecoverCreate
    <3>1. "idle" \in WorkerSteps
      BY DEF WorkerSteps
    <3> QED BY <1>0, <2>5, <3>1, AlarmCreateEffect, CreatedKeeps DEF RecoverCreate
  <2> QED BY <1>3, <2>1, <2>2, <2>3, <2>4, <2>5 DEF MonitorStep
<1>4. ASSUME NEW d \in Devices, DeviceStop(d)
      PROVE  IInv'
  <2>1. "cancel" \in WorkerSteps
    BY DEF WorkerSteps
  <2>2. Quiet
    BY <1>0, <1>4, <2>1, GotoType DEF DeviceStop, Quiet, TypeInv, TypeOK, effects
  <2> QED BY <2>2, QuietKeeps
<1>5. ASSUME NEW d \in Devices, DeviceStep(d)
      PROVE  IInv'
  BY <1>0, <1>5, CancelStep, TableStepKeeps, FinishQuiet, QuietKeeps
     DEF DeviceStep, DeviceCancel
<1>6. ASSUME NEW a \in AlarmTasks, Alarm(a)
      PROVE  IInv'
  BY <1>6, AlarmKeeps
<1>7. CASE OtherState
  BY <1>7 DEF OtherState, IInv, TypeInv, TypeOK, UniqueIds, ActiveSlots, HandleLive
<1>8. CASE UNCHANGED vars
  BY <1>8 DEF vars, IInv, TypeInv, TypeOK, UniqueIds, ActiveSlots, HandleLive
<1> QED BY <1>1, <1>2, <1>3, <1>4, <1>5, <1>6, <1>7, <1>8 DEF Next

LEMMA Invariance == Spec => []IInv
BY InitEstablishes, NextPreserves, PTL DEF Spec

(* s_timers, the handle and every task's position keep their types. *)
THEOREM TypeCorrect == Spec => []TypeOK
<1>1. IInv => TypeOK
  BY DEF IInv, TypeInv
<1> QED BY <1>1, Invariance, PTL

(* timer_start_from_payload never lets one id name two timers. *)
THEOREM IdsStayUnique == Spec => []UniqueIds
<1>1. IInv => UniqueIds
  BY DEF IInv
<1> QED BY <1>1, Invariance, PTL

(* s_timer_alarm_task never names an alarm task that has ended. *)
THEOREM HandleStaysLive == Spec => []HandleLive
<1>1. IInv => HandleLive
  BY DEF IInv
<1> QED BY <1>1, Invariance, PTL

-----------------------------------------------------------------------------
(* VoiceSession: what a buffer of frames may hold.                         *)

(* The marks of a buffer rise; those of one come before those of another;  *)
(* and they lie above the mark heard last, and no higher than the latest.  *)
Rising(fs) ==
  \A i, j \in 1..Len(fs) :
    i < j /\ fs[i].mark # 0 /\ fs[j].mark # 0 => fs[i].mark < fs[j].mark

Before(fs, gs) ==
  \A i \in 1..Len(fs), j \in 1..Len(gs) :
    fs[i].mark # 0 /\ gs[j].mark # 0 => fs[i].mark < gs[j].mark

Within(fs, low, high) ==
  \A i \in 1..Len(fs) : fs[i].mark # 0 => low < fs[i].mark /\ fs[i].mark <= high

(* The way of a frame: from the microphone's hand through the preroll and  *)
(* the queue to the sender's chunk. *)
InLine(c, q, p, h, low, high) ==
  /\ Rising(q) /\ Rising(p)
  /\ Before(c, q) /\ Before(c, p) /\ Before(c, h)
  /\ Before(q, p) /\ Before(q, h) /\ Before(p, h)
  /\ Within(c, low, high) /\ Within(q, low, high) /\ Within(p, low, high)
  /\ Within(h, low, high)

Old(fs) == \E i \in 1..Len(fs) : fs[i].old
OneOld(fs) == \A i, j \in 1..Len(fs) : fs[i].old /\ fs[j].old => i = j

(* One old frame at most has not yet left the queue. *)
FewOld(c, q, p, h, sent) ==
  /\ OneOld(q) /\ OneOld(p)
  /\ ~(Old(q) /\ Old(p)) /\ ~(Old(q) /\ Old(h)) /\ ~(Old(p) /\ Old(h))
  /\ sent + (IF Old(c) THEN 1 ELSE 0) + (IF Old(q) \/ Old(p) \/ Old(h) THEN 1 ELSE 0) <= 2

OnLine(c, q, p, h, low, high, sent) ==
  InLine(c, q, p, h, low, high) /\ FewOld(c, q, p, h, sent)

(* VoiceTypeOK without its bounds, which nothing here rests on. *)
VoiceTypes ==
  /\ preroll \in Seq(Frame) /\ queue \in Seq(Frame)
  /\ chunk \in Seq(Frame) /\ hand \in Seq(Frame)
  /\ marks \in 0..2 /\ heard \in 0..3 /\ oldSent \in Nat
  /\ active \in BOOLEAN /\ pending \in BOOLEAN
  /\ where \in [Tasks -> VoiceSteps]

(* What each audio task has in hand where it stands.  The microphone only  *)
(* goes to the queue when nothing is held back: so its frame overtakes     *)
(* none.                                                                   *)
Hands ==
  /\ where[Mic] \in {"idle", "lock", "put"}
  /\ where[Mic] = "idle" => hand = <<>>
  /\ Len(hand) <= 1
  /\ where[Mic] = "put" => preroll = <<>>
  /\ where[Tx] \in {"idle", "check", "send", "lost", "queue"}
  /\ where[Tx] \in {"check", "send"} => Len(chunk) = 1
  /\ where[Tx] \notin {"check", "send"} => chunk = <<>>

(* Audio is held back for a session that waits for its answer only. *)
Gate ==
  /\ preroll # <<>> => pending
  /\ pending => active

(* The inductive invariant: the frames on their way, wherever they are,    *)
(* are in order, above what was heard, and old ones are at most two with   *)
(* those sent.                                                             *)
VoiceInv ==
  /\ VoiceTypes /\ Hands /\ Gate
  /\ heard # 3 /\ heard <= marks
  /\ OnLine(chunk, queue, preroll, hand, heard, marks, oldSent)


-----------------------------------------------------------------------------
(* Buffers.                                                                *)

LEMMA NewestIsSuffix ==
  ASSUME NEW fs \in Seq(Frame), NEW n \in Nat
  PROVE  /\ Newest(fs, n) \in Seq(Frame)
         /\ Len(Newest(fs, n)) <= Len(fs)
         /\ \A i \in 1..Len(Newest(fs, n)) :
              /\ i + Len(fs) - Len(Newest(fs, n)) \in 1..Len(fs)
              /\ Newest(fs, n)[i] = fs[i + Len(fs) - Len(Newest(fs, n))]
<1>1. CASE Len(fs) <= n
  <2>1. Newest(fs, n) = fs
    BY <1>1 DEF Newest
  <2> QED
    BY <2>1
<1>2. CASE Len(fs) > n
  <2>1. Newest(fs, n) = SubSeq(fs, Len(fs) - n + 1, Len(fs))
    BY <1>2 DEF Newest
  <2>2. \A i \in Len(fs) - n + 1 .. Len(fs) : fs[i] \in Frame
    BY <1>2
  <2>3. /\ Newest(fs, n) \in Seq(Frame)
        /\ Len(Newest(fs, n)) = n
        /\ \A i \in 1..n : Newest(fs, n)[i] = fs[Len(fs) - n + i]
    BY <1>2, <2>1, <2>2, SubSeqProperties
  <2> QED
    BY <1>2, <2>3
<1> QED
  BY <1>1, <1>2

(* Of a slice holds what held of the whole. *)
LEMMA SliceKeeps ==
  ASSUME NEW fs \in Seq(Frame), NEW ns \in Seq(Frame), NEW k \in Nat,
         Len(ns) + k <= Len(fs), \A i \in 1..Len(ns) : ns[i] = fs[i + k]
  PROVE  /\ Rising(fs) => Rising(ns)
         /\ \A gs : Before(fs, gs) => Before(ns, gs)
         /\ \A gs : Before(gs, fs) => Before(gs, ns)
         /\ \A low, high : Within(fs, low, high) => Within(ns, low, high)
         /\ Old(ns) => Old(fs)
         /\ OneOld(fs) => OneOld(ns)
<1>0. /\ Len(fs) \in Nat /\ Len(ns) \in Nat
      /\ \A i \in 1..Len(ns) : i + k \in 1..Len(fs) /\ ns[i] = fs[i + k]
  OBVIOUS
<1>1. ASSUME Rising(fs) PROVE Rising(ns)
  <2> SUFFICES ASSUME NEW i \in 1..Len(ns), NEW j \in 1..Len(ns),
                      i < j, ns[i].mark # 0, ns[j].mark # 0
               PROVE  ns[i].mark < ns[j].mark
    BY DEF Rising
  <2>1. /\ i + k \in 1..Len(fs) /\ j + k \in 1..Len(fs) /\ i + k < j + k
        /\ ns[i] = fs[i + k] /\ ns[j] = fs[j + k]
    BY <1>0
  <2> QED
    BY <1>1, <2>1 DEF Rising
<1>2. ASSUME NEW gs, Before(fs, gs) PROVE Before(ns, gs)
  <2> SUFFICES ASSUME NEW i \in 1..Len(ns), NEW j \in 1..Len(gs),
                      ns[i].mark # 0, gs[j].mark # 0
               PROVE  ns[i].mark < gs[j].mark
    BY DEF Before
  <2>1. i + k \in 1..Len(fs) /\ ns[i] = fs[i + k]
    BY <1>0
  <2> QED
    BY <1>2, <2>1 DEF Before
<1>3. ASSUME NEW gs, Before(gs, fs) PROVE Before(gs, ns)
  <2> SUFFICES ASSUME NEW i \in 1..Len(gs), NEW j \in 1..Len(ns),
                      gs[i].mark # 0, ns[j].mark # 0
               PROVE  gs[i].mark < ns[j].mark
    BY DEF Before
  <2>1. j + k \in 1..Len(fs) /\ ns[j] = fs[j + k]
    BY <1>0
  <2> QED
    BY <1>3, <2>1 DEF Before
<1>4. ASSUME NEW low, NEW high, Within(fs, low, high) PROVE Within(ns, low, high)
  <2> SUFFICES ASSUME NEW i \in 1..Len(ns), ns[i].mark # 0
               PROVE  low < ns[i].mark /\ ns[i].mark <= high
    BY DEF Within
  <2>1. i + k \in 1..Len(fs) /\ ns[i] = fs[i + k]
    BY <1>0
  <2> QED
    BY <1>4, <2>1 DEF Within
<1>5. Old(ns) => Old(fs)
  <2> SUFFICES ASSUME NEW i \in 1..Len(ns), ns[i].old PROVE Old(fs)
    BY DEF Old
  <2>1. i + k \in 1..Len(fs) /\ ns[i] = fs[i + k]
    BY <1>0
  <2> QED
    BY <2>1 DEF Old
<1>6. ASSUME OneOld(fs) PROVE OneOld(ns)
  <2> SUFFICES ASSUME NEW i \in 1..Len(ns), NEW j \in 1..Len(ns), ns[i].old, ns[j].old
               PROVE  i = j
    BY DEF OneOld
  <2>1. /\ i + k \in 1..Len(fs) /\ j + k \in 1..Len(fs)
        /\ ns[i] = fs[i + k] /\ ns[j] = fs[j + k]
    BY <1>0
  <2>2. i + k = j + k
    BY <1>6, <2>1 DEF OneOld
  <2> QED
    BY <2>2
<1> QED
  BY <1>1, <1>2, <1>3, <1>4, <1>5, <1>6

LEMMA NewestKeeps ==
  ASSUME NEW fs \in Seq(Frame), NEW n \in Nat
  PROVE  /\ Newest(fs, n) \in Seq(Frame)
         /\ Rising(fs) => Rising(Newest(fs, n))
         /\ \A gs : Before(fs, gs) => Before(Newest(fs, n), gs)
         /\ \A gs : Before(gs, fs) => Before(gs, Newest(fs, n))
         /\ \A low, high : Within(fs, low, high) => Within(Newest(fs, n), low, high)
         /\ Old(Newest(fs, n)) => Old(fs)
         /\ OneOld(fs) => OneOld(Newest(fs, n))
<1> DEFINE ns == Newest(fs, n)
           k  == Len(fs) - Len(ns)
<1>0. /\ ns \in Seq(Frame) /\ Len(ns) <= Len(fs)
      /\ \A i \in 1..Len(ns) : ns[i] = fs[i + Len(fs) - Len(ns)]
  BY NewestIsSuffix
<1> HIDE DEF ns
<1>1. Len(fs) \in Nat /\ Len(ns) \in Nat
  BY <1>0
<1>2. k \in Nat /\ Len(ns) + k <= Len(fs)
  BY <1>0, <1>1
<1>3. \A i \in 1..Len(ns) : ns[i] = fs[i + k]
  <2> TAKE i \in 1..Len(ns)
  <2>1. i + Len(fs) - Len(ns) = i + k
    BY <1>1
  <2> QED
    BY <1>0, <2>1
<1> HIDE DEF k
<1>4. /\ Rising(fs) => Rising(ns)
      /\ \A gs : Before(fs, gs) => Before(ns, gs)
      /\ \A gs : Before(gs, fs) => Before(gs, ns)
      /\ \A low, high : Within(fs, low, high) => Within(ns, low, high)
      /\ Old(ns) => Old(fs)
      /\ OneOld(fs) => OneOld(ns)
  BY <1>0, <1>2, <1>3, SliceKeeps
<1> QED
  BY <1>0, <1>4 DEF ns

LEMMA AppendedKeeps ==
  ASSUME NEW fs \in Seq(Frame), NEW gs \in Seq(Frame)
  PROVE  /\ fs \o gs \in Seq(Frame)
         /\ Rising(fs) /\ Rising(gs) /\ Before(fs, gs) => Rising(fs \o gs)
         /\ \A es : Before(fs, es) /\ Before(gs, es) => Before(fs \o gs, es)
         /\ \A es : Before(es, fs) /\ Before(es, gs) => Before(es, fs \o gs)
         /\ \A low, high :
              Within(fs, low, high) /\ Within(gs, low, high) => Within(fs \o gs, low, high)
         /\ Old(fs \o gs) => Old(fs) \/ Old(gs)
         /\ OneOld(fs) /\ OneOld(gs) /\ ~(Old(fs) /\ Old(gs)) => OneOld(fs \o gs)
<1> DEFINE all == fs \o gs
<1>0. /\ all \in Seq(Frame) /\ Len(all) \in Nat /\ Len(fs) \in Nat
      /\ \A i \in 1..Len(all) : i <= Len(fs) => i \in 1..Len(fs) /\ all[i] = fs[i]
      /\ \A i \in 1..Len(all) : i > Len(fs) =>
           i - Len(fs) \in 1..Len(gs) /\ all[i] = gs[i - Len(fs)]
  BY ConcatProperties
<1> HIDE DEF all
<1>7. ASSUME NEW i \in 1..Len(all)
      PROVE  \/ i \in 1..Len(fs) /\ all[i] = fs[i]
             \/ i - Len(fs) \in 1..Len(gs) /\ all[i] = gs[i - Len(fs)]
  <2>1. i <= Len(fs) \/ i > Len(fs)
    BY <1>0
  <2> QED
    BY <1>0, <2>1
<1>1. ASSUME Rising(fs), Rising(gs), Before(fs, gs) PROVE Rising(all)
  <2> SUFFICES ASSUME NEW i \in 1..Len(all), NEW j \in 1..Len(all),
                      i < j, all[i].mark # 0, all[j].mark # 0
               PROVE  all[i].mark < all[j].mark
    BY DEF Rising
  <2>1. CASE j <= Len(fs)
    <3>1. i \in 1..Len(fs) /\ j \in 1..Len(fs) /\ all[i] = fs[i] /\ all[j] = fs[j]
      BY <1>0, <2>1
    <3> QED
      BY <1>1, <3>1 DEF Rising
  <2>2. CASE i > Len(fs)
    <3>1. /\ i - Len(fs) \in 1..Len(gs) /\ j - Len(fs) \in 1..Len(gs)
          /\ i - Len(fs) < j - Len(fs)
          /\ all[i] = gs[i - Len(fs)] /\ all[j] = gs[j - Len(fs)]
      BY <1>0, <2>2
    <3> QED
      BY <1>1, <3>1 DEF Rising
  <2>3. CASE i <= Len(fs) /\ j > Len(fs)
    <3>1. /\ i \in 1..Len(fs) /\ j - Len(fs) \in 1..Len(gs)
          /\ all[i] = fs[i] /\ all[j] = gs[j - Len(fs)]
      BY <1>0, <2>3
    <3> QED
      BY <1>1, <3>1 DEF Before
  <2> QED
    BY <1>0, <2>1, <2>2, <2>3
<1>2. ASSUME NEW es, Before(fs, es), Before(gs, es) PROVE Before(all, es)
  <2> SUFFICES ASSUME NEW i \in 1..Len(all), NEW j \in 1..Len(es),
                      all[i].mark # 0, es[j].mark # 0
               PROVE  all[i].mark < es[j].mark
    BY DEF Before
  <2>1. \/ i \in 1..Len(fs) /\ all[i] = fs[i]
        \/ i - Len(fs) \in 1..Len(gs) /\ all[i] = gs[i - Len(fs)]
    BY <1>7
  <2> QED
    BY <1>2, <2>1 DEF Before
<1>3. ASSUME NEW es, Before(es, fs), Before(es, gs) PROVE Before(es, all)
  <2> SUFFICES ASSUME NEW i \in 1..Len(es), NEW j \in 1..Len(all),
                      es[i].mark # 0, all[j].mark # 0
               PROVE  es[i].mark < all[j].mark
    BY DEF Before
  <2>1. \/ j \in 1..Len(fs) /\ all[j] = fs[j]
        \/ j - Len(fs) \in 1..Len(gs) /\ all[j] = gs[j - Len(fs)]
    BY <1>7
  <2> QED
    BY <1>3, <2>1 DEF Before
<1>4. ASSUME NEW low, NEW high, Within(fs, low, high), Within(gs, low, high)
      PROVE  Within(all, low, high)
  <2> SUFFICES ASSUME NEW i \in 1..Len(all), all[i].mark # 0
               PROVE  low < all[i].mark /\ all[i].mark <= high
    BY DEF Within
  <2>1. \/ i \in 1..Len(fs) /\ all[i] = fs[i]
        \/ i - Len(fs) \in 1..Len(gs) /\ all[i] = gs[i - Len(fs)]
    BY <1>7
  <2> QED
    BY <1>4, <2>1 DEF Within
<1>5. Old(all) => Old(fs) \/ Old(gs)
  <2> SUFFICES ASSUME NEW i \in 1..Len(all), all[i].old PROVE Old(fs) \/ Old(gs)
    BY DEF Old
  <2>1. \/ i \in 1..Len(fs) /\ all[i] = fs[i]
        \/ i - Len(fs) \in 1..Len(gs) /\ all[i] = gs[i - Len(fs)]
    BY <1>7
  <2> QED
    BY <2>1 DEF Old
<1>6. ASSUME OneOld(fs), OneOld(gs), ~(Old(fs) /\ Old(gs)) PROVE OneOld(all)
  <2> SUFFICES ASSUME NEW i \in 1..Len(all), NEW j \in 1..Len(all),
                      all[i].old, all[j].old
               PROVE  i = j
    BY DEF OneOld
  <2>1. \/ i \in 1..Len(fs) /\ all[i] = fs[i] /\ Old(fs)
        \/ i - Len(fs) \in 1..Len(gs) /\ all[i] = gs[i - Len(fs)] /\ Old(gs)
    BY <1>7 DEF Old
  <2>2. \/ j \in 1..Len(fs) /\ all[j] = fs[j] /\ Old(fs)
        \/ j - Len(fs) \in 1..Len(gs) /\ all[j] = gs[j - Len(fs)] /\ Old(gs)
    BY <1>7 DEF Old
  <2>3. i = j \/ i - Len(fs) = j - Len(fs)
    BY <1>6, <2>1, <2>2 DEF OneOld
  <2> QED
    BY <1>0, <2>3
<1> QED
  BY <1>0, <1>1, <1>2, <1>3, <1>4, <1>5, <1>6 DEF all

(* Nothing is wrong with an empty buffer. *)
LEMMA EmptyKeeps ==
         /\ <<>> \in Seq(Frame) /\ Len(<<>>) = 0 /\ Rising(<<>>)
         /\ \A fs : Before(<<>>, fs) /\ Before(fs, <<>>)
         /\ \A low, high : Within(<<>>, low, high)
         /\ ~Old(<<>>) /\ OneOld(<<>>)
BY DEF Rising, Before, Within, Old, OneOld

(* What TxPop makes of chunk and queue. *)
LEMMA PoppedKeeps ==
  ASSUME NEW fs \in Seq(Frame), fs # <<>>
  PROVE  /\ <<Head(fs)>> \in Seq(Frame) /\ Len(<<Head(fs)>>) = 1 /\ Tail(fs) \in Seq(Frame)
         /\ Rising(fs) => Rising(Tail(fs)) /\ Before(<<Head(fs)>>, Tail(fs))
         /\ \A es : Before(fs, es) => Before(<<Head(fs)>>, es) /\ Before(Tail(fs), es)
         /\ \A low, high : Within(fs, low, high) =>
              Within(<<Head(fs)>>, low, high) /\ Within(Tail(fs), low, high)
         /\ Old(<<Head(fs)>>) \/ Old(Tail(fs)) => Old(fs)
         /\ OneOld(fs) => OneOld(Tail(fs)) /\ ~(Old(<<Head(fs)>>) /\ Old(Tail(fs)))
<1> DEFINE hs == <<Head(fs)>>
           ts == Tail(fs)
<1>0. /\ hs \in Seq(Frame) /\ Len(hs) = 1 /\ hs[1] = fs[1]
      /\ ts \in Seq(Frame) /\ Len(fs) \in Nat \ {0} /\ Len(ts) = Len(fs) - 1
      /\ \A i \in 1..Len(ts) : ts[i] = fs[i + 1]
      /\ 1 \in 1..Len(fs)
  BY HeadTailProperties, EmptySeq
<1> HIDE DEF hs, ts
<1>1. /\ Rising(fs) => Rising(ts)
      /\ \A es : Before(fs, es) => Before(ts, es)
      /\ \A low, high : Within(fs, low, high) => Within(ts, low, high)
      /\ Old(ts) => Old(fs)
      /\ OneOld(fs) => OneOld(ts)
  <2>1. Len(ts) + 1 <= Len(fs)
    BY <1>0
  <2> QED
    BY <1>0, <2>1, SliceKeeps
<1>2. \A i \in 1..Len(hs) : i = 1 /\ hs[i] = fs[1]
  BY <1>0
<1>3. \A j \in 1..Len(ts) : j + 1 \in 1..Len(fs) /\ 1 < j + 1 /\ ts[j] = fs[j + 1]
  BY <1>0
<1>4. ASSUME Rising(fs) PROVE Before(hs, ts)
  <2> SUFFICES ASSUME NEW i \in 1..Len(hs), NEW j \in 1..Len(ts),
                      hs[i].mark # 0, ts[j].mark # 0
               PROVE  hs[i].mark < ts[j].mark
    BY DEF Before
  <2>1. /\ hs[i] = fs[1] /\ ts[j] = fs[j + 1]
        /\ j + 1 \in 1..Len(fs) /\ 1 \in 1..Len(fs) /\ 1 < j + 1
    BY <1>0, <1>2, <1>3
  <2> QED
    BY <1>4, <2>1 DEF Rising
<1>5. \A es : Before(fs, es) => Before(hs, es)
  BY <1>0, <1>2 DEF Before
<1>6. \A low, high : Within(fs, low, high) => Within(hs, low, high)
  BY <1>0, <1>2 DEF Within
<1>7. Old(hs) => Old(fs)
  BY <1>0, <1>2 DEF Old
<1>8. ASSUME OneOld(fs), Old(hs), Old(ts) PROVE FALSE
  <2>1. fs[1].old
    BY <1>2, <1>8 DEF Old
  <2>2. PICK j \in 1..Len(ts) : ts[j].old
    BY <1>8 DEF Old
  <2>3. j + 1 \in 1..Len(fs) /\ fs[j + 1].old /\ 1 < j + 1
    BY <1>3, <2>2
  <2>4. j + 1 = 1
    BY <1>0, <1>8, <2>1, <2>3 DEF OneOld
  <2> QED
    BY <2>3, <2>4
<1> QED
  BY <1>0, <1>1, <1>4, <1>5, <1>6, <1>7, <1>8 DEF hs, ts

(* Frames grow old where they are. *)
LEMMA AgedKeeps ==
  ASSUME NEW fs \in Seq(Frame), Len(fs) <= 1
  PROVE  /\ Aged(fs) \in Seq(Frame) /\ Len(Aged(fs)) = Len(fs) /\ (fs = <<>> => Aged(fs) = <<>>)
         /\ \A es : Before(fs, es) => Before(Aged(fs), es)
         /\ \A es : Before(es, fs) => Before(es, Aged(fs))
         /\ \A low, high : Within(fs, low, high) => Within(Aged(fs), low, high)
         /\ OneOld(Aged(fs))
<1> DEFINE as == Aged(fs)
<1>0. /\ as \in Seq(Frame) /\ Len(as) = Len(fs) /\ (fs = <<>> => as = <<>>)
      /\ \A i \in 1..Len(as) : as[i].mark = fs[i].mark
  <2> DEFINE b == MaxMarks > 0
  <2>1. b \in BOOLEAN
    OBVIOUS
  <2>2. as = [i \in 1..Len(fs) |-> [fs[i] EXCEPT !.old = b]]
    BY DEF Aged
  <2> HIDE DEF b
  <2>3. \A i \in 1..Len(fs) : fs[i] \in Frame
    OBVIOUS
  <2>4. \A i \in 1..Len(fs) : [fs[i] EXCEPT !.old = b] \in Frame
                           /\ [fs[i] EXCEPT !.old = b].mark = fs[i].mark
    BY <2>1, <2>3 DEF Frame
  <2>5. as \in Seq(Frame) /\ Len(as) = Len(fs)
    BY <2>2, <2>4
  <2> QED
    BY <2>2, <2>4, <2>5
<1> HIDE DEF as
<1>1. \A es : Before(fs, es) => Before(as, es)
  BY <1>0 DEF Before
<1>2. \A es : Before(es, fs) => Before(es, as)
  BY <1>0 DEF Before
<1>3. \A low, high : Within(fs, low, high) => Within(as, low, high)
  BY <1>0 DEF Within
<1>4. OneOld(as)
  BY <1>0 DEF OneOld
<1> QED
  BY <1>0, <1>1, <1>2, <1>3, <1>4 DEF as

LEMMA FramesAre ==
  ASSUME NEW fs \in Seq(Frame), NEW i \in 1..Len(fs)
  PROVE  fs[i] \in Frame /\ fs[i].mark \in 0..2
<1>1. fs[i] \in Frame
  OBVIOUS
<1> QED
  BY <1>1 DEF Frame

LEMMA OneIsRising ==
  ASSUME NEW fs \in Seq(Frame), Len(fs) <= 1
  PROVE  Rising(fs) /\ OneOld(fs)
BY DEF Rising, OneOld

-----------------------------------------------------------------------------
(* The line of frames, as the steps change it.                             *)

LEMMA DropLine ==
  ASSUME NEW c \in Seq(Frame), NEW q \in Seq(Frame), NEW p \in Seq(Frame),
         NEW h \in Seq(Frame), NEW low, NEW high, NEW sent \in Nat,
         OnLine(c, q, p, h, low, high, sent),
         NEW c2, c2 = c \/ c2 = <<>>, NEW q2, q2 = q \/ q2 = <<>>,
         NEW p2, p2 = p \/ p2 = <<>>, NEW h2, h2 = h \/ h2 = <<>>
  PROVE  /\ c2 \in Seq(Frame) /\ q2 \in Seq(Frame) /\ p2 \in Seq(Frame) /\ h2 \in Seq(Frame)
         /\ OnLine(c2, q2, p2, h2, low, high, sent)
<1>1. OnLine(c2, q, p, h, low, high, sent)
  BY EmptyKeeps DEF OnLine, InLine, FewOld
<1>2. OnLine(c2, q2, p, h, low, high, sent)
  BY <1>1, EmptyKeeps DEF OnLine, InLine, FewOld
<1>3. OnLine(c2, q2, p2, h, low, high, sent)
  BY <1>2, EmptyKeeps DEF OnLine, InLine, FewOld
<1>4. OnLine(c2, q2, p2, h2, low, high, sent)
  BY <1>3, EmptyKeeps DEF OnLine, InLine, FewOld
<1> QED
  BY <1>4, EmptyKeeps

LEMMA CutLine ==
  ASSUME NEW c \in Seq(Frame), NEW q \in Seq(Frame), NEW p \in Seq(Frame),
         NEW h \in Seq(Frame), NEW low, NEW high, NEW sent \in Nat,
         OnLine(c, q, p, h, low, high, sent), NEW n \in Nat
  PROVE  Newest(q, n) \in Seq(Frame) /\ OnLine(c, Newest(q, n), p, h, low, high, sent)
<1> DEFINE ns == Newest(q, n)
<1>1. /\ ns \in Seq(Frame) /\ Rising(ns) /\ Before(c, ns) /\ Before(ns, p)
      /\ Before(ns, h) /\ Within(ns, low, high) /\ OneOld(ns) /\ (Old(ns) => Old(q))
  BY NewestKeeps DEF OnLine, InLine, FewOld
<1> HIDE DEF ns
<1>2. OnLine(c, ns, p, h, low, high, sent)
  BY <1>1 DEF OnLine, InLine, FewOld
<1> QED
  BY <1>1, <1>2 DEF ns

LEMMA JoinLine ==
  ASSUME NEW c \in Seq(Frame), NEW q \in Seq(Frame), NEW p \in Seq(Frame),
         NEW h \in Seq(Frame), NEW low, NEW high, NEW sent \in Nat,
         OnLine(c, q, p, h, low, high, sent), NEW n \in Nat
  PROVE  /\ Newest(q \o p, n) \in Seq(Frame)
         /\ OnLine(c, Newest(q \o p, n), <<>>, h, low, high, sent)
<1> DEFINE all == q \o p
<1>1. /\ all \in Seq(Frame) /\ Rising(all)
      /\ Before(c, all) /\ Before(all, h) /\ Within(all, low, high)
      /\ OneOld(all) /\ (Old(all) => Old(q) \/ Old(p))
  BY AppendedKeeps DEF OnLine, InLine, FewOld
<1> HIDE DEF all
<1>2. OnLine(c, all, <<>>, h, low, high, sent)
  BY <1>1, EmptyKeeps DEF OnLine, InLine, FewOld
<1>3. OnLine(c, Newest(all, n), <<>>, h, low, high, sent) /\ Newest(all, n) \in Seq(Frame)
  BY <1>1, <1>2, CutLine, EmptyKeeps
<1> QED
  BY <1>3 DEF all

(* The hand goes where there is nothing behind: into the preroll, or into  *)
(* the queue of an empty preroll. *)
LEMMA HoldLine ==
  ASSUME NEW c \in Seq(Frame), NEW q \in Seq(Frame), NEW p \in Seq(Frame),
         NEW h \in Seq(Frame), Len(h) <= 1, NEW low, NEW high, NEW sent \in Nat,
         OnLine(c, q, p, h, low, high, sent), NEW n \in Nat
  PROVE  /\ Newest(p \o h, n) \in Seq(Frame)
         /\ OnLine(c, q, Newest(p \o h, n), <<>>, low, high, sent)
<1> DEFINE all == p \o h
           ns == Newest(all, n)
<1>1. /\ all \in Seq(Frame) /\ Rising(all)
      /\ Before(c, all) /\ Before(q, all) /\ Within(all, low, high)
      /\ OneOld(all) /\ (Old(all) => Old(p) \/ Old(h))
  BY AppendedKeeps, OneIsRising DEF OnLine, InLine, FewOld
<1> HIDE DEF all
<1>2. /\ ns \in Seq(Frame) /\ Rising(ns)
      /\ Before(c, ns) /\ Before(q, ns) /\ Within(ns, low, high)
      /\ OneOld(ns) /\ (Old(ns) => Old(p) \/ Old(h))
  BY <1>1, NewestKeeps
<1> HIDE DEF ns
<1>3. OnLine(c, q, ns, <<>>, low, high, sent)
  BY <1>2, EmptyKeeps DEF OnLine, InLine, FewOld
<1> QED
  BY <1>2, <1>3 DEF ns, all

LEMMA PutLine ==
  ASSUME NEW c \in Seq(Frame), NEW q \in Seq(Frame), NEW h \in Seq(Frame),
         Len(h) <= 1, NEW low, NEW high, NEW sent \in Nat,
         OnLine(c, q, <<>>, h, low, high, sent), NEW n \in Nat
  PROVE  /\ Newest(q \o h, n) \in Seq(Frame)
         /\ OnLine(c, Newest(q \o h, n), <<>>, <<>>, low, high, sent)
<1>1. OnLine(c, q, h, <<>>, low, high, sent)
  BY EmptyKeeps, OneIsRising DEF OnLine, InLine, FewOld
<1> QED
  BY <1>1, JoinLine, EmptyKeeps

LEMMA PopLine ==
  ASSUME NEW q \in Seq(Frame), q # <<>>, NEW p \in Seq(Frame), NEW h \in Seq(Frame),
         NEW low, NEW high, NEW sent \in Nat,
         OnLine(<<>>, q, p, h, low, high, sent)
  PROVE  /\ <<Head(q)>> \in Seq(Frame) /\ Tail(q) \in Seq(Frame) /\ Len(<<Head(q)>>) = 1
         /\ OnLine(<<Head(q)>>, Tail(q), p, h, low, high, sent)
<1> DEFINE hs == <<Head(q)>>
           ts == Tail(q)
<1>1. /\ hs \in Seq(Frame) /\ Len(hs) = 1 /\ ts \in Seq(Frame)
      /\ Rising(ts) /\ Before(hs, ts)
      /\ Before(hs, p) /\ Before(hs, h) /\ Before(ts, p) /\ Before(ts, h)
      /\ Within(hs, low, high) /\ Within(ts, low, high)
      /\ OneOld(ts) /\ ~(Old(hs) /\ Old(ts)) /\ (Old(hs) \/ Old(ts) => Old(q))
  BY PoppedKeeps DEF OnLine, InLine, FewOld
<1> HIDE DEF hs, ts
<1>2. OnLine(hs, ts, p, h, low, high, sent)
  BY <1>1, EmptyKeeps DEF OnLine, InLine, FewOld
<1> QED
  BY <1>1, <1>2 DEF hs, ts

(* The frame sent is the first of the line, and the marks behind it are    *)
(* higher. *)
LEMMA SendLine ==
  ASSUME NEW c \in Seq(Frame), Len(c) = 1, NEW q \in Seq(Frame), NEW p \in Seq(Frame),
         NEW h \in Seq(Frame), NEW low \in Nat, NEW high \in Nat, NEW sent \in Nat,
         low <= high, OnLine(c, q, p, h, low, high, sent)
  PROVE  /\ c[1] \in Frame
         /\ c[1].mark # 0 => /\ low < c[1].mark /\ c[1].mark <= high
                             /\ OnLine(<<>>, q, p, h, c[1].mark, high, sent)
         /\ OnLine(<<>>, q, p, h, low, high, sent)
         /\ c[1].old => sent <= 1 /\ (OnLine(<<>>, q, p, h, low, high, sent + 1))
<1>0. 1 \in 1..Len(c)
  OBVIOUS
<1>1. c[1] \in Frame /\ 1 \in 1..Len(c) /\ c[1].mark \in 0..2
  BY <1>0, FramesAre
<1>2. OnLine(<<>>, q, p, h, low, high, sent)
  BY DropLine
<1>3. ASSUME c[1].mark # 0
      PROVE  /\ low < c[1].mark /\ c[1].mark <= high
             /\ OnLine(<<>>, q, p, h, c[1].mark, high, sent)
  <2>1. low < c[1].mark /\ c[1].mark <= high
    BY <1>1, <1>3 DEF OnLine, InLine, Within
  <2>2. ASSUME NEW fs \in Seq(Frame), Before(c, fs), Within(fs, low, high)
        PROVE  Within(fs, c[1].mark, high)
    BY <1>1, <1>3, <2>2 DEF Before, Within
  <2>3. Within(q, c[1].mark, high) /\ Within(p, c[1].mark, high) /\ Within(h, c[1].mark, high)
    BY <2>2 DEF OnLine, InLine
  <2>4. Within(<<>>, c[1].mark, high)
    BY EmptyKeeps
  <2> QED
    BY <1>2, <2>1, <2>3, <2>4 DEF OnLine, InLine
<1>4. ASSUME c[1].old
      PROVE  sent <= 1 /\ OnLine(<<>>, q, p, h, low, high, sent + 1)
  <2>1. Old(c) /\ ~Old(<<>>)
    BY <1>1, <1>4, EmptyKeeps DEF Old
  <2> QED
    BY <1>2, <2>1 DEF OnLine, FewOld
<1> QED
  BY <1>1, <1>2, <1>3, <1>4

LEMMA CallLine ==
  ASSUME NEW c \in Seq(Frame), NEW q \in Seq(Frame), NEW p \in Seq(Frame),
         NEW low \in Nat, NEW high \in 0..1, NEW sent \in Nat, low <= high,
         OnLine(c, q, p, <<>>, low, high, sent), NEW h \in Seq(Frame),
         h = <<[mark |-> high + 1, old |-> FALSE]>>
  PROVE  OnLine(c, q, p, h, low, high + 1, sent)
<1>1. /\ \A i \in 1..Len(h) : h[i].mark = high + 1 /\ ~h[i].old
      /\ ~Old(h)
  BY DEF Old
<1>2. ASSUME NEW fs \in Seq(Frame), Within(fs, low, high)
      PROVE  Before(fs, h) /\ Within(fs, low, high + 1)
  <2>1. \A i \in 1..Len(fs) :
          fs[i].mark # 0 => /\ low < fs[i].mark /\ fs[i].mark < high + 1
                            /\ fs[i].mark <= high + 1
    <3> TAKE i \in 1..Len(fs)
    <3>1. fs[i].mark \in 0..2
      BY FramesAre
    <3>2. fs[i].mark # 0 => low < fs[i].mark /\ fs[i].mark <= high
      BY <1>2 DEF Within
    <3> QED
      BY <3>1, <3>2
  <2>2. \A j \in 1..Len(h) : h[j].mark = high + 1
    BY <1>1
  <2>3. Before(fs, h)
    BY <2>1, <2>2 DEF Before
  <2>4. Within(fs, low, high + 1)
    BY <2>1 DEF Within
  <2> QED
    BY <2>3, <2>4
<1>3. Within(h, low, high + 1)
  BY <1>1 DEF Within
<1>4. /\ Before(c, h) /\ Before(q, h) /\ Before(p, h)
      /\ Within(c, low, high + 1) /\ Within(q, low, high + 1) /\ Within(p, low, high + 1)
  BY <1>2 DEF OnLine, InLine
<1>5. ~Old(<<>>)
  BY EmptyKeeps
<1>6. InLine(c, q, p, h, low, high + 1)
  BY <1>3, <1>4 DEF OnLine, InLine
<1> QED
  BY <1>1, <1>5, <1>6 DEF OnLine, FewOld

(* A frame without a mark disturbs nothing. *)
LEMMA PlainCallLine ==
  ASSUME NEW c, NEW q, NEW p, NEW low, NEW high, NEW sent,
         OnLine(c, q, p, <<>>, low, high, sent), NEW h \in Seq(Frame),
         h = <<[mark |-> 0, old |-> FALSE]>>
  PROVE  OnLine(c, q, p, h, low, high, sent)
<1>1. /\ \A i \in 1..Len(h) : h[i].mark = 0 /\ ~h[i].old
      /\ ~Old(h)
  BY DEF Old
<1>2. Before(c, h) /\ Before(q, h) /\ Before(p, h) /\ Within(h, low, high)
  BY <1>1 DEF Before, Within
<1> QED
  BY <1>1, <1>2, EmptyKeeps DEF OnLine, InLine, FewOld

(* Where a session starts, what is held and queued goes, and of each hand  *)
(* one frame is left. *)
LEMMA StartLine ==
  ASSUME NEW c \in Seq(Frame), Len(c) <= 1, NEW q \in Seq(Frame), NEW p \in Seq(Frame),
         NEW h \in Seq(Frame), Len(h) <= 1, NEW low, NEW high, NEW sent \in Nat,
         OnLine(c, q, p, h, low, high, sent)
  PROVE  OnLine(Aged(c), <<>>, <<>>, Aged(h), low, high, 0)
<1> DEFINE ac == Aged(c)
           ah == Aged(h)
<1>1. Before(c, h) /\ Within(c, low, high) /\ Within(h, low, high)
  BY DEF OnLine, InLine
<1>2. Before(ac, h) /\ Before(ac, ah) /\ Within(ac, low, high) /\ Within(ah, low, high)
  BY <1>1, AgedKeeps
<1> HIDE DEF ac, ah
<1>3. OnLine(ac, <<>>, <<>>, ah, low, high, 0)
  BY <1>2, EmptyKeeps DEF OnLine, InLine, FewOld
<1> QED
  BY <1>3 DEF ac, ah

-----------------------------------------------------------------------------
(* The tasks.                                                              *)

LEMMA ThreeTasks == Mic # Tx /\ Mic # Rx /\ Tx # Rx
<1>1. ASSUME NEW a, NEW b PROVE Cardinality({a, b}) <= 2
  <2>1. IsFiniteSet({b}) /\ Cardinality({b}) = 1
    BY FS_Singleton
  <2>2. /\ Cardinality({b} \cup {a}) = 1 \/ Cardinality({b} \cup {a}) = 2
    BY <2>1, FS_AddElement
  <2>3. {b} \cup {a} = {a, b}
    OBVIOUS
  <2> QED
    BY <2>2, <2>3
<1>2. /\ Mic = Tx => {Mic, Tx, Rx} = {Mic, Rx}
      /\ Mic = Rx => {Mic, Tx, Rx} = {Mic, Tx}
      /\ Tx = Rx => {Mic, Tx, Rx} = {Mic, Tx}
  OBVIOUS
<1>3. Cardinality({Mic, Tx, Rx}) = 3
  BY VoiceAssumption
<1>4. ~(3 <= 2)
  OBVIOUS
<1> QED
  BY <1>1, <1>2, <1>3, <1>4

LEMMA OtherTasks ==
  /\ {Mic, Tx, Rx} \subseteq Tasks
  /\ \A t \in Users \cup Watchdogs \cup {Rx} : t \in Tasks /\ t # Mic /\ t # Tx
BY VoiceAssumption, ThreeTasks DEF Tasks

(* A step of a task that is neither audio task leaves theirs where they    *)
(* are. *)
LEMMA OtherGoes ==
  ASSUME VoiceTypes, NEW t \in Users \cup Watchdogs \cup {Rx}, NEW from, NEW to \in VoiceSteps,
         VoiceGoto(t, from, to)
  PROVE  /\ where' \in [Tasks -> VoiceSteps]
         /\ where'[Mic] = where[Mic] /\ where'[Tx] = where[Tx]
BY OtherTasks DEF VoiceTypes, VoiceGoto

LEMMA VoiceInitially == VoiceInit => VoiceInv
<1> SUFFICES ASSUME VoiceInit PROVE VoiceInv
  OBVIOUS
<1>1. OnLine(<<>>, <<>>, <<>>, <<>>, 0, 0, 0)
  BY EmptyKeeps DEF OnLine, InLine, FewOld
<1>2. VoiceTypes
  <2>1. [t \in Tasks |-> "idle"] \in [Tasks -> VoiceSteps]
    BY DEF VoiceSteps
  <2>2. active \in BOOLEAN /\ pending \in BOOLEAN
    BY DEF VoiceInit
  <2>3. marks \in 0..2 /\ heard \in 0..3 /\ oldSent \in Nat
    BY DEF VoiceInit
  <2>4. /\ preroll \in Seq(Frame) /\ queue \in Seq(Frame)
        /\ chunk \in Seq(Frame) /\ hand \in Seq(Frame)
    BY EmptyKeeps DEF VoiceInit
  <2>5. where \in [Tasks -> VoiceSteps]
    BY <2>1 DEF VoiceInit
  <2> QED
    BY <2>2, <2>3, <2>4, <2>5 DEF VoiceTypes
<1>3. Hands
  BY OtherTasks, EmptyKeeps DEF VoiceInit, Hands
<1> QED
  BY <1>1, <1>2, <1>3 DEF VoiceInit, VoiceInv, Gate

(* What most steps are to the audio: nothing, or what is held or queued    *)
(* is dropped. *)
LEMMA DropStep ==
  ASSUME VoiceInv,
         where' \in [Tasks -> VoiceSteps], where'[Mic] = where[Mic], where'[Tx] = where[Tx],
         active' \in BOOLEAN, pending' \in BOOLEAN, Gate',
         preroll' \in {preroll, <<>>}, queue' \in {queue, <<>>},
         chunk' = chunk, hand' = hand,
         marks' = marks, heard' = heard, oldSent' = oldSent
  PROVE  VoiceInv'
<1>1. /\ preroll \in Seq(Frame) /\ queue \in Seq(Frame)
      /\ chunk \in Seq(Frame) /\ hand \in Seq(Frame) /\ oldSent \in Nat
      /\ OnLine(chunk, queue, preroll, hand, heard, marks, oldSent)
  BY DEF VoiceInv, VoiceTypes
<1>6. queue' \in Seq(Frame) /\ preroll' \in Seq(Frame)
  BY <1>1, EmptyKeeps
<1>2. OnLine(chunk, queue', preroll', hand, heard, marks, oldSent)
  <2>1. /\ queue' = queue \/ queue' = <<>>
        /\ preroll' = preroll \/ preroll' = <<>>
    OBVIOUS
  <2> QED
    BY <1>1, <2>1, DropLine
<1>5. OnLine(chunk', queue', preroll', hand', heard', marks', oldSent')
  BY <1>2
<1>3. VoiceTypes'
  BY <1>1, <1>6 DEF VoiceInv, VoiceTypes
<1>4. Hands'
  BY DEF VoiceInv, Hands
<1> QED
  BY <1>5, <1>3, <1>4 DEF VoiceInv

(* The same, where one of the other tasks makes the step. *)
LEMMA OtherStep ==
  ASSUME VoiceInv,
         NEW t \in Users \cup Watchdogs \cup {Rx}, NEW from, NEW to \in VoiceSteps,
         VoiceGoto(t, from, to),
         active' \in BOOLEAN, pending' \in BOOLEAN, Gate',
         preroll' \in {preroll, <<>>}, queue' \in {queue, <<>>},
         chunk' = chunk, hand' = hand,
         marks' = marks, heard' = heard, oldSent' = oldSent
  PROVE  VoiceInv'
BY OtherGoes, DropStep DEF VoiceInv

LEMMA ClearStep ==
  ASSUME VoiceInv, NEW t \in Users \cup Watchdogs \cup {Rx}, NEW from, NEW to \in VoiceSteps,
         VoiceGoto(t, from, to), Clear
  PROVE  VoiceInv'
<1>1. Gate' /\ active' \in BOOLEAN /\ pending' \in BOOLEAN
  BY DEF Clear, Gate
<1>2. /\ preroll' \in {preroll, <<>>} /\ queue' \in {queue, <<>>}
      /\ chunk' = chunk /\ hand' = hand
      /\ marks' = marks /\ heard' = heard /\ oldSent' = oldSent
  BY DEF Clear
<1> QED
  BY <1>1, <1>2, OtherStep

LEMMA LinkLostStep ==
  ASSUME VoiceInv, NEW t \in Users \cup Watchdogs \cup {Rx}, NEW from, NEW to \in VoiceSteps,
         LinkLost(t, from, to)
  PROVE  VoiceInv'
<1>1. Gate' /\ active' \in BOOLEAN /\ pending' \in BOOLEAN
  BY DEF LinkLost, Gate
<1>2. /\ VoiceGoto(t, from, to)
      /\ preroll' \in {preroll, <<>>} /\ queue' \in {queue, <<>>}
      /\ chunk' = chunk /\ hand' = hand
      /\ marks' = marks /\ heard' = heard /\ oldSent' = oldSent
  BY DEF LinkLost
<1> QED
  BY <1>1, <1>2, OtherStep

LEMMA ClearQueueStep ==
  ASSUME VoiceInv, NEW t \in Users \cup Watchdogs \cup {Rx}, NEW from, NEW to \in VoiceSteps,
         ClearQueue(t, from, to)
  PROVE  VoiceInv'
<1>1. Gate' /\ active' \in BOOLEAN /\ pending' \in BOOLEAN
  BY DEF ClearQueue, sessionState, Gate, VoiceInv, VoiceTypes
<1>2. /\ VoiceGoto(t, from, to)
      /\ preroll' \in {preroll, <<>>} /\ queue' \in {queue, <<>>}
      /\ chunk' = chunk /\ hand' = hand
      /\ marks' = marks /\ heard' = heard /\ oldSent' = oldSent
  BY DEF ClearQueue, sessionState
<1> QED
  BY <1>1, <1>2, OtherStep

(* Steps that only move their task, tell the speaker, the server or a      *)
(* watchdog. *)
LEMMA QuietStep ==
  ASSUME VoiceInv, where' \in [Tasks -> VoiceSteps],
         where'[Mic] = where[Mic], where'[Tx] = where[Tx],
         active' = active, pending' = pending, oldSent' = oldSent,
         UNCHANGED audio
  PROVE  VoiceInv'
<1>1. Gate' /\ active' \in BOOLEAN /\ pending' \in BOOLEAN
  BY DEF audio, Gate, VoiceInv, VoiceTypes
<1>2. /\ preroll' \in {preroll, <<>>} /\ queue' \in {queue, <<>>}
      /\ chunk' = chunk /\ hand' = hand
      /\ marks' = marks /\ heard' = heard /\ oldSent' = oldSent
  BY DEF audio
<1> QED
  BY <1>1, <1>2, DropStep

LEMMA QuietOtherStep ==
  ASSUME VoiceInv, NEW t \in Users \cup Watchdogs \cup {Rx}, NEW from, NEW to \in VoiceSteps,
         VoiceGoto(t, from, to),
         active' = active, pending' = pending, oldSent' = oldSent, UNCHANGED audio
  PROVE  VoiceInv'
BY OtherGoes, QuietStep DEF VoiceInv

LEMMA StopSteps ==
  ASSUME VoiceInv, NEW t \in Users \cup Watchdogs, Stop(t)
  PROVE  VoiceInv'
<1> t \in Users \cup Watchdogs \cup {Rx}
  OBVIOUS
<1>1. CASE StopSend(t)
  <2>1. /\ active' = active /\ pending' = pending /\ oldSent' = oldSent /\ UNCHANGED audio
        /\ VoiceGoto(t, "p_send", "p_clear") \/ VoiceGoto(t, "p_send", "p_lost")
    BY <1>1 DEF StopSend, sessionState
  <2>2. "p_clear" \in VoiceSteps /\ "p_lost" \in VoiceSteps
    BY DEF VoiceSteps
  <2> QED
    BY <2>1, <2>2, QuietOtherStep
<1>2. CASE StopClear(t)
  <2>1. /\ Clear
        /\ VoiceGoto(t, "p_clear", "p_unduck") \/ VoiceGoto(t, "p_clear", "idle")
    BY <1>2 DEF StopClear
  <2>2. "p_unduck" \in VoiceSteps /\ "idle" \in VoiceSteps
    BY DEF VoiceSteps
  <2> QED
    BY <2>1, <2>2, ClearStep
<1>3. CASE Unduck(t, "p_unduck")
  <2>1. /\ active' = active /\ pending' = pending /\ oldSent' = oldSent /\ UNCHANGED audio
        /\ VoiceGoto(t, "p_unduck", "idle")
    BY <1>3 DEF Unduck, sessionState
  <2>2. "idle" \in VoiceSteps
    BY DEF VoiceSteps
  <2> QED
    BY <2>1, <2>2, QuietOtherStep
<1>4. CASE LinkLost(t, "p_lost", "p_queue")
  <2>1. "p_queue" \in VoiceSteps
    BY DEF VoiceSteps
  <2> QED
    BY <1>4, <2>1, LinkLostStep
<1>5. CASE ClearQueue(t, "p_queue", "p_clear")
  <2>1. "p_clear" \in VoiceSteps
    BY DEF VoiceSteps
  <2> QED
    BY <1>5, <2>1, ClearQueueStep
<1> QED
  BY <1>1, <1>2, <1>3, <1>4, <1>5 DEF Stop

LEMMA StartLockStep ==
  ASSUME VoiceInv, NEW u \in Users, StartLock(u)
  PROVE  VoiceInv'
<1>1. /\ chunk \in Seq(Frame) /\ queue \in Seq(Frame) /\ preroll \in Seq(Frame)
      /\ hand \in Seq(Frame) /\ Len(hand) <= 1 /\ oldSent \in Nat
      /\ OnLine(chunk, queue, preroll, hand, heard, marks, oldSent)
  BY DEF VoiceInv, VoiceTypes, Hands
<1>2. Len(chunk) <= 1
  <2>1. chunk = <<>> \/ Len(chunk) = 1
    BY DEF VoiceInv, Hands
  <2>2. CASE chunk = <<>>
    BY <2>2, EmptyKeeps
  <2>3. CASE Len(chunk) = 1
    BY <2>3
  <2> QED
    BY <2>1, <2>2, <2>3
<1>3. /\ chunk' = Aged(chunk) /\ hand' = Aged(hand) /\ queue' = <<>> /\ preroll' = <<>>
      /\ active' = TRUE /\ pending' = TRUE
      /\ marks' = marks /\ heard' = heard /\ oldSent' = 0
      /\ VoiceGoto(u, "s_lock", "s_duck")
  BY DEF StartLock
<1>4. OnLine(chunk', queue', preroll', hand', heard', marks', oldSent')
  BY <1>1, <1>2, <1>3, StartLine
<1>5. /\ Aged(chunk) \in Seq(Frame) /\ Len(Aged(chunk)) = Len(chunk)
      /\ chunk = <<>> => Aged(chunk) = <<>>
  BY <1>1, <1>2, AgedKeeps
<1>6. /\ Aged(hand) \in Seq(Frame) /\ Len(Aged(hand)) = Len(hand)
      /\ hand = <<>> => Aged(hand) = <<>>
  BY <1>1, AgedKeeps
<1>7. /\ where' \in [Tasks -> VoiceSteps]
      /\ where'[Mic] = where[Mic] /\ where'[Tx] = where[Tx]
  <2>1. "s_duck" \in VoiceSteps
    BY DEF VoiceSteps
  <2> QED
    BY <1>3, <2>1, OtherGoes DEF VoiceInv
<1>8. active' \in BOOLEAN /\ pending' \in BOOLEAN /\ Gate'
  BY <1>3 DEF Gate
<1>9. VoiceTypes'
  BY <1>3, <1>5, <1>6, <1>7, <1>8, EmptyKeeps DEF VoiceInv, VoiceTypes
<1>10. Hands'
  BY <1>3, <1>5, <1>6, <1>7 DEF VoiceInv, Hands
<1> QED
  BY <1>3, <1>4, <1>8, <1>9, <1>10 DEF VoiceInv

LEMMA StartSteps ==
  ASSUME VoiceInv, NEW u \in Users, StartReady(u) \/ StartTask(u)
  PROVE  VoiceInv'
<1> u \in Users \cup Watchdogs \cup {Rx}
  OBVIOUS
<1> "s_lock" \in VoiceSteps /\ "s_send" \in VoiceSteps /\ "s_watch" \in VoiceSteps
  BY DEF VoiceSteps
<1> "idle" \in VoiceSteps /\ "s_failed" \in VoiceSteps /\ "s_lost" \in VoiceSteps
  BY DEF VoiceSteps
<1> "s_unduck" \in VoiceSteps /\ "s_queue" \in VoiceSteps
  BY DEF VoiceSteps
<1>1. CASE StartReady(u)
  <2>1. /\ active' = active /\ pending' = pending /\ oldSent' = oldSent /\ UNCHANGED audio
        /\ VoiceGoto(u, "idle", "s_lock")
    BY <1>1 DEF StartReady, sessionState
  <2> QED
    BY <2>1, QuietOtherStep
<1>2. CASE StartLock(u)
  BY <1>2, StartLockStep
<1>3. CASE StartDuck(u)
  <2>1. /\ active' = active /\ pending' = pending /\ oldSent' = oldSent /\ UNCHANGED audio
        /\ VoiceGoto(u, "s_duck", "s_send")
    BY <1>3 DEF StartDuck, sessionState
  <2> QED
    BY <2>1, QuietOtherStep
<1>4. CASE StartSend(u)
  <2>1. /\ active' = active /\ pending' = pending /\ oldSent' = oldSent /\ UNCHANGED audio
        /\ \E to \in {"s_watch", "idle", "s_failed", "s_lost"} : VoiceGoto(u, "s_send", to)
    BY <1>4 DEF StartSend
  <2> QED
    BY <2>1, QuietOtherStep
<1>5. CASE VoiceFailed(u)
  <2>1. Clear /\ VoiceGoto(u, "s_failed", "s_unduck")
    BY <1>5 DEF VoiceFailed
  <2> QED
    BY <2>1, ClearStep
<1>6. CASE LinkLost(u, "s_lost", "s_queue")
  BY <1>6, LinkLostStep
<1>7. CASE ClearQueue(u, "s_queue", "s_failed")
  BY <1>7, ClearQueueStep
<1>8. CASE UnduckFailed(u)
  <2>1. /\ active' = active /\ pending' = pending /\ oldSent' = oldSent /\ UNCHANGED audio
        /\ VoiceGoto(u, "s_unduck", "idle")
    BY <1>8 DEF UnduckFailed, Unduck, sessionState
  <2> QED
    BY <2>1, QuietOtherStep
<1>9. CASE CreateWatchdog(u)
  <2>1. /\ active' = active /\ pending' = pending /\ oldSent' = oldSent /\ UNCHANGED audio
    BY <1>9 DEF CreateWatchdog
  <2>2. /\ where' \in [Tasks -> VoiceSteps]
        /\ where'[Mic] = where[Mic] /\ where'[Tx] = where[Tx]
    <3>1. where' = [where EXCEPT ![u] = "idle"]
          \/ \E w \in Watchdogs : where' = [where EXCEPT ![u] = "idle", ![w] = "sleep"]
      BY <1>9 DEF CreateWatchdog
    <3>2. where \in [Tasks -> VoiceSteps]
      BY DEF VoiceInv, VoiceTypes
    <3>3. "idle" \in VoiceSteps /\ "sleep" \in VoiceSteps
      BY DEF VoiceSteps
    <3> QED
      BY <3>1, <3>2, <3>3, OtherTasks
  <2> QED
    BY <2>1, <2>2, QuietStep
<1> QED
  BY <1>1, <1>2, <1>3, <1>4, <1>5, <1>6, <1>7, <1>8, <1>9 DEF StartTask

LEMMA StopVoiceStep ==
  ASSUME VoiceInv, NEW t \in Users \cup Watchdogs, NEW from, StopReady(t, from),
         UNCHANGED sessionState, UNCHANGED audio
  PROVE  VoiceInv'
<1>1. /\ active' = active /\ pending' = pending /\ oldSent' = oldSent
      /\ \E to \in {"p_send", "p_clear"} : VoiceGoto(t, from, to)
  BY DEF StopReady, sessionState
<1>2. {"p_send", "p_clear"} \subseteq VoiceSteps
  BY DEF VoiceSteps
<1> QED
  BY <1>1, <1>2, QuietOtherStep

LEMMA WatchdogStep ==
  ASSUME VoiceInv, NEW w \in Watchdogs, Watchdog(w)
  PROVE  VoiceInv'
<1>1. CASE WatchdogFires(w)
  <2>1. /\ active' = active /\ pending' = pending /\ oldSent' = oldSent /\ UNCHANGED audio
        /\ \E to \in {"p_ready", "idle"} : VoiceGoto(w, "sleep", to)
    BY <1>1 DEF WatchdogFires, sessionState
  <2>2. {"p_ready", "idle"} \subseteq VoiceSteps
    BY DEF VoiceSteps
  <2> QED
    BY <2>1, <2>2, QuietOtherStep
<1>2. CASE Abort(w)
  BY <1>2, StopVoiceStep DEF Abort
<1>3. CASE Stop(w)
  BY <1>3, StopSteps
<1> QED
  BY <1>1, <1>2, <1>3 DEF Watchdog

-----------------------------------------------------------------------------
(* The microphone.                                                         *)

LEMMA MicGoes ==
  ASSUME VoiceTypes, NEW from, NEW to \in VoiceSteps, VoiceGoto(Mic, from, to)
  PROVE  /\ where' \in [Tasks -> VoiceSteps]
         /\ where[Mic] = from /\ where'[Mic] = to /\ where'[Tx] = where[Tx]
BY OtherTasks, ThreeTasks DEF VoiceTypes, VoiceGoto

LEMMA MicCallStep ==
  ASSUME VoiceInv, NEW mark \in 0..2, MicCall(mark)
  PROVE  VoiceInv'
<1>1. /\ chunk \in Seq(Frame) /\ queue \in Seq(Frame) /\ preroll \in Seq(Frame)
      /\ hand \in Seq(Frame) /\ oldSent \in Nat /\ heard \in Nat /\ marks \in 0..2
      /\ heard <= marks
      /\ OnLine(chunk, queue, preroll, hand, heard, marks, oldSent)
  BY DEF VoiceInv, VoiceTypes
<1>2. /\ VoiceGoto(Mic, "idle", "lock")
      /\ mark \in {0, marks + 1} /\ mark <= 2
      /\ marks' = IF mark = 0 THEN marks ELSE mark
      /\ hand' = <<[mark |-> mark, old |-> FALSE]>>
      /\ UNCHANGED <<active, pending, oldSent, preroll, queue, chunk, heard>>
  BY VoiceAssumption DEF MicCall, sessionState
<1>3. /\ where' \in [Tasks -> VoiceSteps]
      /\ where[Mic] = "idle" /\ where'[Mic] = "lock" /\ where'[Tx] = where[Tx]
  <2>1. "lock" \in VoiceSteps
    BY DEF VoiceSteps
  <2> QED
    BY <1>2, <2>1, MicGoes DEF VoiceInv
<1>4. hand = <<>>
  BY <1>3 DEF VoiceInv, Hands
<1>5. hand' \in Seq(Frame) /\ Len(hand') = 1
  <2>1. [mark |-> mark, old |-> FALSE] \in Frame
    BY DEF Frame
  <2> QED
    BY <1>2, <2>1
<1>6. /\ OnLine(chunk, queue, preroll, hand', heard, marks', oldSent)
      /\ marks' \in 0..2 /\ heard <= marks'
  <2>1. CASE mark = 0
    BY <1>1, <1>2, <1>4, <1>5, <2>1, PlainCallLine
  <2>2. CASE mark # 0
    <3>0. mark = marks + 1
      BY <1>2, <2>2
    <3>1. /\ marks \in 0..1 /\ marks' = marks + 1
          /\ hand' = <<[mark |-> marks + 1, old |-> FALSE]>>
      BY <1>1, <1>2, <2>2, <3>0
    <3>2. OnLine(chunk, queue, preroll, <<>>, heard, marks, oldSent)
      BY <1>1, <1>4, Zenon
    <3>3. ASSUME NEW h \in Seq(Frame), h = <<[mark |-> marks + 1, old |-> FALSE]>>
          PROVE  OnLine(chunk, queue, preroll, h, heard, marks + 1, oldSent)
      BY <1>1, <3>1, <3>2, <3>3, CallLine
    <3>4. OnLine(chunk, queue, preroll, hand', heard, marks + 1, oldSent)
      BY <1>5, <3>1, <3>3
    <3> QED
      BY <1>1, <3>1, <3>4
  <2> QED
    BY <2>1, <2>2
<1>7. OnLine(chunk', queue', preroll', hand', heard', marks', oldSent')
  BY <1>2, <1>6
<1>8. VoiceTypes'
  BY <1>2, <1>3, <1>5, <1>6 DEF VoiceInv, VoiceTypes
<1>9. Hands'
  BY <1>2, <1>3, <1>5 DEF VoiceInv, Hands
<1>10. Gate' /\ heard' # 3 /\ heard' <= marks'
  BY <1>2, <1>6 DEF VoiceInv, Gate
<1> QED
  BY <1>7, <1>8, <1>9, <1>10 DEF VoiceInv

(* What the other steps of the microphone share. *)
LEMMA MicStep ==
  ASSUME VoiceInv, NEW from \in VoiceSteps, NEW to \in {"idle", "put"},
         VoiceGoto(Mic, from, to),
         active' \in BOOLEAN, pending' \in BOOLEAN, Gate',
         preroll' \in Seq(Frame), queue' \in Seq(Frame), hand' \in Seq(Frame),
         to = "idle" => hand' = <<>>, to = "put" => preroll' = <<>> /\ hand' = hand,
         OnLine(chunk, queue', preroll', hand', heard, marks, oldSent),
         chunk' = chunk, marks' = marks, heard' = heard, oldSent' = oldSent
  PROVE  VoiceInv'
<1>1. /\ where' \in [Tasks -> VoiceSteps]
      /\ where'[Mic] = to /\ where'[Tx] = where[Tx]
  <2>1. to \in VoiceSteps
    BY DEF VoiceSteps
  <2> QED
    BY <2>1, MicGoes DEF VoiceInv
<1>2. VoiceTypes'
  BY <1>1 DEF VoiceInv, VoiceTypes
<1>3. Hands'
  BY <1>1, EmptyKeeps DEF VoiceInv, Hands
<1>4. OnLine(chunk', queue', preroll', hand', heard', marks', oldSent')
  OBVIOUS
<1> QED
  BY <1>2, <1>3, <1>4 DEF VoiceInv

LEMMA VoiceLine ==
  ASSUME VoiceInv
  PROVE  /\ chunk \in Seq(Frame) /\ queue \in Seq(Frame) /\ preroll \in Seq(Frame)
         /\ hand \in Seq(Frame) /\ Len(hand) <= 1
         /\ oldSent \in Nat /\ heard \in Nat /\ marks \in Nat /\ heard <= marks
         /\ active \in BOOLEAN /\ pending \in BOOLEAN
         /\ OnLine(chunk, queue, preroll, hand, heard, marks, oldSent)
         /\ PrerollFrames \in Nat /\ QueueFrames \in Nat /\ Recovery \in Nat
BY VoiceAssumption DEF VoiceInv, VoiceTypes, Hands

LEMMA MicHoldStep ==
  ASSUME VoiceInv, MicHold PROVE VoiceInv'
<1>1. /\ VoiceGoto(Mic, "lock", "idle")
      /\ pending /\ preroll' = Newest(preroll \o hand, PrerollFrames) /\ hand' = <<>>
      /\ UNCHANGED <<active, pending, oldSent, queue, chunk, marks, heard>>
  BY DEF MicHold, sessionState
<1>2. /\ Newest(preroll \o hand, PrerollFrames) \in Seq(Frame)
      /\ OnLine(chunk, queue, Newest(preroll \o hand, PrerollFrames), <<>>,
                heard, marks, oldSent)
  BY VoiceLine, HoldLine
<1>3. /\ preroll' \in Seq(Frame)
      /\ OnLine(chunk, queue', preroll', hand', heard, marks, oldSent)
  BY <1>1, <1>2
<1>4. Gate' /\ active' \in BOOLEAN /\ pending' \in BOOLEAN
  BY <1>1, VoiceLine DEF Gate, VoiceInv
<1>5. queue' \in Seq(Frame) /\ hand' \in Seq(Frame)
  BY <1>1, VoiceLine, EmptyKeeps
<1>6. "lock" \in VoiceSteps
  BY DEF VoiceSteps
<1> QED
  BY <1>1, <1>3, <1>4, <1>5, <1>6, MicStep

(* The gate opens: what is held follows what is queued. *)
LEMMA FlushLine ==
  ASSUME VoiceInv
  PROVE  Flushed \in Seq(Frame) /\ OnLine(chunk, Flushed, <<>>, hand, heard, marks, oldSent)
<1>1. CASE Ready /\ active
  <2>1. Flushed = Newest(queue \o preroll, QueueFrames)
    BY <1>1 DEF Flushed
  <2> QED
    BY <2>1, VoiceLine, JoinLine
<1>2. CASE ~(Ready /\ active)
  <2>1. Flushed = queue
    BY <1>2 DEF Flushed
  <2>2. OnLine(chunk, queue, <<>>, hand, heard, marks, oldSent)
    BY VoiceLine, DropLine
  <2> QED
    BY <2>1, <2>2, VoiceLine
<1> QED
  BY <1>1, <1>2

LEMMA MicExpireStep ==
  ASSUME VoiceInv, MicExpire PROVE VoiceInv'
<1>1. /\ VoiceGoto(Mic, "lock", "put")
      /\ pending' = FALSE /\ queue' = Flushed /\ preroll' = <<>>
      /\ UNCHANGED <<active, oldSent, chunk, hand, marks, heard>>
  BY DEF MicExpire
<1>2. /\ queue' \in Seq(Frame)
      /\ OnLine(chunk, queue', preroll', hand', heard, marks, oldSent)
  BY <1>1, FlushLine
<1>3. Gate' /\ active' \in BOOLEAN /\ pending' \in BOOLEAN
  BY <1>1, VoiceLine DEF Gate, VoiceInv
<1>4. preroll' \in Seq(Frame) /\ hand' \in Seq(Frame)
  BY <1>1, VoiceLine, EmptyKeeps
<1>5. "lock" \in VoiceSteps
  BY DEF VoiceSteps
<1> QED
  BY <1>1, <1>2, <1>3, <1>4, <1>5, MicStep

LEMMA MicPassStep ==
  ASSUME VoiceInv, MicPass PROVE VoiceInv'
<1>1. /\ VoiceGoto(Mic, "lock", "put") /\ ~pending
      /\ UNCHANGED <<active, pending, oldSent, preroll, queue, chunk, hand, marks, heard>>
  BY DEF MicPass, sessionState, audio
<1>2. preroll' = <<>>
  BY <1>1 DEF VoiceInv, Gate
<1>3. OnLine(chunk, queue', preroll', hand', heard, marks, oldSent)
  BY <1>1, VoiceLine
<1>4. Gate' /\ active' \in BOOLEAN /\ pending' \in BOOLEAN
  BY <1>1, VoiceLine DEF Gate, VoiceInv
<1>5. preroll' \in Seq(Frame) /\ hand' \in Seq(Frame) /\ queue' \in Seq(Frame)
  BY <1>1, VoiceLine
<1>6. "lock" \in VoiceSteps
  BY DEF VoiceSteps
<1> QED
  BY <1>1, <1>2, <1>3, <1>4, <1>5, <1>6, MicStep

LEMMA MicPutStep ==
  ASSUME VoiceInv, MicPut PROVE VoiceInv'
<1>1. /\ VoiceGoto(Mic, "put", "idle") /\ hand' = <<>>
      /\ queue' = queue \/ queue' = Newest(queue \o hand, QueueFrames)
      /\ UNCHANGED <<active, pending, oldSent, preroll, chunk, marks, heard>>
  BY DEF MicPut, sessionState
<1>2. preroll = <<>>
  BY <1>1 DEF VoiceInv, Hands, VoiceGoto
<1>3. OnLine(chunk, queue, <<>>, hand, heard, marks, oldSent)
  BY VoiceLine, DropLine
<1>4. /\ Newest(queue \o hand, QueueFrames) \in Seq(Frame)
      /\ OnLine(chunk, Newest(queue \o hand, QueueFrames), <<>>, <<>>, heard, marks, oldSent)
  BY <1>3, VoiceLine, PutLine
<1>5. OnLine(chunk, queue, <<>>, <<>>, heard, marks, oldSent)
  BY VoiceLine, DropLine
<1>6. /\ queue' \in Seq(Frame)
      /\ OnLine(chunk, queue', <<>>, <<>>, heard, marks, oldSent)
  BY <1>1, <1>4, <1>5, VoiceLine
<1>7. preroll' = <<>>
  BY <1>1, <1>2
<1>8. OnLine(chunk, queue', preroll', hand', heard, marks, oldSent)
  BY <1>1, <1>6, <1>7
<1>9. Gate' /\ active' \in BOOLEAN /\ pending' \in BOOLEAN
  BY <1>1, VoiceLine DEF Gate, VoiceInv
<1>10. preroll' \in Seq(Frame) /\ hand' \in Seq(Frame)
  BY <1>1, <1>7, EmptyKeeps
<1>11. "put" \in VoiceSteps
  BY DEF VoiceSteps
<1> QED
  BY <1>1, <1>6, <1>8, <1>9, <1>10, <1>11, MicStep

-----------------------------------------------------------------------------
(* The sender.                                                             *)

LEMMA TxGoes ==
  ASSUME VoiceTypes, NEW from, NEW to \in VoiceSteps, VoiceGoto(Tx, from, to)
  PROVE  /\ where' \in [Tasks -> VoiceSteps]
         /\ where[Tx] = from /\ where'[Tx] = to /\ where'[Mic] = where[Mic]
BY OtherTasks, ThreeTasks DEF VoiceTypes, VoiceGoto

LEMMA TxStep ==
  ASSUME VoiceInv, NEW from, NEW to \in {"idle", "check", "send", "lost", "queue"},
         VoiceGoto(Tx, from, to),
         active' \in BOOLEAN, pending' \in BOOLEAN, Gate',
         preroll' \in {preroll, <<>>}, queue' \in Seq(Frame), chunk' \in Seq(Frame),
         to \in {"check", "send"} => Len(chunk') = 1,
         to \notin {"check", "send"} => chunk' = <<>>,
         hand' = hand, marks' = marks, heard' \in 0..2, heard' <= marks, oldSent' \in Nat,
         OnLine(chunk', queue', preroll', hand, heard', marks, oldSent')
  PROVE  VoiceInv'
<1>1. /\ where' \in [Tasks -> VoiceSteps]
      /\ where'[Tx] = to /\ where'[Mic] = where[Mic]
  <2>1. to \in VoiceSteps
    BY DEF VoiceSteps
  <2> QED
    BY <2>1, TxGoes DEF VoiceInv
<1>2. preroll' \in Seq(Frame)
  BY VoiceLine, EmptyKeeps
<1>3. VoiceTypes'
  BY <1>1, <1>2 DEF VoiceInv, VoiceTypes
<1>4. Hands'
  BY <1>1 DEF VoiceInv, Hands
<1>5. OnLine(chunk', queue', preroll', hand', heard', marks', oldSent')
  OBVIOUS
<1> QED
  BY <1>3, <1>4, <1>5 DEF VoiceInv

LEMMA TxPopStep ==
  ASSUME VoiceInv, TxPop PROVE VoiceInv'
<1>1. /\ VoiceGoto(Tx, "idle", "check") /\ queue # <<>>
      /\ chunk' = <<Head(queue)>> /\ queue' = Tail(queue)
      /\ UNCHANGED <<active, pending, oldSent, preroll, hand, marks, heard>>
  BY DEF TxPop, sessionState
<1>2. chunk = <<>>
  BY <1>1 DEF VoiceInv, Hands, VoiceGoto
<1>3. OnLine(<<>>, queue, preroll, hand, heard, marks, oldSent)
  BY VoiceLine, DropLine
<1>4. /\ <<Head(queue)>> \in Seq(Frame) /\ Tail(queue) \in Seq(Frame)
      /\ Len(<<Head(queue)>>) = 1
      /\ OnLine(<<Head(queue)>>, Tail(queue), preroll, hand, heard, marks, oldSent)
  BY <1>1, <1>3, VoiceLine, PopLine
<1>5. /\ chunk' \in Seq(Frame) /\ queue' \in Seq(Frame) /\ Len(chunk') = 1
      /\ OnLine(chunk', queue', preroll', hand, heard', marks, oldSent')
  BY <1>1, <1>4
<1>6. Gate' /\ active' \in BOOLEAN /\ pending' \in BOOLEAN
  BY <1>1, VoiceLine DEF Gate, VoiceInv
<1>7. heard' \in 0..2 /\ heard' <= marks /\ oldSent' \in Nat /\ preroll' \in {preroll, <<>>}
  BY <1>1 DEF VoiceInv, VoiceTypes
<1> QED
  BY <1>1, <1>5, <1>6, <1>7, TxStep

(* The frame in hand is dropped, and of the queue what is cut. *)
LEMMA TxDropStep ==
  ASSUME VoiceInv, NEW from, NEW to \in {"idle", "lost", "queue"}, VoiceGoto(Tx, from, to),
         active' \in BOOLEAN, pending' \in BOOLEAN, Gate',
         preroll' \in {preroll, <<>>}, chunk' = <<>>,
         queue' = queue \/ queue' = <<>> \/ queue' = Newest(queue, Recovery),
         UNCHANGED <<oldSent, hand, marks, heard>>
  PROVE  VoiceInv'
<1>1. preroll' = preroll \/ preroll' = <<>>
  OBVIOUS
<1>2. preroll' \in Seq(Frame) /\ chunk' \in Seq(Frame)
  BY <1>1, VoiceLine, EmptyKeeps
<1>3. OnLine(<<>>, queue, preroll', hand, heard, marks, oldSent)
  BY <1>1, VoiceLine, DropLine
<1>4. OnLine(<<>>, <<>>, preroll', hand, heard, marks, oldSent)
  BY <1>3, VoiceLine, EmptyKeeps DEF OnLine, InLine, FewOld
<1>5. /\ Newest(queue, Recovery) \in Seq(Frame)
      /\ OnLine(<<>>, Newest(queue, Recovery), preroll', hand, heard, marks, oldSent)
  BY <1>2, <1>3, VoiceLine, EmptyKeeps, CutLine
<1>6. OnLine(<<>>, queue', preroll', hand, heard, marks, oldSent) /\ queue' \in Seq(Frame)
  BY <1>3, <1>4, <1>5, VoiceLine, EmptyKeeps
<1>7. OnLine(chunk', queue', preroll', hand, heard', marks, oldSent')
  BY <1>6
<1>8. heard' \in 0..2 /\ heard' <= marks /\ oldSent' \in Nat
  BY DEF VoiceInv, VoiceTypes
<1> QED
  BY <1>2, <1>6, <1>7, <1>8, TxStep

LEMMA TxCheckStep ==
  ASSUME VoiceInv, TxCheck PROVE VoiceInv'
<1>1. UNCHANGED <<active, pending, oldSent, preroll, hand, marks, heard>>
  BY DEF TxCheck, sessionState
<1>2. /\ Gate' /\ active' \in BOOLEAN /\ pending' \in BOOLEAN
      /\ preroll' \in {preroll, <<>>}
  BY <1>1, VoiceLine DEF Gate, VoiceInv
<1>3. CASE /\ VoiceGoto(Tx, "check", "send") /\ UNCHANGED <<queue, chunk>>
  <2>1. OnLine(chunk', queue', preroll', hand, heard', marks, oldSent')
    BY <1>1, <1>3, VoiceLine
  <2>2. heard' \in 0..2 /\ heard' <= marks /\ oldSent' \in Nat
    BY <1>1 DEF VoiceInv, VoiceTypes
  <2>3. Len(chunk') = 1 /\ chunk' \in Seq(Frame) /\ queue' \in Seq(Frame)
    BY <1>3, VoiceLine DEF VoiceInv, Hands, VoiceGoto
  <2> QED
    BY <1>1, <1>2, <1>3, <2>1, <2>2, <2>3, TxStep
<1>4. CASE /\ VoiceGoto(Tx, "check", "idle") /\ chunk' = <<>>
           /\ queue' = Newest(queue, Recovery) \/ queue' = <<>>
  BY <1>1, <1>2, <1>4, TxDropStep
<1> QED
  BY <1>3, <1>4 DEF TxCheck

LEMMA TxFailStep ==
  ASSUME VoiceInv, TxFail PROVE VoiceInv'
<1>1. /\ VoiceGoto(Tx, "send", "idle") \/ VoiceGoto(Tx, "send", "lost")
      /\ chunk' = <<>>
      /\ UNCHANGED <<active, pending, oldSent, preroll, queue, hand, marks, heard>>
  BY DEF TxFail, sessionState
<1>2. Gate' /\ active' \in BOOLEAN /\ pending' \in BOOLEAN /\ preroll' \in {preroll, <<>>}
  BY <1>1, VoiceLine DEF Gate, VoiceInv
<1> QED
  BY <1>1, <1>2, TxDropStep

LEMMA TxSendStep ==
  ASSUME VoiceInv, TxSend PROVE VoiceInv'
<1>1. /\ VoiceGoto(Tx, "send", "idle") /\ Hear(chunk[1]) /\ chunk' = <<>>
      /\ queue' \in {queue, Newest(queue, Recovery)}
      /\ UNCHANGED <<active, pending, preroll, hand, marks>>
  BY DEF TxSend
<1>2. Len(chunk) = 1
  BY <1>1 DEF VoiceInv, Hands, VoiceGoto
<1> DEFINE f == chunk[1]
<1>3. /\ f \in Frame
      /\ f.mark # 0 => /\ heard < f.mark /\ f.mark <= marks
                       /\ OnLine(<<>>, queue, preroll, hand, f.mark, marks, oldSent)
      /\ OnLine(<<>>, queue, preroll, hand, heard, marks, oldSent)
      /\ f.old => oldSent <= 1 /\ OnLine(<<>>, queue, preroll, hand, heard, marks, oldSent + 1)
  BY <1>2, VoiceLine, SendLine
<1> HIDE DEF f
<1>4. f.mark \in 0..2 /\ f.old \in BOOLEAN
  BY <1>3 DEF Frame
<1>5. heard # 3 /\ heard \in 0..2 /\ heard <= marks /\ marks \in 0..2
  BY DEF VoiceInv, VoiceTypes
<1>6. heard' = (IF f.mark = 0 THEN heard ELSE f.mark)
  BY <1>1, <1>3, <1>5 DEF Hear, f
<1>7. oldSent' = (IF f.old THEN oldSent + 1 ELSE oldSent)
  BY <1>1, <1>3, VoiceLine DEF Hear, f
<1>8. heard' \in 0..2 /\ heard' <= marks /\ oldSent' \in Nat
  BY <1>3, <1>4, <1>5, <1>6, <1>7, VoiceLine
<1>9. OnLine(<<>>, queue, preroll, hand, heard', marks, oldSent')
  <2>1. InLine(<<>>, queue, preroll, hand, heard', marks)
    BY <1>3, <1>6 DEF OnLine
  <2>2. FewOld(<<>>, queue, preroll, hand, oldSent')
    BY <1>3, <1>7 DEF OnLine
  <2> QED
    BY <2>1, <2>2 DEF OnLine
<1>10. /\ Newest(queue, Recovery) \in Seq(Frame)
       /\ OnLine(<<>>, Newest(queue, Recovery), preroll, hand, heard', marks, oldSent')
  BY <1>8, <1>9, VoiceLine, EmptyKeeps, CutLine
<1>11. OnLine(<<>>, queue', preroll, hand, heard', marks, oldSent') /\ queue' \in Seq(Frame)
  BY <1>1, <1>9, <1>10, VoiceLine
<1>12. OnLine(chunk', queue', preroll', hand, heard', marks, oldSent') /\ chunk' \in Seq(Frame)
  BY <1>1, <1>11, EmptyKeeps
<1>13. Gate' /\ active' \in BOOLEAN /\ pending' \in BOOLEAN /\ preroll' \in {preroll, <<>>}
  BY <1>1, VoiceLine DEF Gate, VoiceInv
<1> QED
  BY <1>1, <1>8, <1>11, <1>12, <1>13, TxStep

LEMMA TxTaskStep ==
  ASSUME VoiceInv, TxTask PROVE VoiceInv'
<1>1. CASE LinkLost(Tx, "lost", "queue")
  <2>1. /\ VoiceGoto(Tx, "lost", "queue") /\ active' = FALSE /\ pending' = FALSE
        /\ preroll' = <<>> /\ UNCHANGED <<queue, chunk, hand, marks, heard, oldSent>>
    BY <1>1 DEF LinkLost
  <2>2. chunk = <<>>
    BY <2>1 DEF VoiceInv, Hands, VoiceGoto
  <2>3. Gate' /\ active' \in BOOLEAN /\ pending' \in BOOLEAN /\ preroll' \in {preroll, <<>>}
    BY <2>1 DEF Gate
  <2> QED
    BY <2>1, <2>2, <2>3, TxDropStep
<1>2. CASE ClearQueue(Tx, "queue", "idle")
  <2>1. /\ VoiceGoto(Tx, "queue", "idle") /\ queue' = <<>>
        /\ UNCHANGED <<active, pending, oldSent, preroll, chunk, hand, marks, heard>>
    BY <1>2 DEF ClearQueue, sessionState
  <2>2. chunk = <<>>
    BY <2>1 DEF VoiceInv, Hands, VoiceGoto
  <2>3. Gate' /\ active' \in BOOLEAN /\ pending' \in BOOLEAN /\ preroll' \in {preroll, <<>>}
    BY <2>1, VoiceLine DEF Gate, VoiceInv
  <2> QED
    BY <2>1, <2>2, <2>3, TxDropStep
<1> QED
  BY <1>1, <1>2, TxPopStep, TxCheckStep, TxSendStep, TxFailStep DEF TxTask

-----------------------------------------------------------------------------
(* The connection.                                                         *)

LEMMA StartAckStep ==
  ASSUME VoiceInv, StartAck PROVE VoiceInv'
<1>1. UNCHANGED <<active, oldSent, chunk, hand, marks, heard, where>>
  BY DEF StartAck
<1>2. CASE pending' = FALSE /\ queue' = Flushed /\ preroll' = <<>>
  <2>1. queue' \in Seq(Frame) /\ preroll' \in Seq(Frame)
    BY <1>2, FlushLine, EmptyKeeps
  <2>2. OnLine(chunk', queue', preroll', hand', heard', marks', oldSent')
    BY <1>1, <1>2, FlushLine
  <2>3. VoiceTypes'
    BY <1>1, <1>2, <2>1 DEF VoiceInv, VoiceTypes
  <2>4. Hands'
    BY <1>1, <1>2 DEF VoiceInv, Hands
  <2>5. Gate' /\ heard' # 3 /\ heard' <= marks'
    BY <1>1, <1>2 DEF VoiceInv, Gate
  <2> QED
    BY <2>2, <2>3, <2>4, <2>5 DEF VoiceInv
<1>3. CASE UNCHANGED <<pending, queue, preroll>>
  BY <1>1, <1>3, QuietStep DEF audio, VoiceInv, VoiceTypes
<1> QED
  BY <1>2, <1>3 DEF StartAck

LEMMA RxStep ==
  ASSUME VoiceInv,
         Disconnected \/ Connected \/ HelloAck \/ StartNack \/ VoiceEvent \/ RxTask
  PROVE  VoiceInv'
<1> Rx \in Users \cup Watchdogs \cup {Rx}
  OBVIOUS
<1> "queue" \in VoiceSteps /\ "clear" \in VoiceSteps /\ "clear_only" \in VoiceSteps
  BY DEF VoiceSteps
<1> "idle" \in VoiceSteps /\ "unduck" \in VoiceSteps
  BY DEF VoiceSteps
<1>1. CASE Disconnected
  BY <1>1, LinkLostStep DEF Disconnected
<1>2. CASE Connected \/ StartNack \/ VoiceEvent
  <2>1. /\ active' = active /\ pending' = pending /\ oldSent' = oldSent /\ UNCHANGED audio
        /\ \E to \in {"clear", "clear_only"} : VoiceGoto(Rx, "idle", to)
    BY <1>2 DEF Connected, StartNack, VoiceEvent, sessionState
  <2> QED
    BY <2>1, QuietOtherStep
<1>3. CASE HelloAck
  <2>1. /\ active' = active /\ pending' = pending /\ oldSent' = oldSent
        /\ UNCHANGED audio /\ UNCHANGED where
    BY <1>3 DEF HelloAck, sessionState
  <2> QED
    BY <2>1, QuietStep DEF VoiceInv, VoiceTypes
<1>4. CASE RxClear
  <2>1. Clear /\ (VoiceGoto(Rx, "clear", "unduck") \/ VoiceGoto(Rx, "clear_only", "idle"))
    BY <1>4 DEF RxClear
  <2> QED
    BY <2>1, ClearStep
<1>5. CASE Unduck(Rx, "unduck")
  <2>1. /\ active' = active /\ pending' = pending /\ oldSent' = oldSent /\ UNCHANGED audio
        /\ VoiceGoto(Rx, "unduck", "idle")
    BY <1>5 DEF Unduck, sessionState
  <2> QED
    BY <2>1, QuietOtherStep
<1>6. CASE ClearQueue(Rx, "queue", "idle")
  BY <1>6, ClearQueueStep
<1> QED
  BY <1>1, <1>2, <1>3, <1>4, <1>5, <1>6 DEF RxTask

-----------------------------------------------------------------------------

LEMMA VoiceInvariant == VoiceSpec => []VoiceInv
<1>1. VoiceInit => VoiceInv
  BY VoiceInitially
<1>2. VoiceInv /\ [VoiceNext]_voicing => VoiceInv'
  <2> SUFFICES ASSUME VoiceInv, [VoiceNext]_voicing PROVE VoiceInv'
    OBVIOUS
  <2>1. ASSUME NEW u \in Users, StartReady(u) \/ StartTask(u) \/ Stop(u) PROVE VoiceInv'
    BY <2>1, StartSteps, StopSteps
  <2>2. ASSUME NEW u \in Users, StopVoice(u) PROVE VoiceInv'
    BY <2>2, StopVoiceStep DEF StopVoice
  <2>3. ASSUME NEW w \in Watchdogs, Watchdog(w) PROVE VoiceInv'
    BY <2>3, WatchdogStep
  <2>4. ASSUME NEW mark \in 0..2, MicCall(mark) PROVE VoiceInv'
    BY <2>4, MicCallStep
  <2>5. CASE MicHold \/ MicExpire \/ MicPass \/ MicPut
    BY <2>5, MicHoldStep, MicExpireStep, MicPassStep, MicPutStep
  <2>6. CASE TxTask
    BY <2>6, TxTaskStep
  <2>7. CASE StartAck
    BY <2>7, StartAckStep
  <2>8. CASE Disconnected \/ Connected \/ HelloAck \/ StartNack \/ VoiceEvent \/ RxTask
    BY <2>8, RxStep
  <2>9. CASE UNCHANGED voicing
    <3>1. /\ active' = active /\ pending' = pending /\ oldSent' = oldSent
          /\ UNCHANGED audio /\ UNCHANGED where
      BY <2>9 DEF voicing, sessionState
    <3> QED
      BY <3>1, QuietStep DEF VoiceInv, VoiceTypes
  <2> QED
    BY <2>1, <2>2, <2>3, <2>4, <2>5, <2>6, <2>7, <2>8, <2>9 DEF VoiceNext
<1> QED
  BY <1>1, <1>2, PTL DEF VoiceSpec

(* Whatever tater_protocol_send_audio holds back and flushes, and whatever *)
(* audio_tx_enqueue and audio_tx_task drop or cut, no frame is sent after  *)
(* one the microphone gave later.                                          *)
THEOREM AudioKeepsOrder == VoiceSpec => []AudioInOrder
<1>1. VoiceInv => AudioInOrder
  BY DEF VoiceInv, AudioInOrder
<1> QED
  BY <1>1, VoiceInvariant, PTL

(* A session that starts after another sends at most the two frames the    *)
(* audio tasks had in hand: no backlog of preroll or queue outlives it.    *)
THEOREM OldAudioIsBounded == VoiceSpec => []OldAudioBounded
<1>1. VoiceInv => OldAudioBounded
  <2> SUFFICES ASSUME VoiceInv PROVE OldAudioBounded
    OBVIOUS
  <2>1. oldSent <= 2
    BY VoiceLine DEF OnLine, FewOld
  <2> QED
    BY <2>1 DEF VoiceInv, Gate, OldAudioBounded
<1> QED
  BY <1>1, VoiceInvariant, PTL

-----------------------------------------------------------------------------
(* What the steps that are neither the microphone's nor the sender's do to *)
(* the frames: they grow old or are dropped.                               *)
Drops ==
  /\ preroll' \in {preroll, <<>>} /\ queue' \in {queue, <<>>}
  /\ chunk' \in {chunk, Aged(chunk), <<>>} /\ hand' \in {hand, Aged(hand)}
  /\ marks' = marks /\ heard' = heard

LEMMA VoiceEffects ==
  ASSUME [VoiceNext]_voicing
  PROVE  \/ Drops
         \/ \E mark \in 0..2 : MicCall(mark)
         \/ MicHold \/ MicExpire \/ StartAck \/ MicPut \/ TxPop \/ TxCheck \/ TxSend
<1>1. ASSUME NEW t, NEW from, NEW to,
             LinkLost(t, from, to) \/ ClearQueue(t, from, to) \/ Unduck(t, from)
      PROVE  Drops
  BY <1>1 DEF LinkLost, ClearQueue, Unduck, Drops, sessionState, audio
<1>2. ASSUME NEW u, StartReady(u) \/ StartTask(u) PROVE Drops
  <2>1. CASE StartReady(u)
    BY <2>1 DEF StartReady, Drops, audio
  <2>2. CASE StartLock(u)
    BY <2>2 DEF StartLock, Drops
  <2>3. CASE StartDuck(u) \/ StartSend(u) \/ VoiceFailed(u) \/ CreateWatchdog(u)
    BY <2>3 DEF StartDuck, StartSend, VoiceFailed, Clear, CreateWatchdog, Drops, audio
  <2> QED
    BY <1>1, <1>2, <2>1, <2>2, <2>3 DEF StartTask, UnduckFailed
<1>3. ASSUME NEW t, Stop(t) PROVE Drops
  BY <1>1, <1>3 DEF Stop, StopSend, StopClear, Clear, Drops, audio
<1>4. ASSUME NEW u, StopVoice(u) PROVE Drops
  BY <1>4 DEF StopVoice, Drops, audio
<1>5. ASSUME NEW w, Watchdog(w) PROVE Drops
  BY <1>3, <1>5 DEF Watchdog, WatchdogFires, Abort, Drops, audio
<1>6. CASE MicPass \/ TxFail
  BY <1>6 DEF MicPass, TxFail, Drops, audio
<1>7. CASE TxTask
  BY <1>1, <1>6, <1>7 DEF TxTask
<1>8. CASE Disconnected \/ Connected \/ HelloAck \/ StartNack \/ VoiceEvent \/ RxTask
  BY <1>1, <1>8 DEF Disconnected, Connected, HelloAck, StartNack, VoiceEvent, RxTask, RxClear,
     Clear, Drops, audio
<1>9. CASE UNCHANGED voicing
  BY <1>9 DEF voicing, audio, Drops
<1> QED
  BY <1>2, <1>3, <1>4, <1>5, <1>6, <1>7, <1>8, <1>9 DEF VoiceNext

(* The marks of a buffer. *)
LEMMA MarksOfOne == \A frame : MarksOf(<<frame>>) = {frame.mark} \ {0}
BY DEF MarksOf

LEMMA NoMarks == MarksOf(<<>>) = {}
BY DEF MarksOf

LEMMA MarkOf ==
  ASSUME NEW fs \in Seq(Frame), NEW m
  PROVE  m \in MarksOf(fs) <=> \E i \in 1..Len(fs) : fs[i].mark = m /\ m # 0
BY DEF MarksOf

LEMMA MarksOfAged ==
  ASSUME NEW fs \in Seq(Frame)
  PROVE  MarksOf(Aged(fs)) = MarksOf(fs)
<1>1. \A i \in DOMAIN fs : Aged(fs)[i].mark = fs[i].mark
  <2> TAKE i \in DOMAIN fs
  <2>1. fs[i] \in Frame
    OBVIOUS
  <2> QED
    BY <2>1 DEF Aged, Frame
<1>2. DOMAIN Aged(fs) = DOMAIN fs
  BY DEF Aged
<1> QED
  BY <1>1, <1>2 DEF MarksOf

LEMMA MarksOfNewest ==
  ASSUME NEW fs \in Seq(Frame), NEW n \in Nat
  PROVE  MarksOf(Newest(fs, n)) \subseteq MarksOf(fs)
<1> DEFINE ns == Newest(fs, n)
<1>1. /\ ns \in Seq(Frame)
      /\ \A i \in 1..Len(ns) : \E j \in 1..Len(fs) : ns[i] = fs[j]
  BY NewestIsSuffix
<1> HIDE DEF ns
<1>2. MarksOf(ns) \subseteq MarksOf(fs)
  BY <1>1, MarkOf
<1> QED
  BY <1>2 DEF ns

LEMMA MarksOfJoin ==
  ASSUME NEW fs \in Seq(Frame), NEW gs \in Seq(Frame)
  PROVE  MarksOf(fs \o gs) \subseteq MarksOf(fs) \cup MarksOf(gs)
<1> DEFINE all == fs \o gs
<1>1. /\ all \in Seq(Frame)
      /\ \A i \in 1..Len(all) : \/ \E j \in 1..Len(fs) : all[i] = fs[j]
                                \/ \E j \in 1..Len(gs) : all[i] = gs[j]
  <2>1. all \in Seq(Frame) /\ Len(all) = Len(fs) + Len(gs)
    OBVIOUS
  <2>2. ASSUME NEW i \in 1..Len(all)
        PROVE  \/ \E j \in 1..Len(fs) : all[i] = fs[j]
               \/ \E j \in 1..Len(gs) : all[i] = gs[j]
    <3>1. CASE i <= Len(fs)
      BY <2>1, <3>1
    <3>2. CASE i > Len(fs)
      <4>1. i - Len(fs) \in 1..Len(gs) /\ all[i] = gs[i - Len(fs)]
        BY <2>1, <3>2
      <4> QED
        BY <4>1
    <3> QED
      BY <2>1, <3>1, <3>2
  <2> QED
    BY <2>1, <2>2
<1> HIDE DEF all
<1>2. MarksOf(all) \subseteq MarksOf(fs) \cup MarksOf(gs)
  BY <1>1, MarkOf
<1> QED
  BY <1>2 DEF all

LEMMA MarksOfParts ==
  ASSUME NEW fs \in Seq(Frame), fs # <<>>
  PROVE  MarksOf(<<Head(fs)>>) \cup MarksOf(Tail(fs)) \subseteq MarksOf(fs)
<1>1. /\ Tail(fs) \in Seq(Frame) /\ Head(fs) = fs[1] /\ 1 \in 1..Len(fs)
      /\ \A i \in 1..Len(Tail(fs)) : i + 1 \in 1..Len(fs) /\ Tail(fs)[i] = fs[i + 1]
  OBVIOUS
<1>2. MarksOf(Tail(fs)) \subseteq MarksOf(fs)
  <2> SUFFICES ASSUME NEW m \in MarksOf(Tail(fs)) PROVE m \in MarksOf(fs)
    OBVIOUS
  <2>1. PICK i \in 1..Len(Tail(fs)) : Tail(fs)[i].mark = m /\ m # 0
    BY <1>1, MarkOf
  <2>2. i + 1 \in 1..Len(fs) /\ fs[i + 1].mark = m
    BY <1>1, <2>1
  <2> QED
    BY <2>1, <2>2, MarkOf
<1>3. MarksOf(<<Head(fs)>>) \subseteq MarksOf(fs)
  <2>1. MarksOf(<<Head(fs)>>) = {fs[1].mark} \ {0}
    BY <1>1, MarksOfOne
  <2> QED
    BY <1>1, <2>1, MarkOf
<1> QED
  BY <1>2, <1>3

-----------------------------------------------------------------------------
(* The steps of the channel.                                               *)

OnWay == MarksOf(chunk) \cup MarksOf(queue) \cup MarksOf(preroll) \cup MarksOf(hand)

Loses == OnWay' \subseteq OnWay /\ marks' = marks /\ heard' = heard

LEMMA DropsLose == ASSUME VoiceInv, Drops PROVE Loses
<1>1. chunk \in Seq(Frame) /\ hand \in Seq(Frame)
  BY VoiceLine
<1>2. /\ MarksOf(preroll') \subseteq MarksOf(preroll)
      /\ MarksOf(queue') \subseteq MarksOf(queue)
  BY NoMarks DEF Drops
<1>3. /\ MarksOf(chunk') \subseteq MarksOf(chunk)
      /\ MarksOf(hand') \subseteq MarksOf(hand)
  BY <1>1, NoMarks, MarksOfAged DEF Drops
<1> QED
  BY <1>2, <1>3 DEF Drops, Loses, OnWay, MarksOf

LEMMA CallGives ==
  ASSUME VoiceInv, NEW mark \in 0..2, MicCall(mark)
  PROVE  Upload!LossyNext \/ Loses
<1>1. /\ hand = <<>> /\ marks \in Nat
      /\ hand' = <<[mark |-> mark, old |-> FALSE]>>
      /\ mark = 0 \/ mark = marks + 1
      /\ marks' = (IF mark = 0 THEN marks ELSE mark)
      /\ UNCHANGED <<preroll, queue, chunk, heard>>
  BY DEF VoiceInv, VoiceTypes, Hands, MicCall, VoiceGoto
<1>2. MarksOf(hand') = {mark} \ {0} /\ MarksOf(hand) = {}
  BY <1>1, MarksOfOne, NoMarks
<1>3. OnWay' = OnWay \cup ({mark} \ {0})
  BY <1>1, <1>2 DEF OnWay
<1>4. CASE mark = 0
  BY <1>1, <1>3, <1>4 DEF Loses
<1>5. CASE mark # 0
  <2>1. marks' = marks + 1 /\ OnWay' = OnWay \cup {marks'} /\ heard' = heard
    BY <1>1, <1>3, <1>5
  <2> QED
    BY <2>1 DEF OnWay, Upload!LossyNext, Upload!Give
<1> QED
  BY <1>4, <1>5

LEMMA MicLoses ==
  ASSUME VoiceInv, MicHold \/ MicExpire \/ StartAck \/ MicPut
  PROVE  Loses
<1>1. /\ queue \in Seq(Frame) /\ preroll \in Seq(Frame) /\ hand \in Seq(Frame)
      /\ PrerollFrames \in Nat /\ QueueFrames \in Nat
  BY VoiceLine
<1>2. \A fs, gs \in Seq(Frame), n \in Nat :
        MarksOf(Newest(fs \o gs, n)) \subseteq MarksOf(fs) \cup MarksOf(gs)
  <2> TAKE fs, gs \in Seq(Frame), n \in Nat
  <2>1. fs \o gs \in Seq(Frame)
    OBVIOUS
  <2> QED
    BY <2>1, MarksOfNewest, MarksOfJoin
<1>3. CASE MicHold
  <2>1. /\ preroll' = Newest(preroll \o hand, PrerollFrames) /\ hand' = <<>>
        /\ UNCHANGED <<queue, chunk, marks, heard>>
    BY <1>3 DEF MicHold
  <2>2. MarksOf(preroll') \subseteq MarksOf(preroll) \cup MarksOf(hand) /\ MarksOf(hand') = {}
    BY <1>1, <1>2, <2>1, NoMarks
  <2> QED
    BY <2>1, <2>2 DEF Loses, OnWay
<1>4. CASE MicPut
  <2>1. /\ queue' \in {queue, Newest(queue \o hand, QueueFrames)} /\ hand' = <<>>
        /\ UNCHANGED <<preroll, chunk, marks, heard>>
    BY <1>4 DEF MicPut
  <2>2. MarksOf(queue') \subseteq MarksOf(queue) \cup MarksOf(hand) /\ MarksOf(hand') = {}
    BY <1>1, <1>2, <2>1, NoMarks
  <2> QED
    BY <2>1, <2>2 DEF Loses, OnWay
<1>5. CASE MicExpire \/ StartAck
  <2>1. /\ UNCHANGED <<hand, chunk, marks, heard>>
        /\ \/ UNCHANGED <<queue, preroll>>
           \/ queue' = Flushed /\ preroll' = <<>>
    BY <1>5 DEF MicExpire, StartAck
  <2>2. MarksOf(Flushed) \subseteq MarksOf(queue) \cup MarksOf(preroll)
    BY <1>1, <1>2 DEF Flushed
  <2>3. MarksOf(queue') \cup MarksOf(preroll') \subseteq MarksOf(queue) \cup MarksOf(preroll)
    BY <2>1, <2>2, NoMarks
  <2> QED
    BY <2>1, <2>3 DEF Loses, OnWay
<1> QED
  BY <1>3, <1>4, <1>5

LEMMA TxLoses == ASSUME VoiceInv, TxPop \/ TxCheck PROVE Loses
<1>1. queue \in Seq(Frame) /\ Recovery \in Nat
  BY VoiceLine
<1>2. CASE TxPop
  <2>1. /\ queue # <<>> /\ chunk' = <<Head(queue)>> /\ queue' = Tail(queue)
        /\ UNCHANGED <<preroll, hand, marks, heard>>
    BY <1>2 DEF TxPop
  <2>2. MarksOf(chunk') \cup MarksOf(queue') \subseteq MarksOf(queue)
    BY <1>1, <2>1, MarksOfParts
  <2> QED
    BY <2>1, <2>2 DEF Loses, OnWay
<1>3. CASE TxCheck
  <2>1. /\ chunk' \in {chunk, <<>>} /\ queue' \in {queue, Newest(queue, Recovery), <<>>}
        /\ UNCHANGED <<preroll, hand, marks, heard>>
    BY <1>3 DEF TxCheck
  <2>2. MarksOf(chunk') \subseteq MarksOf(chunk) /\ MarksOf(queue') \subseteq MarksOf(queue)
    BY <1>1, <2>1, MarksOfNewest, NoMarks
  <2> QED
    BY <2>1, <2>2 DEF Loses, OnWay
<1> QED
  BY <1>2, <1>3

(* What the sender has in hand is the oldest. *)
LEMMA SendDelivers ==
  ASSUME VoiceInv, TxSend
  PROVE  Upload!LossyNext \/ Loses
<1> DEFINE unit == chunk[1].mark
<1>1. /\ chunk \in Seq(Frame) /\ queue \in Seq(Frame) /\ preroll \in Seq(Frame)
      /\ hand \in Seq(Frame) /\ Recovery \in Nat /\ heard # 3
      /\ OnLine(chunk, queue, preroll, hand, heard, marks, oldSent)
  BY VoiceLine DEF VoiceInv
<1>2. Len(chunk) = 1
  BY DEF VoiceInv, Hands, TxSend, VoiceGoto
<1>3. /\ chunk' = <<>> /\ queue' \in {queue, Newest(queue, Recovery)}
      /\ UNCHANGED <<preroll, hand, marks>>
      /\ heard' = (IF unit = 0 \/ heard = 3 THEN heard
                   ELSE IF unit > heard THEN unit ELSE 3)
  BY DEF TxSend, Hear
<1>4. MarksOf(queue') \subseteq MarksOf(queue) /\ MarksOf(chunk') = {}
  BY <1>1, <1>3, MarksOfNewest, NoMarks
<1>5. MarksOf(chunk) = {unit} \ {0} /\ unit \in 0..2
  <2>1. chunk = <<chunk[1]>> /\ 1 \in 1..Len(chunk)
    BY <1>1, <1>2
  <2> QED
    BY <1>1, <2>1, MarksOfOne, FramesAre
<1>6. CASE unit = 0
  BY <1>3, <1>4, <1>5, <1>6 DEF Loses, OnWay
<1>7. CASE unit # 0
  <2>1. /\ Before(chunk, queue) /\ Before(chunk, preroll) /\ Before(chunk, hand)
        /\ heard < unit
    BY <1>1, <1>2, <1>5, <1>7 DEF OnLine, InLine, Within
  <2>2. ASSUME NEW fs \in Seq(Frame), Before(chunk, fs)
        PROVE  \A other \in MarksOf(fs) : unit <= other /\ unit # other
    <3> SUFFICES ASSUME NEW other \in MarksOf(fs) PROVE unit <= other /\ unit # other
      OBVIOUS
    <3>1. PICK i \in 1..Len(fs) : fs[i].mark = other /\ other # 0
      BY MarkOf
    <3>2. unit < other /\ other \in 0..2
      BY <1>2, <1>7, <2>2, <3>1, FramesAre DEF Before
    <3> QED
      BY <1>5, <3>2
  <2>3. /\ \A other \in MarksOf(queue) : unit <= other /\ unit # other
        /\ \A other \in MarksOf(preroll) : unit <= other /\ unit # other
        /\ \A other \in MarksOf(hand) : unit <= other /\ unit # other
    BY <1>1, <2>1, <2>2
  <2>4. heard' = unit
    BY <1>1, <1>3, <1>5, <1>7, <2>1 DEF OnLine, InLine
  <2>5. unit \in OnWay /\ \A other \in OnWay : unit <= other
    <3>1. \A other \in MarksOf(chunk) : other = unit
      BY <1>5
    <3>2. unit <= unit
      BY <1>5
    <3>3. unit \in OnWay
      BY <1>5, <1>7 DEF OnWay
    <3> QED
      BY <2>3, <3>1, <3>2, <3>3 DEF OnWay
  <2>6. OnWay' \subseteq OnWay \ {unit}
    BY <1>3, <1>4, <1>5, <2>3 DEF OnWay
  <2> QED
    BY <1>3, <2>4, <2>5, <2>6 DEF OnWay, Upload!LossyNext, Upload!Deliver
<1> QED
  BY <1>6, <1>7

LEMMA UploadSteps == VoiceInv /\ [VoiceNext]_voicing => [Upload!LossyNext]_(Upload!lossy)
<1>1. ASSUME Loses PROVE Upload!LossyNext
  BY <1>1 DEF Loses, OnWay, Upload!LossyNext, Upload!Lose
<1> QED
  BY <1>1, VoiceEffects, DropsLose, CallGives, MicLoses, TxLoses, SendDelivers

(* Whatever the buffers drop and whenever the session or the link ends,    *)
(* the upload is a channel that loses frames and nothing worse.            *)
THEOREM UploadOnlyLoses == VoiceSpec => UploadIsChannel
<1>1. VoiceInit => Upload!LossyInit
  BY NoMarks DEF VoiceInit, Upload!LossyInit
<1> QED
  BY <1>1, UploadSteps, VoiceInvariant, PTL DEF VoiceSpec, UploadIsChannel, Upload!LossySpec

-----------------------------------------------------------------------------
(* VoiceTypeOK beyond VoiceTypes, but for the bound of the starts. *)
Bounded == Len(preroll) <= PrerollFrames /\ Len(queue) <= QueueFrames

SessionTypes ==
  /\ link \in {"down", "lost", "up", "ready"}
  /\ reopen \in BOOLEAN /\ duck \in BOOLEAN /\ announced \in BOOLEAN
  /\ mine \in [Users \cup Watchdogs -> BOOLEAN]
  /\ starts \in Nat

(* A user who has found the server free to be asked may add to the starts. *)
Starters == {u \in Users : where[u] \in {"s_lock", "s_duck", "s_send"}}
StartsInv == starts + Cardinality(Starters) <= MaxStarts + Cardinality(Users)

LEMMA NewestIsBounded ==
  ASSUME NEW fs \in Seq(Frame), NEW n \in Nat
  PROVE  Len(Newest(fs, n)) <= n
<1>1. CASE Len(fs) > n
  <2>1. Len(SubSeq(fs, Len(fs) - n + 1, Len(fs))) = n
    BY <1>1, SubSeqProperties
  <2> QED
    BY <1>1, <2>1 DEF Newest
<1>2. CASE ~(Len(fs) > n)
  BY <1>2 DEF Newest
<1> QED
  BY <1>1, <1>2

LEMMA BuffersBounded ==
  ASSUME VoiceInv, Bounded, [VoiceNext]_voicing
  PROVE  Bounded'
<1>1. /\ queue \in Seq(Frame) /\ preroll \in Seq(Frame) /\ hand \in Seq(Frame)
      /\ PrerollFrames \in Nat /\ QueueFrames \in Nat /\ Recovery \in Nat /\ Recovery <= QueueFrames
  BY VoiceLine, VoiceAssumption
<1>2. /\ \A fs \in Seq(Frame) : Len(Newest(fs, PrerollFrames)) <= PrerollFrames
      /\ \A fs \in Seq(Frame) : Len(Newest(fs, QueueFrames)) <= QueueFrames
      /\ Len(Newest(queue, Recovery)) <= QueueFrames
      /\ Len(<<>>) = 0
  <2>1. Len(Newest(queue, Recovery)) <= Len(queue)
    BY <1>1, NewestIsSuffix
  <2>2. Len(Newest(queue, Recovery)) \in Nat
    BY <1>1, NewestIsSuffix
  <2> QED
    BY <1>1, <2>1, <2>2, NewestIsBounded DEF Bounded
<1>3. CASE Drops
  BY <1>1, <1>2, <1>3 DEF Drops, Bounded
<1>4. ASSUME NEW mark \in 0..2, MicCall(mark) PROVE Bounded'
  BY <1>4 DEF MicCall, Bounded
<1>5. CASE MicHold
  <2>1. preroll \o hand \in Seq(Frame)
    BY <1>1
  <2> QED
    BY <1>2, <1>5, <2>1 DEF MicHold, Bounded
<1>6. CASE MicExpire \/ StartAck
  <2>1. queue \o preroll \in Seq(Frame)
    BY <1>1
  <2>2. Len(Flushed) <= QueueFrames
    BY <1>2, <2>1 DEF Flushed, Bounded
  <2> QED
    BY <1>1, <1>2, <1>6, <2>2 DEF MicExpire, StartAck, Bounded
<1>7. CASE MicPut
  <2>1. queue \o hand \in Seq(Frame)
    BY <1>1
  <2> QED
    BY <1>2, <1>7, <2>1 DEF MicPut, Bounded
<1>8. CASE TxPop
  <2>1. Len(Tail(queue)) <= Len(queue) /\ Len(Tail(queue)) \in Nat
    BY <1>1, <1>8 DEF TxPop
  <2> QED
    BY <1>1, <1>8, <2>1 DEF TxPop, Bounded
<1>9. CASE TxCheck \/ TxSend
  <2>1. queue' \in {queue, Newest(queue, Recovery), <<>>} /\ preroll' = preroll
    BY <1>9 DEF TxCheck, TxSend
  <2> QED
    BY <1>1, <1>2, <2>1 DEF Bounded
<1> QED
  BY <1>3, <1>4, <1>5, <1>6, <1>7, <1>8, <1>9, VoiceEffects

LEMMA SessionTyped ==
  ASSUME VoiceInv, SessionTypes, [VoiceNext]_voicing
  PROVE  SessionTypes'
<1>1. /\ Nobody \in [Users \cup Watchdogs -> BOOLEAN]
      /\ starts + 1 \in Nat /\ (starts > 0 => starts - 1 \in Nat)
  BY DEF Nobody, SessionTypes
<1>2. ASSUME NEW t, NEW from, NEW to,
             LinkLost(t, from, to) \/ ClearQueue(t, from, to) \/ Unduck(t, from)
      PROVE  SessionTypes'
  <2>1. CASE LinkLost(t, from, to)
    <3>1. /\ link' \in {"down", "lost"} /\ mine' = Nobody /\ starts' \in {0, starts}
          /\ reopen' = FALSE /\ duck' = FALSE /\ announced' = announced
      BY <2>1 DEF LinkLost
    <3>2. mine' \in [Users \cup Watchdogs -> BOOLEAN] /\ starts' \in Nat
      BY <1>1, <3>1 DEF SessionTypes
    <3> QED
      BY <3>1, <3>2 DEF SessionTypes
  <2>2. CASE ClearQueue(t, from, to) \/ Unduck(t, from)
    BY <2>2 DEF ClearQueue, Unduck, SessionTypes, sessionState
  <2> QED
    BY <1>2, <2>1, <2>2
<1>3. ASSUME NEW u \in Users, StartReady(u) \/ StartTask(u) PROVE SessionTypes'
  <2>1. CASE StartLock(u)
    <3>1. [Nobody EXCEPT ![u] = TRUE] \in [Users \cup Watchdogs -> BOOLEAN]
      BY <1>1
    <3> QED
      BY <2>1, <3>1 DEF StartLock, SessionTypes
  <2>2. CASE CreateWatchdog(u)
    <3>1. \A w \in Watchdogs : [mine EXCEPT ![w] = mine[u]] \in [Users \cup Watchdogs -> BOOLEAN]
      BY DEF SessionTypes
    <3> QED
      BY <2>2, <3>1 DEF CreateWatchdog, SessionTypes
  <2>3. CASE StartReady(u) \/ StartDuck(u) \/ StartSend(u) \/ VoiceFailed(u)
    BY <1>1, <2>3 DEF StartReady, StartDuck, StartSend, VoiceFailed, Clear, SessionTypes,
       sessionState
  <2> QED
    BY <1>2, <1>3, <2>1, <2>2, <2>3 DEF StartTask, UnduckFailed
<1>4. ASSUME NEW t, Stop(t) PROVE SessionTypes'
  BY <1>1, <1>2, <1>4 DEF Stop, StopSend, StopClear, Clear, SessionTypes, sessionState
<1>5. ASSUME NEW u, StopVoice(u) PROVE SessionTypes'
  BY <1>5 DEF StopVoice, SessionTypes, sessionState
<1>6. ASSUME NEW w, Watchdog(w) PROVE SessionTypes'
  BY <1>4, <1>6 DEF Watchdog, WatchdogFires, Abort, SessionTypes, sessionState
<1>7. ASSUME NEW mark, MicCall(mark) PROVE SessionTypes'
  BY <1>7 DEF MicCall, SessionTypes, sessionState
<1>8. CASE MicHold \/ MicExpire \/ MicPass \/ MicPut
  BY <1>8 DEF MicHold, MicExpire, MicPass, MicPut, SessionTypes, sessionState
<1>9. CASE TxTask
  BY <1>2, <1>9 DEF TxTask, TxPop, TxCheck, TxSend, TxFail, SessionTypes, sessionState
<1>10. CASE Disconnected \/ Connected \/ HelloAck \/ StartAck \/ StartNack \/ VoiceEvent \/ RxTask
  <2>1. CASE Connected \/ HelloAck \/ StartAck \/ StartNack \/ VoiceEvent
    BY <1>1, <2>1 DEF Connected, HelloAck, StartAck, StartNack, VoiceEvent, SessionTypes,
       sessionState
  <2>2. CASE RxClear
    BY <1>1, <2>2 DEF RxClear, Clear, SessionTypes
  <2> QED
    BY <1>2, <1>10, <2>1, <2>2 DEF Disconnected, RxTask
<1>11. CASE UNCHANGED voicing
  BY <1>11 DEF voicing, sessionState, SessionTypes
<1> QED
  BY <1>3, <1>4, <1>5, <1>6, <1>7, <1>8, <1>9, <1>10, <1>11 DEF VoiceNext

-----------------------------------------------------------------------------

StartWay == {"s_lock", "s_duck", "s_send"}

LEMMA FewerStarters ==
  ASSUME VoiceInv, SessionTypes, StartsInv, starts' \in Nat, starts' <= starts,
         \A u \in Users : where'[u] \in StartWay => where[u] \in StartWay
  PROVE  StartsInv'
<1>1. Starters' \subseteq Starters /\ Starters \subseteq Users
  BY DEF Starters, StartWay
<1>2. IsFiniteSet(Users) /\ MaxStarts \in Nat
  BY VoiceAssumption
<1>3. /\ IsFiniteSet(Starters) /\ Cardinality(Starters) \in Nat
      /\ Cardinality(Starters') \in Nat /\ Cardinality(Starters') <= Cardinality(Starters)
      /\ Cardinality(Users) \in Nat
  BY <1>1, <1>2, FS_Subset, FS_CardinalityType
<1> QED
  BY <1>2, <1>3 DEF StartsInv, SessionTypes

LEMMA StayedStarters ==
  ASSUME VoiceInv, SessionTypes, StartsInv, starts' \in Nat, starts' <= starts,
         NEW t, NEW from, NEW to, VoiceGoto(t, from, to),
         to \in StartWay => from \in StartWay
  PROVE  StartsInv'
<1>1. \A u \in Users : where'[u] = where[u] \/ (u = t /\ where'[u] = to /\ where[u] = from)
  BY DEF VoiceGoto, VoiceInv, VoiceTypes, Tasks
<1> QED
  BY <1>1, FewerStarters

LEMMA StartsCounted ==
  ASSUME VoiceInv, SessionTypes, SessionTypes', StartsInv, [VoiceNext]_voicing
  PROVE  StartsInv'
<1>0. starts \in Nat /\ starts' \in Nat /\ starts <= starts
  BY DEF SessionTypes
<1>1. IsFiniteSet(Users) /\ MaxStarts \in Nat /\ Cardinality(Users) \in Nat
  BY VoiceAssumption, FS_CardinalityType
<1>2. ASSUME NEW t, NEW from, NEW to, to \notin StartWay,
             LinkLost(t, from, to) \/ ClearQueue(t, from, to) \/ Unduck(t, from)
      PROVE  StartsInv'
  <2>1. starts' <= starts
    BY <1>0, <1>2 DEF LinkLost, ClearQueue, Unduck
  <2>2. VoiceGoto(t, from, to) \/ VoiceGoto(t, from, "idle")
    BY <1>2 DEF LinkLost, ClearQueue, Unduck
  <2> QED
    BY <1>0, <1>2, <2>1, <2>2, StayedStarters DEF StartWay
<1>3. ASSUME NEW u \in Users, StartReady(u) PROVE StartsInv'
  <2>1. starts < MaxStarts /\ starts' = starts
    BY <1>3 DEF StartReady
  <2>2. Starters' \subseteq Users
    BY DEF Starters
  <2>3. Cardinality(Starters') <= Cardinality(Users) /\ Cardinality(Starters') \in Nat
    BY <1>1, <2>2, FS_Subset, FS_CardinalityType
  <2> QED
    BY <1>0, <1>1, <2>1, <2>3 DEF StartsInv
<1>4. ASSUME NEW u \in Users, StartSend(u) PROVE StartsInv'
  <2>1. CASE starts' = starts + 1
    <3>1. where[u] = "s_send" /\ where'[u] \notin StartWay
          /\ \A v \in Users : v # u => where'[v] = where[v]
      BY <1>4, <2>1, <1>0 DEF StartSend, VoiceGoto, VoiceInv, VoiceTypes, Tasks, StartWay
    <3>2. u \in Starters /\ Starters' = Starters \ {u} /\ Starters \subseteq Users
      BY <3>1 DEF Starters, StartWay
    <3>3. IsFiniteSet(Starters) /\ Cardinality(Starters) \in Nat
      BY <1>1, <3>2, FS_Subset, FS_CardinalityType
    <3>4. Cardinality(Starters') = Cardinality(Starters) - 1
      BY <3>2, <3>3, FS_RemoveElement
    <3> QED
      BY <1>0, <1>1, <2>1, <3>3, <3>4 DEF StartsInv
  <2>2. CASE starts' # starts + 1
    <3>1. starts' = starts /\ \E to \in {"s_failed", "s_lost"} : VoiceGoto(u, "s_send", to)
      BY <1>4, <2>2 DEF StartSend
    <3> QED
      BY <1>0, <3>1, StayedStarters DEF StartWay
  <2> QED
    BY <2>1, <2>2
<1>5. ASSUME NEW u \in Users, CreateWatchdog(u) PROVE StartsInv'
  <2>1. /\ starts' = starts
        /\ \A v \in Users : where'[v] = where[v] \/ where'[v] \in {"idle", "sleep"}
    BY <1>5 DEF CreateWatchdog, VoiceInv, VoiceTypes, Tasks
  <2> QED
    BY <1>0, <2>1, FewerStarters DEF StartWay
<1>6. ASSUME NEW u \in Users, StartTask(u) PROVE StartsInv'
  <2>1. CASE StartLock(u) \/ StartDuck(u) \/ VoiceFailed(u)
    <3>1. /\ starts' = starts
          /\ \/ VoiceGoto(u, "s_lock", "s_duck") \/ VoiceGoto(u, "s_duck", "s_send")
             \/ VoiceGoto(u, "s_failed", "s_unduck")
      BY <2>1 DEF StartLock, StartDuck, VoiceFailed
    <3> QED
      BY <1>0, <3>1, StayedStarters DEF StartWay
  <2>2. CASE LinkLost(u, "s_lost", "s_queue") \/ ClearQueue(u, "s_queue", "s_failed")
             \/ UnduckFailed(u)
    BY <1>2, <2>2 DEF UnduckFailed, StartWay
  <2> QED
    BY <1>4, <1>5, <1>6, <2>1, <2>2 DEF StartTask
<1>7. ASSUME NEW t, Stop(t) PROVE StartsInv'
  <2>1. CASE StopSend(t) \/ StopClear(t)
    <3>1. /\ starts' = starts
          /\ \/ VoiceGoto(t, "p_send", "p_clear") \/ VoiceGoto(t, "p_send", "p_lost")
             \/ VoiceGoto(t, "p_clear", "p_unduck") \/ VoiceGoto(t, "p_clear", "idle")
      BY <2>1 DEF StopSend, StopClear
    <3> QED
      BY <1>0, <3>1, StayedStarters DEF StartWay
  <2>2. CASE Unduck(t, "p_unduck") \/ LinkLost(t, "p_lost", "p_queue")
             \/ ClearQueue(t, "p_queue", "p_clear")
    BY <1>2, <2>2 DEF StartWay
  <2> QED
    BY <1>7, <2>1, <2>2 DEF Stop
<1>8. ASSUME NEW t, NEW from, StopReady(t, from), starts' = starts PROVE StartsInv'
  <2>1. VoiceGoto(t, from, "p_send") \/ VoiceGoto(t, from, "p_clear")
    BY <1>8 DEF StopReady
  <2> QED
    BY <1>0, <1>8, <2>1, StayedStarters DEF StartWay
<1>9. ASSUME NEW u, StopVoice(u) PROVE StartsInv'
  BY <1>8, <1>9 DEF StopVoice
<1>10. ASSUME NEW w, Watchdog(w) PROVE StartsInv'
  <2>1. CASE WatchdogFires(w)
    <3>1. /\ starts' = starts
          /\ VoiceGoto(w, "sleep", "p_ready") \/ VoiceGoto(w, "sleep", "idle")
      BY <2>1 DEF WatchdogFires
    <3> QED
      BY <1>0, <3>1, StayedStarters DEF StartWay
  <2>2. CASE Abort(w)
    BY <1>8, <2>2 DEF Abort
  <2> QED
    BY <1>7, <1>10, <2>1, <2>2 DEF Watchdog
<1>11. ASSUME NEW mark, MicCall(mark) PROVE StartsInv'
  <2>1. VoiceGoto(Mic, "idle", "lock") /\ starts' = starts
    BY <1>11 DEF MicCall
  <2> QED
    BY <1>0, <2>1, StayedStarters DEF StartWay
<1>12. CASE MicHold \/ MicExpire \/ MicPass \/ MicPut
  <2>1. /\ starts' = starts
        /\ \/ VoiceGoto(Mic, "lock", "idle") \/ VoiceGoto(Mic, "lock", "put")
           \/ VoiceGoto(Mic, "put", "idle")
    BY <1>12 DEF MicHold, MicExpire, MicPass, MicPut
  <2> QED
    BY <1>0, <2>1, StayedStarters DEF StartWay
<1>13. CASE TxTask
  <2>1. CASE TxPop \/ TxCheck \/ TxSend \/ TxFail
    <3>1. /\ starts' = starts
          /\ \E from, to \in {"idle", "check", "send", "lost"} : VoiceGoto(Tx, from, to)
      BY <2>1 DEF TxPop, TxCheck, TxSend, TxFail
    <3> QED
      BY <1>0, <3>1, StayedStarters DEF StartWay
  <2> QED
    BY <1>2, <1>13, <2>1 DEF TxTask, StartWay
<1>14. CASE HelloAck \/ StartAck
  <2>1. starts' <= starts /\ where' = where
    BY <1>0, <1>14 DEF HelloAck, StartAck
  <2> QED
    BY <1>0, <2>1, FewerStarters
<1>15. CASE Disconnected
  BY <1>2, <1>15 DEF Disconnected, StartWay
<1>16. CASE Connected \/ StartNack \/ VoiceEvent \/ RxClear
  <2>1. /\ starts' <= starts
        /\ \E from, to \in {"idle", "clear", "clear_only", "unduck"} : VoiceGoto(Rx, from, to)
    BY <1>0, <1>16 DEF Connected, StartNack, VoiceEvent, RxClear
  <2> QED
    BY <1>0, <2>1, StayedStarters DEF StartWay
<1>17. CASE RxTask
  BY <1>2, <1>16, <1>17 DEF RxTask, StartWay
<1>18. CASE UNCHANGED voicing
  <2>1. starts' = starts /\ where' = where
    BY <1>18 DEF voicing
  <2> QED
    BY <1>0, <2>1, FewerStarters
<1> QED
  BY <1>3, <1>6, <1>7, <1>9, <1>10, <1>11, <1>12, <1>13, <1>14, <1>15, <1>16, <1>17, <1>18
  DEF VoiceNext

(* Preroll and queue stay within their capacities, whatever is held back,  *)
(* flushed and cut, and the rest of the session of its type.               *)
THEOREM VoiceTypeCorrect == VoiceSpec => []VoiceTypeOK
<1> DEFINE Typed == Bounded /\ SessionTypes /\ StartsInv
<1>1. VoiceInit => Typed
  <2> SUFFICES ASSUME VoiceInit PROVE Typed
    OBVIOUS
  <2>1. Starters = {}
    BY DEF VoiceInit, Starters, Tasks
  <2>2. IsFiniteSet(Users) /\ MaxStarts \in Nat /\ Cardinality(Users) \in Nat
    BY VoiceAssumption, FS_CardinalityType
  <2>3. Cardinality(Starters) = 0
    BY <2>1, FS_EmptySet
  <2>4. StartsInv
    BY <2>2, <2>3 DEF VoiceInit, StartsInv
  <2>5. Nobody \in [Users \cup Watchdogs -> BOOLEAN]
    BY DEF Nobody
  <2>6. Bounded
    BY VoiceAssumption DEF VoiceInit, Bounded
  <2> QED
    BY <2>4, <2>5, <2>6 DEF VoiceInit, SessionTypes
<1>2. VoiceInv /\ Typed /\ [VoiceNext]_voicing => Typed'
  BY BuffersBounded, SessionTyped, StartsCounted
<1>3. VoiceInv /\ Typed => VoiceTypeOK
  <2> SUFFICES ASSUME VoiceInv, Typed PROVE VoiceTypeOK
    OBVIOUS
  <2>1. oldSent \in 0..3
    BY VoiceLine DEF OnLine, FewOld
  <2>2. starts \in 0..(MaxStarts + Cardinality(Users))
    <3>1. Starters \subseteq Users
      BY DEF Starters
    <3>2. Cardinality(Starters) \in Nat /\ Cardinality(Users) \in Nat /\ MaxStarts \in Nat
      BY <3>1, VoiceAssumption, FS_Subset, FS_CardinalityType
    <3> QED
      BY <3>2 DEF StartsInv, SessionTypes
  <2> QED
    BY <2>1, <2>2 DEF VoiceInv, VoiceTypes, Bounded, SessionTypes, VoiceTypeOK
<1> QED
  BY <1>1, <1>2, <1>3, VoiceInvariant, PTL DEF VoiceSpec

=============================================================================
