--------------------------- MODULE PowerDelivery ---------------------------
(***************************************************************************)
(* The USB power negotiation of the Satellite1: pd_task of                 *)
(* main/boards/sat1/sat1_power_delivery.c, the controller's receive queue  *)
(* and interrupt line between the two, and the charger at the other end.   *)
(*                                                                         *)
(* The source side is external: it offers whenever it wants, resets,       *)
(* repeats what was not acknowledged, and answers a request for what it    *)
(* offered last or stays silent.  It never gives a hard reset: that takes  *)
(* the supply away and with it the device.                                 *)
(* A deadline may be reached at any moment while it is armed.  Left out:   *)
(* the number of the messages sent, which only the source looks at, the    *)
(* messages that are answered without a change of state, the limit of 16   *)
(* messages to one interrupt, and the current.                             *)
(***************************************************************************)
EXTENDS Naturals, Sequences

CONSTANTS
  Voltages,     \* what a source may offer beyond Safe
  Safe,         \* the voltage of a supply without a contract
  Highest,      \* SAT1_MAX_PD_MV
  HighPower,    \* SAT1_HIGH_POWER_MIN_PD_MV
  IdWord,       \* the word that messages are numbered in
  MaxSourced    \* bound: offers, repetitions and resets that the source begins

ASSUME PowerAssumption ==
  /\ Voltages \subseteq Nat \ {0} /\ Safe \in Nat \ {0}
  /\ {Highest, HighPower} \subseteq Nat /\ Highest >= Safe /\ HighPower > Safe
  /\ IdWord \in Nat \ {0} /\ MaxSourced \in Nat

VARIABLES
  contract,  \* s_status: state, explicit_contract, contract_voltage
  sink,      \* what pd_task keeps, and where it stands
  rx,        \* the receive queue of the controller
  line,      \* its interrupt line, and the notification of pd_task
  charger    \* the source: what it supplies, and what it waits for

delivery == <<contract, sink, rx, line, charger>>

Offers == {{Safe} \cup more : more \in SUBSET Voltages}
Supplies == Voltages \cup {Safe}
Ids == 0..IdWord - 1
Message == [type : {"caps"}, offer : Offers, id : Ids]
             \cup [type : {"accept", "reject", "ready", "reset"}, offer : {{}}, id : Ids]
NoId == IdWord

Contract == [state : {"negotiating", "contract", "fallback", "unavailable"},
             explicit : BOOLEAN, volts : Supplies]
Sink == [at : {"setup", "service", "drain", "timers", "due", "sleep", "gone"},
         waiting : BOOLEAN, transition : BOOLEAN, stage : {0, 1, 2},
         pending : Supplies \cup {0}, accepted : BOOLEAN, last : 0..NoId]
Charger == [at : {"idle", "offered", "requested", "accepted", "reset"},
            supply : Supplies, offer : Offers \cup {{}}, wanted : Supplies,
            next : Ids, sourced : 0..MaxSourced,
            said : {<<>>} \cup {<<message>> : message \in Message}]

PowerTypeOK ==
  /\ contract \in Contract /\ sink \in Sink /\ charger \in Charger
  /\ rx \in Seq(Message)
  /\ line \in [low : BOOLEAN, notified : BOOLEAN]

NoContract(state) == [state |-> state, explicit |-> FALSE, volts |-> Safe]

(* sat1_pd_init *)
PowerInit ==
  /\ contract = NoContract("negotiating")
  /\ sink = [at |-> "setup", waiting |-> FALSE, transition |-> FALSE, stage |-> 0,
             pending |-> 0, accepted |-> FALSE, last |-> NoId]
  /\ rx = <<>>
  /\ line = [low |-> FALSE, notified |-> FALSE]
  /\ charger = [at |-> "idle", supply |-> Safe, offer |-> {}, wanted |-> Safe,
                next |-> 0, sourced |-> 0, said |-> <<>>]

(* sat1_pd_recommended_tas_mode, 2 or 0 *)
HighRecommended ==
  contract.explicit /\ contract.volts \in HighPower..Highest

-----------------------------------------------------------------------------
(* The source.                                                             *)

Attached == sink.at \notin {"setup", "gone"}

(* A message arrives and leaves the source as then: the controller         *)
(* acknowledges it, and pulls its line low if it is not.  Only the edge    *)
(* notifies pd_task (fusb_irq_handler).                                    *)
Arrive(message, then) ==
  /\ Attached
  /\ charger' = [then EXCEPT !.said = <<message>>]
  /\ rx' = Append(rx, message)
  /\ line' = [low |-> TRUE, notified |-> line.notified \/ ~line.low]
  /\ UNCHANGED <<contract, sink>>

Say(type, offer, then) ==
  Arrive([type |-> type, offer |-> offer, id |-> charger.next],
         [then EXCEPT !.next = (@ + 1) % IdWord])

(* A source numbers its messages from 0 with what it says to a reset.      *)
SayFirst(type, then) ==
  Arrive([type |-> type, offer |-> {}, id |-> 0], [then EXCEPT !.next = 1 % IdWord])

Begins == charger.sourced < MaxSourced

(* It waits for the answer to an offer longer than pd_task takes to read   *)
(* it: there is one to be read at a time, unless it is repeated.           *)
Offer(offer) ==
  /\ charger.at = "idle" /\ Begins
  /\ \A i \in DOMAIN rx : rx[i].type # "caps"
  /\ Say("caps", offer,
         [charger EXCEPT !.at = "offered", !.offer = offer, !.sourced = @ + 1])

(* The acknowledgement was lost: the message comes again.                  *)
SourceRepeats ==
  /\ charger.said # <<>> /\ Begins
  /\ Arrive(charger.said[1], [charger EXCEPT !.sourced = @ + 1])

SourceAccepts ==
  /\ charger.at = "requested"
  /\ Say("accept", {}, [charger EXCEPT !.at = "accepted"])

(* REJECT or WAIT *)
SourceRejects ==
  /\ charger.at = "requested"
  /\ Say("reject", {}, [charger EXCEPT !.at = "idle"])

SourceSupplies ==
  /\ charger.at = "accepted"
  /\ Say("ready", {}, [charger EXCEPT !.at = "idle", !.supply = charger.wanted])

SourceResets ==
  /\ Begins
  /\ SayFirst("reset", [charger EXCEPT !.at = "idle", !.sourced = @ + 1])

SourceAcceptsReset ==
  /\ charger.at = "reset"
  /\ SayFirst("accept", [charger EXCEPT !.at = "idle"])

Source ==
  \/ \E offer \in Offers : Offer(offer)
  \/ SourceRepeats \/ SourceAccepts \/ SourceRejects \/ SourceSupplies
  \/ SourceResets \/ SourceAcceptsReset

-----------------------------------------------------------------------------
(* pd_task: its beginning, and the two things that wake it.                *)

PdGoto(from, to) == sink.at = from /\ sink' = [sink EXCEPT !.at = to]

SetupFails ==
  /\ PdGoto("setup", "gone")
  /\ contract' \in {NoContract("unavailable"), NoContract("fallback")}
  /\ UNCHANGED <<rx, line, charger>>

(* pd_wait_for_source_capabilities *)
Waiting == [sink EXCEPT !.waiting = TRUE, !.transition = FALSE, !.stage = 0]

Attach ==
  /\ sink.at = "setup"
  /\ sink' = [Waiting EXCEPT !.at = "service"]
  /\ contract' = [contract EXCEPT !.state = "negotiating"]
  /\ UNCHANGED <<rx, line, charger>>

Notified ==
  /\ PdGoto("sleep", "service") /\ line.notified
  /\ line' = [line EXCEPT !.notified = FALSE]
  /\ UNCHANGED <<contract, rx, charger>>

(* The wait of pd_next_wait_ticks runs out. *)
Deadline ==
  /\ PdGoto("sleep", "due") /\ ~line.notified
  /\ sink.waiting \/ sink.transition
  /\ UNCHANGED <<contract, rx, line, charger>>

-----------------------------------------------------------------------------
(* pd_service_interrupt: the status, whose reading lets the line go, and   *)
(* then the messages one by one.                                           *)

ReadStatus ==
  /\ PdGoto("service", "drain")
  /\ line' = [line EXCEPT !.low = FALSE]
  /\ UNCHANGED <<contract, rx, charger>>

ReadStatusFails ==
  /\ PdGoto("service", "timers")
  /\ UNCHANGED <<contract, rx, line, charger>>

(* A message that cannot be read takes those behind it with it. *)
ReadFails ==
  /\ PdGoto("drain", "timers") /\ rx # <<>>
  /\ rx' = <<>>
  /\ UNCHANGED <<contract, line, charger>>

Drained ==
  /\ PdGoto("drain", "timers") /\ rx = <<>>
  /\ UNCHANGED <<contract, rx, line, charger>>

(* pd_handle_message has the next message, and keeps what it keeps; then   *)
(* the status is read again, or cannot be.                                 *)
Handle(type, kept) ==
  /\ sink.at = "drain" /\ rx # <<>>
  /\ Head(rx).id # sink.last /\ Head(rx).type = type
  /\ \E at \in {"drain", "timers"} : sink' = [kept EXCEPT !.at = at, !.last = Head(rx).id]
  /\ rx' = Tail(rx)
  /\ UNCHANGED line

HandleDuplicate ==
  /\ sink.at = "drain" /\ rx # <<>> /\ Head(rx).id = sink.last
  /\ \E at \in {"drain", "timers"} : sink' = [sink EXCEPT !.at = at]
  /\ rx' = Tail(rx)
  /\ UNCHANGED <<contract, line, charger>>

(* sat1_pd_select_fixed_pdo *)
Selected(offer) ==
  CHOOSE v \in offer : v <= Highest /\ \A w \in offer : w <= Highest => w <= v

(* pd_mark_ready_or_fallback *)
Settled == [sink EXCEPT !.waiting = FALSE, !.transition = FALSE]

(* Faulty form of FallBackSafely: the contract is kept. *)
FallBackKeepingContract == contract' = [contract EXCEPT !.state = "fallback"]

(* status_set_state(SAT1_PD_STATE_FALLBACK_5V) *)
FallBackSafely == contract' = NoContract("fallback")

(* pd_send_request; the source takes what answers its last offer. *)
Request ==
  LET offer == Head(rx).offer
      volts == Selected(offer)
  IN /\ Handle("caps", [sink EXCEPT !.waiting = FALSE, !.transition = TRUE,
                                    !.pending = volts, !.accepted = FALSE])
     /\ contract' = [contract EXCEPT !.state = "negotiating"]
     /\ charger' = IF charger.at = "offered" /\ charger.offer = offer
          THEN [charger EXCEPT !.at = "requested", !.wanted = volts] ELSE charger

RequestFails ==
  /\ Handle("caps", [Settled EXCEPT !.pending = Selected(Head(rx).offer), !.accepted = FALSE])
  /\ FallBackSafely
  /\ UNCHANGED charger

HandleAccept ==
  /\ Handle("accept", [sink EXCEPT !.accepted = TRUE])
  /\ UNCHANGED <<contract, charger>>

(* status_set_contract *)
HandleReady ==
  /\ sink.accepted /\ sink.pending \in Safe..Highest
  /\ Handle("ready", Settled)
  /\ contract' = [state |-> "contract", explicit |-> TRUE, volts |-> sink.pending]
  /\ UNCHANGED charger

HandleUnexpectedReady ==
  /\ ~(sink.accepted /\ sink.pending \in Safe..Highest)
  /\ Handle("ready", sink)
  /\ UNCHANGED <<contract, charger>>

HandleReject ==
  /\ Handle("reject", Settled)
  /\ FallBackSafely
  /\ UNCHANGED charger

(* Faulty form of AfterReset: nothing is awaited. *)
AfterResetIdle == [Settled EXCEPT !.accepted = FALSE]

AfterReset == [Waiting EXCEPT !.accepted = FALSE]

(* The number of a reset is forgotten before it is answered. *)
HandleReset ==
  /\ sink.at = "drain" /\ rx # <<>>
  /\ Head(rx).id # sink.last /\ Head(rx).type = "reset"
  /\ \E at \in {"drain", "timers"} : sink' = [AfterReset EXCEPT !.at = at, !.last = NoId]
  /\ rx' = Tail(rx)
  /\ contract' = NoContract("negotiating")
  /\ UNCHANGED <<line, charger>>

Service ==
  \/ ReadStatus \/ ReadStatusFails \/ ReadFails \/ Drained \/ HandleDuplicate
  \/ Request \/ RequestFails \/ HandleAccept \/ HandleReady \/ HandleUnexpectedReady
  \/ HandleReject \/ HandleReset

-----------------------------------------------------------------------------
(* pd_run_recovery and pd_run_transition_timeout.  Which deadline is       *)
(* armed, if any, decides; after a message none need have been reached.    *)

NothingDue ==
  /\ PdGoto("timers", "sleep")
  /\ UNCHANGED <<contract, rx, line, charger>>

RecoveryDue(stage) ==
  sink.at \in {"timers", "due"} /\ sink.waiting /\ sink.stage = stage

(* GET_SOURCE_CAP: the source may offer, as it may at any time. *)
AskForOffer ==
  /\ RecoveryDue(0)
  /\ sink' = [sink EXCEPT !.at = "sleep", !.stage = 1]
  /\ UNCHANGED <<contract, rx, line, charger>>

(* fusb_flush_pd and SOFT_RESET *)
ResetSource ==
  /\ RecoveryDue(1)
  /\ sink' = [sink EXCEPT !.at = "sleep", !.stage = 2, !.last = NoId, !.accepted = FALSE]
  /\ contract' = NoContract("negotiating")
  /\ rx' = <<>>
  /\ charger' \in {charger, [charger EXCEPT !.at = "reset"]}
  /\ UNCHANGED line

ResetSourceFails ==
  /\ RecoveryDue(1)
  /\ sink' = [sink EXCEPT !.at = "sleep", !.stage = 2]
  /\ contract' = NoContract("negotiating")
  /\ rx' \in {rx, <<>>}
  /\ UNCHANGED <<line, charger>>

GiveUp ==
  /\ RecoveryDue(2)
  /\ sink' = [Settled EXCEPT !.at = "sleep"]
  /\ FallBackSafely
  /\ UNCHANGED <<rx, line, charger>>

TransitionTimeout ==
  /\ sink.at \in {"timers", "due"} /\ sink.transition
  /\ sink' = [Settled EXCEPT !.at = "sleep"]
  /\ FallBackSafely
  /\ UNCHANGED <<rx, line, charger>>

PdTimers ==
  \/ NothingDue \/ AskForOffer \/ ResetSource \/ ResetSourceFails
  \/ GiveUp \/ TransitionTimeout

PdTask == SetupFails \/ Attach \/ Notified \/ Deadline \/ Service \/ PdTimers

-----------------------------------------------------------------------------

PowerNext == Source \/ PdTask

(* pd_task runs and its deadlines pass; the source owes nothing. *)
PowerFair == WF_delivery(PdTask)

PowerSpec == PowerInit /\ [][PowerNext]_delivery /\ PowerFair

-----------------------------------------------------------------------------
(* Properties.                                                             *)

(* While no request is under way, a contract the amplifier's profile may   *)
(* be chosen by is for the voltage that is really supplied, whatever       *)
(* messages were lost, came late or belonged to an earlier request.        *)
ContractIsSupplied ==
  contract.explicit => contract.volts = charger.supply \/ sink.transition

(* A negotiation that has begun comes to an end, by a contract or by       *)
(* falling back, with a source that falls silent at any point and with     *)
(* messages that get lost: the status is not left at "negotiating", for    *)
(* which every start of the speaker waits.                                 *)
NegotiationEnds == []<>(contract.state # "negotiating" \/ sink.at = "setup")

=============================================================================
