---------------------------- MODULE DeviceProofs ----------------------------
(***************************************************************************)
(* The safety of the Satellite1's power negotiation and outputs, of the    *)
(* Bluetooth scanner and of the button's setup gesture, for every value of *)
(* their constants.                                                        *)
(*                                                                         *)
(* ContractIsSupplied has to know what each PS_RDY on its way is about:    *)
(* none is in the queue while a request is under way (OneRequest), so all  *)
(* there are speak of what is supplied already, and what is kept as the    *)
(* pending voltage is that, or will be that again before such a PS_RDY is  *)
(* reached (ReadyIsSupplied).  This holds since there is one offer at a    *)
(* time (OneOffer), and since what is said again was the last thing said   *)
(* (SaidFits).                                                             *)
(*                                                                         *)
(* SetupIsMeant has to know which presses the counters of the button stand *)
(* for: the clicks that count are the last presses of all, each short,     *)
(* none of which stopped anything, and close to each other (Chain), with   *)
(* the present one before them (Pressing) or not (Resting).                *)
(***************************************************************************)
EXTENDS MCDevice, WsClientProofs, WakeProofs, OtaUpdateProofs,
        WellFoundedInduction, SequenceTheorems

-----------------------------------------------------------------------------
(* The power negotiation.                                                  *)

(* The highest voltage of an offer that is not too high is one of them.    *)
LEMMA SelectedFits ==
  ASSUME NEW offer \in Offers
  PROVE  Selected(offer) \in offer /\ Selected(offer) \in Supplies
<1> DEFINE fits == {v \in offer : v <= Highest}
           above(v) == {w \in fits : v < w}
           all == {above(v) : v \in fits}
<1>1. offer \subseteq Supplies /\ Supplies \subseteq Nat /\ Safe \in fits /\ Highest \in Nat
  <2>1. PICK more \in SUBSET Voltages : offer = {Safe} \cup more
    BY DEF Offers
  <2> QED
    BY <2>1, PowerAssumption DEF Supplies
<1>2. \A v \in offer : v \in Nat
  BY <1>1
<1>3. ASSUME NEW v \in fits PROVE above(v) \in SUBSET (0..Highest)
  <2>1. ASSUME NEW w \in above(v) PROVE w \in 0..Highest
    <3>1. w \in offer /\ w <= Highest
      OBVIOUS
    <3> QED
      BY <1>1, <1>2, <3>1
  <2> QED
    BY <2>1
<1>4. all \subseteq FiniteSubsetsOf(0..Highest) /\ all # {}
  <2>1. IsFiniteSet(0..Highest)
    BY <1>1, FS_Interval
  <2>2. FiniteSubsetsOf(0..Highest) = SUBSET (0..Highest)
    BY <2>1, FS_FiniteSubsetsOfFinite
  <2>3. above(Safe) \in all
    BY <1>1
  <2>4. ASSUME NEW a \in all PROVE a \in FiniteSubsetsOf(0..Highest)
    <3>1. PICK v \in fits : a = above(v)
      OBVIOUS
    <3> HIDE DEF above, fits
    <3> QED
      BY <1>3, <2>2, <3>1
  <2> HIDE DEF all
  <2> QED
    BY <2>3, <2>4
<1>5. PICK least \in all : \A other \in all :
        ~(<<other, least>> \in StrictSubsetOrdering(0..Highest))
  BY <1>4, WFMin, FS_StrictSubsetOrderingWellFounded
<1>6. PICK v \in fits : least = above(v)
  OBVIOUS
<1>7. ASSUME NEW w \in fits, v < w PROVE FALSE
  <2>1. above(w) \subseteq above(v) /\ above(w) # above(v)
    BY <1>2, <1>7
  <2>2. <<above(w), above(v)>> \in StrictSubsetOrdering(0..Highest)
    BY <1>3, <2>1 DEF StrictSubsetOrdering
  <2> QED
    BY <1>5, <1>6, <2>2
<1>8. v \in offer /\ v <= Highest /\ \A w \in offer : w <= Highest => w <= v
  BY <1>1, <1>7
<1> QED
  BY <1>1, <1>8 DEF Selected

(* What the source says has the type of a message.                         *)
LEMMA SourceTypes == PowerTypeOK /\ Source => PowerTypeOK'
<1> SUFFICES ASSUME PowerTypeOK, Source PROVE PowerTypeOK'
  OBVIOUS
<1> USE PowerAssumption
<1>1. /\ charger.next \in Ids /\ 0 \in Ids
      /\ (charger.next + 1) % IdWord \in Ids /\ 1 % IdWord \in Ids
  <2>1. charger.next \in Ids
    BY DEF PowerTypeOK, Charger
  <2>2. charger.next \in Nat /\ IdWord \in Nat \ {0}
    BY <2>1 DEF Ids
  <2> QED
    BY <2>1, <2>2 DEF Ids
<1>0. charger \in Charger /\ (Begins => charger.sourced + 1 \in 0..MaxSourced)
  BY DEF Begins, PowerTypeOK, Charger
<1>2. ASSUME NEW message \in Message, NEW then \in Charger, Arrive(message, then)
      PROVE  PowerTypeOK'
  <2>1. charger' \in Charger
    BY <1>2 DEF Arrive, Charger
  <2>2. rx' \in Seq(Message)
    BY <1>2 DEF Arrive, PowerTypeOK
  <2> QED
    BY <1>2, <2>1, <2>2 DEF Arrive, PowerTypeOK
<1>3. ASSUME NEW type \in {"accept", "reject", "ready", "reset"}, NEW id \in Ids
      PROVE  [type |-> type, offer |-> {}, id |-> id] \in Message
  BY DEF Message
<1>4. ASSUME NEW type \in {"accept", "reject", "ready", "reset"}, NEW then \in Charger,
             Say(type, {}, then) \/ SayFirst(type, then)
      PROVE  PowerTypeOK'
  <2>1. [then EXCEPT !.next = (@ + 1) % IdWord] \in Charger
    <3>1. then.next \in Nat /\ IdWord \in Nat \ {0}
      BY DEF Charger, Ids
    <3>2. (then.next + 1) % IdWord \in Ids
      BY <3>1 DEF Ids
    <3> QED
      BY <3>2 DEF Charger
  <2>2. [then EXCEPT !.next = 1 % IdWord] \in Charger
    BY <1>1 DEF Charger
  <2> QED
    BY <1>1, <1>2, <1>3, <1>4, <2>1, <2>2 DEF Say, SayFirst
<1>5. CASE \E offer \in Offers : Offer(offer)
  <2>1. PICK offer \in Offers : Offer(offer)
    BY <1>5
  <2>2. [type |-> "caps", offer |-> offer, id |-> charger.next] \in Message
    BY <1>1 DEF Message
  <2>3. [[charger EXCEPT !.at = "offered", !.offer = offer, !.sourced = @ + 1]
           EXCEPT !.next = (@ + 1) % IdWord] \in Charger
    BY <1>0, <1>1, <2>1 DEF Offer, Charger
  <2> QED
    BY <1>2, <2>1, <2>2, <2>3 DEF Offer, Say
<1>6. CASE SourceRepeats
  <2>1. charger.said[1] \in Message
    <3>1. PICK message \in Message : charger.said = <<message>>
      BY <1>6 DEF SourceRepeats, PowerTypeOK, Charger
    <3> QED
      BY <3>1
  <2>2. [charger EXCEPT !.sourced = @ + 1] \in Charger
    BY <1>0, <1>6 DEF SourceRepeats, Charger
  <2> QED
    BY <1>2, <1>6, <2>1, <2>2 DEF SourceRepeats
<1>7. CASE SourceAccepts
  BY <1>4, <1>7 DEF SourceAccepts, PowerTypeOK, Charger
<1>8. CASE SourceRejects
  BY <1>4, <1>8 DEF SourceRejects, PowerTypeOK, Charger
<1>9. CASE SourceSupplies
  BY <1>4, <1>9 DEF SourceSupplies, PowerTypeOK, Charger
<1>10. CASE SourceResets
  <2>1. [charger EXCEPT !.at = "idle", !.sourced = @ + 1] \in Charger
    BY <1>0, <1>10 DEF SourceResets, Charger
  <2> QED
    BY <1>4, <1>10, <2>1 DEF SourceResets
<1>11. CASE SourceAcceptsReset
  BY <1>4, <1>11 DEF SourceAcceptsReset, PowerTypeOK, Charger
<1> QED
  BY <1>5, <1>6, <1>7, <1>8, <1>9, <1>10, <1>11 DEF Source

LEMMA CapsOffer ==
  ASSUME PowerTypeOK, rx # <<>>
  PROVE  /\ Head(rx) \in Message /\ Tail(rx) \in Seq(Message)
         /\ Head(rx).type = "caps" =>
              Head(rx).offer \in Offers /\ Selected(Head(rx).offer) \in Supplies
<1>1. Head(rx) \in Message /\ Tail(rx) \in Seq(Message)
  BY DEF PowerTypeOK
<1>2. Head(rx).type = "caps" => Head(rx).offer \in Offers
  BY <1>1 DEF Message
<1> QED
  BY <1>1, <1>2, SelectedFits

(* pd_handle_message keeps the types, whatever it keeps.                   *)
LEMMA HandleTypes ==
  ASSUME PowerTypeOK, NEW type, NEW kept \in Sink, Handle(type, kept),
         contract' \in Contract, charger' \in Charger
  PROVE  PowerTypeOK'
<1>1. rx # <<>> /\ Head(rx).id \in 0..NoId /\ rx' \in Seq(Message)
  <2>1. rx # <<>>
    BY DEF Handle
  <2>2. Head(rx).id \in Ids
    BY <2>1, CapsOffer DEF Message
  <2> QED
    BY <2>1, <2>2, CapsOffer, PowerAssumption DEF Handle, Ids, NoId
<1>2. sink' \in Sink
  BY <1>1 DEF Handle, Sink
<1> QED
  BY <1>1, <1>2 DEF Handle, PowerTypeOK

LEMMA PdTypes == PowerTypeOK /\ PdTask => PowerTypeOK'
<1> SUFFICES ASSUME PowerTypeOK, PdTask PROVE PowerTypeOK'
  OBVIOUS
<1>1. Safe \in Supplies /\ \A state \in {"negotiating", "fallback", "unavailable"} :
        NoContract(state) \in Contract
  BY PowerAssumption DEF Supplies, NoContract, Contract
<1>2. contract \in Contract /\ sink \in Sink /\ charger \in Charger
      /\ rx \in Seq(Message) /\ line \in [low : BOOLEAN, notified : BOOLEAN]
      /\ NoId \in 0..NoId /\ <<>> \in Seq(Message)
  BY PowerAssumption DEF PowerTypeOK, NoId
<1>3. CASE SetupFails \/ Attach \/ Notified \/ Deadline
  <2>1. CASE SetupFails
    BY <1>1, <1>2, <2>1 DEF SetupFails, PdGoto, PowerTypeOK, Sink
  <2>2. CASE Attach
    <3>1. sink' \in Sink /\ contract' \in Contract
      BY <1>2, <2>2 DEF Attach, Waiting, Sink, Contract
    <3> QED
      BY <1>2, <2>2, <3>1 DEF Attach, PowerTypeOK
  <2>3. CASE Notified \/ Deadline
    BY <1>2, <2>3 DEF Notified, Deadline, PdGoto, PowerTypeOK, Sink
  <2> QED
    BY <1>3, <2>1, <2>2, <2>3
<1>4. CASE ReadStatus \/ ReadStatusFails \/ ReadFails \/ Drained
  BY <1>2, <1>4 DEF ReadStatus, ReadStatusFails, ReadFails, Drained, PdGoto, PowerTypeOK, Sink
<1>5. CASE HandleDuplicate
  BY <1>2, <1>5, CapsOffer DEF HandleDuplicate, PowerTypeOK, Sink
<1>6. CASE Request \/ RequestFails
  <2>1. rx # <<>> /\ Head(rx).type = "caps"
    BY <1>6 DEF Request, RequestFails, Handle
  <2> DEFINE volts == Selected(Head(rx).offer)
  <2>2. volts \in Supplies
    BY <2>1, CapsOffer
  <2> HIDE DEF volts
  <2>3. CASE Request
    <3>1. [sink EXCEPT !.waiting = FALSE, !.transition = TRUE,
                       !.pending = volts, !.accepted = FALSE] \in Sink
      BY <1>2, <2>2 DEF Sink
    <3>2. contract' \in Contract /\ charger' \in Charger
      BY <1>2, <2>2, <2>3 DEF Request, Contract, Charger, volts
    <3> QED
      BY <2>3, <3>1, <3>2, HandleTypes DEF Request, volts
  <2>4. CASE RequestFails
    <3>1. [Settled EXCEPT !.pending = volts, !.accepted = FALSE] \in Sink
      BY <1>2, <2>2 DEF Sink, Settled
    <3> QED
      BY <1>1, <1>2, <2>4, <3>1, HandleTypes DEF RequestFails, FallBackSafely, volts
  <2> QED
    BY <1>6, <2>3, <2>4
<1>7. CASE HandleAccept
  <2>1. [sink EXCEPT !.accepted = TRUE] \in Sink
    BY <1>2 DEF Sink
  <2> QED
    BY <1>2, <1>7, <2>1, HandleTypes DEF HandleAccept
<1>8. CASE HandleReady \/ HandleReject
  <2>1. Settled \in Sink
    BY <1>2 DEF Settled, Sink
  <2>2. HandleReady => sink.pending \in Supplies
    <3>1. sink.pending \in Supplies \cup {0} /\ 0 \notin Safe..Highest
      BY <1>2, PowerAssumption DEF Sink
    <3> QED
      BY <3>1 DEF HandleReady
  <2>3. CASE HandleReady
    <3>1. contract' \in Contract
      BY <2>2, <2>3 DEF HandleReady, Contract
    <3> QED
      BY <1>2, <2>1, <2>3, <3>1, HandleTypes DEF HandleReady
  <2>4. CASE HandleReject
    BY <1>1, <1>2, <2>1, <2>4, HandleTypes DEF HandleReject, FallBackSafely
  <2> QED
    BY <1>8, <2>3, <2>4
<1>9. CASE HandleUnexpectedReady
  BY <1>2, <1>9, HandleTypes DEF HandleUnexpectedReady
<1>10. CASE HandleReset
  <2>1. AfterReset \in Sink
    BY <1>2 DEF AfterReset, Waiting, Sink
  <2>2. sink' \in Sink
    BY <1>2, <1>10, <2>1 DEF HandleReset, Sink
  <2> QED
    BY <1>1, <1>2, <1>10, <2>2, CapsOffer DEF HandleReset, PowerTypeOK
<1>11. CASE PdTimers
  <2>1. CASE NothingDue \/ AskForOffer
    BY <1>2, <2>1 DEF NothingDue, AskForOffer, PdGoto, PowerTypeOK, Sink
  <2>2. CASE GiveUp \/ TransitionTimeout
    <3>1. sink' \in Sink
      BY <1>2, <2>2 DEF GiveUp, TransitionTimeout, Settled, Sink
    <3> QED
      BY <1>1, <1>2, <2>2, <3>1 DEF GiveUp, TransitionTimeout, FallBackSafely, PowerTypeOK
  <2>3. CASE ResetSource
    <3>1. sink' \in Sink
      BY <1>2, <2>3 DEF ResetSource, Sink
    <3>2. charger' \in Charger
      BY <1>2, <2>3 DEF ResetSource, Charger
    <3> QED
      BY <1>1, <1>2, <2>3, <3>1, <3>2 DEF ResetSource, PowerTypeOK
  <2>4. CASE ResetSourceFails
    <3>1. sink' \in Sink
      BY <1>2, <2>4 DEF ResetSourceFails, Sink
    <3> QED
      BY <1>1, <1>2, <2>4, <3>1 DEF ResetSourceFails, PowerTypeOK
  <2> QED
    BY <1>11, <2>1, <2>2, <2>3, <2>4 DEF PdTimers
<1> QED
  BY <1>3, <1>4, <1>5, <1>6, <1>7, <1>8, <1>9, <1>10, <1>11 DEF PdTask, Service

(* The invariant.                                                          *)

Is(i, type) == rx[i].type = type
Said(type) == charger.said # <<>> /\ charger.said[1].type = type
Agreed(offer) == Selected(offer) = charger.supply

OneRequest ==
  charger.at \in {"requested", "accepted"} =>
    /\ sink.pending = charger.wanted /\ charger.wanted = Selected(charger.offer)
    /\ contract.explicit => sink.transition
    /\ \A i \in 1..Len(rx) : ~Is(i, "ready")

OneOffer ==
  /\ charger.at \in {"offered", "requested", "accepted"} =>
       \A i \in 1..Len(rx) : Is(i, "caps") => rx[i].offer = charger.offer
  /\ charger.at = "offered" =>
       \A i, j \in 1..Len(rx) : i < j /\ Is(i, "caps") => Is(j, "caps")

ReadyIsSupplied ==
  \A i \in 1..Len(rx) : Is(i, "ready") =>
    /\ sink.pending = charger.supply
    /\ \A j \in 1..Len(rx) : j < i /\ Is(j, "caps") => Agreed(rx[j].offer)

SaidFits ==
  /\ charger.at \in {"offered", "requested"} => Said("caps")
  /\ charger.at = "accepted" => Said("accept")
  /\ Said("caps") =>
       charger.at \in {"offered", "requested", "reset"} /\ charger.said[1].offer = charger.offer
  /\ Said("ready") =>
       /\ charger.at \in {"idle", "reset"} /\ sink.pending = charger.supply
       /\ \A i \in 1..Len(rx) : Is(i, "caps") => Agreed(rx[i].offer)

NoneInSetup == sink.at = "setup" => ~contract.explicit

SupplyInv ==
  /\ OneRequest /\ OneOffer /\ ReadyIsSupplied /\ SaidFits /\ NoneInSetup
  /\ ContractIsSupplied

LEMMA TailOfRx ==
  ASSUME PowerTypeOK, rx # <<>>
  PROVE  /\ Len(rx) \in Nat /\ 1 \in 1..Len(rx) /\ Head(rx) = rx[1]
         /\ Len(Tail(rx)) = Len(rx) - 1
         /\ \A i \in 1..Len(Tail(rx)) : i + 1 \in 1..Len(rx) /\ Tail(rx)[i] = rx[i + 1]
  BY DEF PowerTypeOK

(* What pd_task does but requesting and taking a contract.                 *)
LEMMA SupplyKept ==
  ASSUME PowerTypeOK, SupplyInv,
         charger' = charger, sink'.pending = sink.pending, sink'.at # "setup",
         \/ rx' = rx
         \/ rx' = <<>>
         \/ rx # <<>> /\ rx' = Tail(rx),
         \/ ~contract'.explicit
         \/ /\ contract'.explicit = contract.explicit /\ contract'.volts = contract.volts
            /\ sink'.transition = sink.transition
  PROVE  SupplyInv'
<1>1. \A i \in 1..Len(rx') : \E k \in 1..Len(rx) :
        /\ rx'[i] = rx[k]
        /\ \A j \in 1..Len(rx') : j < i => \E l \in 1..Len(rx) : l < k /\ rx'[j] = rx[l]
  <2>1. CASE rx' = rx
    BY <2>1
  <2>2. CASE rx' = <<>>
    BY <2>2
  <2>3. CASE rx # <<>> /\ rx' = Tail(rx)
    <3> SUFFICES ASSUME NEW i \in 1..Len(rx')
                 PROVE  /\ i + 1 \in 1..Len(rx) /\ rx'[i] = rx[i + 1]
                        /\ \A j \in 1..Len(rx') : j < i =>
                             j + 1 \in 1..Len(rx) /\ j + 1 < i + 1 /\ rx'[j] = rx[j + 1]
      OBVIOUS
    <3>1. rx' = Tail(rx) /\ rx # <<>>
      BY <2>3
    <3>2. \A j \in 1..Len(rx') : j + 1 \in 1..Len(rx) /\ rx'[j] = rx[j + 1]
      BY <3>1, TailOfRx
    <3>3. \A j \in 1..Len(rx') : j < i => j + 1 < i + 1
      <4>1. Len(Tail(rx)) \in Int
        <5>1. Len(rx) \in Nat /\ Len(Tail(rx)) = Len(rx) - 1
          BY <3>1, TailOfRx
        <5> QED
          BY <5>1
      <4>2. Len(rx') \in Int
        BY <3>1, <4>1
      <4> QED
        BY <4>2
    <3> QED
      BY <3>2, <3>3
  <2> QED
    BY <2>1, <2>2, <2>3
<1>2. OneRequest'
  BY <1>1 DEF SupplyInv, OneRequest, Is
<1>3. OneOffer'
  <2>1. charger.at \in {"offered", "requested", "accepted"} =>
          \A i \in 1..Len(rx') : Is(i, "caps")' => rx'[i].offer = charger.offer
    BY <1>1 DEF SupplyInv, OneOffer, Is
  <2>2. charger.at = "offered" =>
          \A i, j \in 1..Len(rx') : i < j /\ Is(i, "caps")' => Is(j, "caps")'
    <3> SUFFICES ASSUME charger.at = "offered", NEW i \in 1..Len(rx'), NEW j \in 1..Len(rx'),
                        i < j, Is(i, "caps")'
                 PROVE  Is(j, "caps")'
      OBVIOUS
    <3>1. PICK k \in 1..Len(rx) :
            /\ rx'[j] = rx[k]
            /\ \A h \in 1..Len(rx') : h < j => \E l \in 1..Len(rx) : l < k /\ rx'[h] = rx[l]
      BY <1>1
    <3>2. PICK l \in 1..Len(rx) : l < k /\ rx'[i] = rx[l]
      BY <3>1
    <3> QED
      BY <3>1, <3>2 DEF SupplyInv, OneOffer, Is
  <2> QED
    BY <2>1, <2>2 DEF OneOffer
<1>4. ReadyIsSupplied'
  <2> SUFFICES ASSUME NEW i \in 1..Len(rx'), Is(i, "ready")'
               PROVE  /\ sink.pending = charger.supply
                      /\ \A j \in 1..Len(rx') :
                           j < i /\ Is(j, "caps")' => Selected(rx'[j].offer) = charger.supply
    BY DEF ReadyIsSupplied, Agreed
  <2>1. PICK k \in 1..Len(rx) :
          /\ rx'[i] = rx[k]
          /\ \A j \in 1..Len(rx') : j < i => \E l \in 1..Len(rx) : l < k /\ rx'[j] = rx[l]
    BY <1>1
  <2>2. /\ sink.pending = charger.supply
        /\ \A l \in 1..Len(rx) :
             l < k /\ rx[l].type = "caps" => Selected(rx[l].offer) = charger.supply
    BY <2>1 DEF SupplyInv, ReadyIsSupplied, Is, Agreed
  <2> QED
    BY <2>1, <2>2 DEF Is
<1>5. SaidFits'
  BY <1>1 DEF SupplyInv, SaidFits, Said, Is, Agreed
<1> QED
  BY <1>2, <1>3, <1>4, <1>5 DEF SupplyInv, NoneInSetup, ContractIsSupplied

(* A message that comes, from a source that is then at at.                 *)
Comes(message, at) ==
  /\ rx' = Append(rx, message) /\ charger'.said = <<message>> /\ charger'.at = at
  /\ charger'.wanted = charger.wanted
  /\ sink' = sink /\ contract' = contract /\ sink.at # "setup"

LEMMA SourceSays ==
  ASSUME PowerTypeOK, Source
  PROVE  \/ /\ charger.at = "idle" /\ \A i \in 1..Len(rx) : ~Is(i, "caps")
            /\ charger'.supply = charger.supply
            /\ \E offer \in Offers, id \in Ids :
                 /\ charger'.offer = offer
                 /\ Comes([type |-> "caps", offer |-> offer, id |-> id], "offered")
         \/ /\ charger.said # <<>>
            /\ charger'.supply = charger.supply /\ charger'.offer = charger.offer
            /\ Comes(charger.said[1], charger.at)
         \/ /\ charger'.supply = charger.supply /\ charger'.offer = charger.offer
            /\ \E id \in Ids :
                 \/ /\ charger.at = "requested"
                    /\ Comes([type |-> "accept", offer |-> {}, id |-> id], "accepted")
                 \/ Comes([type |-> "reject", offer |-> {}, id |-> id], "idle")
                 \/ Comes([type |-> "reset", offer |-> {}, id |-> id], "idle")
                 \/ Comes([type |-> "accept", offer |-> {}, id |-> id], "idle")
         \/ /\ charger.at = "accepted"
            /\ charger'.supply = charger.wanted /\ charger'.offer = charger.offer
            /\ \E id \in Ids : Comes([type |-> "ready", offer |-> {}, id |-> id], "idle")
<1> USE DEF Say, SayFirst, Arrive, Attached, Comes
<1>1. charger \in Charger /\ charger.next \in Ids /\ 0 \in Ids
  BY PowerAssumption DEF PowerTypeOK, Charger, Ids
<1>2. CASE \E offer \in Offers : Offer(offer)
  <2>1. PICK offer \in Offers : Offer(offer)
    BY <1>2
  <2>2. \A i \in 1..Len(rx) : ~Is(i, "caps")
    BY <2>1 DEF Offer, Is, PowerTypeOK
  <2>3. charger'.offer = offer /\ charger'.supply = charger.supply
    BY <1>1, <2>1 DEF Offer, Charger
  <2>4. Comes([type |-> "caps", offer |-> offer, id |-> charger.next], "offered")
    BY <1>1, <2>1 DEF Offer, Charger
  <2> QED
    BY <1>1, <2>1, <2>2, <2>3, <2>4 DEF Offer
<1>3. CASE SourceRepeats
  BY <1>1, <1>3 DEF SourceRepeats, Charger
<1>4. CASE SourceAccepts
  BY <1>1, <1>4 DEF SourceAccepts, Charger
<1>5. CASE SourceRejects
  BY <1>1, <1>5 DEF SourceRejects, Charger
<1>6. CASE SourceResets
  BY <1>1, <1>6 DEF SourceResets, Charger
<1>7. CASE SourceAcceptsReset
  BY <1>1, <1>7 DEF SourceAcceptsReset, Charger
<1>8. CASE SourceSupplies
  BY <1>1, <1>8 DEF SourceSupplies, Charger
<1> QED
  BY <1>2, <1>3, <1>4, <1>5, <1>6, <1>7, <1>8 DEF Source

LEMMA SourceInv == PowerTypeOK /\ SupplyInv /\ Source => SupplyInv'
<1> SUFFICES ASSUME PowerTypeOK, SupplyInv, Source PROVE SupplyInv'
  OBVIOUS
<1>1. ASSUME NEW message \in Message, NEW at, Comes(message, at)
      PROVE  /\ Len(rx) \in Nat /\ Len(rx') = Len(rx) + 1
             /\ \A i \in 1..Len(rx') :
                  \/ i \in 1..Len(rx) /\ rx'[i] = rx[i]
                  \/ i = Len(rx) + 1 /\ rx'[i] = message
             /\ charger'.said # <<>> /\ charger'.said[1] = message
             /\ NoneInSetup'
  <2>1. rx \in Seq(Message) /\ rx' = Append(rx, message)
    BY <1>1 DEF PowerTypeOK, Comes
  <2>2. Len(rx) \in Nat /\ Len(rx') = Len(rx) + 1
    BY <2>1
  <2>3. ASSUME NEW i \in 1..Len(rx')
        PROVE  \/ i \in 1..Len(rx) /\ rx'[i] = rx[i]
               \/ i = Len(rx) + 1 /\ rx'[i] = message
    BY <2>1, <2>2
  <2> QED
    BY <1>1, <2>2, <2>3 DEF Comes, NoneInSetup
<1>2. CASE /\ charger.at = "idle" /\ \A i \in 1..Len(rx) : ~Is(i, "caps")
           /\ charger'.supply = charger.supply
           /\ \E offer \in Offers, id \in Ids :
                /\ charger'.offer = offer
                /\ Comes([type |-> "caps", offer |-> offer, id |-> id], "offered")
  <2>1. PICK offer \in Offers, id \in Ids :
          /\ charger'.offer = offer
          /\ Comes([type |-> "caps", offer |-> offer, id |-> id], "offered")
    BY <1>2
  <2> DEFINE message == [type |-> "caps", offer |-> offer, id |-> id]
  <2>2. message \in Message /\ message.type = "caps" /\ message.offer = offer
    BY DEF Message
  <2>3. Comes(message, "offered")
    BY <2>1
  <2> HIDE DEF message
  <2>4. OneRequest' /\ ContractIsSupplied'
    BY <1>2, <2>3 DEF Comes, SupplyInv, OneRequest, ContractIsSupplied
  <2>5. OneOffer'
    BY <1>1, <1>2, <2>1, <2>2, <2>3 DEF Comes, OneOffer, Is
  <2>6. ReadyIsSupplied'
    BY <1>1, <1>2, <2>2, <2>3 DEF Comes, SupplyInv, ReadyIsSupplied, Is, Agreed
  <2>7. SaidFits'
    BY <1>1, <2>1, <2>2, <2>3 DEF Comes, SaidFits, Said
  <2> QED
    BY <1>1, <2>2, <2>3, <2>4, <2>5, <2>6, <2>7 DEF SupplyInv
<1>3. CASE /\ charger.said # <<>>
           /\ charger'.supply = charger.supply /\ charger'.offer = charger.offer
           /\ Comes(charger.said[1], charger.at)
  <2> DEFINE message == charger.said[1]
  <2>1. message \in Message
    <3>1. PICK m \in Message : charger.said = <<m>>
      BY <1>3 DEF PowerTypeOK, Charger
    <3> QED
      BY <3>1
  <2>2. Comes(message, charger.at)
    BY <1>3
  <2>3. \A type : Said(type) = (message.type = type)
    BY <1>3 DEF Said
  <2> HIDE DEF message
  <2>4. charger.at \in {"requested", "accepted"} => message.type # "ready"
    BY <2>3 DEF SupplyInv, SaidFits
  <2>5. OneRequest' /\ ContractIsSupplied'
    BY <1>1, <1>3, <2>1, <2>2, <2>4
    DEF Comes, SupplyInv, OneRequest, ContractIsSupplied, Is
  <2>6. OneOffer'
    <3>1. charger.at \in {"offered", "requested"} => message.type = "caps"
      BY <2>3 DEF SupplyInv, SaidFits
    <3>2. message.type = "caps" => message.offer = charger.offer
      BY <2>3 DEF SupplyInv, SaidFits, message
    <3>3. charger.at \in {"offered", "requested", "accepted"} =>
            \A i \in 1..Len(rx') : Is(i, "caps")' => rx'[i].offer = charger.offer
      BY <1>1, <2>1, <2>2, <3>2 DEF SupplyInv, OneOffer, Is
    <3>4. charger.at = "offered" =>
            \A i, j \in 1..Len(rx') : i < j /\ Is(i, "caps")' => Is(j, "caps")'
      BY <1>1, <2>1, <2>2, <3>1 DEF SupplyInv, OneOffer, Is
    <3> QED
      BY <1>3, <2>2, <3>3, <3>4 DEF Comes, OneOffer
  <2>7. ReadyIsSupplied'
    <3>1. message.type = "ready" =>
            /\ sink.pending = charger.supply
            /\ \A i \in 1..Len(rx) : Is(i, "caps") => Agreed(rx[i].offer)
      BY <2>3 DEF SupplyInv, SaidFits
    <3>2. ASSUME NEW i \in 1..Len(rx'), Is(i, "ready")'
          PROVE  /\ sink.pending = charger.supply
                 /\ \A j \in 1..Len(rx') : j < i /\ Is(j, "caps")' => Agreed(rx'[j].offer)
      BY <1>1, <2>1, <2>2, <3>1, <3>2 DEF SupplyInv, ReadyIsSupplied, Is
    <3> QED
      BY <1>3, <2>2, <3>2 DEF Comes, ReadyIsSupplied, Agreed
  <2>8. SaidFits'
    <3>1. \A type : Said(type)' = Said(type)
      BY <1>1, <2>1, <2>2, <2>3 DEF Said
    <3>2. charger'.said[1] = charger.said[1]
      BY <1>3 DEF Comes
    <3>3. Said("ready") => \A i \in 1..Len(rx') : Is(i, "caps")' => Agreed(rx'[i].offer)
      BY <1>1, <2>1, <2>2, <2>3 DEF SupplyInv, SaidFits, Is
    <3> QED
      BY <1>3, <3>1, <3>2, <3>3 DEF Comes, SupplyInv, SaidFits, Agreed
  <2> QED
    BY <1>1, <2>1, <2>2, <2>5, <2>6, <2>7, <2>8 DEF SupplyInv
<1>4. CASE /\ charger'.supply = charger.supply /\ charger'.offer = charger.offer
           /\ \E id \in Ids :
                \/ /\ charger.at = "requested"
                   /\ Comes([type |-> "accept", offer |-> {}, id |-> id], "accepted")
                \/ Comes([type |-> "reject", offer |-> {}, id |-> id], "idle")
                \/ Comes([type |-> "reset", offer |-> {}, id |-> id], "idle")
                \/ Comes([type |-> "accept", offer |-> {}, id |-> id], "idle")
  <2>1. PICK message \in Message, at \in {"accepted", "idle"} :
          /\ Comes(message, at) /\ message.type \in {"accept", "reject", "reset"}
          /\ at = "accepted" => charger.at = "requested" /\ message.type = "accept"
    <3>1. PICK id \in Ids :
            \/ /\ charger.at = "requested"
               /\ Comes([type |-> "accept", offer |-> {}, id |-> id], "accepted")
            \/ Comes([type |-> "reject", offer |-> {}, id |-> id], "idle")
            \/ Comes([type |-> "reset", offer |-> {}, id |-> id], "idle")
            \/ Comes([type |-> "accept", offer |-> {}, id |-> id], "idle")
      BY <1>4
    <3>2. \A type \in {"accept", "reject", "reset"} :
            [type |-> type, offer |-> {}, id |-> id] \in Message
      BY DEF Message
    <3> QED
      BY <3>1, <3>2
  <2>2. \A i \in 1..Len(rx') : \A type \in {"caps", "ready"} :
          Is(i, type)' => i \in 1..Len(rx) /\ Is(i, type) /\ rx'[i] = rx[i]
    BY <1>1, <2>1 DEF Is
  <2>3. OneRequest' /\ ContractIsSupplied'
    BY <1>4, <2>1, <2>2 DEF Comes, SupplyInv, OneRequest, ContractIsSupplied
  <2>4. OneOffer'
    BY <1>4, <2>1, <2>2 DEF Comes, SupplyInv, OneOffer
  <2>6. ReadyIsSupplied'
    <3> SUFFICES ASSUME NEW i \in 1..Len(rx'), Is(i, "ready")'
                 PROVE  /\ sink.pending = charger.supply
                        /\ \A j \in 1..Len(rx') : j < i /\ Is(j, "caps")' => Agreed(rx'[j].offer)
      BY <1>4, <2>1 DEF Comes, ReadyIsSupplied, Agreed
    <3> QED
      BY <2>2 DEF SupplyInv, ReadyIsSupplied
  <2>5. SaidFits'
    BY <1>1, <2>1 DEF Comes, SaidFits, Said
  <2> QED
    BY <1>1, <2>1, <2>3, <2>4, <2>5, <2>6 DEF SupplyInv
<1>5. CASE /\ charger.at = "accepted"
           /\ charger'.supply = charger.wanted /\ charger'.offer = charger.offer
           /\ \E id \in Ids : Comes([type |-> "ready", offer |-> {}, id |-> id], "idle")
  <2>1. PICK message \in Message : Comes(message, "idle") /\ message.type = "ready"
    BY <1>5 DEF Message
  <2>2. /\ sink.pending = charger.wanted /\ charger.wanted = Selected(charger.offer)
        /\ contract.explicit => sink.transition
    BY <1>5 DEF SupplyInv, OneRequest
  <2>3. OneRequest' /\ OneOffer' /\ ContractIsSupplied'
    BY <2>1, <2>2 DEF Comes, OneRequest, OneOffer, ContractIsSupplied
  <2>4. \A i \in 1..Len(rx') : Is(i, "caps")' => rx'[i].offer = charger.offer
    BY <1>1, <1>5, <2>1 DEF SupplyInv, OneOffer, Is
  <2>5. /\ sink'.pending = charger'.supply
        /\ \A i \in 1..Len(rx') : Is(i, "caps")' => Selected(rx'[i].offer) = charger'.supply
    BY <1>5, <2>1, <2>2, <2>4 DEF Comes
  <2>6. ReadyIsSupplied'
    BY <2>5 DEF ReadyIsSupplied, Agreed
  <2>7. SaidFits'
    BY <1>1, <2>1, <2>5 DEF Comes, SaidFits, Said, Agreed
  <2> QED
    BY <1>1, <2>1, <2>3, <2>6, <2>7 DEF SupplyInv
<1> QED
  BY <1>2, <1>3, <1>4, <1>5, SourceSays

(* An offer is handled: what is kept of it is what the source takes, or    *)
(* what it supplies if it has said that already.                           *)
LEMMA OfferHandled ==
  ASSUME PowerTypeOK, SupplyInv, rx # <<>>, rx' = Tail(rx), Is(1, "caps"),
         sink'.pending = Selected(Head(rx).offer), sink'.at # "setup",
         charger'.supply = charger.supply, charger'.offer = charger.offer,
         charger'.said = charger.said,
         \/ /\ charger.at = "offered" /\ charger'.at = "requested"
            /\ charger'.wanted = Selected(charger.offer)
         \/ charger'.at = charger.at /\ charger'.wanted = charger.wanted,
         contract'.volts = contract.volts \/ ~contract'.explicit,
         sink'.transition \/ ~contract'.explicit
  PROVE  SupplyInv'
<1>1. /\ Head(rx) = rx[1] /\ 1 \in 1..Len(rx) /\ Len(rx) \in Nat
      /\ \A i \in 1..Len(rx') : i + 1 \in 1..Len(rx) /\ rx'[i] = rx[i + 1]
  BY TailOfRx
<1>2. \A i \in 1..Len(rx') : 1 < i + 1
  <2>1. Len(rx') \in Int
    BY TailOfRx
  <2> QED
    BY <2>1
<1>3. charger.at \in {"offered", "requested", "accepted"} =>
        sink'.pending = Selected(charger.offer)
  BY <1>1 DEF SupplyInv, OneOffer
<1>4. charger.at = "offered" => \A i \in 1..Len(rx') : Is(i, "caps")'
  BY <1>1, <1>2 DEF SupplyInv, OneOffer, Is
<1>5. OneRequest'
  <2>1. charger'.at \in {"requested", "accepted"} => \A i \in 1..Len(rx') : ~Is(i, "ready")'
    BY <1>1, <1>4 DEF SupplyInv, OneRequest, Is
  <2>2. charger'.at \in {"requested", "accepted"} =>
          sink'.pending = charger'.wanted /\ charger'.wanted = Selected(charger'.offer)
    BY <1>3 DEF SupplyInv, OneRequest
  <2> QED
    BY <2>1, <2>2 DEF OneRequest
<1>6. OneOffer'
  <2>1. charger'.at \in {"offered", "requested", "accepted"} =>
          \A i \in 1..Len(rx') : Is(i, "caps")' => rx'[i].offer = charger'.offer
    BY <1>1 DEF SupplyInv, OneOffer, Is
  <2>2. charger'.at = "offered" =>
          \A i, j \in 1..Len(rx') : i < j /\ Is(i, "caps")' => Is(j, "caps")'
    BY <1>4
  <2> QED
    BY <2>1, <2>2 DEF OneOffer
<1>7. ReadyIsSupplied'
  <2> SUFFICES ASSUME NEW i \in 1..Len(rx'), Is(i, "ready")'
               PROVE  /\ sink'.pending = charger.supply
                      /\ \A j \in 1..Len(rx') : j < i /\ Is(j, "caps")' => Agreed(rx'[j].offer)
    BY DEF ReadyIsSupplied, Agreed
  <2>1. /\ i + 1 \in 1..Len(rx) /\ Is(i + 1, "ready")
        /\ \A k \in 1..Len(rx) : k < i + 1 /\ Is(k, "caps") => Agreed(rx[k].offer)
    BY <1>1 DEF SupplyInv, ReadyIsSupplied, Is
  <2>2. sink'.pending = charger.supply
    BY <1>1, <1>2, <2>1 DEF Agreed
  <2>3. ASSUME NEW j \in 1..Len(rx'), j < i, Is(j, "caps")' PROVE Agreed(rx'[j].offer)
    <3>1. Len(rx') \in Int
      BY TailOfRx
    <3>2. j + 1 < i + 1
      BY <2>3, <3>1
    <3> QED
      BY <1>1, <2>1, <2>3, <3>2 DEF Is
  <2> QED
    BY <2>2, <2>3
<1>8. SaidFits'
  <2>1. Said("ready") => sink'.pending = charger.supply
                         /\ \A i \in 1..Len(rx') : Is(i, "caps")' => Agreed(rx'[i].offer)
    BY <1>1 DEF SupplyInv, SaidFits, Agreed, Is
  <2>2. \A type : Said(type)' = Said(type)
    BY DEF Said
  <2> QED
    BY <2>1, <2>2 DEF SupplyInv, SaidFits, Agreed
<1> QED
  BY <1>5, <1>6, <1>7, <1>8 DEF SupplyInv, NoneInSetup, ContractIsSupplied

LEMMA PdInv == PowerTypeOK /\ SupplyInv /\ PdTask => SupplyInv'
<1> SUFFICES ASSUME PowerTypeOK, SupplyInv, PdTask PROVE SupplyInv'
  OBVIOUS
<1>1. sink \in Sink /\ contract \in Contract /\ charger \in Charger
  BY DEF PowerTypeOK
<1>2. CASE SetupFails \/ Attach
  <2>1. charger' = charger /\ rx' = rx /\ sink'.pending = sink.pending /\ sink'.at # "setup"
    BY <1>1, <1>2 DEF SetupFails, Attach, PdGoto, Waiting, Sink
  <2>2. ~contract'.explicit
    BY <1>1, <1>2 DEF SetupFails, Attach, PdGoto, NoContract, SupplyInv, NoneInSetup, Contract
  <2> QED
    BY <2>1, <2>2, SupplyKept
<1>3. CASE Notified \/ Deadline \/ ReadStatus \/ ReadStatusFails \/ ReadFails \/ Drained
           \/ HandleDuplicate
  BY <1>1, <1>3, SupplyKept DEF Notified, Deadline, ReadStatus, ReadStatusFails, ReadFails,
     Drained, HandleDuplicate, PdGoto, Sink
<1>4. CASE HandleAccept \/ HandleUnexpectedReady
  BY <1>1, <1>4, SupplyKept DEF HandleAccept, HandleUnexpectedReady, Handle, Sink
<1>5. CASE HandleReject \/ HandleReset
  <2>1. charger' = charger /\ rx # <<>> /\ rx' = Tail(rx) /\ ~contract'.explicit
    BY <1>5 DEF HandleReject, HandleReset, Handle, FallBackSafely, NoContract
  <2>2. sink'.pending = sink.pending /\ sink'.at # "setup"
    BY <1>1, <1>5 DEF HandleReject, HandleReset, Handle, Settled, AfterReset, Waiting, Sink
  <2> QED
    BY <2>1, <2>2, SupplyKept
<1>6. CASE NothingDue \/ AskForOffer \/ GiveUp \/ TransitionTimeout \/ ResetSourceFails
  <2>1. /\ charger' = charger /\ rx' \in {rx, <<>>}
        /\ sink'.pending = sink.pending /\ sink'.at # "setup"
    <3>1. CASE NothingDue \/ AskForOffer
      BY <1>1, <3>1 DEF NothingDue, AskForOffer, PdGoto, Sink
    <3>2. CASE GiveUp \/ TransitionTimeout
      BY <1>1, <3>2 DEF GiveUp, TransitionTimeout, Settled, Sink
    <3>3. CASE ResetSourceFails
      BY <1>1, <3>3 DEF ResetSourceFails, Sink
    <3> QED
      BY <1>6, <3>1, <3>2, <3>3
  <2>2. \/ ~contract'.explicit
        \/ contract' = contract /\ sink'.transition = sink.transition
    <3>1. CASE NothingDue \/ AskForOffer
      BY <1>1, <3>1 DEF NothingDue, AskForOffer, PdGoto, Sink
    <3>2. CASE GiveUp \/ TransitionTimeout \/ ResetSourceFails
      BY <3>2 DEF GiveUp, TransitionTimeout, ResetSourceFails, FallBackSafely, NoContract
    <3> QED
      BY <1>6, <3>1, <3>2
  <2> QED
    BY <2>1, <2>2, SupplyKept
<1>7. CASE ResetSource
  <2>1. CASE charger' = charger
    BY <1>1, <1>7, <2>1, SupplyKept DEF ResetSource, RecoveryDue, NoContract, Sink
  <2>2. CASE charger' = [charger EXCEPT !.at = "reset"]
    <3>1. /\ charger'.at = "reset" /\ charger'.said = charger.said
          /\ charger'.offer = charger.offer /\ charger'.supply = charger.supply
      BY <1>1, <2>2 DEF Charger
    <3>2. /\ rx' = <<>> /\ sink'.pending = sink.pending /\ sink'.at = "sleep"
          /\ ~contract'.explicit
      BY <1>1, <1>7 DEF ResetSource, NoContract, Sink
    <3>3. SaidFits'
      BY <3>1, <3>2 DEF SupplyInv, SaidFits, Said
    <3> QED
      BY <3>1, <3>2, <3>3 DEF SupplyInv, OneRequest, OneOffer, ReadyIsSupplied, NoneInSetup,
         ContractIsSupplied
  <2> QED
    BY <1>7, <2>1, <2>2 DEF ResetSource
<1>8. CASE Request
  <2> DEFINE volts == Selected(Head(rx).offer)
  <2>1. rx # <<>> /\ rx' = Tail(rx) /\ Is(1, "caps")
    BY <1>8, TailOfRx DEF Request, Handle, Is
  <2>2. sink'.pending = volts /\ sink'.transition /\ sink'.at # "setup"
    BY <1>1, <1>8 DEF Request, Handle, Sink
  <2>3. contract'.volts = contract.volts
    BY <1>1, <1>8 DEF Request, Contract
  <2>4. \/ charger' = charger
        \/ /\ charger.at = "offered" /\ charger.offer = Head(rx).offer
           /\ charger' = [charger EXCEPT !.at = "requested", !.wanted = volts]
    BY <1>8 DEF Request
  <2> HIDE DEF volts
  <2>5. /\ charger'.supply = charger.supply /\ charger'.offer = charger.offer
        /\ charger'.said = charger.said
        /\ \/ charger.at = "offered" /\ charger'.at = "requested" /\ charger'.wanted = volts
              /\ charger.offer = Head(rx).offer
           \/ charger'.at = charger.at /\ charger'.wanted = charger.wanted
    BY <1>1, <2>4 DEF Charger
  <2> QED
    BY <2>1, <2>2, <2>3, <2>5, OfferHandled DEF volts
<1>9. CASE RequestFails
  <2>1. rx # <<>> /\ rx' = Tail(rx) /\ Is(1, "caps")
    BY <1>9, TailOfRx DEF RequestFails, Handle, Is
  <2>2. sink'.pending = Selected(Head(rx).offer) /\ sink'.at # "setup"
    BY <1>1, <1>9 DEF RequestFails, Handle, Settled, Sink
  <2>3. ~contract'.explicit /\ charger' = charger
    BY <1>9 DEF RequestFails, FallBackSafely, NoContract
  <2> QED
    BY <2>1, <2>2, <2>3, OfferHandled
<1>10. CASE HandleReady
  <2>1. rx # <<>> /\ rx' = Tail(rx) /\ Is(1, "ready")
    BY <1>10, TailOfRx DEF HandleReady, Handle, Is
  <2>2. /\ charger' = charger /\ sink'.pending = sink.pending /\ sink'.at # "setup"
        /\ contract'.volts = sink.pending
    BY <1>1, <1>10 DEF HandleReady, Handle, Settled, Sink
  <2>3. /\ sink.pending = charger.supply
        /\ charger.at \notin {"requested", "accepted"}
    BY <2>1, TailOfRx DEF SupplyInv, OneRequest, ReadyIsSupplied
  <2>4. \A i \in 1..Len(rx') : i + 1 \in 1..Len(rx) /\ rx'[i] = rx[i + 1]
    BY <2>1, TailOfRx
  <2>5. \A i, j \in 1..Len(rx') : j < i => j + 1 < i + 1
    <3>1. Len(rx') \in Int
      BY <2>1, TailOfRx
    <3> QED
      BY <3>1
  <2>6. OneRequest' /\ ContractIsSupplied' /\ NoneInSetup'
    BY <2>2, <2>3 DEF OneRequest, ContractIsSupplied, NoneInSetup
  <2>7. OneOffer'
    BY <2>2, <2>4, <2>5 DEF SupplyInv, OneOffer, Is
  <2>8. ReadyIsSupplied'
    BY <2>2, <2>3, <2>4, <2>5 DEF SupplyInv, ReadyIsSupplied, Is, Agreed
  <2>9. SaidFits'
    BY <2>2, <2>4 DEF SupplyInv, SaidFits, Said, Is, Agreed
  <2> QED
    BY <2>6, <2>7, <2>8, <2>9 DEF SupplyInv
<1> QED
  BY <1>2, <1>3, <1>4, <1>5, <1>6, <1>7, <1>8, <1>9, <1>10 DEF PdTask, Service, PdTimers

LEMMA PowerStarts == PowerInit => PowerTypeOK /\ SupplyInv
<1> SUFFICES ASSUME PowerInit PROVE PowerTypeOK /\ SupplyInv
  OBVIOUS
<1>1. Safe \in Supplies /\ 0 \in Ids /\ NoId \in 0..NoId /\ 0 \in 0..MaxSourced
  BY PowerAssumption DEF Supplies, Ids, NoId
<1>2. contract \in Contract /\ sink \in Sink /\ charger \in Charger
  BY <1>1 DEF PowerInit, NoContract, Contract, Sink, Charger
<1>3. rx = <<>> /\ rx \in Seq(Message) /\ Len(rx) = 0
  BY DEF PowerInit
<1>4. PowerTypeOK
  BY <1>2, <1>3 DEF PowerInit, PowerTypeOK
<1>5. SupplyInv
  BY <1>3 DEF PowerInit, NoContract, SupplyInv, OneRequest, OneOffer, ReadyIsSupplied,
     SaidFits, Said, NoneInSetup, ContractIsSupplied
<1> QED
  BY <1>4, <1>5

LEMMA PowerStep ==
  PowerTypeOK /\ SupplyInv /\ [PowerNext]_delivery => (PowerTypeOK /\ SupplyInv)'
<1>1. ASSUME PowerTypeOK, SupplyInv, UNCHANGED delivery
      PROVE  (PowerTypeOK /\ SupplyInv)'
  BY <1>1 DEF delivery, PowerTypeOK, SupplyInv, OneRequest, OneOffer, ReadyIsSupplied,
     SaidFits, Said, Is, Agreed, NoneInSetup, ContractIsSupplied
<1> QED
  BY <1>1, SourceTypes, SourceInv, PdTypes, PdInv DEF PowerNext

LEMMA PowerInv == PowerSpec => [](PowerTypeOK /\ SupplyInv)
BY PowerStarts, PowerStep, PTL DEF PowerSpec

(* The status, what pd_task keeps and the queue keep their types.          *)
THEOREM PowerTypeCorrect == PowerSpec => []PowerTypeOK
<1> QED
  BY PowerInv, PTL

(* Whatever is lost, repeated, late or reset, the contract is for the      *)
(* voltage that is supplied, for every set of voltages, every word of      *)
(* message numbers and however often the source begins anew.               *)
THEOREM ContractIsReal == PowerSpec => []ContractIsSupplied
<1>1. SupplyInv => ContractIsSupplied
  BY DEF SupplyInv
<1> QED
  BY <1>1, PowerInv, PTL

-----------------------------------------------------------------------------
(* The outputs.                                                            *)

Silent == amp = "off" /\ ~aux
Follows == (amp # "off") = ("amp" \in Desired) /\ aux = ("aux" \in Desired)

OutputInv ==
  /\ OutputTypeOK
  /\ mutex = "playback" <=> speaker.at \in {"choose", "start"}
  /\ session <=> speaker.at \in {"playing", "give"}
  /\ ~flawed /\ speaker.at # "playing" => Silent
  /\ ~flawed /\ speaker.at = "playing" =>
       \/ Follows
       \/ mutex = "settings"
       \/ mutex = "direction" /\ setting = "auto"

LEMMA Switched ==
  ASSUME OutputTypeOK, NEW playing \in BOOLEAN, NEW high, Switch(playing, high),
         setting' = setting, jack' = jack
  PROVE  /\ amp' \in {"off", "low", "high"} /\ aux' \in BOOLEAN
         /\ playing => Follows'
         /\ ~playing => Silent'
<1>1. amp' \in {"off", "low", "high"} /\ aux' \in BOOLEAN
  BY DEF Switch, Profile
<1>2. playing => Follows'
  BY DEF Switch, Profile, Outputs, Follows, Desired
<1>3. ~playing => Silent'
  BY DEF Switch, Outputs, Silent
<1> QED
  BY <1>1, <1>2, <1>3

LEMMA SwitchFailed ==
  ASSUME OutputTypeOK, NEW playing, NEW high, SwitchFails(playing, high)
  PROVE  amp' \in {"off", "low", "high"} /\ aux' \in BOOLEAN /\ flawed'
<1>1. amp' \in {amp, "off", "high", "low"}
  BY DEF SwitchFails, Profile
<1>2. aux \in BOOLEAN
  BY DEF OutputTypeOK
<1>3. aux' \in BOOLEAN /\ flawed'
  <2>1. flawed' /\ (aux' = aux \/ aux' = ("aux" \in Outputs(playing)))
    BY DEF SwitchFails
  <2>2. ("aux" \in Outputs(playing)) \in BOOLEAN
    OBVIOUS
  <2>3. CASE aux' = aux
    BY <1>2, <2>1, <2>3, Zenon
  <2>4. CASE aux' = ("aux" \in Outputs(playing))
    BY <2>1, <2>2, <2>4, Zenon
  <2> QED
    BY <2>1, <2>3, <2>4
<1> QED
  BY <1>1, <1>3 DEF OutputTypeOK

LEMMA PlaybackOutput == OutputInv /\ PlaybackTask => OutputInv'
<1> SUFFICES ASSUME OutputInv, PlaybackTask PROVE OutputInv'
  OBVIOUS
<1>0. OutputTypeOK
  BY DEF OutputInv
<1>1. CASE BeginOutput
  <2>1. amp' \in {"off", "low", "high"} /\ aux' \in BOOLEAN /\ flawed' \in BOOLEAN
        /\ (~flawed' => Silent')
    BY <1>0, <1>1, Switched, SwitchFailed DEF BeginOutput, Apply, OutputTypeOK
  <2> QED
    BY <1>0, <1>1, <2>1 DEF BeginOutput, OutputInv, OutputTypeOK
<1>2. CASE ChooseProfile
  <2>1. HighRecommended \in BOOLEAN
    BY DEF HighRecommended
  <2> QED
    BY <1>0, <1>2, <2>1 DEF ChooseProfile, OutputInv, OutputTypeOK, Silent
<1>3. CASE StartOutput
  <2>1. amp' \in {"off", "low", "high"} /\ aux' \in BOOLEAN /\ Follows'
    BY <1>0, <1>3, Switched DEF StartOutput
  <2> QED
    BY <1>0, <1>3, <2>1 DEF StartOutput, OutputInv, OutputTypeOK
<1>4. CASE ChannelFails
  BY <1>0, <1>4 DEF ChannelFails, OutputInv, OutputTypeOK, Silent
<1>5. CASE StartOutputFails
  <2>1. amp' \in {"off", "low", "high"}
    BY <1>0, <1>5 DEF StartOutputFails, Profile, OutputTypeOK
  <2>2. aux' \in BOOLEAN
    <3>1. aux \in BOOLEAN
      BY <1>0 DEF OutputTypeOK
    <3>2. aux' = aux \/ aux' = ("aux" \in Desired) \/ aux' = FALSE
      BY <1>5 DEF StartOutputFails
    <3>3. ("aux" \in Desired) \in BOOLEAN /\ FALSE \in BOOLEAN
      OBVIOUS
    <3> QED
      BY <3>1, <3>2, <3>3, Zenon
  <2> QED
    BY <1>0, <1>5, <2>1, <2>2 DEF StartOutputFails, OutputInv, OutputTypeOK
<1>6. CASE EndOutput
  <2>1. amp' \in {"off", "low", "high"} /\ aux' \in BOOLEAN /\ flawed' \in BOOLEAN
        /\ (~flawed' => Silent')
    BY <1>0, <1>6, Switched, SwitchFailed DEF EndOutput, Apply, OutputTypeOK
  <2> QED
    BY <1>0, <1>6, <2>1 DEF EndOutput, OutputInv, OutputTypeOK
<1>7. CASE EndWithoutMutex
  BY <1>0, <1>7 DEF EndWithoutMutex, OutputInv, OutputTypeOK
<1>8. CASE GiveSession
  BY <1>0, <1>8 DEF GiveSession, OutputInv, OutputTypeOK, Silent
<1> QED
  BY <1>1, <1>2, <1>3, <1>4, <1>5, <1>6, <1>7, <1>8 DEF PlaybackTask

(* Another task switches for the session it sees.                          *)
LEMMA Reapplied ==
  ASSUME OutputTypeOK, NEW playing \in BOOLEAN, Reapply(playing),
         setting' = setting, jack' = jack
  PROVE  /\ amp' \in {"off", "low", "high"} /\ aux' \in BOOLEAN /\ flawed' \in BOOLEAN
         /\ ~flawed' => ~flawed /\ speaker.at # "give"
         /\ ~flawed' /\ playing => Follows'
         /\ ~flawed' /\ ~playing => Silent'
<1>1. CASE Switch(playing, HighRecommended) /\ flawed' = (flawed \/ speaker.at = "give")
  BY <1>1, Switched DEF OutputTypeOK
<1>2. CASE SwitchFails(playing, HighRecommended)
  BY <1>2, SwitchFailed
<1> QED
  BY <1>1, <1>2 DEF Reapply

LEMMA OthersOutput ==
  OutputInv /\ (JackChanges \/ JackSwitches \/ SetOutputMode \/ ModeSwitches) => OutputInv'
<1> SUFFICES ASSUME OutputInv, JackChanges \/ JackSwitches \/ SetOutputMode \/ ModeSwitches
             PROVE  OutputInv'
  OBVIOUS
<1>0. OutputTypeOK
  BY DEF OutputInv
<1>1. CASE JackChanges
  <2>1. setting # "auto" => Desired' = Desired
    BY <1>1, <1>0 DEF JackChanges, Desired, OutputTypeOK, Settings
  <2> QED
    BY <1>0, <1>1, <2>1 DEF JackChanges, OutputInv, OutputTypeOK, Follows, Silent
<1>2. CASE JackSwitches
  <2>1. CASE setting = "auto" /\ session
    <3>1. /\ amp' \in {"off", "low", "high"} /\ aux' \in BOOLEAN /\ flawed' \in BOOLEAN
          /\ ~flawed' => ~flawed /\ speaker.at # "give" /\ Follows'
      BY <1>0, <1>2, <2>1, Reapplied DEF JackSwitches
    <3> QED
      BY <1>0, <1>2, <2>1, <3>1 DEF JackSwitches, OutputInv, OutputTypeOK
  <2>2. CASE ~(setting = "auto" /\ session)
    BY <1>0, <1>2, <2>2 DEF JackSwitches, OutputInv, OutputTypeOK, Follows, Silent, Desired
  <2> QED
    BY <2>1, <2>2
<1>3. CASE SetOutputMode
  BY <1>0, <1>3 DEF SetOutputMode, OutputInv, OutputTypeOK, Silent
<1>4. CASE ModeSwitches
  <2>1. /\ amp' \in {"off", "low", "high"} /\ aux' \in BOOLEAN /\ flawed' \in BOOLEAN
        /\ ~flawed' => ~flawed /\ speaker.at # "give"
        /\ ~flawed' /\ session => Follows'
        /\ ~flawed' /\ ~session => Silent'
    BY <1>0, <1>4, Reapplied DEF ModeSwitches, OutputTypeOK
  <2> QED
    BY <1>0, <1>4, <2>1 DEF ModeSwitches, OutputInv, OutputTypeOK
<1> QED
  BY <1>1, <1>2, <1>3, <1>4

LEMMA OutputStarts == OutputInit => OutputInv
<1> SUFFICES ASSUME OutputInit PROVE OutputInv
  OBVIOUS
<1>1. jack \in [valid : BOOLEAN, plugged : BOOLEAN]
  BY DEF OutputInit
<1>2. speaker \in [at : {"idle", "choose", "start", "playing", "give"}, high : BOOLEAN]
      /\ speaker.at = "idle"
  BY DEF OutputInit
<1> QED
  BY <1>1, <1>2 DEF OutputInit, OutputInv, OutputTypeOK, Settings, Silent

LEMMA OutputStep == OutputInv /\ (OutputNext \/ UNCHANGED output) => OutputInv'
<1>1. ASSUME OutputInv, UNCHANGED output PROVE OutputInv'
  BY <1>1 DEF output, OutputInv, OutputTypeOK, Silent, Follows, Desired
<1> QED
  BY <1>1, PlaybackOutput, OthersOutput DEF OutputNext, OutputSteps, ContractChanges

LEMMA OutputSpecInv == OutputSpec => []OutputInv
<1>1. OutputInv /\ [OutputNext]_<<contract, charger, output>> => OutputInv'
  BY OutputStep
<1> QED
  BY <1>1, OutputStarts, PTL DEF OutputSpec

(* Whichever of the three tasks switches, and however the setting and the  *)
(* jack change meanwhile, the outputs are those that are asked for while a *)
(* session plays, and off when none does.                                  *)
THEOREM OutputsAreRight == OutputSpec => []OutputFollows
<1>1. OutputInv => OutputFollows
  BY DEF OutputInv, OutputFollows, Silent, Follows
<1> QED
  BY <1>1, OutputSpecInv, PTL

(* The switching keeps the types of setting, jack, outputs and session.    *)
THEOREM OutputTypeCorrect == OutputSpec => []OutputTypeOK
<1>1. OutputInv => OutputTypeOK
  BY DEF OutputInv
<1> QED
  BY <1>1, OutputSpecInv, PTL

-----------------------------------------------------------------------------
(* The radio.                                                              *)

ScanInv ==
  /\ ~initialized => ~synced /\ ~discovering
  /\ paused => busy
  /\ poll \in {"start", "started", "refused"} => ~busy
  /\ poll \in {"idle", "flush"} /\ paused => ~discovering \/ stopFailed

LEMMA HostKeepsPause == ScanInv /\ HostTask => ScanInv'
<1> SUFFICES ASSUME ScanInv, HostTask PROVE ScanInv'
  OBVIOUS
<1>1. CASE DiscoveryEnds
  BY <1>1 DEF DiscoveryEnds, Hosts, ScanInv, flags, polling
<1>2. CASE DiscoveryComplete
  BY <1>2 DEF DiscoveryComplete, Hosts, ScanInv, polling
<1>3. CASE HostResets
  BY <1>3 DEF HostResets, Hosts, ScanInv, flags, polling
<1>4. CASE OnReset
  BY <1>4 DEF OnReset, Hosts, ScanInv, polling
<1>5. CASE OnSync
  BY <1>5 DEF OnSync, Hosts, ScanInv, polling
<1> QED
  BY <1>1, <1>2, <1>3, <1>4, <1>5 DEF HostTask

LEMMA PollKeepsPause == ScanInv /\ PollTask => ScanInv'
<1> SUFFICES ASSUME ScanInv, PollTask PROVE ScanInv'
  OBVIOUS
<1>1. CASE \E audio \in BOOLEAN : PollBegin(audio)
  BY <1>1 DEF PollBegin, Polls, ScanInv
<1>2. CASE StartStack \/ StartStackFailed
  BY <1>2 DEF StartStack, StartStackFailed, Polls, ScanInv
<1>3. CASE WantScan
  BY <1>3 DEF WantScan, MustStop, Polls, ScanInv, flags
<1>4. CASE StartNot
  BY <1>4 DEF StartNot, Polls, ScanInv, flags
<1>5. CASE StartScan
  BY <1>5 DEF StartScan, Polls, ScanInv, flags
<1>6. CASE StartRefused
  BY <1>6 DEF StartRefused, Polls, ScanInv, flags
<1>7. CASE StartMarked
  BY <1>7 DEF StartMarked, Polls, ScanInv
<1>8. CASE StopMarked
  BY <1>8 DEF StopMarked, Polls, ScanInv
<1>9. CASE StopScan
  BY <1>9 DEF StopScan, Polls, ScanInv, flags
<1>10. CASE StopRefused
  BY <1>10 DEF StopRefused, Polls, ScanInv, flags
<1>11. CASE PollEnd
  BY <1>11 DEF PollEnd, Polls, ScanInv, flags
<1> QED
  BY <1>1, <1>2, <1>3, <1>4, <1>5, <1>6, <1>7, <1>8, <1>9, <1>10, <1>11 DEF PollTask

LEMMA ScanStarts == ScannerInit => ScanInv
BY DEF ScannerInit, ScanInv

LEMMA ScanStep == ScanInv /\ [ScannerNext]_ble => ScanInv'
<1> SUFFICES ASSUME ScanInv, [ScannerNext]_ble PROVE ScanInv'
  OBVIOUS
<1>1. CASE UNCHANGED ble
  BY <1>1 DEF ble, flags, polling, ScanInv
<1>2. CASE Calm
  BY <1>2 DEF Calm, flags, polling, ScanInv
<1> QED
  BY <1>1, <1>2, HostKeepsPause, PollKeepsPause DEF ScannerNext

(* A poll that saw audio leaves the radio silent until one does not,       *)
(* whatever the host resets, ends or syncs meanwhile, unless the host      *)
(* refuses to stop.                                                        *)
THEOREM SilentForAudio == ScannerSpec => []PausesForAudio
<1>1. ScanInv => PausesForAudio
  BY DEF ScanInv, PausesForAudio
<1> QED
  BY <1>1, ScanStarts, ScanStep, PTL DEF ScannerSpec

LEMMA ScannerTypes == ScannerTypeOK /\ [ScannerNext]_ble => ScannerTypeOK'
<1> SUFFICES ASSUME ScannerTypeOK, [ScannerNext]_ble PROVE ScannerTypeOK'
  OBVIOUS
<1> USE DEF ScannerTypeOK
<1>1. CASE UNCHANGED ble
  BY <1>1 DEF ble, flags, polling
<1>2. CASE Calm
  BY <1>2 DEF Calm, flags, polling
<1>3. CASE HostTask
  BY <1>3 DEF HostTask, DiscoveryEnds, DiscoveryComplete, HostResets, OnReset, OnSync, Hosts,
              flags, polling
<1>4. ASSUME NEW audio \in BOOLEAN, PollBegin(audio)
      PROVE  ScannerTypeOK'
  BY <1>4 DEF PollBegin, Polls
<1>5. CASE StartStack \/ StartStackFailed
  BY <1>5 DEF StartStack, StartStackFailed, Polls
<1>6. CASE WantScan \/ PollEnd
  BY <1>6 DEF WantScan, PollEnd, Polls, flags
<1>7. CASE StartNot \/ StartScan \/ StartRefused \/ StartMarked
  BY <1>7 DEF StartNot, StartScan, StartRefused, StartMarked, Polls, flags
<1>8. CASE StopMarked \/ StopScan \/ StopRefused
  BY <1>8 DEF StopMarked, StopScan, StopRefused, Polls, flags
<1> QED
  BY <1>1, <1>2, <1>3, <1>4, <1>5, <1>6, <1>7, <1>8 DEF ScannerNext, PollTask

(* The host and the poll keep the types of the scanner's flags.            *)
THEOREM ScannerTypeCorrect == ScannerSpec => []ScannerTypeOK
<1>1. ScannerInit => ScannerTypeOK
  BY DEF ScannerInit, ScannerTypeOK
<1> QED
  BY <1>1, ScannerTypes, PTL DEF ScannerSpec

-----------------------------------------------------------------------------
(* The adverts.                                                            *)

TableInv ==
  /\ table \in Seq(Entry) /\ Len(table) <= Entries
  /\ emitted \in [Adverts -> Times \cup {Never}]
  /\ clock \in Times
  /\ EntryIsOwn

LEMMA AdvertEmittedInv ==
  ASSUME TableInv, NEW advert \in Adverts, NEW rssi \in Rssis, AdvertEmitted(advert, rssi)
  PROVE  TableInv'
<1> USE AdvertsAssumption
<1>1. PICK i \in 1..Entries :
        /\ PlaceOfNew(advert, i) \/ (i <= Len(table) /\ Known(advert, i) /\ Due(i, rssi))
        /\ Place(i, [advert |-> advert, rssi |-> rssi, emit |-> clock, seen |-> clock])
  BY DEF AdvertEmitted
<1> DEFINE entry == [advert |-> advert, rssi |-> rssi, emit |-> clock, seen |-> clock]
<1>2. entry \in Entry /\ entry.advert = advert /\ entry.emit = clock
  BY DEF TableInv, Entry
<1> HIDE DEF entry
<1>3. /\ emitted' = [emitted EXCEPT ![advert] = clock] /\ clock' = clock
      /\ emitted' \in [Adverts -> Times \cup {Never}]
  BY DEF AdvertEmitted, Emit, TableInv
<1>4. Len(table) \in Nat /\ \A j \in 1..Len(table) : table[j] \in Entry
  BY DEF TableInv
(* Only place i has an entry for the advert, if any has.                   *)
<1>5. \A j \in 1..Len(table) : table[j].advert = advert => j = i
  BY <1>1, <1>4 DEF TableInv, EntryIsOwn, PlaceOfNew, Known
<1>6. i \in 1..Len(table) \/ i = Len(table) + 1
  BY <1>1, <1>4 DEF PlaceOfNew
<1>7. /\ table' \in Seq(Entry) /\ Len(table') <= Entries
      /\ \A j \in 1..Len(table') :
           \/ j = i /\ table'[j] = entry
           \/ j # i /\ j \in 1..Len(table) /\ table'[j] = table[j]
  <2>1. CASE i \in 1..Len(table)
    <3>1. table' = [table EXCEPT ![i] = entry]
      BY <1>1, <1>4, <2>1 DEF Place, entry
    <3> QED
      BY <1>2, <2>1, <3>1 DEF TableInv
  <2>2. CASE i = Len(table) + 1
    <3>1. table' = Append(table, entry)
      BY <1>1, <1>4, <2>2 DEF Place, entry
    <3> QED
      BY <1>2, <1>4, <2>2, <3>1 DEF TableInv
  <2> QED
    BY <1>6, <2>1, <2>2
<1>8. ASSUME NEW j \in 1..Len(table')
      PROVE  table'[j].emit = emitted'[table'[j].advert]
  <2>1. CASE j = i
    BY <1>2, <1>3, <1>7, <2>1 DEF TableInv
  <2>2. CASE j # i
    <3>1. j \in 1..Len(table) /\ table'[j] = table[j] /\ table[j].advert # advert
      BY <1>5, <1>7, <2>2
    <3>2. table[j].advert \in Adverts
      BY <1>4, <3>1 DEF Entry
    <3> QED
      BY <1>3, <3>1, <3>2 DEF TableInv, EntryIsOwn
  <2> QED
    BY <2>1, <2>2
<1>9. ASSUME NEW j \in 1..Len(table'), NEW k \in 1..Len(table'),
             table'[j].advert = table'[k].advert
      PROVE  j = k
  BY <1>2, <1>5, <1>7, <1>9 DEF TableInv, EntryIsOwn
<1> QED
  BY <1>3, <1>7, <1>8, <1>9 DEF TableInv, EntryIsOwn

LEMMA AdvertFilteredInv ==
  ASSUME TableInv, NEW advert \in Adverts, NEW rssi \in Rssis, AdvertFiltered(advert, rssi)
  PROVE  TableInv'
<1>1. PICK i \in 1..Len(table) : table' = [table EXCEPT ![i].seen = clock]
  BY DEF AdvertFiltered
<1>2. clock' = clock /\ emitted' = emitted
  BY DEF AdvertFiltered
<1>3. \A j \in 1..Len(table) : table[j] \in Entry
  BY DEF TableInv
<1>4. [table[i] EXCEPT !.seen = clock] \in Entry
  BY <1>3 DEF Entry, TableInv
<1>5. table' \in Seq(Entry) /\ Len(table') = Len(table)
  BY <1>1, <1>4 DEF TableInv
<1>6. \A j \in 1..Len(table) :
        table'[j].advert = table[j].advert /\ table'[j].emit = table[j].emit
  BY <1>1, <1>3 DEF TableInv, Entry
<1> QED
  BY <1>2, <1>5, <1>6 DEF TableInv, EntryIsOwn

(* The counters. *)
Names == {"seen", "filtered", "dropped", "sent"}

Balanced(s, batched, hand) ==
  s["seen"] = s["filtered"] + s["dropped"] + s["sent"] + batched + hand

(* The main loop has a batch in hand only after it has taken one. *)
Sending == sender \in {"idle", "flush"} => sending = 0

(* The inductive invariant. *)
AdvertsInv == TableInv /\ AdvertsTypeOK /\ AllAccounted /\ Sending

(* What balances, with as many seen as there may be, is within bounds.     *)
LEMMA BalancedFits ==
  ASSUME NEW s, DOMAIN s = Names, s = [c \in Names |-> s[c]], \A c \in Names : s[c] \in Nat,
         NEW batched \in Nat, NEW hand \in Nat, Balanced(s, batched, hand),
         MaxSeen \in Nat, s["seen"] <= MaxSeen
  PROVE  s \in [Names -> 0..MaxSeen]
<1>1. /\ s["seen"] \in Nat /\ s["filtered"] \in Nat /\ s["dropped"] \in Nat /\ s["sent"] \in Nat
  BY DEF Names
<1>2. s["filtered"] <= s["seen"] /\ s["dropped"] <= s["seen"] /\ s["sent"] <= s["seen"]
  BY <1>1 DEF Balanced
<1>3. \A c \in Names : s[c] <= MaxSeen
  BY <1>1, <1>2 DEF Names
<1> QED
  BY <1>3

(* One more is heard: it is held back, lost, or put into the batch.        *)
LEMMA OneMore ==
  ASSUME NEW s \in [Names -> Nat], NEW batched \in Nat, NEW more \in Nat, NEW hand \in Nat,
         NEW counts \in SUBSET Names,
         \/ more = batched /\ counts \in {{"seen", "filtered"}, {"seen", "dropped"}}
         \/ more = batched + 1 /\ counts = {"seen"},
         Balanced(s, batched, hand)
  PROVE  LET n == [c \in Names |-> s[c] + IF c \in counts THEN 1 ELSE 0]
         IN n \in [Names -> Nat] /\ n["seen"] = s["seen"] + 1 /\ Balanced(n, more, hand)
<1> DEFINE n == [c \in Names |-> s[c] + IF c \in counts THEN 1 ELSE 0]
<1>1. /\ s["seen"] \in Nat /\ s["filtered"] \in Nat /\ s["dropped"] \in Nat /\ s["sent"] \in Nat
  BY DEF Names
<1>2. /\ n["seen"] = s["seen"] + IF "seen" \in counts THEN 1 ELSE 0
      /\ n["filtered"] = s["filtered"] + IF "filtered" \in counts THEN 1 ELSE 0
      /\ n["dropped"] = s["dropped"] + IF "dropped" \in counts THEN 1 ELSE 0
      /\ n["sent"] = s["sent"] + IF "sent" \in counts THEN 1 ELSE 0
  BY DEF Names
<1>3. n \in [Names -> Nat]
  OBVIOUS
<1> HIDE DEF n
<1>4. n["seen"] = s["seen"] + 1 /\ Balanced(n, more, hand)
  <2>1. CASE more = batched /\ counts = {"seen", "filtered"}
    BY <1>1, <1>2, <2>1 DEF Balanced
  <2>2. CASE more = batched /\ counts = {"seen", "dropped"}
    <3>1. /\ n["seen"] = s["seen"] + 1 /\ n["filtered"] = s["filtered"]
          /\ n["dropped"] = s["dropped"] + 1 /\ n["sent"] = s["sent"]
      BY <1>1, <1>2, <2>2
    <3> QED
      BY <1>1, <2>2, <3>1 DEF Balanced
  <2>3. CASE more = batched + 1 /\ counts = {"seen"}
    BY <1>1, <1>2, <2>3 DEF Balanced
  <2> QED
    BY <2>1, <2>2, <2>3
<1>5. n \in [Names -> Nat] /\ n["seen"] = s["seen"] + 1 /\ Balanced(n, more, hand)
  BY <1>3, <1>4
<1> QED
  BY <1>5 DEF n

(* What the main loop has in hand is counted.                              *)
LEMMA HandCounted ==
  ASSUME NEW s \in [Names -> Nat], NEW batched \in Nat, NEW hand \in Nat,
         NEW result \in {"sent", "dropped"}, Balanced(s, batched, hand)
  PROVE  LET n == [s EXCEPT ![result] = @ + hand]
         IN n \in [Names -> Nat] /\ n["seen"] = s["seen"] /\ Balanced(n, batched, 0)
<1>1. /\ s["seen"] \in Nat /\ s["filtered"] \in Nat /\ s["dropped"] \in Nat /\ s["sent"] \in Nat
  BY DEF Names
<1> DEFINE n == [s EXCEPT ![result] = @ + hand]
<1>2. n \in [Names -> Nat]
  BY DEF Names
<1>3. /\ n["seen"] = s["seen"] /\ n["filtered"] = s["filtered"]
      /\ \/ n["sent"] = s["sent"] + hand /\ n["dropped"] = s["dropped"]
         \/ n["dropped"] = s["dropped"] + hand /\ n["sent"] = s["sent"]
  BY DEF Names
<1> HIDE DEF n
<1>4. Balanced(n, batched, 0)
  BY <1>1, <1>3 DEF Balanced
<1>5. n \in [Names -> Nat] /\ n["seen"] = s["seen"] /\ Balanced(n, batched, 0)
  BY <1>2, <1>3, <1>4
<1> QED
  BY <1>5 DEF n

LEMMA AdvertNumbers ==
  ASSUME AdvertsTypeOK
  PROVE  /\ MaxSeen \in Nat /\ stats \in [Names -> Nat] /\ stats["seen"] <= MaxSeen
         /\ Len(batch) \in Nat /\ sending \in Nat
<1>1. MaxSeen \in Nat /\ BatchMax \in Nat
  BY AdvertsAssumption
<1> QED
  BY <1>1 DEF AdvertsTypeOK, Names

LEMMA HeardKeepsCounts ==
  ASSUME AdvertsInv, NEW advert \in Adverts, NEW rssi \in Rssis,
         AdvertEmitted(advert, rssi) \/ AdvertFiltered(advert, rssi)
  PROVE  AdvertsInv'
<1>1. TableInv /\ AdvertsTypeOK /\ AllAccounted /\ Sending
  BY DEF AdvertsInv
<1>b. Balanced(stats, Len(batch), sending)
  BY <1>1 DEF AllAccounted, Balanced
<1>2. TableInv'
  BY <1>1, AdvertEmittedInv, AdvertFilteredInv
<1>3. UNCHANGED <<clock, flushed, sender, sending>> /\ stats["seen"] < MaxSeen
  BY DEF AdvertEmitted, AdvertFiltered
<1>4. /\ batch' \in Seq(Adverts) /\ Len(batch') <= BatchMax
      /\ \E counts \in SUBSET Names :
           /\ Count(counts)
           /\ \/ batch' = batch /\ counts \in {{"seen", "filtered"}, {"seen", "dropped"}}
              \/ Len(batch') = Len(batch) + 1 /\ counts = {"seen"}
  <2>1. batch \in Seq(Adverts) /\ Len(batch) <= BatchMax /\ Len(batch) \in Nat
    BY <1>1 DEF AdvertsTypeOK
  <2>2. CASE AdvertFiltered(advert, rssi)
    BY <2>1, <2>2 DEF AdvertFiltered, Names
  <2>3. CASE AdvertEmitted(advert, rssi) /\ Len(batch) < BatchMax
    <3>1. batch' = Append(batch, advert) /\ Count({"seen"})
      BY <2>3 DEF AdvertEmitted, Emit
    <3>2. batch' \in Seq(Adverts) /\ Len(batch') = Len(batch) + 1
      BY <2>1, <3>1
    <3> QED
      BY <2>1, <2>3, <3>1, <3>2, AdvertsAssumption DEF Names
  <2>4. CASE AdvertEmitted(advert, rssi) /\ ~(Len(batch) < BatchMax)
    <3>1. batch' = batch /\ Count({"seen", "dropped"})
      BY <2>4 DEF AdvertEmitted, Emit
    <3> QED
      BY <2>1, <3>1 DEF Names
  <2> QED
    BY <2>2, <2>3, <2>4
<1>5. PICK counts \in SUBSET Names :
        /\ Count(counts)
        /\ \/ batch' = batch /\ counts \in {{"seen", "filtered"}, {"seen", "dropped"}}
           \/ Len(batch') = Len(batch) + 1 /\ counts = {"seen"}
  BY <1>4
<1>6. /\ MaxSeen \in Nat /\ stats \in [Names -> Nat] /\ Len(batch) \in Nat /\ sending \in Nat
      /\ Len(batch') \in Nat
  BY <1>1, <1>4, AdvertNumbers
<1>7. \/ Len(batch') = Len(batch) /\ counts \in {{"seen", "filtered"}, {"seen", "dropped"}}
      \/ Len(batch') = Len(batch) + 1 /\ counts = {"seen"}
  BY <1>5
<1>8. stats' = [c \in Names |-> stats[c] + IF c \in counts THEN 1 ELSE 0]
  BY <1>5, <1>6 DEF Count
<1>9. /\ stats' \in [Names -> Nat] /\ stats'["seen"] = stats["seen"] + 1
      /\ Balanced(stats', Len(batch'), sending)
  BY <1>b, <1>6, <1>7, <1>8, OneMore
<1>10. stats'["seen"] <= MaxSeen
  <2>1. stats["seen"] \in Nat
    BY <1>6 DEF Names
  <2> QED
    BY <1>3, <1>6, <1>9, <2>1
<1>11. stats' \in [Names -> 0..MaxSeen]
  BY <1>6, <1>9, <1>10, BalancedFits
<1>12. AllAccounted'
  BY <1>3, <1>9 DEF AllAccounted, Balanced
<1> QED
  BY <1>1, <1>2, <1>3, <1>4, <1>11, <1>12 DEF AdvertsInv, TableInv, AdvertsTypeOK, Sending, Names

LEMMA BatchKeepsCounts ==
  ASSUME AdvertsInv, Tick \/ PollBatch \/ TakeBatch \/ SendBatch \/ CountBatch \/ UNCHANGED radio
  PROVE  AdvertsInv'
<1>1. TableInv /\ AdvertsTypeOK /\ AllAccounted /\ Sending
  BY DEF AdvertsInv
<1>b. Balanced(stats, Len(batch), sending)
  BY <1>1 DEF AllAccounted, Balanced
<1>2. CASE Tick
  <2>1. clock' \in Times /\ UNCHANGED <<table, batch, flushed, stats, sender, sending, emitted>>
    BY <1>1, <1>2, AdvertsAssumption DEF Tick, AdvertsTypeOK, Times
  <2> QED
    BY <1>1, <2>1 DEF AdvertsInv, TableInv, EntryIsOwn, AdvertsTypeOK, AllAccounted, Sending
<1>3. CASE PollBatch
  BY <1>1, <1>3 DEF PollBatch, Sends, AdvertsInv, TableInv, EntryIsOwn, AdvertsTypeOK,
                    AllAccounted, Sending
<1>4. CASE TakeBatch
  <2>1. /\ sending' = Len(batch) /\ batch' = <<>> /\ sending = 0 /\ Len(batch) \in 0..BatchMax
        /\ UNCHANGED <<clock, table, flushed, stats, emitted>>
    BY <1>1, <1>4, AdvertsAssumption DEF TakeBatch, Sends, Sending, AdvertsTypeOK
  <2>2. batch' \in Seq(Adverts) /\ Len(batch') = 0
    BY <2>1
  <2>3. sender' = (IF batch = <<>> THEN "idle" ELSE "send") /\ (batch = <<>> => Len(batch) = 0)
    BY <1>4 DEF TakeBatch, Sends
  <2>4. AllAccounted'
    <3>1. /\ stats["seen"] \in Nat /\ stats["filtered"] \in Nat /\ stats["dropped"] \in Nat
          /\ stats["sent"] \in Nat /\ Len(batch) \in Nat
      BY <1>1, AdvertNumbers DEF Names
    <3> QED
      BY <1>1, <2>1, <2>2, <3>1 DEF AllAccounted, Balanced
  <2>5. TableInv'
    BY <1>1, <2>1 DEF TableInv, EntryIsOwn
  <2> QED
    BY <1>1, <2>1, <2>2, <2>3, <2>4, <2>5, AdvertsAssumption DEF AdvertsInv, AdvertsTypeOK, Sending
<1>5. CASE SendBatch
  BY <1>1, <1>5 DEF SendBatch, Sends, AdvertsInv, TableInv, EntryIsOwn, AdvertsTypeOK,
                    AllAccounted, Sending
<1>6. CASE CountBatch
  <2>1. PICK result \in {"sent", "dropped"} :
          sender' = "idle" /\ stats' = [stats EXCEPT ![result] = @ + sending]
    BY <1>6 DEF CountBatch, Sends
  <2>2. sending' = 0 /\ UNCHANGED <<clock, table, batch, flushed, emitted>>
    BY <1>6 DEF CountBatch
  <2>3. /\ MaxSeen \in Nat /\ stats \in [Names -> Nat] /\ stats["seen"] <= MaxSeen
        /\ Len(batch) \in Nat /\ sending \in Nat
    BY <1>1, AdvertNumbers
  <2>4. /\ stats' \in [Names -> Nat] /\ stats'["seen"] = stats["seen"]
        /\ Balanced(stats', Len(batch), 0)
    BY <1>b, <2>1, <2>3, HandCounted
  <2>5. stats' \in [Names -> 0..MaxSeen]
    BY <2>3, <2>4, BalancedFits
  <2>6. AllAccounted'
    BY <2>2, <2>4 DEF AllAccounted, Balanced
  <2>7. TableInv'
    BY <1>1, <2>2 DEF TableInv, EntryIsOwn
  <2> QED
    BY <1>1, <2>1, <2>2, <2>5, <2>6, <2>7, AdvertsAssumption
       DEF AdvertsInv, AdvertsTypeOK, Sending, Names
<1>7. CASE UNCHANGED radio
  BY <1>1, <1>7 DEF radio, AdvertsInv, TableInv, EntryIsOwn, AdvertsTypeOK, AllAccounted, Sending
<1> QED
  BY <1>2, <1>3, <1>4, <1>5, <1>6, <1>7

LEMMA AdvertsInvariant == AdvertsSpec => []AdvertsInv
<1>1. AdvertsInit => AdvertsInv
  <2> SUFFICES ASSUME AdvertsInit PROVE AdvertsInv
    OBVIOUS
  <2>1. table \in Seq(Entry) /\ Len(table) = 0 /\ batch \in Seq(Adverts) /\ Len(batch) = 0
    BY DEF AdvertsInit
  <2>2. stats["seen"] = 0 /\ stats["filtered"] = 0 /\ stats["dropped"] = 0 /\ stats["sent"] = 0
    BY DEF AdvertsInit
  <2>3. AllAccounted
    BY <2>1, <2>2 DEF AdvertsInit, AllAccounted, Balanced
  <2>4. TableInv
    BY <2>1, AdvertsAssumption DEF AdvertsInit, TableInv, EntryIsOwn, Times
  <2>5. AdvertsTypeOK
    BY <2>1, AdvertsAssumption DEF AdvertsInit, AdvertsTypeOK, Times
  <2> QED
    BY <2>3, <2>4, <2>5 DEF AdvertsInit, AdvertsInv, Sending
<1>2. AdvertsInv /\ [AdvertsNext]_radio => AdvertsInv'
  BY HeardKeepsCounts, BatchKeepsCounts DEF AdvertsNext
<1> QED
  BY <1>1, <1>2, PTL DEF AdvertsSpec

(* Table, batches and counters keep their types; the counters, because no  *)
(* advert is counted twice.                                                *)
THEOREM AdvertsTypeCorrect == AdvertsSpec => []AdvertsTypeOK
<1>1. AdvertsInv => AdvertsTypeOK
  BY DEF AdvertsInv
<1> QED
  BY <1>1, AdvertsInvariant, PTL

(* For any number of adverts and batches the counters balance.             *)
THEOREM CountersBalance == AdvertsSpec => []AllAccounted
<1>1. AdvertsInv => AllAccounted
  BY DEF AdvertsInv
<1> QED
  BY <1>1, AdvertsInvariant, PTL

(* For every size of the table and every number of adverts, an entry tells *)
(* of its own advert and of no other when that was last let through.       *)
THEOREM OwnEntries == AdvertsSpec => []EntryIsOwn
<1>1. AdvertsInv => EntryIsOwn
  BY DEF AdvertsInv, TableInv
<1> QED
  BY <1>1, AdvertsInvariant, PTL

-----------------------------------------------------------------------------
(* The setup gesture.                                                      *)

(* The locals of button_task; a press as it was noted, and what the        *)
(* argument needs of their types.                                          *)
Fields == {"raw", "same", "pressed", "press", "hold", "clicks", "window", "armed",
           "intercom", "candidate", "consumed"}

Noted == [length : 1..HoldFor, gap : Nat, stopped : BOOLEAN]

GestureTypes ==
  /\ DOMAIN button = Fields /\ button.pressed \in BOOLEAN
  /\ button.press \in Nat /\ button.hold \in Nat /\ button.clicks \in 0..Clicks
  /\ button.window \in Nat /\ button.armed \in Nat /\ rest \in Nat
  /\ presses \in Seq(Noted) /\ Len(presses) <= Clicks + 1

(* The clicks that count are the last presses but the first `off`. *)
Chain(off) ==
  /\ off + button.clicks <= Len(presses)
  /\ \A i \in 1..button.clicks :
       presses[i + off].length <= ShortClick /\ ~presses[i + off].stopped
  /\ \A i \in 1..button.clicks - 1 : presses[i + off].gap < Window

(* All the clicks were counted exactly while the reset is armed. *)
Armed == button.armed > 0 <=> button.clicks = Clicks

(* The clicks that count were the last presses, and the window or the      *)
(* armed reset has run for as long as the button has been at rest.         *)
Resting ==
  /\ ~button.candidate /\ Chain(0)
  /\ button.clicks \in 1..Clicks - 1 => button.window > 0 /\ rest + button.window = Window
  /\ button.armed > 0 => rest + button.armed = ArmedFor

(* During a press they are the presses before it; a candidate is a press   *)
(* that began while the reset was armed, and has been counted from there.  *)
Pressing ==
  /\ rest = 0 /\ Len(presses) > 0 /\ Chain(1)
  /\ button.press = UpTo(Intercom, presses[1].length)
  /\ ~button.consumed => ~presses[1].stopped
  /\ button.candidate =>
       /\ button.hold = presses[1].length /\ button.clicks = Clicks
       /\ ~presses[1].stopped /\ presses[1].gap < ArmedFor
  /\ button.clicks = Clicks => button.candidate \/ button.consumed
  /\ button.clicks \in 1..Clicks - 1 => presses[1].gap < Window

GestureInv ==
  /\ GestureTypes /\ Armed
  /\ button.pressed => Pressing
  /\ ~button.pressed => Resting
  /\ setup => button.pressed /\ button.candidate /\ button.hold >= HoldFor

-----------------------------------------------------------------------------

LEMMA Limits ==
  /\ Debounce \in Nat /\ Intercom \in Nat /\ Clicks \in Nat /\ Window \in Nat
  /\ ArmedFor \in Nat /\ HoldFor \in Nat /\ ShortClick \in Nat
  /\ Clicks > 0 /\ Window > 0 /\ ShortClick > 0 /\ ShortClick < Intercom
  /\ Intercom < HoldFor /\ Window < ArmedFor
  BY GestureAssumption

(* What each part of a turn makes of the fields. *)
LEMMA OfSampled ==
  ASSUME DOMAIN button = Fields, NEW raw
  PROVE  LET b == Sampled(raw)
         IN /\ DOMAIN b = Fields
            /\ b.pressed = button.pressed /\ b.press = button.press /\ b.hold = button.hold
            /\ b.clicks = button.clicks /\ b.window = button.window /\ b.armed = button.armed
            /\ b.intercom = button.intercom /\ b.candidate = button.candidate
            /\ b.consumed = button.consumed /\ b.raw = raw
  BY DEF Sampled, Fields

LEMMA OfPushed ==
  ASSUME NEW b, DOMAIN b = Fields, NEW audible \in BOOLEAN
  PROVE  LET n == Pushed(b, audible)
         IN /\ DOMAIN n = Fields
            /\ n.pressed = TRUE /\ n.press = 0 /\ n.hold = 0
            /\ n.clicks = b.clicks /\ n.window = b.window /\ n.armed = b.armed
            /\ ~n.intercom /\ n.consumed = audible
            /\ n.candidate = (~audible /\ b.clicks >= Clicks /\ b.armed > 0)
  BY DEF Pushed, Fields

LEMMA OfForgotten ==
  ASSUME NEW b, DOMAIN b = Fields
  PROVE  LET n == Forgotten(b)
         IN /\ DOMAIN n = Fields
            /\ n.clicks = 0 /\ n.window = 0 /\ n.armed = 0
            /\ n.pressed = b.pressed /\ n.press = b.press /\ n.hold = b.hold
            /\ n.candidate = b.candidate /\ n.consumed = b.consumed
  BY DEF Forgotten, Fields

LEMMA OfClicked ==
  ASSUME NEW b, DOMAIN b = Fields
  PROVE  LET n == Clicked(b)
             c == (IF b.window = 0 THEN 0 ELSE b.clicks) + 1
         IN /\ DOMAIN n = Fields
            /\ n.clicks = c /\ n.window = Window
            /\ n.armed = IF c >= Clicks THEN ArmedFor ELSE b.armed
  BY DEF Clicked, Fields

LEMMA OfReleased ==
  ASSUME NEW b, DOMAIN b = Fields
  PROVE  LET n == Released(b)
         IN /\ DOMAIN n = Fields
            /\ n.clicks = Counted(b).clicks /\ n.window = Counted(b).window
            /\ n.armed = Counted(b).armed
            /\ n.pressed = FALSE /\ n.candidate = FALSE /\ n.press = 0 /\ n.hold = 0
<1>1. DOMAIN Counted(b) = Fields
  BY OfForgotten, OfClicked DEF Counted
<1> QED
  BY <1>1 DEF Released, Fields

LEMMA OfHeld ==
  ASSUME NEW b, DOMAIN b = Fields, b.press \in Nat, NEW flashing
  PROVE  LET n == Held(b, flashing)
             p == UpTo(Intercom, b.press + 1)
         IN /\ DOMAIN n = Fields
            /\ n.pressed = b.pressed /\ n.press = p
            /\ n.candidate = b.candidate
            /\ n.hold = IF b.candidate THEN UpTo(HoldFor, b.hold + 1) ELSE b.hold
            /\ b.consumed => n.consumed
            /\ \/ n.clicks = b.clicks /\ n.window = b.window /\ n.armed = b.armed
               \/ /\ ~b.candidate /\ ~b.consumed /\ p >= Intercom
                  /\ n.clicks = 0 /\ n.window = 0 /\ n.armed = 0
            /\ p < Intercom => n.consumed = b.consumed
<1> DEFINE p == UpTo(Intercom, b.press + 1)
           longer == [b EXCEPT !.press = p]
<1>1. /\ DOMAIN longer = Fields /\ longer.press = p
      /\ longer.pressed = b.pressed /\ longer.hold = b.hold /\ longer.clicks = b.clicks
      /\ longer.window = b.window /\ longer.armed = b.armed /\ longer.candidate = b.candidate
      /\ longer.consumed = b.consumed
  BY DEF Fields
<1>2. longer = [b EXCEPT !.press = UpTo(Intercom, @ + 1)]
  BY DEF Fields
<1>0. p \in Nat
  BY Limits DEF UpTo
<1> HIDE DEF longer, p
<1>3. CASE b.candidate
  <2>1. Held(b, flashing) = [longer EXCEPT !.hold = UpTo(HoldFor, @ + 1)]
    BY <1>2, <1>3 DEF Held
  <2> QED
    BY <1>1, <1>3, <2>1 DEF Fields, p
<1>4. CASE ~b.candidate /\ ~b.consumed /\ ~b.intercom /\ p >= Intercom /\ flashing
  <2>1. Held(b, flashing) = [longer EXCEPT !.consumed = TRUE]
    BY <1>1, <1>2, <1>4 DEF Held
  <2>2. ~(p < Intercom)
    BY <1>0, <1>4, Limits
  <2> QED
    BY <1>1, <1>4, <2>1, <2>2 DEF Fields, p
<1>5. CASE ~b.candidate /\ ~b.consumed /\ ~b.intercom /\ p >= Intercom /\ ~flashing
  <2>1. Held(b, flashing) = [Forgotten(longer) EXCEPT !.intercom = TRUE]
    BY <1>1, <1>2, <1>5 DEF Held
  <2> QED
    BY <1>1, <1>5, <2>1, OfForgotten DEF Fields, p
<1>6. CASE ~b.candidate /\ ~(~b.consumed /\ ~b.intercom /\ p >= Intercom)
  <2>1. Held(b, flashing) = longer
    BY <1>1, <1>2, <1>6 DEF Held
  <2> QED
    BY <1>1, <1>6, <2>1 DEF p
<1> QED
  BY <1>3, <1>4, <1>5, <1>6

LEMMA OfRested ==
  ASSUME NEW b, DOMAIN b = Fields
  PROVE  LET n == Rested(b)
         IN /\ DOMAIN n = Fields
            /\ n.pressed = b.pressed /\ n.candidate = b.candidate
            /\ n.press = b.press /\ n.hold = b.hold
            /\ n.armed = Less(b.armed)
            /\ n.window = IF b.armed > 0 /\ Less(b.armed) = 0 THEN 0 ELSE Less(b.window)
            /\ n.clicks = IF \/ b.window > 0 /\ Less(b.window) = 0 /\ b.armed = 0
                             \/ b.armed > 0 /\ Less(b.armed) = 0
                          THEN 0 ELSE b.clicks
  BY DEF Rested, Fields

LEMMA OfNoted ==
  ASSUME GestureTypes, NEW p \in Noted
  PROVE  LET s == SubSeq(<<p>> \o presses, 1, UpTo(Clicks, Len(presses)) + 1)
         IN /\ s \in Seq(Noted)
            /\ Len(s) = UpTo(Clicks, Len(presses)) + 1
            /\ s[1] = p
            /\ \A i \in 1..UpTo(Clicks, Len(presses)) : s[i + 1] = presses[i]
<1> DEFINE all == <<p>> \o presses
           k == UpTo(Clicks, Len(presses))
<1>1. Len(presses) \in Nat /\ k \in Nat /\ k <= Len(presses)
  BY Limits DEF GestureTypes, UpTo
<1>2. all \in Seq(Noted) /\ Len(all) = Len(presses) + 1
  BY DEF GestureTypes
<1>3. all[1] = p /\ \A i \in 1..Len(presses) : all[i + 1] = presses[i]
  BY DEF GestureTypes
<1> HIDE DEF all, k
<1>4. \A i \in 1..k + 1 : all[i] \in Noted
  BY <1>1, <1>2
<1>5. /\ SubSeq(all, 1, k + 1) = [i \in 1..k + 1 |-> all[i]]
  BY <1>1, <1>2, SubSeqProperties
<1>6. SubSeq(all, 1, k + 1) \in Seq(Noted) /\ Len(SubSeq(all, 1, k + 1)) = k + 1
  BY <1>1, <1>2, <1>4, <1>5
<1>7. /\ SubSeq(all, 1, k + 1)[1] = p
      /\ \A i \in 1..k : SubSeq(all, 1, k + 1)[i + 1] = presses[i]
  BY <1>1, <1>3, <1>5
<1> QED
  BY <1>6, <1>7 DEF all, k
-----------------------------------------------------------------------------
(* One turn, in each of the four ways it can go.                           *)

LEMMA GestureStarts == GestureInit => GestureInv
<1> SUFFICES ASSUME GestureInit PROVE GestureInv
  OBVIOUS
<1>1. GestureTypes
  BY Limits DEF GestureInit, GestureTypes, Fields
<1>2. Armed /\ ~button.pressed /\ ~setup
  BY Limits DEF GestureInit, Armed
<1>3. Resting
  BY Limits DEF GestureInit, Resting, Chain
<1> QED
  BY <1>1, <1>2, <1>3 DEF GestureInv

(* A press begins: the clicks before it keep their places behind it. *)
LEMMA PressBegins ==
  ASSUME GestureInv, NEW audible \in BOOLEAN, NEW flashing \in BOOLEAN,
         ~button.pressed, Turns(Sampled(TRUE)), Poll(TRUE, audible, flashing)
  PROVE  GestureInv'
<1> DEFINE one == Sampled(TRUE)
           two == Pushed(one, audible)
           new == [length |-> 1, gap |-> rest, stopped |-> audible]
           cand == ~audible /\ button.clicks >= Clicks /\ button.armed > 0
<1>n. /\ button.clicks \in 0..Clicks /\ button.window \in Nat /\ button.armed \in Nat
      /\ rest \in Nat /\ Len(presses) \in Nat /\ Len(presses) <= Clicks + 1
      /\ DOMAIN button = Fields
  BY DEF GestureInv, GestureTypes
<1>r. Resting /\ Armed
  BY DEF GestureInv
<1>1. /\ DOMAIN one = Fields /\ one.pressed = button.pressed /\ one.clicks = button.clicks
      /\ one.window = button.window /\ one.armed = button.armed
  BY <1>n, OfSampled
<1> HIDE DEF one
<1>2. /\ DOMAIN two = Fields
      /\ two.pressed = TRUE /\ two.press = 0 /\ two.hold = 0
      /\ two.clicks = button.clicks /\ two.window = button.window /\ two.armed = button.armed
      /\ two.consumed = audible /\ two.candidate = cand
  BY <1>1, OfPushed
<1>3. button' = Held(two, flashing)
  BY <1>2 DEF Poll, one
<1>4. presses' = SubSeq(<<new>> \o presses, 1, UpTo(Clicks, Len(presses)) + 1) /\ rest' = 0
  BY DEF Poll, Note, one
<1>5. setup' = (button'.candidate /\ button'.hold >= HoldFor)
  BY DEF Poll
<1> HIDE DEF two
<1>6. UpTo(Intercom, two.press + 1) = 1 /\ 1 < Intercom /\ UpTo(HoldFor, two.hold + 1) = 1
  BY <1>2, Limits DEF UpTo
<1>7. /\ DOMAIN button' = Fields /\ button'.pressed = TRUE /\ button'.press = 1
      /\ button'.candidate = cand /\ button'.hold = (IF cand THEN 1 ELSE 0)
      /\ button'.clicks = button.clicks /\ button'.window = button.window
      /\ button'.armed = button.armed /\ button'.consumed = audible
  <2>1. two.press \in Nat
    BY <1>2
  <2> DEFINE n == Held(two, flashing)
             p == UpTo(Intercom, two.press + 1)
  <2>2. /\ DOMAIN n = Fields
        /\ n.pressed = two.pressed /\ n.press = p
        /\ n.candidate = two.candidate
        /\ n.hold = IF two.candidate THEN UpTo(HoldFor, two.hold + 1) ELSE two.hold
        /\ \/ n.clicks = two.clicks /\ n.window = two.window /\ n.armed = two.armed
           \/ /\ ~two.candidate /\ ~two.consumed /\ p >= Intercom
              /\ n.clicks = 0 /\ n.window = 0 /\ n.armed = 0
        /\ p < Intercom => n.consumed = two.consumed
    BY <1>2, <2>1, OfHeld
  <2> HIDE DEF n
  <2>3. n.clicks = two.clicks /\ n.window = two.window /\ n.armed = two.armed
    BY <1>6, <2>2, Limits
  <2>4. n.consumed = two.consumed /\ n.press = 1
    BY <1>6, <2>2
  <2>5. n.hold = IF two.candidate THEN 1 ELSE 0
    BY <1>2, <1>6, <2>2
  <2>6. button' = n
    BY <1>3 DEF n
  <2> QED
    BY <1>2, <2>2, <2>3, <2>4, <2>5, <2>6
<1> HIDE DEF cand
<1>8. new \in Noted
  BY <1>n, Limits DEF Noted
<1>9. /\ presses' \in Seq(Noted) /\ Len(presses') = UpTo(Clicks, Len(presses)) + 1
      /\ presses'[1] = new
      /\ \A i \in 1..UpTo(Clicks, Len(presses)) : presses'[i + 1] = presses[i]
  BY <1>4, <1>8, OfNoted DEF GestureInv
<1>10. button.clicks <= Len(presses) /\ button.clicks <= UpTo(Clicks, Len(presses))
  BY <1>n, <1>r, Limits DEF Resting, Chain, UpTo
<1>11. UpTo(Clicks, Len(presses)) \in 0..Clicks
  BY <1>n, Limits DEF UpTo
<1>12. GestureTypes'
  <2>1. Len(presses') <= Clicks + 1
    BY <1>9, <1>11, Limits
  <2>2. button'.press \in Nat /\ button'.hold \in Nat /\ rest' \in Nat
    BY <1>4, <1>7
  <2>3. button'.clicks \in 0..Clicks /\ button'.window \in Nat /\ button'.armed \in Nat
    BY <1>n, <1>7
  <2> QED
    BY <1>7, <1>9, <2>1, <2>2, <2>3 DEF GestureTypes
<1>13. Armed'
  BY <1>r, <1>7 DEF Armed
<1>14. Chain(1)'
  <2>1. 1 + button'.clicks <= Len(presses')
    BY <1>n, <1>7, <1>9, <1>10, <1>11
  <2>2. \A i \in 1..button.clicks : i \in 1..UpTo(Clicks, Len(presses))
    BY <1>n, <1>10, <1>11
  <2>3. \A i \in 1..button.clicks : presses'[i + 1] = presses[i] /\ i + 0 = i
    BY <1>n, <1>9, <2>2
  <2>4. \A i \in 1..button.clicks :
          presses[i].length <= ShortClick /\ ~presses[i].stopped
    BY <1>r, <2>3 DEF Resting, Chain
  <2>5. \A i \in 1..button.clicks - 1 : presses[i].gap < Window /\ i \in 1..button.clicks
    BY <1>n, <1>r DEF Resting, Chain
  <2> QED
    BY <1>7, <2>1, <2>3, <2>4, <2>5 DEF Chain
<1>15. Pressing'
  <2>1. button'.press = UpTo(Intercom, presses'[1].length)
    BY <1>7, <1>9, Limits DEF UpTo
  <2>2. ~button'.consumed => ~presses'[1].stopped
    BY <1>7, <1>9
  <2>3. button'.candidate =>
       /\ button'.hold = presses'[1].length /\ button'.clicks = Clicks
       /\ ~presses'[1].stopped /\ presses'[1].gap < ArmedFor
    <3>1. SUFFICES ASSUME cand
                   PROVE  /\ button'.hold = presses'[1].length /\ button'.clicks = Clicks
                          /\ ~presses'[1].stopped /\ presses'[1].gap < ArmedFor
      BY <1>7
    <3>2. ~audible /\ button.clicks = Clicks /\ button.armed > 0
      BY <1>n, <3>1, Limits DEF cand
    <3>3. rest < ArmedFor
      BY <1>n, <1>r, <3>2, Limits DEF Resting
    <3> QED
      BY <1>7, <1>9, <3>1, <3>2, <3>3
  <2>4. button'.clicks = Clicks => button'.candidate \/ button'.consumed
    <3>1. SUFFICES ASSUME button.clicks = Clicks PROVE cand \/ audible
      BY <1>7
    <3>2. button.armed > 0 /\ button.clicks >= Clicks
      BY <1>r, <3>1, Limits DEF Armed
    <3> QED
      BY <3>2 DEF cand
  <2>5. button'.clicks \in 1..Clicks - 1 => presses'[1].gap < Window
    BY <1>n, <1>r, <1>7, <1>9, Limits DEF Resting
  <2>6. rest' = 0 /\ Len(presses') > 0
    BY <1>4, <1>9, <1>11
  <2> QED
    BY <1>14, <2>1, <2>2, <2>3, <2>4, <2>5, <2>6 DEF Pressing
<1>16. setup' => button'.candidate /\ button'.hold >= HoldFor
  BY <1>5
<1> QED
  BY <1>7, <1>12, <1>13, <1>15, <1>16 DEF GestureInv

(* A press lasts. *)
LEMMA PressLasts ==
  ASSUME GestureInv, NEW raw \in BOOLEAN, NEW audible \in BOOLEAN, NEW flashing \in BOOLEAN,
         button.pressed, ~Turns(Sampled(raw)), Poll(raw, audible, flashing)
  PROVE  GestureInv'
<1> DEFINE one == Sampled(raw)
           p == UpTo(Intercom, button.press + 1)
<1>n. /\ button.clicks \in 0..Clicks /\ button.window \in Nat /\ button.armed \in Nat
      /\ button.press \in Nat /\ button.hold \in Nat
      /\ Len(presses) \in Nat /\ Len(presses) <= Clicks + 1 /\ presses \in Seq(Noted)
      /\ DOMAIN button = Fields
  BY DEF GestureInv, GestureTypes
<1>r. Pressing /\ Armed
  BY DEF GestureInv
<1>p. button.pressed = TRUE
  BY DEF GestureInv, GestureTypes
<1>1. /\ DOMAIN one = Fields /\ one.pressed = button.pressed /\ one.clicks = button.clicks
      /\ one.window = button.window /\ one.armed = button.armed
      /\ one.press = button.press /\ one.hold = button.hold
      /\ one.candidate = button.candidate /\ one.consumed = button.consumed
  BY <1>n, OfSampled
<1>2. button' = Held(one, flashing)
  BY <1>1 DEF Poll
<1>3. setup' = (button'.candidate /\ button'.hold >= HoldFor)
  BY DEF Poll
<1> HIDE DEF one
<1>4. /\ DOMAIN button' = Fields /\ button'.pressed = button.pressed /\ button'.press = p
      /\ button'.candidate = button.candidate
      /\ button'.hold = IF button.candidate THEN UpTo(HoldFor, button.hold + 1) ELSE button.hold
      /\ button.consumed => button'.consumed
      /\ \/ button'.clicks = button.clicks /\ button'.window = button.window
            /\ button'.armed = button.armed
         \/ /\ ~button.candidate /\ ~button.consumed
            /\ button'.clicks = 0 /\ button'.window = 0 /\ button'.armed = 0
  <2>1. one.press \in Nat
    BY <1>n, <1>1
  <2> DEFINE n == Held(one, flashing)
             q == UpTo(Intercom, one.press + 1)
  <2>2. /\ DOMAIN n = Fields
        /\ n.pressed = one.pressed /\ n.press = q
        /\ n.candidate = one.candidate
        /\ n.hold = IF one.candidate THEN UpTo(HoldFor, one.hold + 1) ELSE one.hold
        /\ one.consumed => n.consumed
        /\ \/ n.clicks = one.clicks /\ n.window = one.window /\ n.armed = one.armed
           \/ /\ ~one.candidate /\ ~one.consumed /\ q >= Intercom
              /\ n.clicks = 0 /\ n.window = 0 /\ n.armed = 0
        /\ q < Intercom => n.consumed = one.consumed
    BY <1>1, <2>1, OfHeld
  <2>4. q = p
    BY <1>1
  <2> HIDE DEF n, q, p
  <2>3. button' = n
    BY <1>2 DEF n
  <2> QED
    BY <1>1, <2>2, <2>3, <2>4
<1>5. presses' = [presses EXCEPT ![1].length = UpTo(HoldFor, @ + 1)] /\ rest' = rest
  BY <1>4 DEF Poll, Note, one
<1>6. /\ Len(presses') = Len(presses) /\ presses' \in Seq(Noted)
      /\ presses'[1].length = UpTo(HoldFor, presses[1].length + 1)
      /\ presses'[1].gap = presses[1].gap /\ presses'[1].stopped = presses[1].stopped
      /\ presses[1].length \in 1..HoldFor
      /\ \A i \in 1..Len(presses) : i # 1 => presses'[i] = presses[i]
  <2>1. 1 \in 1..Len(presses) /\ presses[1] \in Noted
    BY <1>n, <1>r DEF Pressing
  <2>2. UpTo(HoldFor, presses[1].length + 1) \in 1..HoldFor
    BY <2>1, Limits DEF Noted, UpTo
  <2>3. [presses[1] EXCEPT !.length = UpTo(HoldFor, presses[1].length + 1)] \in Noted
    BY <2>1, <2>2 DEF Noted
  <2>4. presses' = [presses EXCEPT
                      ![1] = [presses[1] EXCEPT !.length = UpTo(HoldFor, presses[1].length + 1)]]
    BY <1>5
  <2>5. presses' \in Seq(Noted) /\ Len(presses') = Len(presses)
    BY <1>n, <2>1, <2>3, <2>4
  <2> QED
    BY <1>n, <2>1, <2>2, <2>4, <2>5 DEF Noted
<1>7. p \in Nat /\ p = UpTo(Intercom, presses'[1].length)
  BY <1>n, <1>r, <1>6, Limits DEF Pressing, UpTo
<1> HIDE DEF p
<1>8. GestureTypes'
  <2>1. button'.hold \in Nat
    BY <1>n, <1>4, Limits DEF UpTo
  <2>2. button'.clicks \in 0..Clicks /\ button'.window \in Nat /\ button'.armed \in Nat
    BY <1>n, <1>4, Limits
  <2>3. rest' \in Nat
    BY <1>5 DEF GestureInv, GestureTypes
  <2> QED
    BY <1>n, <1>p, <1>4, <1>6, <1>7, <2>1, <2>2, <2>3 DEF GestureTypes
<1>9. Armed'
  BY <1>n, <1>r, <1>4, Limits DEF Armed
<1>10. Chain(1)'
  <2>1. CASE button'.clicks = 0
    BY <1>6, <1>r, <2>1 DEF Chain, Pressing
  <2>2. CASE button'.clicks = button.clicks
    <3>1. 1 + button'.clicks <= Len(presses')
      BY <1>6, <1>r, <2>2 DEF Chain, Pressing
    <3>2. \A i \in 1..button.clicks : i + 1 \in 1..Len(presses) /\ i + 1 # 1
      BY <1>n, <1>6, <2>2, <3>1
    <3>3. \A i \in 1..button.clicks : presses'[i + 1] = presses[i + 1]
      BY <1>6, <3>2
    <3>4. \A i \in 1..button.clicks - 1 : i \in 1..button.clicks
      BY <1>n
    <3>5. Chain(1)
      BY <1>r DEF Pressing
    <3> QED
      BY <2>2, <3>1, <3>3, <3>4, <3>5 DEF Chain
  <2> QED
    BY <1>4, <2>1, <2>2
<1>11. Pressing'
  <2>1. rest' = 0 /\ Len(presses') > 0
    BY <1>r, <1>5, <1>6 DEF Pressing
  <2>2. button'.press = UpTo(Intercom, presses'[1].length)
    BY <1>4, <1>7
  <2>3. ~button'.consumed => ~presses'[1].stopped
    BY <1>r, <1>4, <1>6 DEF Pressing
  <2>4. button'.candidate =>
       /\ button'.hold = presses'[1].length /\ button'.clicks = Clicks
       /\ ~presses'[1].stopped /\ presses'[1].gap < ArmedFor
    BY <1>r, <1>4, <1>6 DEF Pressing
  <2>5. button'.clicks = Clicks => button'.candidate \/ button'.consumed
    BY <1>r, <1>4, Limits DEF Pressing
  <2>6. button'.clicks \in 1..Clicks - 1 => presses'[1].gap < Window
    BY <1>r, <1>4, <1>6, Limits DEF Pressing
  <2> QED
    BY <1>10, <2>1, <2>2, <2>3, <2>4, <2>5, <2>6 DEF Pressing
<1> QED
  BY <1>3, <1>4, <1>8, <1>9, <1>11 DEF GestureInv

(* A turn at rest, after the button was released or long before. *)
LEMMA RestGoes ==
  ASSUME NEW b, DOMAIN b = Fields, b.clicks \in 0..Clicks, b.window \in Nat, b.armed \in Nat,
         b.pressed = FALSE, ~b.candidate, b.press \in Nat, b.hold \in Nat,
         presses \in Seq(Noted), Len(presses) <= Clicks + 1, rest \in Nat,
         b.armed > 0 <=> b.clicks = Clicks,
         b.clicks \in 1..Clicks - 1 => b.window > 0 /\ rest + b.window = Window,
         b.armed > 0 => rest + b.armed = ArmedFor,
         b.clicks <= Len(presses),
         \A i \in 1..b.clicks : presses[i].length <= ShortClick /\ ~presses[i].stopped,
         \A i \in 1..b.clicks - 1 : presses[i].gap < Window,
         button' = Rested(b), rest' = UpTo(ArmedFor, rest + 1), presses' = presses,
         setup' = (button'.candidate /\ button'.hold >= HoldFor)
  PROVE  GestureInv'
<1>1. /\ DOMAIN button' = Fields
      /\ button'.pressed = b.pressed /\ button'.candidate = b.candidate
      /\ button'.press = b.press /\ button'.hold = b.hold
      /\ button'.armed = Less(b.armed)
      /\ button'.window = IF b.armed > 0 /\ Less(b.armed) = 0 THEN 0 ELSE Less(b.window)
      /\ button'.clicks = IF \/ b.window > 0 /\ Less(b.window) = 0 /\ b.armed = 0
                             \/ b.armed > 0 /\ Less(b.armed) = 0
                          THEN 0 ELSE b.clicks
  BY OfRested
<1>2. rest' \in Nat /\ button'.armed \in Nat /\ button'.window \in Nat
  BY <1>1, Limits DEF UpTo, Less
<1>3. button'.clicks \in {0, b.clicks} /\ button'.clicks \in 0..Clicks
  BY <1>1, Limits
<1>4. GestureTypes'
  BY <1>1, <1>2, <1>3 DEF GestureTypes
<1>5. Armed'
  BY <1>1, Limits DEF Armed, Less
<1>6. Chain(0)'
  <2>1. CASE button'.clicks = 0
    BY <2>1, LenProperties DEF Chain
  <2>2. CASE button'.clicks = b.clicks
    <3>1. Len(presses) \in Nat
      OBVIOUS
    <3>2. \A i \in 1..b.clicks : i + 0 = i
      OBVIOUS
    <3>3. \A i \in 1..b.clicks - 1 : i + 0 = i
      OBVIOUS
    <3> QED
      BY <2>2, <3>1, <3>2, <3>3 DEF Chain
  <2> QED
    BY <1>3, <2>1, <2>2
<1>7. button'.clicks \in 1..Clicks - 1 => button'.window > 0 /\ rest' + button'.window = Window
  <2>1. SUFFICES ASSUME button'.clicks \in 1..Clicks - 1
                 PROVE  button'.window > 0 /\ rest' + button'.window = Window
    OBVIOUS
  <2>2. b.clicks = button'.clicks /\ b.clicks # Clicks
    BY <1>1, <2>1, Limits
  <2>3. b.armed = 0 /\ b.window > 0 /\ rest + b.window = Window
    BY <2>1, <2>2
  <2>4. Less(b.window) # 0
    BY <1>1, <2>1, <2>3
  <2>5. button'.window = Less(b.window) /\ Less(b.window) = b.window - 1
    BY <1>1, <2>3 DEF Less
  <2>6. rest' = rest + 1
    BY <2>3, Limits DEF UpTo
  <2> QED
    BY <2>3, <2>4, <2>5, <2>6
<1>8. button'.armed > 0 => rest' + button'.armed = ArmedFor
  BY <1>1, Limits DEF Less, UpTo
<1>9. Resting'
  BY <1>1, <1>6, <1>7, <1>8 DEF Resting
<1> QED
  BY <1>1, <1>4, <1>5, <1>9 DEF GestureInv

LEMMA RestLasts ==
  ASSUME GestureInv, NEW raw \in BOOLEAN, NEW audible \in BOOLEAN, NEW flashing \in BOOLEAN,
         ~button.pressed, ~Turns(Sampled(raw)), Poll(raw, audible, flashing)
  PROVE  GestureInv'
<1> DEFINE one == Sampled(raw)
<1>n. GestureTypes /\ Resting /\ Armed
  BY DEF GestureInv
<1>1. /\ DOMAIN one = Fields /\ one.pressed = button.pressed /\ one.clicks = button.clicks
      /\ one.window = button.window /\ one.armed = button.armed
      /\ one.press = button.press /\ one.hold = button.hold
      /\ one.candidate = button.candidate /\ one.consumed = button.consumed
  BY <1>n, OfSampled DEF GestureTypes
<1>2. button' = Rested(one)
  BY <1>1 DEF Poll
<1>3. setup' = (button'.candidate /\ button'.hold >= HoldFor)
  BY DEF Poll
<1>4. ~button'.pressed
  BY <1>1, <1>2, OfRested
<1>5. rest' = UpTo(ArmedFor, rest + 1) /\ presses' = presses
  BY <1>4 DEF Poll, Note
<1> HIDE DEF one
<1>6. /\ button.clicks <= Len(presses)
      /\ \A i \in 1..button.clicks : presses[i].length <= ShortClick /\ ~presses[i].stopped
      /\ \A i \in 1..button.clicks - 1 : presses[i].gap < Window
  <2>1. \A i \in Int : i + 0 = i
    OBVIOUS
  <2>2. button.clicks \in Nat /\ Len(presses) \in Nat
    BY <1>n DEF GestureTypes
  <2>3. Chain(0)
    BY <1>n DEF Resting
  <2>4. 0 + button.clicks = button.clicks
    BY <2>2
  <2> QED
    BY <2>1, <2>2, <2>3, <2>4 DEF Chain
<1>7. /\ one.clicks \in 0..Clicks /\ one.window \in Nat /\ one.armed \in Nat
      /\ one.press \in Nat /\ one.hold \in Nat /\ rest \in Nat
      /\ presses \in Seq(Noted) /\ Len(presses) <= Clicks + 1
  BY <1>n, <1>1 DEF GestureTypes
<1>8. /\ one.pressed = FALSE /\ ~one.candidate
      /\ one.armed > 0 <=> one.clicks = Clicks
      /\ one.clicks \in 1..Clicks - 1 => one.window > 0 /\ rest + one.window = Window
      /\ one.armed > 0 => rest + one.armed = ArmedFor
  BY <1>n, <1>1 DEF Resting, Armed, GestureTypes
<1>9. /\ one.clicks <= Len(presses)
      /\ \A i \in 1..one.clicks : presses[i].length <= ShortClick /\ ~presses[i].stopped
      /\ \A i \in 1..one.clicks - 1 : presses[i].gap < Window
  BY <1>1, <1>6
<1> QED
  BY <1>1, <1>2, <1>3, <1>5, <1>7, <1>8, <1>9, RestGoes

(* The button is released: a short press counts, any other forgets them all. *)
LEMMA PressEnds ==
  ASSUME GestureInv, NEW audible \in BOOLEAN, NEW flashing \in BOOLEAN,
         button.pressed, Turns(Sampled(FALSE)), Poll(FALSE, audible, flashing)
  PROVE  GestureInv'
<1> DEFINE one == Sampled(FALSE)
           two == Released(one)
           count == Counted(one)
<1>n. /\ button.clicks \in 0..Clicks /\ button.window \in Nat /\ button.armed \in Nat
      /\ button.press \in Nat /\ button.hold \in Nat /\ rest \in Nat
      /\ Len(presses) \in Nat /\ Len(presses) <= Clicks + 1 /\ presses \in Seq(Noted)
      /\ DOMAIN button = Fields
  BY DEF GestureInv, GestureTypes
<1>r. Pressing /\ Armed
  BY DEF GestureInv
<1>1. /\ DOMAIN one = Fields /\ one.pressed = button.pressed /\ one.clicks = button.clicks
      /\ one.window = button.window /\ one.armed = button.armed
      /\ one.press = button.press /\ one.hold = button.hold
      /\ one.intercom = button.intercom
      /\ one.candidate = button.candidate /\ one.consumed = button.consumed
  BY <1>n, OfSampled
<1>2. /\ DOMAIN two = Fields
      /\ two.clicks = count.clicks /\ two.window = count.window /\ two.armed = count.armed
      /\ two.pressed = FALSE /\ two.candidate = FALSE /\ two.press = 0 /\ two.hold = 0
  BY <1>1, OfReleased
<1>3. button' = Rested(two)
  BY <1>2 DEF Poll
<1>4. setup' = (button'.candidate /\ button'.hold >= HoldFor)
  BY DEF Poll
<1>5. ~button'.pressed
  BY <1>2, <1>3, OfRested
<1>6. rest' = UpTo(ArmedFor, rest + 1) /\ presses' = presses
  BY <1>5 DEF Poll, Note
<1> HIDE DEF one, two
<1>7. CASE ~(~one.consumed /\ ~one.candidate /\ ~one.intercom /\ one.press \in 1..ShortClick)
  <2>1. count = Forgotten(one)
    BY <1>7 DEF Counted
  <2>2. two.clicks = 0 /\ two.window = 0 /\ two.armed = 0
    BY <1>1, <1>2, <2>1, OfForgotten
  <2>9. /\ two.clicks \in 0..Clicks /\ two.window \in Nat /\ two.armed \in Nat
        /\ two.press \in Nat /\ two.hold \in Nat
        /\ two.armed > 0 <=> two.clicks = Clicks
        /\ two.clicks \in 1..Clicks - 1 => two.window > 0 /\ rest + two.window = Window
        /\ two.armed > 0 => rest + two.armed = ArmedFor
    BY <1>2, <2>2, Limits
  <2>10. /\ two.clicks <= Len(presses)
         /\ \A i \in 1..two.clicks : presses[i].length <= ShortClick /\ ~presses[i].stopped
         /\ \A i \in 1..two.clicks - 1 : presses[i].gap < Window
    BY <1>n, <2>2
  <2> QED
    BY <1>n, <1>2, <1>3, <1>4, <1>6, <2>9, <2>10, RestGoes
<1>8. CASE ~one.consumed /\ ~one.candidate /\ ~one.intercom /\ one.press \in 1..ShortClick
  <2> DEFINE c == (IF button.window = 0 THEN 0 ELSE button.clicks) + 1
  <2>1. count = Clicked(one)
    BY <1>8 DEF Counted
  <2>2. /\ two.clicks = c /\ two.window = Window
        /\ two.armed = IF c >= Clicks THEN ArmedFor ELSE button.armed
    BY <1>1, <1>2, <2>1, OfClicked
  <2>3. button.clicks # Clicks /\ button.armed = 0
    BY <1>n, <1>r, <1>1, <1>8 DEF Pressing, Armed
  <2>4. c \in 1..Clicks /\ c <= button.clicks + 1 /\ (c = 1 \/ c = button.clicks + 1)
    BY <1>n, <2>3, Limits
  <2> HIDE DEF c
  <2>5. presses[1].length <= ShortClick /\ ~presses[1].stopped
    <3>1. presses[1] \in Noted
      BY <1>n, <1>r DEF Pressing
    <3> QED
      BY <1>r, <1>1, <1>8, <3>1, Limits DEF Pressing, UpTo, Noted
  <2>6. c <= Len(presses)
    BY <1>n, <1>r, <2>4 DEF Pressing, Chain
  <2>7. ASSUME NEW i \in 1..c
        PROVE  presses[i].length <= ShortClick /\ ~presses[i].stopped
    <3>1. CASE i = 1
      BY <2>5, <3>1
    <3>2. CASE i # 1
      <4>1. i - 1 \in 1..button.clicks /\ (i - 1) + 1 = i
        BY <1>n, <2>4, <3>2
      <4> QED
        BY <1>r, <4>1 DEF Pressing, Chain
    <3> QED
      BY <3>1, <3>2
  <2>8. ASSUME NEW i \in 1..c - 1
        PROVE  presses[i].gap < Window
    <3>0. c = button.clicks + 1 /\ button.clicks \in 1..Clicks - 1 /\ i \in 1..button.clicks
      BY <1>n, <2>3, <2>4, Limits
    <3>1. CASE i = 1
      BY <1>r, <3>0, <3>1 DEF Pressing
    <3>2. CASE i # 1
      <4>1. i - 1 \in 1..button.clicks - 1 /\ (i - 1) + 1 = i
        BY <1>n, <3>0, <3>2
      <4> QED
        BY <1>r, <4>1 DEF Pressing, Chain
    <3> QED
      BY <3>1, <3>2
  <2>9. /\ two.clicks \in 0..Clicks /\ two.window \in Nat /\ two.armed \in Nat
        /\ two.press \in Nat /\ two.hold \in Nat
        /\ two.armed > 0 <=> two.clicks = Clicks
        /\ two.clicks \in 1..Clicks - 1 => two.window > 0 /\ rest + two.window = Window
        /\ two.armed > 0 => rest + two.armed = ArmedFor
    <3>1. rest = 0
      BY <1>r DEF Pressing
    <3> QED
      BY <1>2, <2>2, <2>3, <2>4, <3>1, Limits
  <2>10. /\ two.clicks <= Len(presses)
         /\ \A i \in 1..two.clicks : presses[i].length <= ShortClick /\ ~presses[i].stopped
         /\ \A i \in 1..two.clicks - 1 : presses[i].gap < Window
    BY <2>2, <2>6, <2>7, <2>8
  <2> QED
    BY <1>n, <1>2, <1>3, <1>4, <1>6, <2>9, <2>10, RestGoes
<1> QED
  BY <1>7, <1>8

LEMMA GestureInvariant == GestureSpec => []GestureInv
<1>1. GestureInit => GestureInv
  BY GestureStarts
<1>2. ASSUME GestureInv, [GestureNext]_pushing
      PROVE  GestureInv'
  <2>1. CASE UNCHANGED pushing
    BY <1>2, <2>1 DEF pushing, GestureInv, GestureTypes, Armed, Resting, Pressing, Chain
  <2>2. ASSUME NEW raw \in BOOLEAN, NEW audible \in BOOLEAN, NEW flashing \in BOOLEAN,
               Poll(raw, audible, flashing)
        PROVE  GestureInv'
    <3>1. CASE ~Turns(Sampled(raw))
      BY <1>2, <2>2, <3>1, PressLasts, RestLasts
    <3>2. CASE Turns(Sampled(raw))
      <4>1. Sampled(raw).raw = raw /\ Sampled(raw).pressed = button.pressed
        BY <1>2, OfSampled DEF GestureInv, GestureTypes
      <4>2. raw # button.pressed /\ button.pressed \in BOOLEAN
        BY <1>2, <3>2, <4>1 DEF Turns, GestureInv, GestureTypes
      <4>3. CASE raw = TRUE
        BY <1>2, <2>2, <3>2, <4>2, <4>3, PressBegins
      <4>4. CASE raw = FALSE
        BY <1>2, <2>2, <3>2, <4>2, <4>4, PressEnds
      <4> QED
        BY <4>3, <4>4
    <3> QED
      BY <3>1, <3>2
  <2> QED
    BY <1>2, <2>1, <2>2 DEF GestureNext
<1> QED
  BY <1>1, <1>2, PTL DEF GestureSpec

(* The provisioning is cleared only by the clicks and the long press that  *)
(* the README asks for, with any timing and any bouncing of the pin.       *)
THEOREM SetupOnlyIfMeant == GestureSpec => []SetupIsMeant
<1>1. ASSUME GestureInv, setup
      PROVE  SetupIsMeant
  <2>1. Pressing /\ button.candidate /\ button.hold >= HoldFor /\ GestureTypes
    BY <1>1 DEF GestureInv
  <2>2. /\ button.hold = presses[1].length /\ button.clicks = Clicks /\ Chain(1)
        /\ ~presses[1].stopped /\ presses[1].gap < ArmedFor
    BY <2>1 DEF Pressing
  <2>3. Len(presses) = Clicks + 1
    BY <2>1, <2>2, Limits DEF Chain, GestureTypes
  <2>4. presses[1] \in Noted
    BY <2>1, <2>3, Limits DEF GestureTypes
  <2>5. presses[1].length = HoldFor
    BY <2>1, <2>2, <2>4, Limits DEF Noted
  <2>6. ASSUME NEW i \in 1..Clicks + 1
        PROVE  /\ ~presses[i].stopped
               /\ i # 1 => presses[i].length <= ShortClick
               /\ i \in 2..Clicks => presses[i].gap < Window
    <3>1. CASE i = 1
      BY <2>2, <3>1
    <3>2. CASE i # 1
      <4>1. i - 1 \in 1..Clicks /\ (i - 1) + 1 = i
        BY <3>2, Limits
      <4>2. i \in 2..Clicks => i - 1 \in 1..Clicks - 1
        BY <3>2, Limits
      <4> QED
        BY <2>2, <4>1, <4>2 DEF Chain
    <3> QED
      BY <3>1, <3>2
  <2>7. \A i \in 2..Clicks + 1 : i \in 1..Clicks + 1 /\ i # 1
    BY Limits
  <2>8. \A i \in 2..Clicks : i \in 1..Clicks + 1
    BY Limits
  <2> QED
    BY <2>2, <2>3, <2>5, <2>6, <2>7, <2>8 DEF SetupIsMeant
<1>2. GestureInv => SetupIsMeant
  BY <1>1 DEF SetupIsMeant
<1> QED
  BY <1>2, GestureInvariant, PTL

-----------------------------------------------------------------------------
(* The types of the button. *)

(* The types of the button's locals, but for a bound on the clicks, which  *)
(* GestureInv gives.                                                       *)
Locals ==
  [raw : BOOLEAN, same : 0..Debounce + 1, pressed : BOOLEAN,
   press : 0..Intercom, hold : 0..HoldFor, clicks : Nat,
   window : 0..Window, armed : 0..ArmedFor,
   intercom : BOOLEAN, candidate : BOOLEAN, consumed : BOOLEAN]

LEMMA UpToFits ==
  ASSUME NEW limit \in Nat, NEW n \in Nat
  PROVE  UpTo(limit, n) \in 0..limit
  BY DEF UpTo

LEMMA OfLocals ==
  ASSUME NEW b \in Locals
  PROVE  /\ b.same \in Nat /\ b.press \in Nat /\ b.hold \in Nat /\ b.clicks \in Nat
         /\ b.window \in 0..Window /\ b.armed \in 0..ArmedFor
         /\ b.pressed \in BOOLEAN /\ b.raw \in BOOLEAN
  BY DEF Locals

(* A new value for one of the counters, or some of the flags.              *)
LEMMA LocalsChange ==
  ASSUME NEW b \in Locals
  PROVE  /\ \A x \in BOOLEAN : [b EXCEPT !.raw = x] \in Locals
         /\ \A x \in BOOLEAN : [b EXCEPT !.pressed = x] \in Locals
         /\ \A x \in BOOLEAN : [b EXCEPT !.intercom = x] \in Locals
         /\ \A x \in BOOLEAN : [b EXCEPT !.candidate = x] \in Locals
         /\ \A x \in BOOLEAN : [b EXCEPT !.consumed = x] \in Locals
         /\ \A x \in 0..Debounce + 1 : [b EXCEPT !.same = x] \in Locals
         /\ \A x \in 0..Intercom : [b EXCEPT !.press = x] \in Locals
         /\ \A x \in 0..HoldFor : [b EXCEPT !.hold = x] \in Locals
         /\ \A x \in Nat : [b EXCEPT !.clicks = x] \in Locals
         /\ \A x \in 0..Window : [b EXCEPT !.window = x] \in Locals
         /\ \A x \in 0..ArmedFor : [b EXCEPT !.armed = x] \in Locals
  BY DEF Locals

LEMMA TurnedType ==
  ASSUME button \in Locals, NEW raw \in BOOLEAN, NEW audible \in BOOLEAN
  PROVE  /\ Sampled(raw) \in Locals
         /\ \A b \in Locals : Pushed(b, audible) \in Locals /\ Released(b) \in Locals
<1>0. 0 \in 0..Intercom /\ 0 \in 0..HoldFor /\ 0 \in 0..Window /\ 0 \in 0..ArmedFor
      /\ 0 \in 0..Debounce + 1 /\ Window \in 0..Window /\ ArmedFor \in 0..ArmedFor
      /\ Debounce + 1 \in Nat
  BY Limits
<1>1. Sampled(raw) \in Locals
  <2> DEFINE same == IF raw = button.raw THEN UpTo(Debounce + 1, button.same + 1) ELSE 0
  <2>1. same \in 0..Debounce + 1
    <3>1. button.same + 1 \in Nat
      BY OfLocals
    <3> QED
      BY <1>0, <3>1, UpToFits
  <2> DEFINE n == [[button EXCEPT !.same = same] EXCEPT !.raw = raw]
  <2>2. Sampled(raw) = n
    BY DEF Sampled, Locals
  <2> HIDE DEF same
  <2>3. n \in Locals
    BY <2>1, LocalsChange
  <2> QED
    BY <2>2, <2>3
<1>2. ASSUME NEW b \in Locals PROVE Pushed(b, audible) \in Locals
  <2> DEFINE first == [[[b EXCEPT !.pressed = TRUE] EXCEPT !.press = 0] EXCEPT !.hold = 0]
             then == [[first EXCEPT !.intercom = FALSE] EXCEPT !.consumed = audible]
             c == ~audible /\ b.clicks >= Clicks /\ b.armed > 0
  <2>1. Pushed(b, audible) = [then EXCEPT !.candidate = c]
    BY DEF Pushed, Locals
  <2>2. first \in Locals
    BY <1>0, LocalsChange
  <2> HIDE DEF first
  <2>3. then \in Locals
    BY <2>2, LocalsChange
  <2>4. c \in BOOLEAN
    OBVIOUS
  <2> HIDE DEF then, c
  <2> QED
    BY <2>1, <2>3, <2>4, LocalsChange
<1>3. ASSUME NEW b \in Locals PROVE Forgotten(b) \in Locals
  <2> DEFINE n == [[[b EXCEPT !.clicks = 0] EXCEPT !.window = 0] EXCEPT !.armed = 0]
  <2>1. Forgotten(b) = n
    BY DEF Forgotten
  <2>2. n \in Locals
    BY <1>0, LocalsChange
  <2> QED
    BY <2>1, <2>2
<1>4. ASSUME NEW b \in Locals PROVE Clicked(b) \in Locals
  <2> DEFINE c == (IF b.window = 0 THEN 0 ELSE b.clicks) + 1
             a == IF c >= Clicks THEN ArmedFor ELSE b.armed
  <2>1. c \in Nat /\ a \in 0..ArmedFor
    BY <1>0, OfLocals
  <2> DEFINE n == [[[b EXCEPT !.clicks = c] EXCEPT !.window = Window] EXCEPT !.armed = a]
  <2>2. Clicked(b) = n
    BY DEF Clicked, Locals
  <2> HIDE DEF c, a
  <2>3. n \in Locals
    BY <1>0, <2>1, LocalsChange
  <2> QED
    BY <2>2, <2>3
<1>5. ASSUME NEW b \in Locals PROVE Released(b) \in Locals
  <2> DEFINE counted == Counted(b)
             first == [[[counted EXCEPT !.pressed = FALSE] EXCEPT !.press = 0] EXCEPT !.hold = 0]
             then == [[first EXCEPT !.intercom = FALSE] EXCEPT !.candidate = FALSE]
  <2>1. counted \in Locals
    BY <1>3, <1>4 DEF Counted
  <2>2. Released(b) = [then EXCEPT !.consumed = FALSE]
    BY DEF Released
  <2> HIDE DEF counted
  <2>3. first \in Locals
    BY <1>0, <2>1, LocalsChange
  <2> HIDE DEF first
  <2>4. then \in Locals
    BY <2>3, LocalsChange
  <2> HIDE DEF then
  <2> QED
    BY <2>2, <2>4, LocalsChange
<1> QED
  BY <1>1, <1>2, <1>5

LEMMA EndedType ==
  ASSUME NEW b \in Locals, NEW flashing \in BOOLEAN
  PROVE  Held(b, flashing) \in Locals /\ Rested(b) \in Locals
<1>0. 0 \in 0..Window /\ 0 \in 0..ArmedFor
  BY Limits
<1>1. Rested(b) \in Locals
  <2> DEFINE w == IF b.armed > 0 /\ Less(b.armed) = 0 THEN 0 ELSE Less(b.window)
             c == IF \/ b.window > 0 /\ Less(b.window) = 0 /\ b.armed = 0
                     \/ b.armed > 0 /\ Less(b.armed) = 0
                    THEN 0 ELSE b.clicks
             a == Less(b.armed)
  <2>1. a \in 0..ArmedFor /\ w \in 0..Window /\ c \in Nat
    BY OfLocals, Limits DEF Less
  <2> DEFINE n == [[[b EXCEPT !.armed = a] EXCEPT !.window = w] EXCEPT !.clicks = c]
  <2>2. Rested(b) = n
    BY DEF Rested, Locals
  <2> HIDE DEF a, w, c
  <2>3. n \in Locals
    BY <2>1, LocalsChange
  <2> QED
    BY <2>2, <2>3
<1>2. Held(b, flashing) \in Locals
  <2> DEFINE p == UpTo(Intercom, b.press + 1)
             h == UpTo(HoldFor, b.hold + 1)
             longer == [b EXCEPT !.press = p]
  <2>1. p \in 0..Intercom /\ h \in 0..HoldFor
    <3>1. b.press + 1 \in Nat /\ b.hold + 1 \in Nat
      BY OfLocals
    <3> QED
      BY <3>1, Limits, UpToFits
  <2>2. longer.hold = b.hold
    BY DEF Locals
  <2>3. longer = [b EXCEPT !.press = UpTo(Intercom, @ + 1)]
    BY DEF Locals
  <2>4. longer \in Locals
    BY <2>1, LocalsChange
  <2> HIDE DEF longer, p
  <2> DEFINE f == [[[longer EXCEPT !.clicks = 0] EXCEPT !.window = 0] EXCEPT !.armed = 0]
             n1 == [longer EXCEPT !.hold = h]
             n2 == [longer EXCEPT !.consumed = TRUE]
             n3 == [f EXCEPT !.intercom = TRUE]
  <2>5. Held(b, flashing) \in {n1, n2, n3, longer}
    <3>1. [longer EXCEPT !.hold = UpTo(HoldFor, @ + 1)] = n1
      BY <2>2, <2>4 DEF Locals
    <3>2. Forgotten(longer) = f
      BY DEF Forgotten
    <3> HIDE DEF h, n1, f
    <3> QED
      BY <2>3, <3>1, <3>2 DEF Held
  <2> HIDE DEF h
  <2>6. f \in Locals
    BY <1>0, <2>4, LocalsChange
  <2> HIDE DEF f
  <2>7. n1 \in Locals
    BY <2>1, <2>4, LocalsChange
  <2>8. n2 \in Locals
    BY <2>4, LocalsChange
  <2>9. n3 \in Locals
    BY <2>6, LocalsChange
  <2> HIDE DEF n1, n2, n3
  <2> QED
    BY <2>4, <2>5, <2>7, <2>8, <2>9
<1> QED
  BY <1>1, <1>2

Pressed == presses \in Seq(Press) /\ rest \in 0..ArmedFor

LEMMA NotedType ==
  ASSUME GestureInv, Pressed, NEW began \in BOOLEAN, NEW stopped \in BOOLEAN, Note(began, stopped),
         button' \in Locals, button'.pressed /\ ~began => Len(presses) > 0
  PROVE  Pressed'
<1>1. Len(presses) \in Nat
  BY DEF Pressed
<1>2. CASE began
  <2> DEFINE p == [length |-> 1, gap |-> rest, stopped |-> stopped]
             all == <<p>> \o presses
             k == UpTo(Clicks, Len(presses))
  <2>1. p \in Press
    BY Limits DEF Press, Pressed
  <2>2. all \in Seq(Press) /\ Len(all) = Len(presses) + 1
    BY <2>1 DEF Pressed
  <2>3. k \in Nat /\ k <= Len(presses)
    BY <1>1, Limits DEF UpTo
  <2>4. presses' = SubSeq(all, 1, k + 1) /\ rest' = 0
    BY <1>2 DEF Note
  <2> HIDE DEF all, k
  <2>5. \A i \in 1..k + 1 : all[i] \in Press
    BY <1>1, <2>2, <2>3
  <2>6. SubSeq(all, 1, k + 1) \in Seq(Press)
    BY <1>1, <2>2, <2>3, <2>5, SubSeqProperties
  <2> QED
    BY <2>4, <2>6, Limits DEF Pressed
<1>3. CASE ~began /\ button'.pressed
  <2>1. /\ presses' = [presses EXCEPT ![1].length = UpTo(HoldFor, presses[1].length + 1)]
        /\ rest' = rest
    BY <1>3 DEF Note
  <2>2. 1 \in 1..Len(presses) /\ presses[1] \in Press
    BY <1>1, <1>3 DEF Pressed
  <2>3. UpTo(HoldFor, presses[1].length + 1) \in 1..HoldFor
    BY <2>2, Limits DEF Press, UpTo
  <2>4. [presses[1] EXCEPT !.length = UpTo(HoldFor, presses[1].length + 1)] \in Press
    BY <2>2, <2>3 DEF Press
  <2> QED
    BY <2>1, <2>2, <2>4 DEF Pressed
<1>4. CASE ~began /\ ~button'.pressed
  <2>1. rest' = UpTo(ArmedFor, rest + 1) /\ presses' = presses
    BY <1>4 DEF Note
  <2> QED
    BY <2>1, UpToFits, Limits DEF Pressed
<1> QED
  BY <1>2, <1>3, <1>4

(* The button's locals and the history keep their types.                   *)
THEOREM GestureTypeCorrect == GestureSpec => []GestureTypeOK
<1> DEFINE Inv == button \in Locals /\ Pressed /\ setup \in BOOLEAN
<1>1. GestureInit => Inv
  <2> SUFFICES ASSUME GestureInit PROVE Inv
    OBVIOUS
  <2>1. button \in Locals
    BY Limits DEF GestureInit, Locals
  <2>2. presses \in Seq(Press) /\ rest = 0 /\ setup = FALSE
    BY DEF GestureInit
  <2>3. 0 \in 0..ArmedFor
    BY Limits
  <2> QED
    BY <2>1, <2>2, <2>3 DEF Pressed
<1>2. GestureInv /\ Inv /\ [GestureNext]_pushing => Inv'
  <2> SUFFICES ASSUME GestureInv, Inv, [GestureNext]_pushing PROVE Inv'
    OBVIOUS
  <2>1. CASE UNCHANGED pushing
    BY <2>1 DEF pushing, Pressed
  <2>2. ASSUME NEW raw \in BOOLEAN, NEW audible \in BOOLEAN, NEW flashing \in BOOLEAN,
               Poll(raw, audible, flashing)
        PROVE  Inv'
    <3> DEFINE sampled == Sampled(raw)
               turned == IF ~Turns(sampled) THEN sampled
                         ELSE IF raw THEN Pushed(sampled, audible) ELSE Released(sampled)
               began == Turns(sampled) /\ raw
    <3>0. DOMAIN button = Fields
      BY DEF GestureInv, GestureTypes
    <3>1. /\ sampled \in Locals /\ DOMAIN sampled = Fields
          /\ sampled.pressed = button.pressed
      BY <3>0, TurnedType, OfSampled
    <3>2. turned \in Locals
      BY <3>1, TurnedType
    <3>3. /\ button' = IF turned.pressed THEN Held(turned, flashing) ELSE Rested(turned)
          /\ setup' = (button'.candidate /\ button'.hold >= HoldFor)
          /\ Note(began, audible)
      BY <2>2 DEF Poll
    <3>4. began \in BOOLEAN /\ setup' \in BOOLEAN
      BY <3>3
    <3>5. ~began => turned.pressed = (~Turns(sampled) /\ button.pressed)
      <4>1. Released(sampled).pressed = FALSE
        BY <3>1, OfReleased
      <4>2. button.pressed \in BOOLEAN
        BY OfLocals
      <4> HIDE DEF sampled
      <4> QED
        BY <3>1, <4>1, <4>2
    <3> HIDE DEF turned, began, sampled
    <3>6. button' \in Locals
      BY <3>2, <3>3, EndedType
    <3>7. button'.pressed => turned.pressed
      BY <3>2, <3>3 DEF Rested, Locals
    <3>8. button.pressed => Len(presses) > 0
      BY DEF GestureInv, Pressing
    <3>9. Pressed'
      BY <3>3, <3>4, <3>5, <3>6, <3>7, <3>8, NotedType
    <3> QED
      BY <3>4, <3>6, <3>9
  <2> QED
    BY <2>1, <2>2 DEF GestureNext
<1>3. GestureInv /\ Inv => GestureTypeOK
  <2> SUFFICES ASSUME GestureInv, Inv PROVE GestureTypeOK
    OBVIOUS
  <2>1. button.clicks \in 0..Clicks /\ Len(presses) <= Clicks + 1
    BY DEF GestureInv, GestureTypes
  <2>2. button \in [raw : BOOLEAN, same : 0..Debounce + 1, pressed : BOOLEAN,
                    press : 0..Intercom, hold : 0..HoldFor, clicks : 0..Clicks,
                    window : 0..Window, armed : 0..ArmedFor,
                    intercom : BOOLEAN, candidate : BOOLEAN, consumed : BOOLEAN]
    BY <2>1 DEF Locals
  <2> QED
    BY <2>1, <2>2 DEF GestureTypeOK, Pressed
<1> HIDE DEF Inv
<1> QED
  BY <1>1, <1>2, <1>3, GestureInvariant, PTL DEF GestureSpec

-----------------------------------------------------------------------------
(* The sum of the ten components.                                          *)

(* What a step of the sum is to each of them.  The contract changes freely *)
(* in a behaviour about the outputs, and in no other without its source.   *)
LEMMA EachStep ==
  ASSUME [DeviceNext]_<<part, server, radios, board>>
  PROVE  /\ [Next]_vars /\ [VerificationNext]_verification /\ [ModelNext]_model
         /\ [UpdateNext]_update /\ [ScannerNext]_ble /\ [AdvertsNext]_radio
         /\ [GestureNext]_pushing /\ [WindowNext]_scoring
         /\ OutputNext \/ UNCHANGED output
         /\ part' = part
         /\ \/ UNCHANGED delivery
            \/ part # "output" /\ PowerNext
            \/ part = "output" /\ ContractChanges /\ UNCHANGED <<sink, rx, line>>
<1> USE DEF Only
<1>1. CASE UNCHANGED <<part, server, radios, board>>
  BY <1>1 DEF server, radios, board
<1>2. CASE Only("connection") /\ Next /\ UNCHANGED <<verification, model, update, radios, board>>
  BY <1>2 DEF radios, board
<1>3. CASE Only("verification") /\ VerificationNext
           /\ UNCHANGED <<vars, model, update, radios, board>>
  BY <1>3 DEF radios, board
<1>4. CASE Only("model") /\ ModelNext /\ UNCHANGED <<vars, verification, update, radios, board>>
  BY <1>4 DEF radios, board
<1>5. CASE Only("update") /\ UpdateNext /\ UNCHANGED <<vars, verification, model, radios, board>>
  BY <1>5 DEF radios, board
<1>6. CASE Only("scanner") /\ ScannerNext /\ UNCHANGED <<server, radio, board>>
  BY <1>6 DEF server, board
<1>7. CASE Only("adverts") /\ AdvertsNext /\ UNCHANGED <<server, ble, board>>
  BY <1>7 DEF server, board
<1>8. CASE Only("power") /\ PowerNext /\ UNCHANGED <<server, radios, output, pushing, scoring>>
  BY <1>8 DEF server, radios
<1>9. CASE Only("output") /\ OutputNext
           /\ UNCHANGED <<server, radios, sink, rx, line, pushing, scoring>>
  BY <1>9 DEF server, radios, OutputNext, delivery
<1>10. CASE Only("button") /\ GestureNext
            /\ UNCHANGED <<server, radios, delivery, output, scoring>>
  BY <1>10 DEF server, radios
<1>11. CASE Only("window") /\ WindowNext
            /\ UNCHANGED <<server, radios, delivery, output, pushing>>
  BY <1>11 DEF server, radios
<1> QED
  BY <1>1, <1>2, <1>3, <1>4, <1>5, <1>6, <1>7, <1>8, <1>9, <1>10, <1>11 DEF DeviceNext

(* What is known of the sum at every moment: of each component its         *)
(* invariant, and of the power, in a behaviour about the outputs, what     *)
(* those may rely on.                                                      *)
DeviceInv ==
  /\ WifiInv /\ WsInv /\ VerificationInv /\ ModelInv /\ UpdateInv
  /\ ScanInv /\ ScannerTypeOK /\ OutputInv
  /\ PowerTypeOK /\ ContractIsSupplied
  /\ part # "output" => SupplyInv

LEMMA DeviceStarts == DeviceInit => DeviceInv
<1> SUFFICES ASSUME DeviceInit PROVE DeviceInv
  OBVIOUS
<1>1. WifiInv /\ WsInv
  BY WifiInitInv, WsInitInv DEF DeviceInit, Init
<1>2. VerificationInv /\ ModelInv /\ UpdateInv
  BY VerificationInitInv, ModelStarts, UpdateStarts DEF DeviceInit
<1>3. ScanInv /\ ScannerTypeOK
  BY ScanStarts DEF DeviceInit, ScannerInit, ScannerTypeOK
<1>4. PowerTypeOK /\ SupplyInv /\ OutputInv
  BY PowerStarts, OutputStarts DEF DeviceInit
<1> QED
  BY <1>1, <1>2, <1>3, <1>4 DEF DeviceInv, SupplyInv

LEMMA DeviceStep == DeviceInv /\ [DeviceNext]_<<part, server, radios, board>> => DeviceInv'
<1> SUFFICES ASSUME DeviceInv, [DeviceNext]_<<part, server, radios, board>> PROVE DeviceInv'
  OBVIOUS
<1>1. WifiInv'
  <2>1. [WifiNext]_wifi
    BY EachStep DEF Next, vars
  <2> QED
    BY <2>1, WifiNextInv DEF DeviceInv
<1>2. WsInv'
  BY EachStep, WsNextInv DEF DeviceInv
<1>3. VerificationInv'
  BY EachStep, VerificationStepInv DEF DeviceInv
<1>4. ModelInv'
  BY EachStep, ModelStep DEF DeviceInv
<1>5. UpdateInv'
  BY EachStep, UpdateStep DEF DeviceInv
<1>6. ScanInv' /\ ScannerTypeOK'
  BY EachStep, ScanStep, ScannerTypes DEF DeviceInv
<1>7. OutputInv'
  BY EachStep, OutputStep DEF DeviceInv
<1>8. PowerTypeOK' /\ ContractIsSupplied' /\ (part # "output" => SupplyInv)'
  <2>1. CASE part = "output" /\ ContractChanges /\ UNCHANGED <<sink, rx, line>>
    <3>1. part' = "output"
      BY <2>1, EachStep
    <3>2. PowerTypeOK'
      <4> DEFINE begun == [contract EXCEPT !.state = "negotiating"]
      <4>1. /\ contract \in Contract /\ charger \in Charger /\ sink \in Sink
            /\ rx \in Seq(Message) /\ line \in [low : BOOLEAN, notified : BOOLEAN]
        BY DEF DeviceInv, PowerTypeOK
      <4>2. /\ \/ \E state \in {"negotiating", "fallback", "unavailable"} :
                    contract' = NoContract(state)
               \/ contract' = begun
               \/ \E volts \in Supplies :
                    contract' = [state |-> "contract", explicit |-> TRUE, volts |-> volts]
            /\ \/ charger' = charger
               \/ \E volts \in Supplies : charger' = [charger EXCEPT !.supply = volts]
        BY <2>1 DEF ContractChanges
      <4>3. begun \in Contract
        BY <4>1 DEF Contract
      <4> HIDE DEF begun
      <4>4. contract' \in Contract
        <5>1. ASSUME NEW state \in {"negotiating", "fallback", "unavailable"}
              PROVE  NoContract(state) \in Contract
          BY DEF NoContract, Contract, Supplies
        <5>2. ASSUME NEW volts \in Supplies
              PROVE  [state |-> "contract", explicit |-> TRUE, volts |-> volts] \in Contract
          BY DEF Contract
        <5> QED
          BY <4>2, <4>3, <5>1, <5>2
      <4>5. ASSUME NEW volts \in Supplies PROVE [charger EXCEPT !.supply = volts] \in Charger
        BY <4>1 DEF Charger
      <4>6. charger' \in Charger
        BY <4>1, <4>2, <4>5
      <4> QED
        BY <2>1, <4>1, <4>4, <4>6 DEF PowerTypeOK
    <3>3. ContractIsSupplied'
      BY <2>1 DEF DeviceInv, PowerTypeOK, ContractChanges, NoContract, Contract, Charger,
                  ContractIsSupplied
    <3> QED
      BY <3>1, <3>2, <3>3
  <2>2. CASE part # "output" /\ PowerNext
    BY <2>2, EachStep, PowerStep DEF DeviceInv, SupplyInv
  <2>3. CASE UNCHANGED delivery
    <3>1. part' = part
      BY EachStep
    <3>2. part # "output" => SupplyInv'
      BY <2>3, PowerStep DEF DeviceInv
    <3> QED
      BY <2>3, <3>1, <3>2 DEF delivery, DeviceInv, PowerTypeOK, ContractIsSupplied
  <2> QED
    BY <2>1, <2>2, <2>3, EachStep
<1> QED
  BY <1>1, <1>2, <1>3, <1>4, <1>5, <1>6, <1>7, <1>8 DEF DeviceInv

LEMMA DeviceInvariant == DeviceSpec => []DeviceInv
BY DeviceStarts, DeviceStep, PTL DEF DeviceSpec

(* A behaviour of the sum is one of each of the components.                *)
LEMMA DeviceParts ==
  DeviceSpec => AdvertsSpec /\ GestureSpec /\ WindowSpec
<1>1. DeviceInit => AdvertsInit /\ GestureInit /\ WindowInit
  BY DEF DeviceInit
<1>2. [DeviceNext]_<<part, server, radios, board>> =>
        [AdvertsNext]_radio /\ [GestureNext]_pushing /\ [WindowNext]_scoring
  BY EachStep
<1> QED
  BY <1>1, <1>2, PTL DEF DeviceSpec, AdvertsSpec, GestureSpec, WindowSpec

(* All variables of the ten components keep their types, whichever of them *)
(* a behaviour is about, for every value of their constants.               *)
THEOREM DeviceTypeCorrect == DeviceSpec => []DeviceTypeOK
<1>1. DeviceInv => /\ TypeOK /\ VerificationTypeOK /\ ModelTypeOK
                   /\ UpdateTypeOK /\ ScannerTypeOK /\ PowerTypeOK /\ OutputTypeOK
  BY InvTypes DEF DeviceInv, VerificationInv, ModelInv, UpdateInv, OutputInv
<1>2. DeviceSpec => [](AdvertsTypeOK /\ GestureTypeOK /\ WindowTypeOK)
  BY DeviceParts, AdvertsTypeCorrect, GestureTypeCorrect, WindowTypeCorrect, PTL
<1>3. /\ TypeOK /\ VerificationTypeOK /\ ModelTypeOK
      /\ UpdateTypeOK /\ ScannerTypeOK /\ PowerTypeOK /\ OutputTypeOK
      /\ AdvertsTypeOK /\ GestureTypeOK /\ WindowTypeOK
      => DeviceTypeOK
  BY DEF DeviceTypeOK
<1> QED
  BY <1>1, <1>2, <1>3, DeviceInvariant, PTL

(* What the components promise, they promise in the sum that is checked.   *)
THEOREM DeviceIsSafe ==
  DeviceSpec => /\ []NeverStranded /\ []NoOverlap /\ []OneVerdict
                /\ []ScanExact /\ []BootsOwnFamily /\ []PausesForAudio /\ []EntryIsOwn
                /\ []ContractIsSupplied /\ []OutputFollows /\ []SetupIsMeant /\ []JudgesLatest
<1>1. DeviceInv => NeverStranded /\ NoOverlap
  BY OneRuns DEF DeviceInv, WifiInv
<1>2. DeviceInv => OneVerdict
  BY DEF DeviceInv, VerificationInv, VerificationTypeOK, Right, OneVerdict, One
<1>3. DeviceInv => ScanExact /\ BootsOwnFamily
  BY DEF DeviceInv, UpdateInv, FamilyInv, ImageInv, ScanExact, BootsOwnFamily
<1>4. DeviceInv => PausesForAudio /\ ContractIsSupplied
  BY DEF DeviceInv, ScanInv, PausesForAudio
<1>5. DeviceInv => OutputFollows
  BY DEF DeviceInv, OutputInv, OutputFollows, Silent, Follows
<1>6. DeviceSpec => []EntryIsOwn /\ []SetupIsMeant /\ []JudgesLatest
  BY DeviceParts, OwnEntries, SetupOnlyIfMeant, DetectsOnLatest, PTL
<1> QED
  BY <1>1, <1>2, <1>3, <1>4, <1>5, <1>6, DeviceInvariant, PTL

=============================================================================
