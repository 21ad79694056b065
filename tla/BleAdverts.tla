---------------------------- MODULE BleAdverts ----------------------------
(***************************************************************************)
(* What the Bluetooth scanner reports (main/ble_scanner.c): the host's     *)
(* task passes the adverts it hears through a table that holds back what   *)
(* was reported a moment ago, and gathers the rest in a batch, which the   *)
(* main loop sends.  When the radio scans is in BleScanner: here adverts   *)
(* may come at any time.                                                   *)
(*                                                                         *)
(* An element of Adverts stands for an address, an event and a payload;    *)
(* two different ones never have the same entry, although 32 bits of hash  *)
(* stand for the payload.  The wrap of the clock after seven weeks is left *)
(* out.  What is done under s_ble_lock is one step.                        *)
(***************************************************************************)
EXTENDS Integers, Sequences

CONSTANTS
  Adverts,
  Entries,     \* TATER_BLE_DEDUPE_ENTRIES
  BatchMax,    \* TATER_BLE_BATCH_MAX
  EmitMin, EmitMax, FlushAfter,   \* TATER_BLE_EMIT_MIN_MS ...
  MaxTime,     \* bound: the clock
  MaxSeen      \* bound: adverts heard

ASSUME AdvertsAssumption ==
  /\ Entries \in Nat \ {0} /\ BatchMax \in Nat \ {0}
  /\ {EmitMin, EmitMax, FlushAfter, MaxTime, MaxSeen} \subseteq Nat

VARIABLES
  clock,
  table,       \* s_dedupe, the entries in use: they are never given up
  batch,       \* s_batch
  flushed,     \* s_last_flush_ms
  stats,       \* the counters of s_stats
  sender,      \* where the main loop stands
  sending,     \* the number of adverts in its local_batch
  emitted      \* history: when each advert was last let through

radio == <<clock, table, batch, flushed, stats, sender, sending, emitted>>

Never == -1
Rssis == {0, 3}   \* apart by TATER_BLE_RSSI_DELTA_DB

Times == 0..MaxTime
Entry == [advert : Adverts, rssi : Rssis, emit : Times, seen : Times]

AdvertsTypeOK ==
  /\ {clock, flushed} \subseteq Times
  /\ table \in Seq(Entry) /\ Len(table) <= Entries
  /\ batch \in Seq(Adverts) /\ Len(batch) <= BatchMax
  /\ stats \in [{"seen", "filtered", "dropped", "sent"} -> 0..MaxSeen]
  /\ sender \in {"idle", "flush", "send", "sent", "dropped"}
  /\ sending \in 0..BatchMax
  /\ emitted \in [Adverts -> Times \cup {Never}]

AdvertsInit ==
  /\ clock = 0 /\ flushed = 0
  /\ table = <<>> /\ batch = <<>>
  /\ stats = [count \in {"seen", "filtered", "dropped", "sent"} |-> 0]
  /\ sender = "idle" /\ sending = 0
  /\ emitted = [advert \in Adverts |-> Never]

Tick ==
  /\ clock < MaxTime /\ clock' = clock + 1
  /\ UNCHANGED <<table, batch, flushed, stats, sender, sending, emitted>>

-----------------------------------------------------------------------------
(* gap_event, what it does under the lock.                                 *)

Known(advert, i) == table[i].advert = advert
Oldest(i) == \A j \in 1..Len(table) :
               table[i].seen < table[j].seen \/ (table[i].seen = table[j].seen /\ i <= j)

(* A new entry takes the first free place, or that of the one seen the     *)
(* longest ago.                                                            *)
PlaceOfNew(advert, i) ==
  /\ \A j \in 1..Len(table) : ~Known(advert, j)
  /\ IF Len(table) < Entries THEN i = Len(table) + 1 ELSE i \in 1..Len(table) /\ Oldest(i)

(* Faulty form of Place: an entry that is overwritten keeps the time. *)
PlaceKeepsTime(i, entry) ==
  table' = IF i > Len(table)
             THEN Append(table, entry)
             ELSE [table EXCEPT ![i] = [entry EXCEPT !.emit = table[i].emit]]

Place(i, entry) ==
  table' = IF i > Len(table) THEN Append(table, entry) ELSE [table EXCEPT ![i] = entry]

Due(i, rssi) ==
  \/ clock - table[i].emit >= EmitMax
  \/ rssi # table[i].rssi /\ clock - table[i].emit >= EmitMin

Count(counts) == stats' = [c \in DOMAIN stats |-> stats[c] + IF c \in counts THEN 1 ELSE 0]

(* What is let through goes into the batch, or is lost when that is full. *)
Emit(advert) ==
  /\ emitted' = [emitted EXCEPT ![advert] = clock]
  /\ IF Len(batch) < BatchMax
       THEN batch' = Append(batch, advert) /\ Count({"seen"})
       ELSE batch' = batch /\ Count({"seen", "dropped"})

AdvertEmitted(advert, rssi) ==
  /\ stats.seen < MaxSeen
  /\ \E i \in 1..Entries :
       /\ PlaceOfNew(advert, i) \/ (i <= Len(table) /\ Known(advert, i) /\ Due(i, rssi))
       /\ Place(i, [advert |-> advert, rssi |-> rssi, emit |-> clock, seen |-> clock])
  /\ Emit(advert)
  /\ UNCHANGED <<clock, flushed, sender, sending>>

AdvertFiltered(advert, rssi) ==
  /\ stats.seen < MaxSeen
  /\ \E i \in 1..Len(table) :
       /\ Known(advert, i) /\ ~Due(i, rssi)
       /\ table' = [table EXCEPT ![i].seen = clock]
  /\ Count({"seen", "filtered"})
  /\ UNCHANGED <<clock, batch, emitted, flushed, sender, sending>>

-----------------------------------------------------------------------------
(* tater_ble_scanner_poll without audio: when it is time, the batch is     *)
(* taken under the lock, sent, and counted under the lock.                 *)

Sends(from, to) == sender = from /\ sender' = to

PollBatch ==
  /\ Sends("idle", "flush")
  /\ clock - flushed >= FlushAfter /\ flushed' = clock
  /\ UNCHANGED <<clock, table, batch, stats, sending, emitted>>

TakeBatch ==
  /\ Sends("flush", IF batch = <<>> THEN "idle" ELSE "send")
  /\ sending' = Len(batch) /\ batch' = <<>>
  /\ UNCHANGED <<clock, table, flushed, stats, emitted>>

(* tater_protocol_send_ble_adverts *)
SendBatch ==
  /\ \E result \in {"sent", "dropped"} : Sends("send", result)
  /\ UNCHANGED <<clock, table, batch, flushed, stats, sending, emitted>>

CountBatch ==
  /\ \E result \in {"sent", "dropped"} :
       Sends(result, "idle") /\ stats' = [stats EXCEPT ![result] = @ + sending]
  /\ sending' = 0
  /\ UNCHANGED <<clock, table, batch, flushed, emitted>>

-----------------------------------------------------------------------------

AdvertsNext ==
  \/ Tick
  \/ \E advert \in Adverts, rssi \in Rssis :
       AdvertEmitted(advert, rssi) \/ AdvertFiltered(advert, rssi)
  \/ PollBatch \/ TakeBatch \/ SendBatch \/ CountBatch

AdvertsSpec == AdvertsInit /\ [][AdvertsNext]_radio

-----------------------------------------------------------------------------
(* Properties.                                                             *)

(* The table has one entry for an advert, and the entry says when the      *)
(* advert was last let through, however many were evicted and came back:   *)
(* nothing is kept from the server on account of another advert.           *)
EntryIsOwn ==
  \A i \in 1..Len(table) :
    /\ table[i].emit = emitted[table[i].advert]
    /\ \A j \in 1..Len(table) : table[i].advert = table[j].advert => i = j

(* The counters that the status report gives the server balance, also      *)
(* while a batch is out between the two locks and adverts come in: each    *)
(* advert was held back, dropped or sent, or lies in a batch, and once.    *)
AllAccounted ==
  stats.seen = stats.filtered + stats.dropped + stats.sent + Len(batch) + sending

=============================================================================
