---------------------------- MODULE SetupGesture ----------------------------
(***************************************************************************)
(* The action button, button_task of                                       *)
(* main/boards/voice_pe/button_voice_pe.c: a press stops what the device   *)
(* is doing, a long one talks to the intercom, and a number of quick       *)
(* clicks followed by a very long press clears the provisioning and        *)
(* restarts the device.                                                    *)
(*                                                                         *)
(* A step is one turn of the task's loop; all times are in turns.  The     *)
(* level of the pin, what the device is doing and whether an update runs   *)
(* are free at each turn.  The other switches of the boards are left out.  *)
(***************************************************************************)
EXTENDS Naturals, Sequences

CONSTANTS
  Debounce,    \* BUTTON_DEBOUNCE_TICKS
  Intercom,    \* INTERCOM_START_TICKS
  Clicks,      \* SETUP_RESET_CLICK_COUNT
  Window,      \* SETUP_RESET_CLICK_WINDOW_TICKS
  ArmedFor,    \* SETUP_RESET_ARMED_TICKS
  HoldFor,     \* SETUP_RESET_HOLD_TICKS
  ShortClick   \* SETUP_RESET_SHORT_CLICK_MAX_TICKS

ASSUME GestureAssumption ==
  /\ {Debounce, Clicks, Window, ArmedFor, HoldFor, ShortClick} \subseteq Nat \ {0}
  /\ Intercom \in Nat /\ Intercom > ShortClick /\ HoldFor > Intercom
  /\ ArmedFor > Window

VARIABLES
  button,   \* the locals of button_task; its counters stop where their
            \* value makes no difference any more
  setup,    \* enter_setup_mode was called
  presses,  \* history: the last presses, the latest first, behind the debounce:
            \* their length, the rest before them, and if they stopped something
  rest      \* history: how long the button has been at rest since

pushing == <<button, setup, presses, rest>>

Press == [length : 1..HoldFor, gap : 0..ArmedFor, stopped : BOOLEAN]

GestureTypeOK ==
  /\ button \in [raw : BOOLEAN, same : 0..Debounce + 1, pressed : BOOLEAN,
                 press : 0..Intercom, hold : 0..HoldFor, clicks : 0..Clicks,
                 window : 0..Window, armed : 0..ArmedFor,
                 intercom : BOOLEAN, candidate : BOOLEAN, consumed : BOOLEAN]
  /\ setup \in BOOLEAN
  /\ presses \in Seq(Press) /\ Len(presses) <= Clicks + 1
  /\ rest \in 0..ArmedFor

GestureInit ==
  /\ button = [raw |-> FALSE, same |-> 0, pressed |-> FALSE, press |-> 0, hold |-> 0,
               clicks |-> 0, window |-> 0, armed |-> 0,
               intercom |-> FALSE, candidate |-> FALSE, consumed |-> FALSE]
  /\ setup = FALSE
  /\ presses = <<>> /\ rest = 0

-----------------------------------------------------------------------------
(* What a turn makes of the locals, one part after the other.              *)

UpTo(limit, n) == IF n < limit THEN n ELSE limit
Less(n) == IF n = 0 THEN 0 ELSE n - 1

Sampled(raw) ==
  [button EXCEPT !.same = IF raw = button.raw THEN UpTo(Debounce + 1, @ + 1) ELSE 0,
                 !.raw = raw]

Turns(b) == b.same = Debounce /\ b.raw # b.pressed

(* Faulty form of Pushed: a press that stops something may clear the       *)
(* provisioning as well.                                                   *)
PushedBusy(b, busy) ==
  [b EXCEPT !.pressed = TRUE, !.press = 0, !.hold = 0,
            !.intercom = FALSE, !.consumed = busy,
            !.candidate = b.clicks >= Clicks /\ b.armed > 0]

(* A press that stops the alarm, the playback or the session is used up. *)
Pushed(b, busy) ==
  [b EXCEPT !.pressed = TRUE, !.press = 0, !.hold = 0,
            !.intercom = FALSE, !.consumed = busy,
            !.candidate = ~busy /\ b.clicks >= Clicks /\ b.armed > 0]

Forgotten(b) == [b EXCEPT !.clicks = 0, !.window = 0, !.armed = 0]

Clicked(b) ==
  LET clicks == (IF b.window = 0 THEN 0 ELSE b.clicks) + 1
  IN [b EXCEPT !.clicks = clicks, !.window = Window,
               !.armed = IF clicks >= Clicks THEN ArmedFor ELSE @]

Counted(b) ==
  IF ~b.consumed /\ ~b.candidate /\ ~b.intercom /\ b.press \in 1..ShortClick
    THEN Clicked(b) ELSE Forgotten(b)

Released(b) ==
  [Counted(b) EXCEPT !.pressed = FALSE, !.press = 0, !.hold = 0,
                     !.intercom = FALSE, !.candidate = FALSE, !.consumed = FALSE]

(* The intercom does not start while an update runs. *)
Held(b, updating) ==
  LET longer == [b EXCEPT !.press = UpTo(Intercom, @ + 1)]
  IN CASE b.candidate -> [longer EXCEPT !.hold = UpTo(HoldFor, @ + 1)]
       [] ~b.candidate /\ ~b.consumed /\ ~b.intercom /\ longer.press >= Intercom ->
            IF updating THEN [longer EXCEPT !.consumed = TRUE]
                        ELSE [Forgotten(longer) EXCEPT !.intercom = TRUE]
       [] OTHER -> longer

(* The clicks expire with their window, unless they have armed the reset;  *)
(* then they expire with that.                                             *)
Rested(b) ==
  LET window == Less(b.window)
      armed == Less(b.armed)
      expired == \/ b.window > 0 /\ window = 0 /\ b.armed = 0
                 \/ b.armed > 0 /\ armed = 0
  IN [b EXCEPT !.armed = armed,
               !.window = IF b.armed > 0 /\ armed = 0 THEN 0 ELSE window,
               !.clicks = IF expired THEN 0 ELSE @]

-----------------------------------------------------------------------------

(* What somebody who watches the button, and the device, would note. *)
Note(began, stopped) ==
  CASE began ->
         /\ presses' = SubSeq(<<[length |-> 1, gap |-> rest, stopped |-> stopped]>> \o presses,
                              1, UpTo(Clicks, Len(presses)) + 1)
         /\ rest' = 0
    [] ~began /\ button'.pressed ->
         /\ presses' = [presses EXCEPT ![1].length = UpTo(HoldFor, @ + 1)]
         /\ UNCHANGED rest
    [] OTHER -> rest' = UpTo(ArmedFor, rest + 1) /\ UNCHANGED presses

Poll(raw, busy, updating) ==
  LET sampled == Sampled(raw)
      turned == IF ~Turns(sampled) THEN sampled
                ELSE IF raw THEN Pushed(sampled, busy) ELSE Released(sampled)
  IN /\ ~setup
     /\ button' = IF turned.pressed THEN Held(turned, updating) ELSE Rested(turned)
     /\ setup' = (button'.candidate /\ button'.hold >= HoldFor)
     /\ Note(Turns(sampled) /\ raw, busy)

GestureNext == \E raw, busy, updating \in BOOLEAN : Poll(raw, busy, updating)

GestureSpec == GestureInit /\ [][GestureNext]_pushing

-----------------------------------------------------------------------------
(* Properties.                                                             *)

(* README.md:436, "Click the center/action button 5 times quickly.  On the *)
(* sixth press, hold for 5 seconds.": the provisioning is cleared only by  *)
(* that, whatever was pushed before, however the pin bounced, and never by *)
(* presses of which one stopped something or talked to the intercom.       *)
SetupIsMeant ==
  setup =>
    /\ Len(presses) = Clicks + 1
    /\ \A i \in 1..Clicks + 1 : ~presses[i].stopped
    /\ presses[1].length = HoldFor /\ presses[1].gap < ArmedFor
    /\ \A i \in 2..Clicks + 1 : presses[i].length <= ShortClick
    /\ \A i \in 2..Clicks : presses[i].gap < Window

=============================================================================
