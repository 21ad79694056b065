----------------------------- MODULE Sat1Output -----------------------------
(***************************************************************************)
(* The speaker outputs of the Satellite1, main/boards/sat1/audio_sat1.c:   *)
(* the amplifier and the line-out are switched by the playback that begins *)
(* and ends a speaker session, by the direction task when the jack is      *)
(* plugged or pulled, and by the task that applies a new setting.  The     *)
(* profile of the amplifier is chosen by the contract of PowerDelivery.    *)
(*                                                                         *)
(* Playback is one task at a time (SpeakerOwnership), so s_speaker_mutex   *)
(* is always free for it.  The waits for s_output_mutex are durations; who *)
(* gives up one by one changes nothing, but for the end of a session.  The *)
(* debounce of the jack is left out: a reading is a debounced one.         *)
(***************************************************************************)
EXTENDS PowerDelivery

VARIABLES
  setting,   \* s_output_mode
  jack,      \* s_line_out_state_valid and s_line_out_connected
  amp,       \* the TAS2780: off, or on with its profile for 5 V or for more
  aux,       \* the line-out is not muted
  session,   \* s_speaker_session_active
  mutex,     \* who holds s_output_mutex
  speaker,   \* the playback task: where it stands, and the profile it chose
  flawed     \* history: a chip refused a command, a session ended without
             \* the mutex, or an output was switched between the two halves
             \* of an end

output == <<setting, jack, amp, aux, session, mutex, speaker, flawed>>

Settings == {"auto", "internal", "aux", "both"}

OutputTypeOK ==
  /\ setting \in Settings
  /\ jack \in [valid : BOOLEAN, plugged : BOOLEAN]
  /\ amp \in {"off", "low", "high"}
  /\ aux \in BOOLEAN /\ session \in BOOLEAN /\ flawed \in BOOLEAN
  /\ mutex \in {"none", "playback", "direction", "settings"}
  /\ speaker \in [at : {"idle", "choose", "start", "playing", "give"}, high : BOOLEAN]

OutputInit ==
  /\ setting = "auto" /\ jack = [valid |-> FALSE, plugged |-> FALSE]
  /\ amp = "off" /\ aux = FALSE /\ session = FALSE /\ flawed = FALSE
  /\ mutex = "none" /\ speaker = [at |-> "idle", high |-> FALSE]

-----------------------------------------------------------------------------
(* Switching.                                                              *)

(* sat1_output_desired_locked *)
Desired ==
  CASE setting = "internal" -> {"amp"}
    [] setting = "aux"      -> {"aux"}
    [] setting = "both"     -> {"amp", "aux"}
    [] OTHER                -> IF jack.valid /\ jack.plugged THEN {"aux"} ELSE {"amp"}

Outputs(playing) == IF playing THEN Desired ELSE {}
Profile(high) == IF high THEN "high" ELSE "low"

(* Faulty form of Switch: an output that is not wanted is not muted. *)
SwitchAdds(playing, high) ==
  /\ amp' = IF "amp" \in Outputs(playing) THEN Profile(high) ELSE amp
  /\ aux' = (aux \/ "aux" \in Outputs(playing))

Switch(playing, high) ==
  /\ amp' = IF "amp" \in Outputs(playing) THEN Profile(high) ELSE "off"
  /\ aux' = ("aux" \in Outputs(playing))

(* Each chip may have done what it was told, or not; the amplifier also    *)
(* stays off when its profile was to be changed.                           *)
SwitchFails(playing, high) ==
  /\ amp' \in {amp, "off"} \cup (IF "amp" \in Outputs(playing) THEN {Profile(high)} ELSE {})
  /\ aux' = aux \/ aux' = ("aux" \in Outputs(playing))
  /\ flawed' = TRUE

(* sat1_output_apply_locked *)
Apply(playing, high) ==
  \/ Switch(playing, high) /\ UNCHANGED flawed
  \/ SwitchFails(playing, high)

-----------------------------------------------------------------------------
(* tater_audio_speaker_begin and _end, by the playback task.               *)

BeginOutput ==
  /\ speaker.at = "idle" /\ mutex = "none"
  /\ mutex' = "playback"
  /\ speaker' = [speaker EXCEPT !.at = "choose"]
  /\ Apply(FALSE, FALSE)
  /\ UNCHANGED <<setting, jack, session>>

(* At the latest 1.5 s into a negotiation. *)
ChooseProfile ==
  /\ speaker.at = "choose"
  /\ speaker' = [at |-> "start", high |-> HighRecommended]
  /\ UNCHANGED <<setting, jack, amp, aux, session, mutex, flawed>>

StartOutput ==
  /\ speaker.at = "start"
  /\ speaker' = [speaker EXCEPT !.at = "playing"]
  /\ session' = TRUE /\ mutex' = "none"
  /\ Switch(TRUE, speaker.high)
  /\ UNCHANGED <<setting, jack, flawed>>

(* The I2S channel cannot be restarted. *)
ChannelFails ==
  /\ speaker.at = "start"
  /\ speaker' = [speaker EXCEPT !.at = "idle"]
  /\ mutex' = "none"
  /\ UNCHANGED <<setting, jack, amp, aux, session, flawed>>

(* A chip fails when it is switched on, and perhaps when everything is     *)
(* switched off again.                                                     *)
StartOutputFails ==
  /\ speaker.at = "start"
  /\ speaker' = [speaker EXCEPT !.at = "idle"]
  /\ mutex' = "none" /\ session' = FALSE
  /\ amp' \in {amp, Profile(speaker.high), "off"}
  /\ aux' = aux \/ aux' = ("aux" \in Desired) \/ aux' = FALSE
  /\ flawed' = TRUE
  /\ UNCHANGED <<setting, jack>>

EndOutput ==
  /\ speaker.at = "playing" /\ mutex = "none"
  /\ speaker' = [speaker EXCEPT !.at = "give"]
  /\ Apply(FALSE, FALSE)
  /\ UNCHANGED <<setting, jack, session, mutex>>

(* The mutex is not to be had within a second. *)
EndWithoutMutex ==
  /\ speaker.at = "playing" /\ mutex # "none"
  /\ speaker' = [speaker EXCEPT !.at = "give"]
  /\ flawed' = TRUE
  /\ UNCHANGED <<setting, jack, amp, aux, session, mutex>>

(* speaker_session_give *)
GiveSession ==
  /\ speaker.at = "give"
  /\ speaker' = [speaker EXCEPT !.at = "idle"]
  /\ session' = FALSE
  /\ UNCHANGED <<setting, jack, amp, aux, mutex, flawed>>

PlaybackTask ==
  \/ BeginOutput \/ ChooseProfile \/ StartOutput \/ ChannelFails \/ StartOutputFails
  \/ EndOutput \/ EndWithoutMutex \/ GiveSession

-----------------------------------------------------------------------------
(* The other two.                                                          *)

(* They switch for the session they see, which may be ending. *)
Reapply(playing) ==
  \/ Switch(playing, HighRecommended) /\ flawed' = (flawed \/ speaker.at = "give")
  \/ SwitchFails(playing, HighRecommended)

(* sat1_output_poll finds that the jack has changed. *)
JackChanges ==
  /\ mutex = "none"
  /\ mutex' = "direction"
  /\ \E plugged \in BOOLEAN :
       /\ jack.valid => plugged # jack.plugged
       /\ jack' = [valid |-> TRUE, plugged |-> plugged]
  /\ UNCHANGED <<setting, amp, aux, session, speaker, flawed>>

JackSwitches ==
  /\ mutex = "direction"
  /\ mutex' = "none"
  /\ IF setting = "auto" /\ session THEN Reapply(TRUE) ELSE UNCHANGED <<amp, aux, flawed>>
  /\ UNCHANGED <<setting, jack, session, speaker>>

(* tater_audio_sat1_set_output_mode *)
SetOutputMode ==
  /\ mutex = "none"
  /\ mutex' = "settings"
  /\ setting' \in Settings
  /\ UNCHANGED <<jack, amp, aux, session, speaker, flawed>>

ModeSwitches ==
  /\ mutex = "settings"
  /\ mutex' = "none"
  /\ Reapply(session)
  /\ UNCHANGED <<setting, jack, session, speaker>>

OutputSteps == PlaybackTask \/ JackChanges \/ JackSwitches \/ SetOutputMode \/ ModeSwitches

-----------------------------------------------------------------------------

(* What pd_task may make of its status, whatever it is told. *)
ContractChanges ==
  /\ \/ /\ \E state \in {"negotiating", "fallback", "unavailable"} : contract' = NoContract(state)
        /\ UNCHANGED charger
     \/ /\ contract' = [contract EXCEPT !.state = "negotiating"]
        /\ UNCHANGED charger
     \/ \E volts \in Supplies :
          /\ contract' = [state |-> "contract", explicit |-> TRUE, volts |-> volts]
          /\ charger' = [charger EXCEPT !.supply = volts]
  /\ UNCHANGED output

OutputNext ==
  \/ OutputSteps /\ UNCHANGED <<contract, charger>>
  \/ ContractChanges

OutputSpec == OutputInit /\ [][OutputNext]_<<contract, charger, output>>

(* The outputs with pd_task and its source, while nobody changes them and  *)
(* their chips obey.                                                       *)
PoweredNext ==
  \/ PlaybackTask /\ UNCHANGED <<flawed, delivery>>
  \/ PowerNext /\ UNCHANGED output

(* What has the mutex goes on; a playback may last as long as it likes. *)
OutputFair ==
  WF_output(ChooseProfile \/ StartOutput \/ ChannelFails \/ GiveSession)

PoweredSpec ==
  PowerInit /\ OutputInit /\ [][PoweredNext]_<<delivery, output>> /\ PowerFair /\ OutputFair

-----------------------------------------------------------------------------
(* Properties.                                                             *)

(* What is switched on is what the setting and the jack ask for while a    *)
(* session plays, however they change meanwhile, and nothing when none     *)
(* does, unless one of the three things flawed records happened.           *)
OutputFollows ==
  mutex = "none" /\ ~flawed =>
    /\ speaker.at = "playing" => (amp # "off") = ("amp" \in Desired) /\ aux = ("aux" \in Desired)
    /\ speaker.at = "idle" => amp = "off" /\ ~aux

(* README.md:60, "guarded USB-PD negotiation and a safe 5V amplifier       *)
(* fallback": once the negotiation has fallen back, the amplifier does not *)
(* stay on its profile for more than 5 V.                                  *)
FallbackIsSafe == []<>~(contract.state = "fallback" /\ amp = "high")

=============================================================================
