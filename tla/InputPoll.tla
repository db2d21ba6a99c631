----------------------------- MODULE InputPoll -----------------------------
(***************************************************************************)
(* wiiu_input_update as a whole (src/src/wiiu/input.c): ControllerInput    *)
(* and TouchInput share its polls.  handleTouch runs in the part for the   *)
(* GamePad, after its event and before the other controllers are read, and *)
(* not at all when the GamePad gave no sample, is disabled, or has just    *)
(* stopped the stream.                                                     *)
(***************************************************************************)
EXTENDS ControllerInput, TouchInput

CONSTANT Scenes   \* what an execution is about: "pads", "finger"

ASSUME ScenesAssumption == Scenes \subseteq {"pads", "finger"}

VARIABLE scene   \* no step changes it

pollVars == <<vars, touchVars, scene>>

\* "finger": no controller but the GamePad.  "pads": nobody touches the screen.
PollInit ==
  /\ Init /\ TouchInit
  /\ scene \in Scenes
  /\ tidy = steady
  /\ scene = "finger" => connected = {GamePad}
  /\ scene = "pads" => mouse_mode = "relative"

-----------------------------------------------------------------------------
TouchedOnly(R) == GamePad \in Active(R) /\ finger # Up   \* mutant: only a touch is handled
GamePadRead(R) == GamePad \in Active(R) /\ GamePad \notin Stops(R)

Poll(R) ==
  /\ Update(R)
  /\ IF GamePadRead(R) THEN handleTouch ELSE UNCHANGED touchVars

SomePoll == \E R \in SUBSET connected : (steady => R = connected) /\ Poll(R)

\* LiStopConnection: the host forgets what was pressed.
EndSession == StopStream /\ SessionEnds

MenuStep   == (MenuRead \/ StartStream \/ Streaming \/ ConnectionLost) /\ UNCHANGED touchVars
Buttons    == (PressHome \/ ReleaseHome) /\ UNCHANGED touchVars
PlugPad    == scene = "pads" /\ Plug /\ UNCHANGED touchVars
MoveFinger == scene = "finger" /\ Finger /\ UNCHANGED vars
Time       == Tick /\ TouchTick

PollNext == /\ SomePoll \/ EndSession \/ MenuStep \/ Buttons \/ PlugPad \/ MoveFinger \/ Time
            /\ UNCHANGED scene

PollSpec == PollInit /\ [][PollNext]_pollVars

\* As in ControllerInput: the alarm is periodic and time goes on.
FairPollSpec == /\ PollSpec
                /\ WF_pollVars(steady /\ Poll(connected) /\ UNCHANGED scene)
                /\ WF_pollVars(steady /\ Time /\ UNCHANGED scene)

-----------------------------------------------------------------------------
PollTypeOK == TypeOK /\ TouchTypeOK /\ scene \in {"pads", "finger"}

\* A finger that leaves the screen during a stream is released at the host,
\* unless the stream ends.
LiftReleases ==
  (steady /\ session = "streaming" /\ finger = Up /\ button)
    ~> (~button \/ session # "streaming")
=============================================================================
