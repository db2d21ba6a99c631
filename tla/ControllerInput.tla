-------------------------- MODULE ControllerInput --------------------------
(***************************************************************************)
(* The polling of the controllers in src/src/wiiu/input.c: which           *)
(* controller is which number for the host, and the HOME button, which is  *)
(* passed on to the host and, held for three seconds, stops the stream.    *)
(*                                                                         *)
(* wiiu_input_update is one callback of the alarm and one step here.  It   *)
(* asks every controller for a sample; a controller that has none is       *)
(* passed over, and the ones after it move up.  The time of the last press *)
(* of HOME is kept by number, in a static array that outlives sessions.    *)
(* The touch screen and the other buttons are left out.                    *)
(***************************************************************************)
EXTENDS Naturals, FiniteSets

CONSTANTS Channels,         \* controllers besides the GamePad: 4 KPAD channels
          MaxControllers,   \* 4, for the array and for the host
          HOLD              \* 3000 ms, in ticks of the model

ASSUME SizesAssumption == /\ Channels \in Nat
                          /\ MaxControllers \in Nat \ {0}
                          /\ HOLD \in Nat

GamePad == 0
Devices == 0..Channels   \* the GamePad, then the channels in their order
Numbers == 0..(MaxControllers - 1)
Ages    == 0..(HOLD + 1)   \* HOLD + 1: longer than three seconds ago

VARIABLES
  disable_gamepad,  \* the option
  steady,           \* nothing comes, goes or fails to give a sample, and
                    \* HOME is up when a stream starts
  session,          \* "menu", "starting", "streaming", "held" or "lost"
  connected, held,  \* controllers, and those whose HOME is down
  sampled,          \* those whose HOME was down in their last sample
  heldFor,          \* since when it is down
  home_pressed      \* number -> how long ago, of wiiu_input_update

setting == <<disable_gamepad, steady>>
hands   == <<connected, held, heldFor>>
vars    == <<setting, session, hands, sampled, home_pressed>>

Init == /\ disable_gamepad \in BOOLEAN /\ steady \in BOOLEAN
        /\ session = "menu"
        /\ connected \in {S \in SUBSET Devices : GamePad \in S}
        /\ held = {} /\ sampled = {}
        /\ heldFor = [d \in Devices |-> 0]
        /\ home_pressed = [n \in Numbers |-> HOLD + 1]   \* zero: at the start of time

Least(x, y) == IF x < y THEN x ELSE y

-----------------------------------------------------------------------------
(* wiiu_input_update, when the controllers of R give a sample.             *)

\* wiiu_input_num_controllers: the GamePad counts, wherever it is.
NumUncapped == Cardinality(connected \ {GamePad}) + (IF disable_gamepad THEN 0 ELSE 1)   \* mutant
num_controllers == Least(MaxControllers, NumUncapped)

Active(R) == IF disable_gamepad THEN R \ {GamePad} ELSE R

\* controllerNumber, counted up by each event.
controllerNumber(R, d) == Cardinality({e \in Active(R) : e < d})

NumberedToo(R) == {d \in Active(R) : controllerNumber(R, d) <= MaxControllers}   \* mutant
Numbered(R)    == {d \in Active(R) : controllerNumber(R, d) < MaxControllers}

TriggeredAlways(d) == d \in held   \* mutant: every poll takes HOME for just pressed
Triggered(d) == d \in held \ sampled

\* HOME is down, was not just pressed, and the array says it has been for long.
HoldsLong(R, d) == /\ d \in held /\ ~Triggered(d)
                   /\ home_pressed[controllerNumber(R, d)] > HOLD

\* The loop returns at the first such controller: the later ones are not read.
Reached(R) == {d \in R : \A e \in Numbered(R) : HoldsLong(R, e) => d <= e}
Stops(R)   == {d \in Numbered(R) \cap Reached(R) : HoldsLong(R, d)}

\* What the host is told: the mask first, then the number in each event.
gamepad_mask == 0..(num_controllers - 1)
Sent(R) == {controllerNumber(R, d) : d \in (Numbered(R) \cap Reached(R)) \ Stops(R)}

HomeIgnored(R) == home_pressed   \* mutant: the time of the press is not kept
HomeTimes(R) ==
  LET presses == {d \in Numbered(R) \cap Reached(R) : Triggered(d)}
  IN  [n \in Numbers |-> IF \E d \in presses : controllerNumber(R, d) = n
                         THEN 0 ELSE home_pressed[n]]

Update(R) ==
  /\ session \in {"streaming", "held", "lost"}
  /\ session' = IF Stops(R) # {} THEN "held" ELSE session
  /\ sampled' = (sampled \ Reached(R)) \cup (held \cap Reached(R))
  /\ home_pressed' = HomeTimes(R)
  /\ UNCHANGED <<setting, hands>>

\* Whoever has a sample: without trouble, everyone connected.
SomeUpdate == \E R \in SUBSET connected : (steady => R = connected) /\ Update(R)

-----------------------------------------------------------------------------
(* The main loop.                                                          *)

\* wiiu_input_buttons_triggered: the menu reads every controller.
MenuRead ==
  /\ session = "menu"
  /\ sampled' = (sampled \ connected) \cup held
  /\ UNCHANGED <<setting, session, hands, home_pressed>>

StartStream ==
  /\ session = "menu" /\ session' = "starting"
  /\ steady => held = {}
  /\ UNCHANGED <<setting, hands, sampled, home_pressed>>

Streaming ==
  /\ session = "starting" /\ session' = "streaming"
  /\ UNCHANGED <<setting, hands, sampled, home_pressed>>

ConnectionLost ==
  /\ session = "streaming" /\ session' = "lost"
  /\ UNCHANGED <<setting, hands, sampled, home_pressed>>

StopStream ==
  /\ session \in {"held", "lost"} /\ session' = "menu"
  /\ UNCHANGED <<setting, hands, sampled, home_pressed>>

-----------------------------------------------------------------------------
(* The players, and time.                                                  *)

\* In the menus HOME leaves the program.  Between a release and the next press
\* there is time for a poll.
PressHome ==
  /\ session # "menu"
  /\ \E d \in connected \ (held \cup sampled) :
       held' = held \cup {d} /\ heldFor' = [heldFor EXCEPT ![d] = 0]
  /\ UNCHANGED <<setting, session, connected, sampled, home_pressed>>

ReleaseHome ==
  /\ \E d \in held : held' = held \ {d} /\ heldFor' = [heldFor EXCEPT ![d] = 0]
  /\ UNCHANGED <<setting, session, connected, sampled, home_pressed>>

\* A pad comes, or goes and forgets its last sample.
Plug ==
  /\ ~steady
  /\ \E d \in Devices \ {GamePad} :
       \/ d \notin connected /\ connected' = connected \cup {d}
          /\ UNCHANGED <<held, sampled, heldFor>>
       \/ d \in connected /\ connected' = connected \ {d}
          /\ held' = held \ {d} /\ sampled' = sampled \ {d}
          /\ heldFor' = [heldFor EXCEPT ![d] = 0]
  /\ UNCHANGED <<setting, session, home_pressed>>

Older(age) == Least(HOLD + 1, age + 1)

Tick ==
  /\ heldFor' = [d \in Devices |-> IF d \in held THEN Older(heldFor[d]) ELSE 0]
  /\ home_pressed' = [n \in Numbers |-> Older(home_pressed[n])]
  /\ UNCHANGED <<setting, session, connected, held, sampled>>

MainLoop == MenuRead \/ StartStream \/ Streaming \/ ConnectionLost \/ StopStream
Players  == PressHome \/ ReleaseHome \/ Plug

Next == SomeUpdate \/ MainLoop \/ Players \/ Tick

Spec == Init /\ [][Next]_vars

\* The alarm is periodic and time goes on.  (Where samples fail, nothing is said
\* of how often the alarm finds them.)
FairSpec == Spec /\ WF_vars(steady /\ Update(connected)) /\ WF_vars(steady /\ Tick)

-----------------------------------------------------------------------------
TypeOK ==
  /\ disable_gamepad \in BOOLEAN /\ steady \in BOOLEAN
  /\ session \in {"menu", "starting", "streaming", "held", "lost"}
  /\ connected \subseteq Devices /\ held \subseteq connected /\ sampled \subseteq Devices
  /\ heldFor \in [Devices -> Ages]
  /\ home_pressed \in [Numbers -> Ages]
  /\ gamepad_mask \subseteq Numbers

\* Whatever poll comes next, the host is told of every controller whose events
\* it gets: the mask is counted by other calls than the ones that give samples.
NumbersInMask == \A R \in SUBSET connected : Sent(R) \subseteq gamepad_mask

\* "If the button was just pressed, reset to current time" (input.c:157): the
\* stream is stopped only for a HOME button that somebody has held that long.
HomeStopNeedsHold ==
  [][session # "held" /\ session' = "held" => \E d \in held : heldFor[d] > HOLD]_vars

\* That much is so, over any number of sessions, as long as no controller's
\* number shifts.
SteadyStopNeedsHold ==
  [][steady /\ session # "held" /\ session' = "held" => \E d \in held : heldFor[d] > HOLD]_vars

\* The way out of a stream works: a numbered controller whose HOME stays down
\* stops it, although HOME is disabled for everything else.
HeldHomeStops ==
  \A d \in Devices :
    (steady /\ session = "streaming" /\ d \in held \cap Numbered(connected))
      ~> (session # "streaming" \/ d \notin held)
=============================================================================
