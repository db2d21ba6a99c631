--------------------------- MODULE InputPollProofs ---------------------------
(***************************************************************************)
(* What the polls of the input guarantee, for any number of controllers,   *)
(* of numbers and of ticks, and for any width of the screen, any distance  *)
(* and any time of a touch.  First ControllerInput, then TouchInput; then  *)
(* the poll of both: a poll of the controllers, and a sample of the touch  *)
(* screen or none.  So wiiu_input_update as a whole has what is shown of   *)
(* its two halves.                                                         *)
(***************************************************************************)
EXTENDS InputPoll, FiniteSetTheorems, TLAPS

-----------------------------------------------------------------------------
(* ControllerInput.  The mask is counted from who is connected and the     *)
(* numbers from who gives a sample; that the second are always within the  *)
(* first is a matter of counting subsets.                                  *)

\* The devices are finitely many.
LEMMA DevicesFinite == IsFiniteSet(Devices) /\ GamePad \in Devices
  BY FS_Interval, SizesAssumption DEF Devices, GamePad

\* Those that may give samples, as the mask counts them.
Counted == (connected \ {GamePad}) \cup (IF disable_gamepad THEN {} ELSE {GamePad})

\* NumUncapped is how many there are.
LEMMA CountedNumber ==
  ASSUME connected \subseteq Devices
  PROVE  /\ IsFiniteSet(Counted)
         /\ NumUncapped \in Nat
         /\ Cardinality(Counted) = NumUncapped
<1> DEFINE C == connected \ {GamePad}
<1>1. IsFiniteSet(C) /\ Cardinality(C) \in Nat
  <2>1. C \in SUBSET Devices
    OBVIOUS
  <2>. QED
    BY <2>1, DevicesFinite, FS_Subset, FS_CardinalityType
<1>2. CASE disable_gamepad
  <2>1. Counted = C /\ NumUncapped = Cardinality(C) + 0
    BY <1>2 DEF Counted, NumUncapped
  <2>. QED
    BY <1>1, <2>1
<1>3. CASE ~disable_gamepad
  <2>1. Counted = C \cup {GamePad} /\ NumUncapped = Cardinality(C) + 1
    BY <1>3 DEF Counted, NumUncapped
  <2>2. GamePad \notin C
    OBVIOUS
  <2>3. IsFiniteSet(C \cup {GamePad}) /\ Cardinality(C \cup {GamePad}) = Cardinality(C) + 1
    BY <1>1, <2>2, FS_AddElement
  <2>. QED
    BY <1>1, <2>1, <2>3
<1>. QED
  BY <1>2, <1>3

\* The number of a controller is less than the count: it is not among those
\* before it.
LEMMA NumberBelowCount ==
  ASSUME connected \subseteq Devices, NEW R \in SUBSET connected, NEW d \in Active(R)
  PROVE  controllerNumber(R, d) \in Nat /\ controllerNumber(R, d) < NumUncapped
<1> DEFINE T == {e \in Active(R) : e < d}
<1>1. Active(R) \subseteq Counted /\ d \in Counted
  BY DEF Active, Counted
<1>2. d \in Nat /\ ~(d < d)
  BY SizesAssumption DEF Active, Devices
<1>3. T \in SUBSET Counted /\ T # Counted
  BY <1>1, <1>2
<1>4. Cardinality(T) <= Cardinality(Counted) /\ Cardinality(T) # Cardinality(Counted) /\ IsFiniteSet(T)
  BY <1>3, CountedNumber, FS_Subset
<1>5. Cardinality(T) \in Nat
  BY <1>4, FS_CardinalityType
<1>. QED
  BY <1>4, <1>5, CountedNumber DEF controllerNumber

-----------------------------------------------------------------------------
(* Types.                                                                  *)

\* The types of the variables.
FlagsOK == /\ disable_gamepad \in BOOLEAN /\ steady \in BOOLEAN
           /\ session \in {"menu", "starting", "streaming", "held", "lost"}
SetsOK  == connected \subseteq Devices /\ held \subseteq connected /\ sampled \subseteq Devices
AgesOK  == heldFor \in [Devices -> Ages] /\ home_pressed \in [Numbers -> Ages]

\* The mask has no number the host does not know.
LEMMA MaskType == SetsOK => gamepad_mask \subseteq Numbers
  BY CountedNumber, SizesAssumption DEF SetsOK, gamepad_mask, Numbers, num_controllers, Least

\* Time passes within the ages.
LEMMA AgeType ==
  ASSUME NEW a \in Ages
  PROVE  Older(a) \in Ages /\ 0 \in Ages
  BY SizesAssumption DEF Ages, Older, Least

\* The initial states have these types.
LEMMA InitTypeOK == Init => TypeOK
<1> SUFFICES ASSUME Init
             PROVE  TypeOK
  OBVIOUS
<1>1. FlagsOK /\ SetsOK
  BY DEF Init, FlagsOK, SetsOK
<1>2. AgesOK
  BY SizesAssumption DEF Init, AgesOK, Ages
<1>. QED
  BY <1>1, <1>2, MaskType DEF FlagsOK, SetsOK, AgesOK, TypeOK

\* Every step keeps them.
LEMMA NextTypeOK == TypeOK /\ [Next]_vars => TypeOK'
<1> SUFFICES ASSUME TypeOK, [Next]_vars
             PROVE  TypeOK'
  OBVIOUS
<1>1. FlagsOK'
  BY DEF TypeOK, FlagsOK, Next, SomeUpdate, Update, MainLoop, MenuRead, StartStream, Streaming,
         ConnectionLost, StopStream, Players, PressHome, ReleaseHome, Plug, Tick, vars, setting
<1>2. SetsOK'
  <2>1. CASE SomeUpdate
    <3>1. PICK R \in SUBSET connected : Update(R)
      BY <2>1 DEF SomeUpdate
    <3>. QED
      BY <3>1 DEF TypeOK, SetsOK, Update, hands
  <2>2. CASE Players \/ Tick
    BY <2>2 DEF TypeOK, SetsOK, Players, PressHome, ReleaseHome, Plug, Tick
  <2>3. CASE MainLoop \/ UNCHANGED vars
    BY <2>3 DEF TypeOK, SetsOK, MainLoop, MenuRead, StartStream, Streaming, ConnectionLost,
                StopStream, vars, hands
  <2>. QED
    BY <2>1, <2>2, <2>3 DEF Next
<1>3. AgesOK'
  <2>1. CASE SomeUpdate
    <3>1. PICK R \in SUBSET connected : Update(R)
      BY <2>1 DEF SomeUpdate
    <3>2. 0 \in Ages
      BY SizesAssumption DEF Ages
    <3>3. home_pressed' \in [Numbers -> Ages]
      BY <3>1, <3>2 DEF TypeOK, Update, HomeTimes
    <3>. QED
      BY <3>1, <3>3 DEF TypeOK, AgesOK, Update, hands
  <2>2. CASE Tick
    <3>1. heldFor' \in [Devices -> Ages] /\ home_pressed' \in [Numbers -> Ages]
      BY <2>2, AgeType DEF TypeOK, Tick
    <3>. QED
      BY <3>1 DEF AgesOK
  <2>3. CASE Players
    BY <2>3, AgeType DEF TypeOK, AgesOK, Players, PressHome, ReleaseHome, Plug
  <2>4. CASE MainLoop \/ UNCHANGED vars
    BY <2>4 DEF TypeOK, AgesOK, MainLoop, MenuRead, StartStream, Streaming, ConnectionLost,
                StopStream, vars, hands
  <2>. QED
    BY <2>1, <2>2, <2>3, <2>4 DEF Next
<1>4. (gamepad_mask \subseteq Numbers)'
  BY <1>2, MaskType, PTL
<1>. QED
  BY <1>1, <1>2, <1>3, <1>4 DEF FlagsOK, SetsOK, AgesOK, TypeOK

\* Every variable keeps its type.
THEOREM ControllersTypeCorrect == Spec => []TypeOK
  BY InitTypeOK, NextTypeOK, PTL DEF Spec

\* In every state, whichever controllers give a sample next, the host has been
\* told of each number it gets an event for.
THEOREM NumbersToldOf == Spec => []NumbersInMask
<1>1. TypeOK => NumbersInMask
  <2> SUFFICES ASSUME TypeOK, NEW R \in SUBSET connected, NEW n \in Sent(R)
               PROVE  n \in gamepad_mask
    BY DEF NumbersInMask
  <2>1. PICK d \in Numbered(R) : n = controllerNumber(R, d)
    BY DEF Sent
  <2>2. d \in Active(R) /\ n < MaxControllers
    BY <2>1 DEF Numbered
  <2>3. n \in Nat /\ n < NumUncapped
    BY <2>1, <2>2, NumberBelowCount DEF TypeOK
  <2>4. NumUncapped \in Nat
    BY CountedNumber DEF TypeOK
  <2>. QED
    BY <2>2, <2>3, <2>4, SizesAssumption DEF gamepad_mask, num_controllers, Least
<1>. QED
  BY <1>1, ControllersTypeCorrect, PTL

-----------------------------------------------------------------------------
(* HOME, where nothing comes, goes or fails to give a sample.              *)

\* A HOME button whose press was seen has been down at least as long as the
\* array says.  In the menus the press may have been seen by another reader.
TimesKept ==
  steady /\ session # "menu" =>
    \A d \in held \cap sampled \cap Numbered(connected) :
      home_pressed[controllerNumber(connected, d)] <= heldFor[d]

\* Every step keeps it so.
LEMMA NextTimesKept == TypeOK /\ TimesKept /\ [Next]_vars => TimesKept'
<1> SUFFICES ASSUME TypeOK, TimesKept, [Next]_vars, steady', session' # "menu",
                    NEW d \in held' \cap sampled' \cap Numbered(connected)'
             PROVE  home_pressed'[controllerNumber(connected, d)'] <= heldFor'[d]
  BY DEF TimesKept
<1>1. steady /\ connected' = connected /\ disable_gamepad' = disable_gamepad
  BY DEF Next, SomeUpdate, Update, MainLoop, MenuRead, StartStream, Streaming, ConnectionLost,
         StopStream, Players, PressHome, ReleaseHome, Plug, Tick, vars, setting, hands
<1> DEFINE n == controllerNumber(connected, d)
<1>2. d \in Numbered(connected) /\ n = controllerNumber(connected, d)'
  BY <1>1 DEF Numbered, controllerNumber, Active
<1>3. n \in Numbers /\ d \in Devices
  <2>1. d \in Active(connected) /\ n < MaxControllers
    BY <1>2 DEF Numbered
  <2>2. n \in Nat
    BY <2>1, NumberBelowCount DEF TypeOK
  <2>. QED
    BY <2>1, <2>2, SizesAssumption DEF Numbers, Active, TypeOK
<1>4. heldFor[d] \in Ages /\ home_pressed[n] \in Ages
  BY <1>3 DEF TypeOK
<1>. HIDE DEF n
<1>5. ASSUME session # "menu", d \in held, d \in sampled
      PROVE  home_pressed[n] <= heldFor[d]
  BY <1>1, <1>2, <1>5 DEF TimesKept, n
<1>6. CASE SomeUpdate
  <2>1. Update(connected)
    BY <1>1, <1>6 DEF SomeUpdate
  <2>2. session # "menu" /\ held' = held /\ heldFor' = heldFor /\ home_pressed' = HomeTimes(connected)
    BY <2>1 DEF Update, hands
  <2>3. CASE d \in sampled
    <3>1. home_pressed'[n] \in {0, home_pressed[n]}
      BY <1>3, <2>2 DEF HomeTimes
    <3>. QED
      BY <1>2, <1>4, <1>5, <2>2, <2>3, <3>1 DEF Ages
  <2>4. CASE d \notin sampled
    <3>1. d \in held \cap Reached(connected)
      BY <2>1, <2>2, <2>4 DEF Update
    <3>2. d \in {e \in Numbered(connected) \cap Reached(connected) : Triggered(e)}
      BY <1>2, <2>4, <3>1 DEF Triggered
    <3>3. home_pressed'[n] = 0
      BY <1>3, <2>2, <3>2 DEF HomeTimes, n
    <3>. QED
      BY <1>2, <1>4, <2>2, <3>3 DEF Ages
  <2>. QED
    BY <2>3, <2>4
<1>7. CASE Tick
  <2>1. /\ session # "menu" /\ d \in held /\ d \in sampled
        /\ heldFor'[d] = Older(heldFor[d]) /\ home_pressed'[n] = Older(home_pressed[n])
    BY <1>3, <1>7 DEF Tick
  <2>. QED
    BY <1>2, <1>4, <1>5, <2>1, SizesAssumption DEF Older, Least, Ages
<1>8. CASE Players
  <2>1. session # "menu" /\ sampled' = sampled /\ home_pressed' = home_pressed
    BY <1>1, <1>8 DEF Players, PressHome, ReleaseHome, Plug
  <2>2. d \in held /\ heldFor'[d] = heldFor[d]
    BY <1>1, <1>3, <1>8 DEF Players, PressHome, ReleaseHome, Plug, TypeOK
  <2>. QED
    BY <1>2, <1>5, <2>1, <2>2
<1>9. CASE MainLoop
  <2>1. held' = held /\ heldFor' = heldFor /\ home_pressed' = home_pressed
    BY <1>9 DEF MainLoop, MenuRead, StartStream, Streaming, ConnectionLost, StopStream, hands
  <2>2. session # "menu" /\ sampled' = sampled
    BY <1>1, <1>9, <2>1 DEF MainLoop, MenuRead, StartStream, Streaming, ConnectionLost, StopStream
  <2>. QED
    BY <1>2, <1>5, <2>1, <2>2
<1>10. CASE UNCHANGED vars
  BY <1>2, <1>5, <1>10 DEF vars, setting, hands
<1>. QED
  BY <1>6, <1>7, <1>8, <1>9, <1>10 DEF Next

\* Over any number of sessions the stream is stopped only for a HOME button that
\* somebody has held for more than three seconds.
THEOREM StopNeedsHold == Spec => SteadyStopNeedsHold
<1> DEFINE Held == steady /\ session # "held" /\ session' = "held" =>
                     \E d \in held : heldFor[d] > HOLD
<1>1. Init => TimesKept
  BY DEF Init, TimesKept
<1>2. TypeOK /\ TimesKept /\ [Next]_vars => [Held]_vars
  <2> SUFFICES ASSUME TypeOK, TimesKept, Next, steady, session # "held", session' = "held"
               PROVE  \E d \in held : heldFor[d] > HOLD
    OBVIOUS
  <2>1. SomeUpdate
    BY DEF Next, MainLoop, MenuRead, StartStream, Streaming, ConnectionLost, StopStream, Players,
           PressHome, ReleaseHome, Plug, Tick
  <2>2. Update(connected) /\ Stops(connected) # {} /\ session # "menu"
    BY <2>1 DEF SomeUpdate, Update
  <2>3. PICK d \in Numbered(connected) : HoldsLong(connected, d)
    BY <2>2 DEF Stops
  <2>4. d \in held \cap sampled /\ home_pressed[controllerNumber(connected, d)] > HOLD
    BY <2>3 DEF HoldsLong, Triggered
  <2>5. home_pressed[controllerNumber(connected, d)] <= heldFor[d]
    BY <2>2, <2>4 DEF TimesKept
  <2>6. heldFor[d] \in Ages /\ home_pressed[controllerNumber(connected, d)] \in Ages
    <3>1. d \in Active(connected) /\ controllerNumber(connected, d) < MaxControllers
      BY DEF Numbered
    <3>2. controllerNumber(connected, d) \in Nat
      BY <3>1, NumberBelowCount DEF TypeOK
    <3>. QED
      BY <3>1, <3>2, SizesAssumption DEF TypeOK, Numbers, Active
  <2>. QED
    BY <2>4, <2>5, <2>6, SizesAssumption DEF Ages
<1>. QED
  BY <1>1, <1>2, NextTimesKept, ControllersTypeCorrect, PTL DEF Spec, SteadyStopNeedsHold

-----------------------------------------------------------------------------
(* TouchInput: nothing stays pressed, a touch is a click or a drag, and a  *)
(* drag moves the mouse by the way of the finger.                          *)

\* The moves of a touch start somewhere on the screen.
OnScreen == pull # NoPull => \E x \in Positions : pull = last_x - x

\* A touch that has moved the mouse is a drag, or too old for a tap.
NoTapAfterPull == pull # NoPull => touchDownMillis = Dragged \/ touchDownMillis > TAP_MILLIS

\* The variables but `pull`, which OnScreen is about.
StaticsOK == /\ tidy \in BOOLEAN /\ mouse_mode \in Modes /\ touched \in BOOLEAN /\ button \in BOOLEAN
             /\ sent \in {"nothing", "press", "hover", "release", "click", "move"}
PlacesOK  == /\ lastTouched \in 0..2 /\ last_x \in Positions
             /\ touchDownMillis \in TouchAges \cup {Dragged}
             /\ finger \in Positions \cup {Up} /\ settled \in Positions \cup {Up}

TInv == StaticsOK /\ PlacesOK /\ OnScreen /\ NoTapAfterPull /\ HostAgrees /\ PointerFollows

-----------------------------------------------------------------------------
\* At first nobody touches the screen.
LEMMA InitTInv == TouchInit => TInv
<1> SUFFICES ASSUME TouchInit
             PROVE  TInv
  OBVIOUS
<1>1. StaticsOK
  BY Zenon DEF TouchInit, StaticsOK
<1>2. PlacesOK
  BY TouchAssumption DEF TouchInit, PlacesOK, Positions
<1>3. OnScreen /\ NoTapAfterPull /\ PointerFollows
  BY DEF TouchInit, OnScreen, NoTapAfterPull, PointerFollows
<1>4. HostAgrees
  BY Zenon DEF TouchInit, HostAgrees
<1>. QED
  BY <1>1, <1>2, <1>3, <1>4 DEF TInv

\* The modes that do not pull the mouse.
LEMMA DirectTInv ==
  ASSUME TInv, Direct, UNCHANGED <<tidy, mouse_mode, finger>>
  PROVE  TInv'
<1>1. UNCHANGED <<lastTouched, last_x, touchDownMillis, settled, pull>>
  BY DEF Direct
<1>2. StaticsOK' /\ HostAgrees'
  <2>. USE DEF TInv, StaticsOK, HostAgrees
  <2>1. CASE Press
    BY <2>1 DEF Press, PressNoted
  <2>2. CASE Hover
    BY <2>2 DEF Hover
  <2>3. CASE Release
    BY <2>3 DEF Release
  <2>4. CASE NoTouch
    BY <2>4 DEF NoTouch
  <2>. QED
    BY <2>1, <2>2, <2>3, <2>4 DEF Direct
<1>3. PlacesOK' /\ NoTapAfterPull' /\ PointerFollows' /\ OnScreen'
  BY <1>1 DEF TInv, PlacesOK, NoTapAfterPull, PointerFollows, OnScreen
<1>. QED
  BY <1>2, <1>3 DEF TInv

\* The mode that does.
LEMMA RelativeTInv ==
  ASSUME TInv, Relative, UNCHANGED <<tidy, mouse_mode, finger>>
  PROVE  TInv'
<1>1. HostAgrees'
  BY DEF TInv, HostAgrees, Relative
<1>2. CASE JustPressed
  BY <1>1, <1>2, TouchAssumption
  DEF JustPressed, Settling, Relative, TInv, StaticsOK, PlacesOK, OnScreen, NoTapAfterPull,
      PointerFollows, TouchAges, Positions
<1>3. CASE JustReleased
  BY <1>1, <1>3
  DEF JustReleased, Relative, TInv, StaticsOK, PlacesOK, OnScreen, NoTapAfterPull, PointerFollows
<1>4. CASE Untouched
  BY <1>1, <1>4
  DEF Untouched, Relative, TInv, StaticsOK, PlacesOK, OnScreen, NoTapAfterPull, PointerFollows
<1>5. CASE Pull
  <2>1. finger \in Positions /\ last_x \in Positions /\ last_x' = finger /\ finger' = finger
    BY <1>5 DEF Pull, TInv, PlacesOK
  <2>2. StaticsOK' /\ PlacesOK'
    BY <1>5, <2>1 DEF Pull, Relative, TInv, StaticsOK, PlacesOK
  <2>3. NoTapAfterPull'
    BY <1>5 DEF Pull, Pulls, TInv, PlacesOK, NoTapAfterPull, TouchAges
  <2>4. CASE finger = last_x
    BY <1>1, <1>5, <2>1, <2>2, <2>3, <2>4 DEF Pull, TInv, OnScreen, PointerFollows
  <2>5. CASE finger # last_x
    <3>1. PICK y \in Int : /\ y = IF pull = NoPull THEN 0 ELSE pull
                           /\ \E x \in Positions : y = last_x - x
      <4>1. CASE pull = NoPull
        BY <2>1, <4>1 DEF Positions
      <4>2. CASE pull # NoPull
        <5>1. PICK x \in Positions : pull = last_x - x
          BY <4>2 DEF TInv, OnScreen
        <5>. QED
          BY <2>1, <4>2, <5>1 DEF Positions
      <4>. QED
        BY <4>1, <4>2
    <3>2. pull' = y + (finger - last_x)
      BY <1>5, <2>5, <3>1 DEF Pull, Pulled
    <3>3. PICK x \in Positions : y = last_x - x
      BY <3>1
    <3>4. pull' = last_x' - x /\ pull' \in Int /\ pull' # NoPull
      BY <2>1, <3>2, <3>3, TouchAssumption DEF Positions
    <3>5. OnScreen'
      BY <3>4 DEF OnScreen
    <3>6. PointerFollows'
      <4> SUFFICES ASSUME tidy, lastTouched > 0
                   PROVE  settled # Up /\ last_x' - settled = pull'
        BY <1>5, <3>4 DEF PointerFollows, Pull, Relative
      <4>1. settled # Up /\ last_x - settled = y
        BY <1>5, <3>1 DEF TInv, PointerFollows, Pull
      <4>2. settled \in Positions
        BY <4>1 DEF TInv, PlacesOK
      <4>. QED
        BY <2>1, <3>2, <4>1, <4>2 DEF Positions
    <3>. QED
      BY <1>1, <2>2, <2>3, <3>5, <3>6 DEF TInv
  <2>. QED
    BY <2>4, <2>5
<1>6. CASE Decide
  <2>1. pull = NoPull
    BY <1>6 DEF Decide, Pulls, TInv, NoTapAfterPull
  <2>. QED
    BY <1>1, <1>6, <2>1
    DEF Decide, Waits, Relative, TInv, StaticsOK, PlacesOK, OnScreen, NoTapAfterPull,
        PointerFollows
<1>. QED
  BY <1>2, <1>3, <1>4, <1>5, <1>6 DEF Relative

\* Time, the finger and the ends of sessions.
LEMMA OutsideTInv ==
  ASSUME TInv, Finger \/ TouchTick \/ SessionEnds
  PROVE  TInv'
<1>1. CASE Finger
  BY <1>1
  DEF Finger, statics, Clean, TInv, StaticsOK, PlacesOK, OnScreen, NoTapAfterPull, HostAgrees,
      PointerFollows
<1>2. CASE TouchTick
  <2>1. touchDownMillis' \in TouchAges \cup {Dragged} /\ NoTapAfterPull'
    BY <1>2, TouchAssumption DEF TouchTick, Aged, TInv, PlacesOK, NoTapAfterPull, TouchAges
  <2>. QED
    BY <1>2, <2>1
    DEF TouchTick, TInv, StaticsOK, PlacesOK, OnScreen, HostAgrees, PointerFollows
<1>3. CASE SessionEnds
  BY <1>3
  DEF SessionEnds, statics, Clean, TInv, StaticsOK, PlacesOK, OnScreen, NoTapAfterPull, HostAgrees,
      PointerFollows
<1>. QED
  BY <1>1, <1>2, <1>3

\* Every step keeps the invariant.
LEMMA NextTInv == TInv /\ [TouchNext]_touchVars => TInv'
<1> SUFFICES ASSUME TInv, [TouchNext]_touchVars
             PROVE  TInv'
  OBVIOUS
<1>1. CASE UNCHANGED touchVars
  BY <1>1
  DEF touchVars, statics, touchHost, TInv, StaticsOK, PlacesOK, OnScreen, NoTapAfterPull,
      HostAgrees, PointerFollows
<1>. QED
  BY <1>1, DirectTInv, RelativeTInv, OutsideTInv DEF TouchNext, handleTouch

-----------------------------------------------------------------------------
\* The invariant holds in every reachable state.
THEOREM TouchInvariance == TouchSpec => []TInv
  BY InitTInv, NextTInv, PTL DEF TouchSpec

\* The sum of the moves never leaves the width of the screen, and every variable
\* keeps its type.
THEOREM TouchTypeCorrect == TouchSpec => []TouchTypeOK
<1>1. TInv => TouchTypeOK
  BY TouchAssumption DEF TInv, StaticsOK, PlacesOK, OnScreen, TouchTypeOK, Positions
<1>. QED
  BY <1>1, TouchInvariance, PTL

\* Nothing is down at the host that handleTouch would not release.
THEOREM NothingStaysPressed == TouchSpec => []HostAgrees
<1>1. TInv => HostAgrees
  BY DEF TInv
<1>. QED
  BY <1>1, TouchInvariance, PTL

\* The mouse is moved by the way of the finger.
THEOREM MovesAddUp == TouchSpec => []PointerFollows
<1>1. TInv => PointerFollows
  BY DEF TInv
<1>. QED
  BY <1>1, TouchInvariance, PTL

\* What has moved the mouse does not click.
THEOREM NeverBoth == TouchSpec => ClickOrDrag
<1>1. TInv /\ [TouchNext]_touchVars => [sent' = "click" => pull = NoPull]_touchVars
  <2> SUFFICES ASSUME TInv, TouchNext, sent' = "click"
               PROVE  pull = NoPull
    OBVIOUS
  <2>1. CASE handleTouch
    <3>1. JustReleased
      BY <2>1 DEF handleTouch, Direct, Press, Hover, Release, NoTouch, Relative, JustPressed,
                  Untouched, Pull, Decide
    <3>2. IsTap
      BY <3>1 DEF JustReleased
    <3>. QED
      BY <3>2, TouchAssumption DEF IsTap, TInv, NoTapAfterPull, PlacesOK, TouchAges
  <2>2. CASE Finger \/ TouchTick \/ SessionEnds
    BY <2>2 DEF Finger, TouchTick, SessionEnds
  <2>. QED
    BY <2>1, <2>2 DEF TouchNext
<1>. QED
  BY <1>1, TouchInvariance, PTL DEF TouchSpec, ClickOrDrag

-----------------------------------------------------------------------------
(* The poll as a whole.                                                    *)

\* Every step is a step of the controllers' half, or leaves it alone.
LEMMA PollStepsControllers == [PollNext]_pollVars => [Next]_vars
<1> SUFFICES ASSUME [PollNext]_pollVars
             PROVE  [Next]_vars
  OBVIOUS
<1>1. CASE SomePoll
  BY <1>1 DEF SomePoll, Poll, SomeUpdate, Next
<1>2. CASE EndSession \/ MenuStep \/ Buttons \/ PlugPad \/ Time
  BY <1>2 DEF EndSession, MenuStep, Buttons, PlugPad, Time, Next, MainLoop, Players
<1>3. CASE MoveFinger \/ UNCHANGED pollVars
  BY <1>3 DEF MoveFinger, pollVars
<1>. QED
  BY <1>1, <1>2, <1>3 DEF PollNext

\* And a step of the touch screen's half, or leaves that alone.
LEMMA PollStepsTouch == [PollNext]_pollVars => [TouchNext]_touchVars
<1> SUFFICES ASSUME [PollNext]_pollVars
             PROVE  [TouchNext]_touchVars
  OBVIOUS
<1>1. CASE SomePoll
  BY <1>1 DEF SomePoll, Poll, TouchNext
<1>2. CASE EndSession \/ MenuStep \/ Buttons \/ PlugPad \/ Time \/ MoveFinger
  BY <1>2 DEF EndSession, MenuStep, Buttons, PlugPad, Time, MoveFinger, TouchNext
<1>3. CASE UNCHANGED pollVars
  BY <1>3 DEF pollVars
<1>. QED
  BY <1>1, <1>2, <1>3 DEF PollNext

\* The polls implement both halves.
THEOREM PollImplementsHalves == PollSpec => Spec /\ TouchSpec
<1>1. PollInit => Init /\ TouchInit
  BY DEF PollInit
<1>. QED
  BY <1>1, PollStepsControllers, PollStepsTouch, PTL DEF PollSpec, Spec, TouchSpec

\* Every variable keeps its type.
THEOREM PollTypeCorrect == PollSpec => []PollTypeOK
<1>1. PollInit => scene \in {"pads", "finger"}
  BY ScenesAssumption DEF PollInit
<1>2. scene \in {"pads", "finger"} /\ [PollNext]_pollVars => (scene \in {"pads", "finger"})'
  BY DEF PollNext, pollVars
<1>3. TypeOK /\ TouchTypeOK /\ scene \in {"pads", "finger"} => PollTypeOK
  BY DEF PollTypeOK
<1>. QED
  BY <1>1, <1>2, <1>3, PollImplementsHalves, ControllersTypeCorrect, TouchTypeCorrect, PTL
  DEF PollSpec

\* The numbers of a poll are in its mask, whoever else is touching the screen.
THEOREM PollNumbersToldOf == PollSpec => []NumbersInMask
  BY PollImplementsHalves, NumbersToldOf, PTL

\* A stream is stopped only by HOME held long, whoever else is touching the
\* screen.
THEOREM PollStopNeedsHold == PollSpec => SteadyStopNeedsHold
  BY PollImplementsHalves, StopNeedsHold, PTL

\* The host's button or contact is what handleTouch remembers, although polls
\* may pass the touch screen over and sessions may end.
THEOREM PollHostAgrees == PollSpec => []HostAgrees
  BY PollImplementsHalves, NothingStaysPressed, PTL

\* A touch that polls cut into samples moves the mouse by the finger's way, and
\* is never both a click and a drag.
THEOREM PollTouches == PollSpec => []PointerFollows /\ ClickOrDrag
  BY PollImplementsHalves, MovesAddUp, NeverBoth, PTL
=============================================================================
