----------------------------- MODULE TouchInput -----------------------------
(***************************************************************************)
(* The touch screen of the GamePad: handleTouch in src/src/wiiu/input.c,   *)
(* which a poll of the controllers calls with one sample.  In the modes    *)
(* "absolute" and "touchscreen" the finger is the host's left button or    *)
(* touch contact; in "relative" a short touch is a click and a longer or a *)
(* wider one pulls the mouse.  The static variables outlive a session; the *)
(* host starts every session with nothing pressed.                         *)
(*                                                                         *)
(* Both axes are treated alike and summed: a position is one number.  The  *)
(* time of the touch is kept as an age, one more than TAP_MILLIS for all   *)
(* that is older.                                                          *)
(***************************************************************************)
EXTENDS Integers

CONSTANTS WIDTH,          \* positions 0..WIDTH
          TAP_MILLIS, DRAG_DISTANCE,
          Up,             \* no finger on the screen
          Dragged,        \* touchDownMillis = 0
          NoPull          \* the touch has not moved the mouse

ASSUME TouchAssumption == /\ WIDTH \in Nat /\ DRAG_DISTANCE \in Nat
                          /\ TAP_MILLIS \in Nat \ {0}
                          /\ Up \notin Int /\ Dragged \notin Int /\ NoPull \notin Int

VARIABLES
  tidy,             \* no touch is under way when a session ends or is missed
  mouse_mode,       \* the option
  touched,          \* the host has been told of a finger
  lastTouched,      \* samples of this touch, up to 2
  last_x,           \* position of the last sample that counted
  touchDownMillis,  \* its age when the touch settled, or Dragged
  finger,           \* where the finger is, or Up
  button,           \* the host's left button, or touch contact, is down
  settled,          \* where the finger was when this touch settled, or Up
  pull,             \* sum of the moves sent for this touch, or NoPull
  sent              \* what the last sample has sent

statics   == <<touched, lastTouched, last_x, touchDownMillis>>
touchHost == <<button, settled, pull, sent>>
touchVars == <<tidy, mouse_mode, statics, finger, touchHost>>

Positions == 0..WIDTH
Modes     == {"relative", "absolute", "touchscreen"}
TouchAges == 0..(TAP_MILLIS + 1)

TouchInit ==
  /\ tidy \in BOOLEAN /\ mouse_mode \in Modes
  /\ touched = FALSE /\ lastTouched = 0 /\ last_x = 0 /\ touchDownMillis = Dragged
  /\ finger = Up /\ button = FALSE /\ settled = Up /\ pull = NoPull /\ sent = "nothing"

-----------------------------------------------------------------------------
(* Absolute and touchscreen.                                               *)

PressForgotten == UNCHANGED touched   \* mutant: the press is not noted
PressNoted     == touched' = TRUE

Press ==
  /\ finger # Up /\ ~touched
  /\ PressNoted /\ button' = TRUE /\ sent' = "press"

\* The position alone: a mouse move, or the move of a contact.
Hover ==
  /\ finger # Up /\ touched
  /\ sent' = "hover" /\ UNCHANGED <<touched, button>>

Release ==
  /\ finger = Up /\ touched
  /\ touched' = FALSE /\ button' = FALSE /\ sent' = "release"

NoTouch == finger = Up /\ ~touched /\ sent' = "nothing" /\ UNCHANGED <<touched, button>>

Direct == /\ mouse_mode # "relative"
          /\ Press \/ Hover \/ Release \/ NoTouch
          /\ UNCHANGED <<lastTouched, last_x, touchDownMillis, settled, pull>>

-----------------------------------------------------------------------------
(* Relative.                                                               *)

SettlesLonger == lastTouched <= 2   \* mutant: off by one
Settling      == lastTouched < 2

\* The first two samples only let the position settle.
JustPressed ==
  /\ Settling /\ finger # Up
  /\ lastTouched' = lastTouched + 1 /\ touchDownMillis' = 0 /\ last_x' = finger
  /\ settled' = finger /\ pull' = NoPull /\ sent' = "nothing"

IsTap == touchDownMillis # Dragged /\ touchDownMillis < TAP_MILLIS

JustReleased ==
  /\ lastTouched > 0 /\ finger = Up
  /\ sent' = IF IsTap THEN "click" ELSE "nothing"
  /\ lastTouched' = 0
  /\ UNCHANGED <<last_x, touchDownMillis, settled, pull>>

Untouched ==
  /\ lastTouched = 0 /\ finger = Up
  /\ sent' = "nothing" /\ UNCHANGED <<lastTouched, last_x, touchDownMillis, settled, pull>>

Far == finger - last_x > DRAG_DISTANCE \/ last_x - finger > DRAG_DISTANCE

PullsAtOnce == Far \/ (touchDownMillis # Dragged => touchDownMillis > TAP_MILLIS)   \* mutant
Pulls == touchDownMillis # Dragged => touchDownMillis > TAP_MILLIS

Pulled == (IF pull = NoPull THEN 0 ELSE pull) + (finger - last_x)

Pull ==
  /\ lastTouched = 2 /\ finger # Up /\ Pulls
  /\ IF finger = last_x THEN sent' = "nothing" /\ UNCHANGED pull
                        ELSE sent' = "move" /\ pull' = Pulled
  /\ last_x' = finger
  /\ UNCHANGED <<lastTouched, touchDownMillis, settled>>

Forgets == last_x' = finger   \* mutant: the way of an undecided touch is lost
Waits   == UNCHANGED last_x

\* Short and near: a tap or the beginning of a drag.
Decide ==
  /\ lastTouched = 2 /\ finger # Up /\ ~Pulls
  /\ touchDownMillis' = IF Far THEN Dragged ELSE touchDownMillis
  /\ Waits
  /\ sent' = "nothing"
  /\ UNCHANGED <<lastTouched, settled, pull>>

Relative == /\ mouse_mode = "relative"
            /\ JustPressed \/ JustReleased \/ Untouched \/ Pull \/ Decide
            /\ UNCHANGED <<touched, button>>

handleTouch == (Direct \/ Relative) /\ UNCHANGED <<tidy, mouse_mode, finger>>

-----------------------------------------------------------------------------
(* The finger, time, and the end of a session.                             *)

\* Nothing of an earlier touch is left in the static variables.
Clean == ~touched /\ lastTouched = 0

\* Between two touches there is time for a sample, where none is missed.
Finger ==
  /\ \/ finger = Up /\ finger' \in Positions /\ (tidy => Clean)
     \/ finger # Up /\ finger' \in (Positions \cup {Up}) \ {finger}
  /\ settled' = IF finger' = Up THEN Up ELSE settled
  /\ sent' = "nothing"
  /\ UNCHANGED <<tidy, mouse_mode, statics, button, pull>>

Aged(age) == IF age # Dragged /\ age <= TAP_MILLIS THEN age + 1 ELSE age

TouchTick ==
  /\ touchDownMillis' = Aged(touchDownMillis)
  /\ sent' = "nothing"
  /\ UNCHANGED <<tidy, mouse_mode, touched, lastTouched, last_x, finger, button, settled, pull>>

\* The host lets go of what a client that has left was pressing.
SessionEnds ==
  /\ tidy => Clean
  /\ button' = FALSE /\ sent' = "nothing"
  /\ UNCHANGED <<tidy, mouse_mode, statics, finger, settled, pull>>

TouchNext == handleTouch \/ Finger \/ TouchTick \/ SessionEnds

TouchSpec == TouchInit /\ [][TouchNext]_touchVars

-----------------------------------------------------------------------------
TouchTypeOK ==
  /\ tidy \in BOOLEAN /\ mouse_mode \in Modes
  /\ touched \in BOOLEAN /\ lastTouched \in 0..2 /\ last_x \in Positions
  /\ touchDownMillis \in TouchAges \cup {Dragged}
  /\ finger \in Positions \cup {Up} /\ settled \in Positions \cup {Up}
  /\ button \in BOOLEAN
  /\ pull \in (-WIDTH)..WIDTH \cup {NoPull}
  /\ sent \in {"nothing", "press", "hover", "release", "click", "move"}

\* What handleTouch remembers of the host's button or contact: nothing is ever
\* down at the host that it would not release; and where no session ends in the
\* middle of a touch the two agree, so presses and releases alternate.  (A touch
\* that outlives its session is taken for one the next host knows of: it is
\* never pressed there, and released.)
HostAgrees == (button => touched) /\ (tidy => button = touched)

\* A touch that has moved the mouse does not click when it ends, however long
\* or far it was, and whatever earlier sessions have left behind.
ClickOrDrag == [][sent' = "click" => pull = NoPull]_touchVars

\* The moves sent for a touch add up to the way of the finger since the touch
\* settled: what it moved while it could have been a tap is not lost, and
\* nothing of an earlier touch is in it.
PointerFollows ==
  tidy /\ lastTouched > 0 /\ finger # Up =>
    /\ settled # Up
    /\ last_x - settled = IF pull = NoPull THEN 0 ELSE pull
=============================================================================
