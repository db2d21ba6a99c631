------------------------ MODULE StreamSessionProofs ------------------------
(***************************************************************************)
(* What StreamSession guarantees under every combination of adverse        *)
(* timings.  `state` can be overwritten by a callback at any moment, so    *)
(* the inductive invariant says what holds at each place of the main       *)
(* thread, and uses `state` only where main is about to read it.           *)
(***************************************************************************)
EXTENDS StreamSession, TLAPS

MenuSteps == {"DISCONNECTED", "CONNECTING", "CONNECTED", "PAIRING", "START_STREAM"}

\* The connection and the HOME button, by the place of the main thread.
ByPlace ==
  /\ mpc \notin {"INVALID", "STREAMING"}
  /\ mpc \in MenuSteps \cup {"left", "finish"} => conn = "down"
  /\ mpc \in MenuSteps \cup {"li_start"} => homeEnabled
  /\ mpc = "li_start" <=> conn = "starting"
  /\ mpc \in {"start_input", "set_streaming"} => conn = "up" /\ ~homeEnabled
  /\ mpc \in {"poll"} \cup (StopSteps \ {"finish"}) => (homeEnabled <=> conn = "down")
  /\ mpc \in {"poll", "ended"} /\ conn = "up" => state \in {"STREAMING", "STOP_STREAM"}

\* Where no input thread can be left over.
NoThread == conn = "down" \/ mpc \in {"li_start", "start_input", "li_stop"} => ipc = "none"

SInv == TypeOK /\ ByPlace /\ NoThread

-----------------------------------------------------------------------------
\* The initial states satisfy the inductive invariant.
LEMMA InitSInv == Init => SInv
  BY TimingsAssumption
  DEF Init, SInv, TypeOK, ByPlace, NoThread, States, MainSteps, MenuSteps, StartSteps,
      StopSteps

\* The two halves of TypeOK: the flags, and the places and values of the rest.
FlagsOK == /\ autostream \in BOOLEAN
           /\ paired \in BOOLEAN /\ is_error \in BOOLEAN /\ homeEnabled \in BOOLEAN
           /\ thread_running \in BOOLEAN /\ alarmOn \in BOOLEAN /\ terminated \in BOOLEAN

PlacesOK == /\ timing \subseteq AdverseTimings
            /\ state \in States /\ mpc \in MainSteps
            /\ message \in {"none", "info", "error"}
            /\ ipc \in {"none", "new", "check", "wait", "done"}
            /\ conn \in {"down", "starting", "up"}
            /\ callback \in {"none", "started", "reported"}

\* Every step keeps the flags Boolean.
LEMMA NextFlags == SInv /\ [Next]_vars => FlagsOK'
<1> SUFFICES ASSUME SInv, [Next]_vars
             PROVE  FlagsOK'
  OBVIOUS
<1> USE DEF SInv, TypeOK, FlagsOK, setting, menu, inputs, library
<1>1. CASE HomeExit
  BY <1>1 DEF HomeExit
<1>2. CASE SystemExit
  BY <1>2 DEF SystemExit
<1>3. CASE Poll
  BY <1>3 DEF Poll
<1>4. CASE Disconnected
  BY <1>4 DEF Disconnected
<1>5. CASE Connecting
  BY <1>5 DEF Connecting
<1>6. CASE Connected
  BY <1>6 DEF Connected
<1>7. CASE Pairing
  BY <1>7 DEF Pairing, PairedOK
<1>8. CASE StartRefused
  BY <1>8 DEF StartRefused
<1>9. CASE LiStart
  BY <1>9 DEF LiStart
<1>10. CASE LiStartFails
  BY <1>10 DEF LiStartFails
<1>11. CASE LiStarted
  BY <1>11 DEF LiStarted, HomeDisabled
<1>12. CASE StartInput
  BY <1>12 DEF StartInput
<1>13. CASE SetStreaming
  BY <1>13 DEF SetStreaming
<1>14. CASE StopInput
  BY <1>14 DEF StopInput, FlagCleared
<1>15. CASE CancelAlarm
  BY <1>15 DEF CancelAlarm, AlarmOff
<1>16. CASE JoinInput
  BY <1>16 DEF JoinInput, Joined
<1>17. CASE LiStop
  BY <1>17 DEF LiStop
<1>18. CASE FinishStop
  BY <1>18 DEF FinishStop, HomeBack
<1>19. CASE ArmAlarm
  BY <1>19 DEF ArmAlarm
<1>20. CASE CheckRunning
  BY <1>20 DEF CheckRunning
<1>21. CASE WaitReturns
  BY <1>21 DEF WaitReturns
<1>22. CASE HomeHeld
  BY <1>22 DEF HomeHeld
<1>23. CASE ConnectionLost
  BY <1>23 DEF ConnectionLost
<1>24. CASE ReportEnd
  BY <1>24 DEF ReportEnd
<1>25. CASE EndStream
  BY <1>25 DEF EndStream, CallbackStops
<1>26. CASE UNCHANGED vars
  BY <1>26 DEF vars
<1>. QED
  BY <1>1, <1>2, <1>3, <1>4, <1>5, <1>6, <1>7, <1>8, <1>9, <1>10, <1>11, <1>12, <1>13,
     <1>14, <1>15, <1>16, <1>17, <1>18, <1>19, <1>20, <1>21, <1>22, <1>23, <1>24, <1>25, <1>26
  DEF Next, Main, Menu, Starting, Stopping, Input, Library, Outside

\* Every step keeps the other variables in their types.
LEMMA NextPlaces == SInv /\ [Next]_vars => PlacesOK'
<1> SUFFICES ASSUME SInv, [Next]_vars
             PROVE  PlacesOK'
  OBVIOUS
<1> USE DEF SInv, TypeOK, PlacesOK, States, MainSteps, StartSteps, StopSteps, setting, menu, inputs, library
<1>1. CASE HomeExit
  BY <1>1 DEF HomeExit
<1>2. CASE SystemExit
  BY <1>2 DEF SystemExit
<1>3. CASE Poll
  BY <1>3 DEF Poll
<1>4. CASE Disconnected
  BY <1>4 DEF Disconnected
<1>5. CASE Connecting
  BY <1>5 DEF Connecting
<1>6. CASE Connected
  BY <1>6 DEF Connected
<1>7. CASE Pairing
  BY <1>7 DEF Pairing, PairedOK
<1>8. CASE StartRefused
  BY <1>8 DEF StartRefused
<1>9. CASE LiStart
  BY <1>9 DEF LiStart
<1>10. CASE LiStartFails
  BY <1>10 DEF LiStartFails
<1>11. CASE LiStarted
  BY <1>11 DEF LiStarted, HomeDisabled
<1>12. CASE StartInput
  BY <1>12 DEF StartInput
<1>13. CASE SetStreaming
  BY <1>13 DEF SetStreaming
<1>14. CASE StopInput
  BY <1>14 DEF StopInput, FlagCleared
<1>15. CASE CancelAlarm
  BY <1>15 DEF CancelAlarm, AlarmOff
<1>16. CASE JoinInput
  BY <1>16 DEF JoinInput, Joined
<1>17. CASE LiStop
  BY <1>17 DEF LiStop
<1>18. CASE FinishStop
  BY <1>18 DEF FinishStop, HomeBack
<1>19. CASE ArmAlarm
  BY <1>19 DEF ArmAlarm
<1>20. CASE CheckRunning
  BY <1>20 DEF CheckRunning
<1>21. CASE WaitReturns
  BY <1>21 DEF WaitReturns
<1>22. CASE HomeHeld
  BY <1>22 DEF HomeHeld
<1>23. CASE ConnectionLost
  BY <1>23 DEF ConnectionLost
<1>24. CASE ReportEnd
  BY <1>24 DEF ReportEnd
<1>25. CASE EndStream
  BY <1>25 DEF EndStream, CallbackStops
<1>26. CASE UNCHANGED vars
  BY <1>26 DEF vars
<1>. QED
  BY <1>1, <1>2, <1>3, <1>4, <1>5, <1>6, <1>7, <1>8, <1>9, <1>10, <1>11, <1>12, <1>13,
     <1>14, <1>15, <1>16, <1>17, <1>18, <1>19, <1>20, <1>21, <1>22, <1>23, <1>24, <1>25, <1>26
  DEF Next, Main, Menu, Starting, Stopping, Input, Library, Outside

\* Every step keeps the connection and the HOME button in order.
LEMMA NextByPlace == SInv /\ [Next]_vars => ByPlace'
<1> SUFFICES ASSUME SInv, [Next]_vars
             PROVE  ByPlace'
  OBVIOUS
<1> USE DEF SInv, TypeOK, ByPlace, States, MenuSteps, StopSteps, setting, menu, inputs, library
<1>1. CASE HomeExit
  BY <1>1 DEF HomeExit
<1>2. CASE SystemExit
  BY <1>2 DEF SystemExit
<1>3. CASE Poll
  <2>1. CASE conn = "down"
    <3>1. homeEnabled /\ mpc' = state /\ conn' = "down" /\ homeEnabled' = homeEnabled
      BY <1>3, <2>1 DEF Poll
    <3>2. state \in MenuSteps \cup {"STOP_STREAM"}
      BY <1>3 DEF Poll
    <3>. QED
      BY <3>1, <3>2
  <2>2. CASE conn # "down"
    <3>1. conn = "up" /\ ~homeEnabled
      <4>1. mpc = "poll"
        BY <1>3 DEF Poll
      <4>. QED
        BY <2>2, <4>1
    <3>2. mpc' = "STOP_STREAM" /\ conn' = "up" /\ ~homeEnabled'
      <4>1. state = "STOP_STREAM"
        BY <1>3, <3>1 DEF Poll
      <4>. QED
        BY <1>3, <3>1, <4>1 DEF Poll
    <3>. QED
      BY <3>2
  <2>. QED
    BY <2>1, <2>2
<1>4. CASE Disconnected
  BY <1>4 DEF Disconnected
<1>5. CASE Connecting
  BY <1>5 DEF Connecting
<1>6. CASE Connected
  BY <1>6 DEF Connected
<1>7. CASE Pairing
  BY <1>7 DEF Pairing, PairedOK
<1>8. CASE StartRefused
  BY <1>8 DEF StartRefused
<1>9. CASE LiStart
  BY <1>9 DEF LiStart
<1>10. CASE LiStartFails
  BY <1>10 DEF LiStartFails
<1>11. CASE LiStarted
  BY <1>11 DEF LiStarted, HomeDisabled
<1>12. CASE StartInput
  BY <1>12 DEF StartInput
<1>13. CASE SetStreaming
  BY <1>13 DEF SetStreaming
<1>14. CASE StopInput
  BY <1>14 DEF StopInput, FlagCleared
<1>15. CASE CancelAlarm
  BY <1>15 DEF CancelAlarm, AlarmOff
<1>16. CASE JoinInput
  BY <1>16 DEF JoinInput, Joined
<1>17. CASE LiStop
  BY <1>17 DEF LiStop
<1>18. CASE FinishStop
  BY <1>18 DEF FinishStop, HomeBack
<1>19. CASE ArmAlarm
  BY <1>19 DEF ArmAlarm
<1>20. CASE CheckRunning
  BY <1>20 DEF CheckRunning
<1>21. CASE WaitReturns
  BY <1>21 DEF WaitReturns
<1>22. CASE HomeHeld
  BY <1>22 DEF HomeHeld
<1>23. CASE ConnectionLost
  BY <1>23 DEF ConnectionLost
<1>24. CASE ReportEnd
  BY <1>24 DEF ReportEnd
<1>25. CASE EndStream
  BY <1>25 DEF EndStream, CallbackStops
<1>26. CASE UNCHANGED vars
  BY <1>26 DEF vars
<1>. QED
  BY <1>1, <1>2, <1>3, <1>4, <1>5, <1>6, <1>7, <1>8, <1>9, <1>10, <1>11, <1>12, <1>13,
     <1>14, <1>15, <1>16, <1>17, <1>18, <1>19, <1>20, <1>21, <1>22, <1>23, <1>24, <1>25, <1>26
  DEF Next, Main, Menu, Starting, Stopping, Input, Library, Outside

\* Every step keeps the input thread away from a closed connection.
LEMMA NextNoThread == SInv /\ [Next]_vars => NoThread'
<1> SUFFICES ASSUME SInv, [Next]_vars
             PROVE  NoThread'
  OBVIOUS
<1> USE DEF SInv, NoThread, ByPlace, MenuSteps, StopSteps, setting, menu, inputs, library
<1>1. CASE HomeExit
  BY <1>1 DEF HomeExit
<1>2. CASE SystemExit
  BY <1>2 DEF SystemExit
<1>3. CASE Poll
  BY <1>3 DEF Poll, TypeOK, States
<1>4. CASE Disconnected
  BY <1>4 DEF Disconnected
<1>5. CASE Connecting
  BY <1>5 DEF Connecting
<1>6. CASE Connected
  BY <1>6 DEF Connected
<1>7. CASE Pairing
  BY <1>7 DEF Pairing, PairedOK
<1>8. CASE StartRefused
  BY <1>8 DEF StartRefused
<1>9. CASE LiStart
  BY <1>9 DEF LiStart
<1>10. CASE LiStartFails
  BY <1>10 DEF LiStartFails
<1>11. CASE LiStarted
  BY <1>11 DEF LiStarted, HomeDisabled
<1>12. CASE StartInput
  BY <1>12 DEF StartInput
<1>13. CASE SetStreaming
  BY <1>13 DEF SetStreaming
<1>14. CASE StopInput
  BY <1>14 DEF StopInput, FlagCleared
<1>15. CASE CancelAlarm
  BY <1>15 DEF CancelAlarm, AlarmOff
<1>16. CASE JoinInput
  BY <1>16 DEF JoinInput, Joined
<1>17. CASE LiStop
  BY <1>17 DEF LiStop
<1>18. CASE FinishStop
  BY <1>18 DEF FinishStop, HomeBack
<1>19. CASE ArmAlarm
  BY <1>19 DEF ArmAlarm
<1>20. CASE CheckRunning
  BY <1>20 DEF CheckRunning
<1>21. CASE WaitReturns
  BY <1>21 DEF WaitReturns
<1>22. CASE HomeHeld
  BY <1>22 DEF HomeHeld
<1>23. CASE ConnectionLost
  BY <1>23 DEF ConnectionLost
<1>24. CASE ReportEnd
  BY <1>24 DEF ReportEnd
<1>25. CASE EndStream
  BY <1>25 DEF EndStream, CallbackStops
<1>26. CASE UNCHANGED vars
  BY <1>26 DEF vars
<1>. QED
  BY <1>1, <1>2, <1>3, <1>4, <1>5, <1>6, <1>7, <1>8, <1>9, <1>10, <1>11, <1>12, <1>13,
     <1>14, <1>15, <1>16, <1>17, <1>18, <1>19, <1>20, <1>21, <1>22, <1>23, <1>24, <1>25, <1>26
  DEF Next, Main, Menu, Starting, Stopping, Input, Library, Outside

\* Every step keeps the inductive invariant.
LEMMA NextSInv == SInv /\ [Next]_vars => SInv'
  BY NextFlags, NextPlaces, NextByPlace, NextNoThread DEF SInv, TypeOK, FlagsOK, PlacesOK

\* The inductive invariant holds in every reachable state.
THEOREM SessionInvariance == Spec => []SInv
  BY InitSInv, NextSInv, PTL DEF Spec

\* Every variable keeps its type.
THEOREM SessionTypeCorrect == Spec => []TypeOK
<1>1. SInv => TypeOK
  BY DEF SInv
<1>. QED
  BY SessionInvariance, <1>1, PTL

\* Whatever the callbacks write to `state` and whenever, main never loses sight
\* of a connection.
THEOREM ConnectionNeverForgotten == Spec => []ConnectionOwned
<1>1. SInv => ConnectionOwned
  BY DEF SInv, TypeOK, ByPlace, ConnectionOwned, MainSteps, MenuSteps, StartSteps, StopSteps, States
<1>. QED
  BY SessionInvariance, <1>1, PTL

\* HOME can end the program exactly while there is no connection.
THEOREM HomeEndsOnlyMenus == Spec => []HomeOnlyInMenus
<1>1. SInv => HomeOnlyInMenus
  BY DEF SInv, ByPlace, HomeOnlyInMenus
<1>. QED
  BY SessionInvariance, <1>1, PTL

\* The one OSThread of the input is never created again while it is in use.
THEOREM InputThreadNotReused == Spec => NoSecondThread
<1>1. SInv /\ [Next]_vars => [mpc = "start_input" /\ ipc' = "new" => ipc = "none"]_vars
  BY DEF SInv, NoThread
<1>. QED
  BY SessionInvariance, <1>1, PTL DEF Spec, NoSecondThread

-----------------------------------------------------------------------------
(* What needs a timing to be excluded.                                     *)

\* Without "late_input" a new thread runs before main leaves its turn, so the
\* alarm is armed and cancelled while the connection is up.
Prompt ==
  "late_input" \notin timing =>
    /\ ipc = "new" => mpc \in {"set_streaming", "poll", "ended"}
    /\ alarmOn => /\ conn = "up"
                  /\ mpc \in {"set_streaming", "poll", "ended", "STOP_STREAM", "cancel_alarm"}

\* Every step keeps the alarm within the connection.
LEMMA NextPrompt == SInv /\ Prompt /\ [Next]_vars => Prompt'
<1> SUFFICES ASSUME SInv, Prompt, [Next]_vars
             PROVE  Prompt'
  OBVIOUS
<1> USE DEF SInv, Prompt, ByPlace, NoThread, MenuSteps, StopSteps, setting, menu, inputs, library
<1>1. CASE Poll
  BY <1>1 DEF Poll, TypeOK, States
<1>2. CASE Menu
  BY <1>2 DEF Menu, Disconnected, Connecting, Connected, Pairing
<1>3. CASE StartRefused \/ LiStart \/ LiStartFails
  BY <1>3 DEF StartRefused, LiStart, LiStartFails
<1>4. CASE LiStarted \/ StartInput \/ SetStreaming
  BY <1>4 DEF LiStarted, StartInput, SetStreaming
<1>5. CASE StopInput \/ CancelAlarm
  BY <1>5 DEF StopInput, CancelAlarm, AlarmOff
<1>6. CASE JoinInput \/ LiStop \/ FinishStop
  BY <1>6 DEF JoinInput, Joined, LiStop, FinishStop
<1>7. CASE ArmAlarm
  <2>1. "late_input" \notin timing => conn = "up"
    BY <1>7 DEF ArmAlarm, TypeOK
  <2>. QED
    BY <1>7, <2>1 DEF ArmAlarm
<1>8. CASE CheckRunning \/ WaitReturns \/ Library
  BY <1>8 DEF CheckRunning, WaitReturns, Library, ReportEnd, EndStream
<1>9. CASE Outside
  BY <1>9 DEF Outside, HomeExit, SystemExit, HomeHeld, ConnectionLost
<1>10. CASE UNCHANGED vars
  BY <1>10 DEF vars
<1>. QED
  BY <1>1, <1>2, <1>3, <1>4, <1>5, <1>6, <1>7, <1>8, <1>9, <1>10
  DEF Next, Main, Starting, Stopping, Input

\* When a resumed input thread runs before main goes on, the controllers are
\* polled for the host only while there is a connection.
THEOREM AlarmWithinConnection == Spec => []PromptAlarm
<1>1. Init => Prompt
  BY DEF Init, Prompt
<1>2. Prompt => PromptAlarm
  BY DEF Prompt, PromptAlarm, AlarmOnlyWhileConnected
<1>. QED
  BY <1>1, <1>2, SessionInvariance, NextPrompt, PTL DEF Spec

\* The message and its colour are written together.
Colour == (message = "error" => is_error) /\ (message = "info" => ~is_error)

\* The menus show errors, and only errors, in red.
THEOREM MessagesColoured == Spec => []MessageColour
<1>1. Init => Colour
  BY DEF Init, Colour
<1>2. Colour /\ [Next]_vars => Colour'
  <2> SUFFICES ASSUME Colour, [Next]_vars
               PROVE  Colour'
    OBVIOUS
  <2> USE DEF Colour
  <2>1. CASE Disconnected \/ Connecting \/ Connected
    BY <2>1 DEF Disconnected, Connecting, Connected
  <2>2. CASE Pairing
    BY <2>2 DEF Pairing, PairedOK
  <2>3. CASE StartRefused \/ LiStartFails \/ ReportEnd
    BY <2>3 DEF StartRefused, LiStartFails, ReportEnd
  <2>4. CASE UNCHANGED <<message, is_error>>
    BY <2>4
  <2>. QED
    BY <2>1, <2>2, <2>3, <2>4
    DEF Next, Main, Menu, Starting, Stopping, Input, Library, Outside, Poll, LiStart, LiStarted,
        StartInput, SetStreaming, StopInput, CancelAlarm, JoinInput, LiStop, FinishStop,
        ArmAlarm, CheckRunning, WaitReturns, HomeExit, SystemExit, HomeHeld, ConnectionLost,
        EndStream, vars, menu
<1>3. Colour => MessageColour
  BY DEF Colour, MessageColour
<1>. QED
  BY <1>1, <1>2, <1>3, PTL DEF Spec

-----------------------------------------------------------------------------
(* The refinement, without its fairness.                                   *)

\* A step, in terms of the phase and the connection.
UserStep ==
  \/ Phase' = Phase /\ (conn' = "up" <=> conn = "up")
  \/ Phase = "menu" /\ Phase' = "starting" /\ (conn' = "up" <=> conn = "up")
  \/ Phase = "starting" /\ conn # "up" /\ conn' = "up" /\ Phase' = Phase
  \/ Phase = "starting" /\ conn # "up" /\ Phase' = "menu" /\ conn' # "up"
  \/ Phase = "starting" /\ conn = "up" /\ Phase' = "live" /\ conn' = "up"
  \/ Phase = "live" /\ Phase' = "stopping" /\ (conn' = "up" <=> conn = "up")
  \/ Phase = "stopping" /\ conn = "up" /\ conn' # "up" /\ Phase' = Phase
  \/ Phase = "stopping" /\ conn # "up" /\ Phase' = "menu" /\ conn' # "up"
  \/ Phase = "menu" /\ conn # "up" /\ Phase' = "stopping" /\ conn' # "up"
  \/ Phase \in {"menu", "live", "stopping"} /\ Phase' = "ended" /\ (conn' = "up" <=> conn = "up")

\* Inside a menu's turn `state` is the one main has read, or a late stop.
StateFollows == mpc \in MenuSteps => state \in {mpc, "STOP_STREAM"}

\* Every step keeps it so.
LEMMA NextStateFollows == StateFollows /\ [Next]_vars => StateFollows'
<1> SUFFICES ASSUME StateFollows, [Next]_vars
             PROVE  StateFollows'
  OBVIOUS
<1> USE DEF StateFollows, MenuSteps
<1>1. CASE Poll
  BY <1>1 DEF Poll
<1>2. CASE Menu \/ Starting \/ Stopping \/ HomeExit \/ SystemExit
  BY <1>2 DEF Menu, Disconnected, Connecting, Connected, Pairing, Starting, StartRefused, LiStart,
     LiStartFails, LiStarted, StartInput, SetStreaming, Stopping, StopInput, CancelAlarm,
     JoinInput, LiStop, FinishStop, HomeExit, SystemExit
<1>3. CASE HomeHeld \/ EndStream
  BY <1>3 DEF HomeHeld, EndStream, CallbackStops
<1>4. CASE UNCHANGED <<mpc, state>>
  BY <1>4
<1>. QED
  BY <1>1, <1>2, <1>3, <1>4
  DEF Next, Main, Input, Library, Outside, ArmAlarm, CheckRunning, WaitReturns, ConnectionLost,
      ReportEnd, vars

\* Every step of the threads is one the user may see, or none.
LEMMA NextUserStep == SInv /\ StateFollows /\ [Next]_vars => UserStep
<1> SUFFICES ASSUME SInv, StateFollows, [Next]_vars
             PROVE  UserStep
  OBVIOUS
<1> USE DEF SInv, TypeOK, ByPlace, StateFollows, MenuSteps, StopSteps, StartSteps, States,
            setting, menu, inputs, library
<1>1. CASE HomeExit
  BY <1>1 DEF HomeExit, UserStep, Phase
<1>2. CASE SystemExit
  BY <1>2 DEF SystemExit, UserStep, Phase
<1>3. CASE Poll
  BY <1>3 DEF Poll, UserStep, Phase
<1>4. CASE Menu
  <2>1. mpc \in MenuSteps \ {"START_STREAM"} /\ mpc' = "poll"
    BY <1>4 DEF Menu, Disconnected, Connecting, Connected, Pairing
  <2>2. state' \in MenuSteps \cup {"STOP_STREAM"}
    BY <1>4, <2>1 DEF Menu, Disconnected, Connecting, Connected, Pairing
  <2>3. conn = "down" /\ conn' = "down"
    BY <1>4, <2>1 DEF Menu, Disconnected, Connecting, Connected, Pairing
  <2>4. Phase = "menu" /\ Phase' \in {"menu", "stopping"}
    BY <2>1, <2>2 DEF Phase
  <2>. QED
    BY <2>3, <2>4 DEF UserStep
<1>5. CASE StartRefused \/ LiStart \/ LiStartFails
  BY <1>5 DEF StartRefused, LiStart, LiStartFails, UserStep, Phase
<1>6. CASE LiStarted \/ StartInput \/ SetStreaming
  BY <1>6 DEF LiStarted, StartInput, SetStreaming, UserStep, Phase
<1>7. CASE StopInput \/ CancelAlarm \/ JoinInput
  BY <1>7 DEF StopInput, CancelAlarm, JoinInput, UserStep, Phase
<1>8. CASE LiStop \/ FinishStop
  BY <1>8 DEF LiStop, FinishStop, UserStep, Phase
<1>9. CASE Input
  BY <1>9 DEF Input, ArmAlarm, CheckRunning, WaitReturns, UserStep, Phase
<1>10. CASE ReportEnd \/ ConnectionLost
  BY <1>10 DEF ReportEnd, ConnectionLost, UserStep, Phase
<1>11. CASE HomeHeld \/ EndStream
  BY <1>11 DEF HomeHeld, EndStream, CallbackStops, UserStep, Phase
<1>12. CASE UNCHANGED vars
  BY <1>12 DEF vars, UserStep, Phase
<1>. QED
  BY <1>1, <1>2, <1>3, <1>4, <1>5, <1>6, <1>7, <1>8, <1>9, <1>10, <1>11, <1>12
  DEF Next, Main, Starting, Stopping, Library, Outside

\* The threads run through the sessions the user is promised: every step of
\* StreamSession, under any timing, is a step of SessionLifecycle or none.
THEOREM SessionsAsPromised ==
  Spec => Lifecycle!LInit /\ [][Lifecycle!LNext]_Lifecycle!lvars
<1>1. Init => Lifecycle!LInit
  BY DEF Init, Phase, Lifecycle!LInit, StartSteps, StopSteps
<1>2. Init => StateFollows
  BY DEF Init, StateFollows, MenuSteps
<1>3. UserStep => [Lifecycle!LNext]_Lifecycle!lvars
  BY DEF UserStep, Phase, Lifecycle!LNext, Lifecycle!lvars, Lifecycle!Start, Lifecycle!Link,
         Lifecycle!GiveUp, Lifecycle!GoLive, Lifecycle!Stop, Lifecycle!Unlink, Lifecycle!Back,
         Lifecycle!LateStop, Lifecycle!End
<1>. QED
  BY <1>1, <1>2, <1>3, SessionInvariance, NextStateFollows, NextUserStep, PTL DEF Spec
=============================================================================
