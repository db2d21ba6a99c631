--------------------------- MODULE StreamSession ---------------------------
(***************************************************************************)
(* The session logic of Moonlight Wii U.  Four parties share the plain int *)
(* `state` (src/src/main.c) and a few more globals, under no lock:         *)
(*   - the main loop of main.c, the display;                               *)
(*   - the input thread of src/src/wiiu/input.c and the periodic alarm it  *)
(*     arms, whose callback polls the controllers;                         *)
(*   - the streaming library's threads, one of which calls                 *)
(*     connection_terminated (src/src/_connection.c);                      *)
(*   - ProcUI (src/src/wiiu/proc.c), which ends the program.               *)
(*                                                                         *)
(* The main loop reads `state` once per turn (Poll) and then runs the body *)
(* of that case; a body is cut where another party can see or change what  *)
(* it uses.  A turn in STREAMING only draws (VideoPipeline) and changes    *)
(* nothing here.                                                           *)
(***************************************************************************)
EXTENDS Naturals

CONSTANTS
  Timings  \* sets of adverse timings; an execution meets those of one of them

\* "late_callback"     connection_terminated runs on a detached thread, which
\*                     nobody waits for
\* "early_termination" the connection fails before START_STREAM is over
\* "late_input"        the input thread runs only after main has gone on
\* "input_fails"       the input thread cannot be created
AdverseTimings == {"late_callback", "early_termination", "late_input", "input_fails"}

ASSUME TimingsAssumption == Timings \subseteq SUBSET AdverseTimings

VARIABLES
  timing,         \* the adverse timings this execution may meet
  autostream,     \* the option: connect leads straight to the stream
  state,          \* the program's state
  mpc,            \* where the main thread is
  paired,         \* server.paired
  message, is_error,   \* the message of the menus and its colour
  homeEnabled,    \* proc.c: HOME may end the program
  thread_running, \* input.c
  ipc,            \* where the input thread is
  alarmOn,        \* inputAlarm is armed
  conn,           \* the library's connection
  terminated,     \* the library has reported this connection's end
  callback        \* where the thread running connection_terminated is

setting   == <<timing, autostream>>   \* never changed by any step
menu      == <<paired, message, is_error>>
inputs    == <<thread_running, ipc, alarmOn>>
library   == <<conn, terminated, callback>>
vars      == <<setting, state, mpc, menu, homeEnabled, inputs, library>>

States == {"INVALID", "DISCONNECTED", "CONNECTING", "CONNECTED", "PAIRING",
           "START_STREAM", "STOP_STREAM", "STREAMING"}

\* Between the case labels and the end of START_STREAM and STOP_STREAM.
StartSteps == {"START_STREAM", "li_start", "start_input", "set_streaming"}
StopSteps  == {"STOP_STREAM", "cancel_alarm", "join_input", "li_stop", "finish"}
MainSteps  == {"poll", "left", "ended"} \cup States \cup StartSteps \cup StopSteps

Init == /\ timing \in Timings /\ autostream \in BOOLEAN
        /\ state \in {"INVALID", "CONNECTING"}   \* no address or keys; else connect
        /\ mpc = "poll"
        /\ paired = FALSE /\ message = "none" /\ is_error = FALSE
        /\ homeEnabled = TRUE
        /\ thread_running = FALSE /\ ipc = "none" /\ alarmOn = FALSE
        /\ conn = "down" /\ terminated = FALSE /\ callback = "none"

-----------------------------------------------------------------------------
(* ProcUI and the head of the main loop.                                   *)

\* procHomeButtonDenied, for a program started from the Homebrew Launcher, or the
\* system's HOME menu otherwise: the user leaves.
HomeExit ==
  /\ mpc = "poll" /\ homeEnabled
  /\ mpc' = "left"
  /\ UNCHANGED <<setting, state, menu, homeEnabled, inputs, library>>

\* PROCUI_STATUS_EXITING whatever the program does: it falls out of the loop
\* and tears down without a look at `state`.
SystemExit ==
  /\ mpc = "poll"
  /\ mpc' = "ended"
  /\ UNCHANGED <<setting, state, menu, homeEnabled, inputs, library>>

\* switch (state).  Without "late_input" a resumed thread has run by now.
Poll ==
  /\ mpc = "poll" /\ state \notin {"INVALID", "STREAMING"}
  /\ "late_input" \in timing \/ ipc # "new"
  /\ mpc' = state
  /\ UNCHANGED <<setting, state, menu, homeEnabled, inputs, library>>

-----------------------------------------------------------------------------
(* The menus.                                                              *)

Disconnected ==
  /\ mpc = "DISCONNECTED"
  /\ mpc' = "poll"
  /\ \/ message' = "none" /\ state' = "CONNECTING"   \* A
     \/ UNCHANGED <<message, state>>
  /\ UNCHANGED <<setting, paired, is_error, homeEnabled, inputs, library>>

Connecting ==
  /\ mpc = "CONNECTING"
  /\ mpc' = "poll"
  /\ \/ /\ paired' \in BOOLEAN                        \* gs_get_status is GS_OK
        /\ state' = IF autostream THEN "START_STREAM" ELSE "CONNECTED"
        /\ UNCHANGED <<message, is_error>>
     \/ /\ message' = "error" /\ is_error' = TRUE
        /\ state' = "DISCONNECTED"
        /\ UNCHANGED paired
  /\ UNCHANGED <<setting, homeEnabled, inputs, library>>

Connected ==
  /\ mpc = "CONNECTED"
  /\ mpc' = "poll"
  /\ \/ message' = "none" /\ state' \in {"START_STREAM", "PAIRING"}   \* A, B
     \/ UNCHANGED <<message, state>>
  /\ UNCHANGED <<setting, paired, is_error, homeEnabled, inputs, library>>

PairedOld == message' = "info" /\ UNCHANGED is_error   \* mutant: the old colour
PairedOK  == message' = "info" /\ is_error' = FALSE

\* gs_pair; it fails on a host that is in a game, and the user must reconnect.
Pairing ==
  /\ mpc = "PAIRING"
  /\ mpc' = "poll"
  /\ \/ PairedOK /\ state' = "CONNECTED"
     \/ /\ message' = "error" /\ is_error' = TRUE
        /\ state' \in {"DISCONNECTED", "CONNECTED"}
  /\ paired' \in BOOLEAN
  /\ UNCHANGED <<setting, homeEnabled, inputs, library>>

-----------------------------------------------------------------------------
(* START_STREAM.                                                           *)

\* Not paired, no such app, or the host refuses: back to the menu.
StartRefused ==
  /\ mpc = "START_STREAM"
  /\ mpc' = "poll"
  /\ message' = "error" /\ is_error' = TRUE
  /\ state' = "CONNECTED"
  /\ UNCHANGED <<setting, paired, homeEnabled, inputs, library>>

\* stream() calls LiStartConnection.
LiStart ==
  /\ mpc = "START_STREAM" /\ paired
  /\ mpc' = "li_start"
  /\ conn' = "starting" /\ terminated' = FALSE
  /\ UNCHANGED <<setting, state, menu, homeEnabled, inputs, callback>>

\* LiStartConnection has failed and stopped what it had started.
LiStartFails ==
  /\ mpc = "li_start"
  /\ "late_callback" \in timing \/ callback = "none"
  /\ mpc' = "poll"
  /\ conn' = "down"
  /\ message' = "error" /\ is_error' = TRUE
  /\ state' = "CONNECTED"
  /\ UNCHANGED <<setting, paired, homeEnabled, inputs, terminated, callback>>

HomeKept     == UNCHANGED homeEnabled   \* mutant: the HOME button stays enabled
HomeDisabled == homeEnabled' = FALSE

\* LiStartConnection returns 0; wiiu_proc_set_home_enabled(0).
LiStarted ==
  /\ mpc = "li_start"
  /\ mpc' = "start_input"
  /\ conn' = "up"
  /\ HomeDisabled
  /\ UNCHANGED <<setting, state, menu, inputs, terminated, callback>>

\* start_input_thread: when the stack or the thread cannot be had it returns
\* and the stream runs without input.
StartInput ==
  /\ mpc = "start_input"
  /\ mpc' = "set_streaming"
  /\ \/ ipc' = "new" /\ thread_running' = TRUE
     \/ "input_fails" \in timing /\ UNCHANGED <<ipc, thread_running>>
  /\ UNCHANGED <<setting, state, menu, homeEnabled, alarmOn, library>>

SetStreaming ==
  /\ mpc = "set_streaming"
  /\ mpc' = "poll"
  /\ state' = "STREAMING"
  /\ UNCHANGED <<setting, menu, homeEnabled, inputs, library>>

-----------------------------------------------------------------------------
(* STOP_STREAM.                                                            *)

FlagKept    == UNCHANGED thread_running   \* mutant: the thread is not told
FlagCleared == thread_running' = FALSE

StopInput ==
  /\ mpc = "STOP_STREAM"
  /\ mpc' = "cancel_alarm"
  /\ FlagCleared
  /\ UNCHANGED <<setting, state, menu, homeEnabled, ipc, alarmOn, library>>

AlarmKept == UNCHANGED alarmOn   \* mutant: the alarm is not cancelled
AlarmOff  == alarmOn' = FALSE

CancelAlarm ==
  /\ mpc = "cancel_alarm"
  /\ mpc' = "join_input"
  /\ AlarmOff
  /\ UNCHANGED <<setting, state, menu, homeEnabled, thread_running, ipc, library>>

JoinSkipped == UNCHANGED ipc   \* mutant: no join
Joined      == ipc \in {"done", "none"} /\ ipc' = "none"

\* OSJoinThread; with no thread there (none was created, or it was joined
\* before) it returns at once.
JoinInput ==
  /\ mpc = "join_input"
  /\ mpc' = "li_stop"
  /\ Joined
  /\ UNCHANGED <<setting, state, menu, homeEnabled, thread_running, alarmOn, library>>

\* LiStopConnection joins the library's threads, not the detached one.
LiStop ==
  /\ mpc = "li_stop"
  /\ "late_callback" \in timing \/ callback = "none"
  /\ mpc' = "finish"
  /\ conn' = "down"
  /\ UNCHANGED <<setting, state, menu, homeEnabled, inputs, terminated, callback>>

HomeBackKept == UNCHANGED homeEnabled   \* mutant: HOME is not given back
HomeBack     == homeEnabled' = TRUE

\* wiiu_stream_reset, gs_quit_app if configured, HOME back, the menu.
FinishStop ==
  /\ mpc = "finish"
  /\ mpc' = "poll"
  /\ HomeBack
  /\ state' = "DISCONNECTED"
  /\ UNCHANGED <<setting, menu, inputs, library>>

-----------------------------------------------------------------------------
(* The input thread and its alarm.                                         *)

\* OSCreateAlarm and OSSetPeriodicAlarm.
ArmAlarm ==
  /\ ipc = "new"
  /\ ipc' = "check"
  /\ alarmOn' = TRUE
  /\ UNCHANGED <<setting, state, mpc, menu, homeEnabled, thread_running, library>>

CheckRunning ==
  /\ ipc = "check"
  /\ ipc' = IF thread_running THEN "wait" ELSE "done"
  /\ UNCHANGED <<setting, state, mpc, menu, homeEnabled, thread_running, alarmOn, library>>

\* OSWaitAlarm returns: the alarm has fired, was cancelled or is not armed.
WaitReturns ==
  /\ ipc = "wait"
  /\ ipc' = "check"
  /\ UNCHANGED <<setting, state, mpc, menu, homeEnabled, thread_running, alarmOn, library>>

\* alarm_callback finds HOME held for more than three seconds.
HomeHeld ==
  /\ alarmOn
  /\ state' = "STOP_STREAM"
  /\ UNCHANGED <<setting, mpc, menu, homeEnabled, inputs, library>>

-----------------------------------------------------------------------------
(* The library: it reports the end of a connection at most once, on a      *)
(* thread of its own, and not once LiStopConnection has begun.             *)

ConnectionLost ==
  /\ conn # "down" /\ ~terminated /\ callback = "none"
  /\ mpc # "li_stop"
  /\ "early_termination" \in timing \/ mpc \notin StartSteps
  /\ terminated' = TRUE
  /\ callback' = "started"
  /\ UNCHANGED <<setting, state, mpc, menu, homeEnabled, inputs, conn>>

\* connection_terminated: message_buffer and is_error, by the error code.
ReportEnd ==
  /\ callback = "started"
  /\ callback' = "reported"
  /\ \/ message' = "info" /\ is_error' = FALSE
     \/ message' = "error" /\ is_error' = TRUE
  /\ UNCHANGED <<setting, state, mpc, paired, homeEnabled, inputs, conn, terminated>>

CallbackQuiet  == UNCHANGED state              \* mutant: only the message is left
CallbackMenu   == state' = "DISCONNECTED"      \* mutant: straight to the menu
CallbackStatus == state' = "CONN_STATUS_POOR"  \* mutant: the status of the connection
CallbackStops  == state' = "STOP_STREAM"

EndStream ==
  /\ callback = "reported"
  /\ callback' = "none"
  /\ CallbackStops
  /\ UNCHANGED <<setting, mpc, menu, homeEnabled, inputs, conn, terminated>>

-----------------------------------------------------------------------------
Menu    == Disconnected \/ Connecting \/ Connected \/ Pairing
Starting == StartRefused \/ LiStart \/ LiStartFails \/ LiStarted \/ StartInput \/ SetStreaming
Stopping == StopInput \/ CancelAlarm \/ JoinInput \/ LiStop \/ FinishStop

Main    == Poll \/ Menu \/ Starting \/ Stopping
Input   == ArmAlarm \/ CheckRunning \/ WaitReturns
Library == ReportEnd \/ EndStream
Outside == HomeExit \/ SystemExit \/ HomeHeld \/ ConnectionLost

Next == Main \/ Input \/ Library \/ Outside

Spec == Init /\ [][Next]_vars

\* The threads run.  Nothing is assumed of the user, the host and the system.
FairSpec == Spec /\ WF_vars(Main) /\ WF_vars(Input) /\ WF_vars(Library)

-----------------------------------------------------------------------------
TypeOK ==
  /\ timing \subseteq AdverseTimings /\ autostream \in BOOLEAN
  /\ state \in States
  /\ mpc \in MainSteps
  /\ paired \in BOOLEAN /\ is_error \in BOOLEAN /\ homeEnabled \in BOOLEAN
  /\ message \in {"none", "info", "error"}
  /\ thread_running \in BOOLEAN /\ alarmOn \in BOOLEAN /\ terminated \in BOOLEAN
  /\ ipc \in {"none", "new", "check", "wait", "done"}
  /\ conn \in {"down", "starting", "up"}
  /\ callback \in {"none", "started", "reported"}

\* A connection is never forgotten: whatever the callbacks write to `state`,
\* while a connection exists main is still starting or stopping it, or its next
\* turn draws the stream or stops it.  Only a system exit leaves it up.
ConnectionOwned ==
  conn # "down" => \/ mpc \in {"li_start", "start_input", "set_streaming"}
                   \/ mpc \in StopSteps \ {"finish"}
                   \/ mpc \in {"poll", "ended"} /\ state \in {"STREAMING", "STOP_STREAM"}

\* Whenever ProcUI can deliver the HOME button, it may end the program if and
\* only if no connection is up: during a stream HOME belongs to the host.
HomeOnlyInMenus == mpc = "poll" => (homeEnabled <=> conn = "down")

\* OSCreateThread never gets an OSThread which is still in use.
NoSecondThread == [][mpc = "start_input" /\ ipc' = "new" => ipc = "none"]_vars

\* wiiu_input_update is "only relevant while streaming" (wiiu.h:57): the
\* controllers are polled for the host only while there is a connection.
AlarmOnlyWhileConnected == alarmOn => conn = "up"

\* That much is so when a resumed input thread runs before main goes on.
PromptAlarm == "late_input" \notin timing => AlarmOnlyWhileConnected

\* The menus show errors in red and the rest in green: message_buffer and
\* is_error, written by main and by the callback, belong together, unless the
\* callback outlives its connection.
MessageColour ==
  "late_callback" \notin timing /\ mpc \in {"DISCONNECTED", "CONNECTED"} =>
    /\ message = "error" => is_error
    /\ message = "info" => ~is_error

-----------------------------------------------------------------------------
\* A stop that main finds gets through: the input thread can be joined, the
\* connection goes down and the menu comes back.  (HOME may end the program
\* instead when the stop was a late one.)
StopCompletes ==
  (mpc = "poll" /\ state = "STOP_STREAM")
    ~> ((conn = "down" /\ state = "DISCONNECTED") \/ mpc \in {"left", "ended"})

\* A connection which the library gives up is taken down without the user,
\* unless main is about to overwrite the callback's STATE_STOP_STREAM.
LostConnectionStops ==
  ("early_termination" \notin timing /\ terminated /\ conn = "up") ~> (conn = "down" \/ mpc = "ended")

\* What the user sees of it.
Phase == IF mpc \in {"left", "ended"} THEN "ended"
         ELSE IF mpc \in StartSteps THEN "starting"
         ELSE IF mpc \in StopSteps \/ (mpc = "poll" /\ state = "STOP_STREAM") THEN "stopping"
         ELSE IF mpc = "poll" /\ state = "STREAMING" THEN "live"
         ELSE "menu"

Lifecycle == INSTANCE SessionLifecycle WITH linked <- conn = "up", phase <- Phase

\* The threads implement the session the user is promised.
ImplementsLifecycle == Lifecycle!LSpec
=============================================================================
