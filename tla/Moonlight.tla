------------------------------ MODULE Moonlight ------------------------------
(***************************************************************************)
(* A session with its video: StreamSession and VideoPipeline together.     *)
(* The display of VideoPipeline is main's turn in STREAMING, its decoder   *)
(* is a thread of the library's connection, and the resets are part of     *)
(* START_STREAM and STOP_STREAM.  VideoPipeline says when a stream is open *)
(* by itself; here that follows from main's state and the connection, and  *)
(* nothing but `state` keeps main from drawing.                            *)
(***************************************************************************)
EXTENDS StreamSession

CONSTANTS NUM_BUFFERS, Word, NoFrame, Torn   \* see VideoPipeline

\* What VideoPipeline assumes of them.
ASSUME VideoAssumption ==
  /\ NUM_BUFFERS \in Nat \ {0}
  /\ Word \in Nat /\ Word > 3 * NUM_BUFFERS + 3 /\ Word % NUM_BUFFERS = 0
  /\ NoFrame \notin [tex : 0..(NUM_BUFFERS - 1), frame : 0..(Word - 1)]
  /\ NoFrame \notin 0..(Word - 1)

VARIABLES
  nextFrame, currentFrame, queueMessages, queueWriteIndex, queueReadIndex,
  droppedFrames, currentTexture, content, decoder, display, held,
  own   \* slots written in this connection, whose textures still exist

videoVars == <<nextFrame, currentFrame, queueMessages, queueWriteIndex, queueReadIndex,
               droppedFrames, currentTexture, content, decoder, display, held>>
moonVars  == <<vars, videoVars, own>>

\* The stream of VideoPipeline is the library's connection.
Stream == CASE conn = "starting" -> "starting"
            [] conn = "up"       -> "open"
            [] OTHER             -> "closed"

Video == INSTANCE VideoPipeline WITH stream <- Stream

MoonInit == Init /\ Video!Init /\ own = {}

-----------------------------------------------------------------------------
(* The main thread.  It is in wiiu_stream_draw while display is not "idle".*)

Turn   == (Poll \/ HomeExit \/ SystemExit) /\ display = "idle" /\ UNCHANGED <<videoVars, own>>
Aside  == \/ Menu \/ StartInput \/ SetStreaming \/ StopInput \/ CancelAlarm \/ JoinInput
          \/ Input \/ Library \/ HomeHeld \/ ConnectionLost
Others == Aside /\ UNCHANGED <<videoVars, own>>

\* The queue is emptied before the host is asked for anything, and only if the
\* client is paired.
Refused == /\ StartRefused
           /\ (paired /\ Video!ResetClosed) \/ (~paired /\ UNCHANGED videoVars)
           /\ UNCHANGED own

\* wiiu_decoder_setup allocates the textures, wiiu_decoder_cleanup frees them.
Connects       == LiStart /\ Video!StartStream /\ own' = {}
Opens          == LiStarted /\ Video!StartReturns /\ UNCHANGED own
FailsToConnect == LiStartFails /\ Video!StartAborts /\ own' = {}

\* LiStopConnection joins the decoder thread.  A late STOP_STREAM finds no
\* connection, and resets the queue all the same.
Disconnects == /\ LiStop /\ own' = {}
               /\ Video!StopStream \/ (conn = "down" /\ UNCHANGED videoVars)
StopReset   == FinishStop /\ Video!ResetClosed /\ UNCHANGED own

InAnyState == TRUE   \* mutant: the turn draws in the menus, too
Streams    == state = "STREAMING"

Draw == /\ mpc = "poll" /\ UNCHANGED <<vars, own>>
        /\ \/ Streams /\ Video!TakeFrame
           \/ Video!SkipFrame \/ Video!BeginDraw \/ Video!EndDraw

-----------------------------------------------------------------------------
(* The decoder thread.                                                     *)

Decode ==
  /\ conn # "down" /\ UNCHANGED vars
  /\ \/ Video!SubmitUnit \/ Video!DecodeFails \/ Video!DecodeDone \/ Video!CountFrame
     \/ Video!AddFrame
  /\ own' = IF Video!AddFrame THEN own \cup {Video!Slot(queueWriteIndex)} ELSE own

MoonNext == \/ Turn \/ Others \/ Refused \/ Connects \/ Opens \/ FailsToConnect
            \/ Disconnects \/ StopReset \/ Draw \/ Decode

MoonSpec == MoonInit /\ [][MoonNext]_moonVars

-----------------------------------------------------------------------------
\* What main draws exists: it takes pointers from the queue only while a
\* connection is up, only such as this connection has queued, and has let go of
\* the last one when the textures are freed; whatever the callbacks, the alarm
\* and failed starts do to `state` and leave in the queue.
DrawsLiveFrames ==
  [][/\ Video!TakeFrame => conn = "up" /\ Video!Slot(queueReadIndex) \in own
     /\ display # "idle" => conn' = "up"]_moonVars
=============================================================================
