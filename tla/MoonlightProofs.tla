--------------------------- MODULE MoonlightProofs ---------------------------
(***************************************************************************)
(* What a session with its video guarantees, for every set of adverse      *)
(* timings, every number of buffers and every width of the counters.  The  *)
(* composition takes steps of StreamSession only, and of VideoPipeline     *)
(* only: so it has all that the proofs about the two show, and on top of   *)
(* both invariants it is proved that main draws live frames.               *)
(***************************************************************************)
EXTENDS Moonlight, StreamSessionProofs

VideoP == INSTANCE VideoPipelineProofs WITH stream <- Stream

-----------------------------------------------------------------------------
(* The session.                                                            *)

\* Every step is a step of the session, or leaves it alone.
LEMMA MoonStepsSession == [MoonNext]_moonVars => [Next]_vars
<1> SUFFICES ASSUME [MoonNext]_moonVars
             PROVE  [Next]_vars
  OBVIOUS
<1>1. CASE Turn \/ Others
  BY <1>1 DEF Turn, Others, Aside, Next, Main, Starting, Stopping, Outside
<1>2. CASE Refused \/ Connects \/ Opens \/ FailsToConnect
  BY <1>2 DEF Refused, Connects, Opens, FailsToConnect, Next, Main, Starting
<1>3. CASE Disconnects \/ StopReset
  BY <1>3 DEF Disconnects, StopReset, Next, Main, Stopping
<1>4. CASE Draw \/ Decode
  BY <1>4 DEF Draw, Decode
<1>5. CASE UNCHANGED moonVars
  BY <1>5 DEF moonVars
<1>. QED
  BY <1>1, <1>2, <1>3, <1>4, <1>5 DEF MoonNext

\* The threads of a session with video are those of StreamSession.
THEOREM MoonImplementsSession == MoonSpec => Spec
<1>1. MoonInit => Init
  BY DEF MoonInit
<1>. QED
  BY <1>1, MoonStepsSession, PTL DEF MoonSpec, Spec

\* So what is promised of the threads holds while frames are queued and drawn: no
\* connection is forgotten, HOME ends only menus, no thread object is reused, and
\* messages have their colours.
THEOREM MoonSessionAsPromised ==
  MoonSpec => /\ [](ConnectionOwned /\ HomeOnlyInMenus /\ PromptAlarm /\ MessageColour)
              /\ NoSecondThread
BY MoonImplementsSession, ConnectionNeverForgotten, HomeEndsOnlyMenus, AlarmWithinConnection,
   MessagesColoured, InputThreadNotReused, PTL

\* `state` is STREAMING only while there is a connection and main is about to
\* draw, or was when the system ended the program.
Live == state = "STREAMING" => mpc \in {"poll", "ended"} /\ conn = "up"

\* Every step keeps it so.
LEMMA NextLive == SInv /\ Live /\ [Next]_vars => Live'
<1> SUFFICES ASSUME SInv, Live, [Next]_vars
             PROVE  Live'
  OBVIOUS
<1> USE DEF SInv, Live, ByPlace, MenuSteps, StopSteps, setting, menu, inputs, library
<1>1. CASE HomeExit \/ SystemExit \/ Poll
  BY <1>1 DEF HomeExit, SystemExit, Poll
<1>2. CASE Menu
  BY <1>2 DEF Menu, Disconnected, Connecting, Connected, Pairing
<1>3. CASE StartRefused \/ LiStart \/ LiStartFails
  BY <1>3 DEF StartRefused, LiStart, LiStartFails
<1>4. CASE LiStarted \/ StartInput \/ SetStreaming
  BY <1>4 DEF LiStarted, StartInput, SetStreaming
<1>5. CASE Stopping
  BY <1>5 DEF Stopping, StopInput, CancelAlarm, JoinInput, LiStop, FinishStop
<1>6. CASE Input \/ ReportEnd \/ ConnectionLost
  BY <1>6 DEF Input, ArmAlarm, CheckRunning, WaitReturns, ReportEnd, ConnectionLost
<1>7. CASE HomeHeld \/ EndStream
  BY <1>7 DEF HomeHeld, EndStream, CallbackStops
<1>8. CASE UNCHANGED vars
  BY <1>8 DEF vars
<1>. QED
  BY <1>1, <1>2, <1>3, <1>4, <1>5, <1>6, <1>7, <1>8
  DEF Next, Main, Starting, Library, Outside

-----------------------------------------------------------------------------
(* The video.                                                              *)

\* Main is in the middle of a drawing only in a turn of STREAMING.
Drawing == display # "idle" => mpc = "poll" /\ conn = "up"

MInv == SInv /\ Live /\ Drawing

\* Where main is when the connection changes.
LEMMA ConnectionSteps ==
  ASSUME SInv, Turn \/ Others
  PROVE  /\ UNCHANGED conn
         /\ mpc = "poll" => display = "idle" \/ mpc' = "poll"
<1> USE DEF setting, menu, inputs, library
<1>1. CASE Turn
  BY <1>1 DEF Turn, Poll, HomeExit, SystemExit
<1>2. CASE Others
  BY <1>2 DEF Others, Aside, Menu, Disconnected, Connecting, Connected, Pairing, StartInput,
     SetStreaming, StopInput, CancelAlarm, JoinInput, Input, ArmAlarm, CheckRunning, WaitReturns,
     Library, ReportEnd, EndStream, HomeHeld, ConnectionLost
<1>. QED
  BY <1>1, <1>2

\* The connection, as VideoPipeline sees it.
LEMMA StreamIs ==
  /\ conn = "starting" => Stream = "starting"
  /\ conn = "up" => Stream = "open"
  /\ conn = "down" => Stream = "closed"
  BY DEF Stream

\* Every step keeps main's place while it draws.
LEMMA NextDrawing == MInv /\ [MoonNext]_moonVars => Drawing'
<1> SUFFICES ASSUME MInv, [MoonNext]_moonVars
             PROVE  Drawing'
  OBVIOUS
<1> USE DEF MInv, Drawing
<1>1. CASE Turn \/ Others
  <2>1. display' = display
    BY <1>1 DEF Turn, Others, videoVars
  <2>. QED
    BY <1>1, <2>1, ConnectionSteps
<1>2. CASE Refused \/ Connects \/ Opens \/ FailsToConnect \/ Disconnects \/ StopReset
  <2>1. mpc # "poll" /\ display' = display
    BY <1>2 DEF Refused, StartRefused, Connects, LiStart, Opens, LiStarted, FailsToConnect,
       LiStartFails, Disconnects, LiStop, StopReset, FinishStop, Video!StartStream,
       Video!StartReturns, Video!StartAborts, Video!StopStream, Video!ResetClosed, videoVars
  <2>. QED
    BY <2>1
<1>3. CASE Draw
  <2>1. mpc = "poll" /\ mpc' = mpc /\ conn' = conn
    BY <1>3 DEF Draw, vars, library
  <2>2. CASE Streams
    BY <2>1, <2>2 DEF Streams, Live
  <2>3. CASE Video!SkipFrame \/ Video!BeginDraw \/ Video!EndDraw
    BY <2>1, <2>3 DEF Video!SkipFrame, Video!BeginDraw, Video!EndDraw
  <2>. QED
    BY <1>3, <2>2, <2>3 DEF Draw
<1>4. CASE Decode
  <2>1. mpc' = mpc /\ conn' = conn
    BY <1>4 DEF Decode, vars, library
  <2>2. display' = display
    BY <1>4 DEF Decode, Video!SubmitUnit, Video!DecodeFails, Video!DecodeDone, Video!CountFrame,
       Video!AddFrame
  <2>. QED
    BY <2>1, <2>2
<1>5. CASE UNCHANGED moonVars
  BY <1>5 DEF moonVars, vars, videoVars, library
<1>. QED
  BY <1>1, <1>2, <1>3, <1>4, <1>5 DEF MoonNext

\* Every step is a step of the video, or leaves it alone.
LEMMA MoonStepsVideo == MInv /\ [MoonNext]_moonVars => [Video!Next]_(Video!vars)
<1> SUFFICES ASSUME MInv, [MoonNext]_moonVars
             PROVE  [Video!Next]_(Video!vars)
  OBVIOUS
<1>1. ASSUME UNCHANGED videoVars, UNCHANGED conn
      PROVE  UNCHANGED Video!vars
  <2>1. Stream' = Stream
    BY <1>1, Zenon DEF Stream
  <2>. QED
    BY <1>1, <2>1 DEF videoVars, Video!vars, Video!counters, Video!queue, Video!pixels
<1>2. CASE Turn \/ Others
  BY <1>1, <1>2, ConnectionSteps DEF MInv, Turn, Others
<1>3. CASE Refused
  <2>1. conn' = conn
    BY <1>3 DEF Refused, StartRefused, library
  <2>. QED
    BY <1>1, <1>3, <2>1 DEF Refused, Video!Next, Video!Session
<1>4. CASE Connects \/ Opens \/ FailsToConnect \/ StopReset
  BY <1>4 DEF Connects, Opens, FailsToConnect, StopReset, Video!Next, Video!Session
<1>5. CASE Disconnects
  <2>1. conn' = "down"
    BY <1>5 DEF Disconnects, LiStop
  <2>. QED
    BY <1>1, <1>5, <2>1 DEF Disconnects, Video!Next, Video!Session
<1>6. CASE Draw
  <2>1. CASE Streams /\ Video!TakeFrame
    <3>1. Stream = "open"
      BY <2>1, StreamIs DEF Streams, MInv, Live
    <3>. QED
      BY <2>1, <3>1 DEF Video!GetFrame, Video!Next, Video!Display
  <2>2. CASE Video!SkipFrame \/ Video!BeginDraw \/ Video!EndDraw
    BY <2>2 DEF Video!Next, Video!Display
  <2>. QED
    BY <1>6, <2>1, <2>2 DEF Draw
<1>7. CASE Decode
  BY <1>7 DEF Decode, Video!Next, Video!Decoder
<1>8. CASE UNCHANGED moonVars
  BY <1>1, <1>8 DEF moonVars, vars, library
<1>. QED
  BY <1>2, <1>3, <1>4, <1>5, <1>6, <1>7, <1>8 DEF MoonNext

\* The invariant of the composition holds in every reachable state.
THEOREM MoonInvariance == MoonSpec => []MInv
<1>1. MoonInit => MInv
  <2>1. MoonInit => Live /\ Drawing
    BY DEF MoonInit, Init, Video!Init, Live, Drawing
  <2>2. MoonInit => SInv
    BY InitSInv DEF MoonInit
  <2>. QED
    BY <2>1, <2>2 DEF MInv
<1>2. MInv /\ [MoonNext]_moonVars => MInv'
  BY MoonStepsSession, NextSInv, NextLive, NextDrawing DEF MInv
<1>. QED
  BY <1>1, <1>2, PTL DEF MoonSpec

\* The video of a session is that of VideoPipeline: what VideoPipeline takes for
\* granted (a stream is drawn while it is open only, and reset while it is
\* closed only) follows from main's state and the connection.
THEOREM MoonImplementsVideo == MoonSpec => Video!Spec
<1>1. MoonInit => Video!Init
  BY DEF MoonInit
<1>. QED
  BY <1>1, MoonInvariance, MoonStepsVideo, PTL DEF MoonSpec, Video!Spec

-----------------------------------------------------------------------------
(* What VideoPipelineProofs shows of the video, for this one.              *)

\* The decoder's steps, under the names of the instance with the proofs.
LEMMA SameDecoder == Video!Decoder => VideoP!Decoder
  BY Zenon
  DEF Video!Decoder, Video!SubmitUnit, Video!DecodeFails, Video!DecodeDone, Video!CountFrame,
      Video!AddFrame, Video!KeepAll, Video!DropOldest, Video!NextTexture, Video!elements_in,
      Video!Sub, Video!Inc, Video!Dec, Video!Slot, Video!MAX_QUEUEMESSAGES, Video!counters,
      Video!queue, Video!pixels,
      VideoP!Decoder, VideoP!SubmitUnit, VideoP!DecodeFails, VideoP!DecodeDone, VideoP!CountFrame,
      VideoP!AddFrame, VideoP!KeepAll, VideoP!DropOldest, VideoP!NextTexture, VideoP!elements_in,
      VideoP!Sub, VideoP!Inc, VideoP!Dec, VideoP!Slot, VideoP!MAX_QUEUEMESSAGES, VideoP!counters,
      VideoP!queue, VideoP!pixels

\* The display's.
LEMMA SameDisplay == Video!Display => VideoP!Display
  BY Zenon
  DEF Video!Display, Video!GetFrame, Video!TakeFrame, Video!SkipFrame, Video!BeginDraw,
      Video!EndDraw, Video!QueueEmpty, Video!Oldest, Video!Behind, Video!elements_in,
      Video!backlog, Video!Sub, Video!Inc, Video!Slot, Video!MAX_QUEUEMESSAGES, Video!counters,
      Video!queue, Video!pixels,
      VideoP!Display, VideoP!GetFrame, VideoP!TakeFrame, VideoP!SkipFrame, VideoP!BeginDraw,
      VideoP!EndDraw, VideoP!QueueEmpty, VideoP!Oldest, VideoP!Behind, VideoP!elements_in,
      VideoP!backlog, VideoP!Sub, VideoP!Inc, VideoP!Slot, VideoP!MAX_QUEUEMESSAGES,
      VideoP!counters, VideoP!queue, VideoP!pixels

\* The session's.
LEMMA SameSession == Video!Session => VideoP!Session
  BY Zenon
  DEF Video!Session, Video!StartStream, Video!StartReturns, Video!StartAborts, Video!StopStream,
      Video!ResetClosed, Video!Reset, Video!Textures, Video!counters, Video!queue, Video!pixels,
      VideoP!Session, VideoP!StartStream, VideoP!StartReturns, VideoP!StartAborts,
      VideoP!StopStream, VideoP!ResetClosed, VideoP!Reset, VideoP!Textures, VideoP!counters,
      VideoP!queue, VideoP!pixels

\* So the proofs about VideoPipeline are about this video.
LEMMA SameVideo == Video!Spec => VideoP!Spec
<1>1. Video!Init => VideoP!Init
  BY DEF Video!Init, Video!Slots, Video!Textures, Video!MAX_QUEUEMESSAGES,
         VideoP!Init, VideoP!Slots, VideoP!Textures, VideoP!MAX_QUEUEMESSAGES
<1>2. [Video!Next]_(Video!vars) => [VideoP!Next]_(VideoP!vars)
  <2>1. UNCHANGED Video!vars => UNCHANGED VideoP!vars
    BY DEF Video!vars, Video!counters, Video!queue, Video!pixels,
           VideoP!vars, VideoP!counters, VideoP!queue, VideoP!pixels
  <2>. QED
    BY <2>1, SameDecoder, SameDisplay, SameSession DEF Video!Next, VideoP!Next
<1>. QED
  BY <1>1, <1>2, PTL DEF Video!Spec, VideoP!Spec

\* Whatever happens around it, the decoder is at most one unit ahead of a drawing
\* that starts in a session, and the queue is the one that forgets its oldest.
THEOREM MoonVideoAsPromised == MoonSpec => VideoP!OvertakenByOneAtMost /\ VideoP!ImplementsQueue
<1>1. VideoP!Spec => VideoP!OvertakenByOneAtMost
  BY VideoP!DrawsOwnOrNext, VideoAssumption
<1>2. VideoP!Spec => VideoP!ImplementsQueue
  BY VideoP!QueueAsPromised, VideoAssumption
<1>. QED
  BY <1>1, <1>2, MoonImplementsVideo, SameVideo, PTL

-----------------------------------------------------------------------------
(* Live frames.                                                            *)

\* What the queue holds during a connection was queued in it.
OwnQueued ==
  conn # "down" => \A k \in 1..Video!elements_in : Video!Slot(Video!Sub(queueWriteIndex, k)) \in own

\* The queue's indices and its bound, from VideoPipeline's invariant.
QueueOK == /\ queueWriteIndex \in Video!Words /\ queueReadIndex \in Video!Words
           /\ Video!elements_in \in 0..NUM_BUFFERS

\* They follow from it.
LEMMA QueueIsOK == VideoP!IInv => QueueOK
  BY VideoAssumption
  DEF VideoP!IInv, VideoP!TypeOK, VideoP!QueueBounded, VideoP!elements_in, VideoP!Sub,
      VideoP!MAX_QUEUEMESSAGES, VideoP!Words, QueueOK, Video!elements_in, Video!Sub, Video!Words

\* How the places in the queue move when a frame is added or taken.
LEMMA PlacesMove ==
  ASSUME QueueOK
  PROVE  /\ Video!Sub(Video!Inc(queueWriteIndex), 1) = queueWriteIndex
         /\ \A k \in 1..NUM_BUFFERS :
              Video!Sub(Video!Inc(queueWriteIndex), k + 1) = Video!Sub(queueWriteIndex, k)
         /\ Video!elements_in # NUM_BUFFERS =>
              Video!Sub(Video!Inc(queueWriteIndex), queueReadIndex) = Video!elements_in + 1
         /\ Video!Sub(Video!Inc(queueWriteIndex), Video!Inc(queueReadIndex)) = Video!elements_in
         /\ Video!elements_in # 0 =>
              /\ Video!Sub(queueWriteIndex, Video!Inc(queueReadIndex)) = Video!elements_in - 1
              /\ Video!Sub(queueWriteIndex, Video!elements_in) = queueReadIndex
  BY VideoAssumption
  DEF QueueOK, Video!elements_in, Video!Sub, Video!Inc, Video!Words

\* Every step keeps the queue filled from its own connection.
LEMMA NextOwnQueued == MInv /\ QueueOK /\ OwnQueued /\ [MoonNext]_moonVars => OwnQueued'
<1> SUFFICES ASSUME MInv, QueueOK, OwnQueued, [MoonNext]_moonVars
             PROVE  OwnQueued'
  OBVIOUS
<1>1. ASSUME UNCHANGED <<queueWriteIndex, queueReadIndex, own>>, conn # "down" \/ conn' = "down"
      PROVE  OwnQueued'
  BY <1>1 DEF OwnQueued, Video!elements_in
<1>2. CASE Turn \/ Others
  BY <1>1, <1>2, ConnectionSteps DEF MInv, Turn, Others, videoVars
<1>3. CASE Refused \/ FailsToConnect \/ Disconnects \/ StopReset
  <2>1. conn' = "down"
    BY <1>3 DEF Refused, StartRefused, FailsToConnect, LiStartFails, Disconnects, LiStop,
       StopReset, FinishStop, MInv, SInv, ByPlace, MenuSteps, library
  <2>. QED
    BY <2>1 DEF OwnQueued
<1>4. CASE Connects
  <2>1. queueWriteIndex' = 0 /\ queueReadIndex' = 0
    BY <1>4 DEF Connects, Video!StartStream, Video!Reset
  <2>2. (Video!elements_in)' = 0
    BY <2>1 DEF Video!elements_in, Video!Sub
  <2>. QED
    BY <2>2 DEF OwnQueued
<1>5. CASE Opens
  <2>1. conn # "down"
    BY <1>5 DEF Opens, LiStarted, MInv, SInv, ByPlace
  <2>. QED
    BY <1>1, <1>5, <2>1 DEF Opens, Video!StartReturns, Video!queue
<1>6. CASE Draw
  <2>1. own' = own /\ conn' = conn
    BY <1>6 DEF Draw, vars, library
  <2>2. CASE Video!TakeFrame
    <3>1. (Video!elements_in)' = Video!elements_in - 1 /\ queueWriteIndex' = queueWriteIndex
      BY <2>2, PlacesMove DEF Video!TakeFrame, Video!QueueEmpty, Video!elements_in
    <3>. QED
      BY <2>1, <3>1 DEF OwnQueued, QueueOK
  <2>3. CASE Video!SkipFrame \/ Video!BeginDraw \/ Video!EndDraw
    BY <1>1, <2>1, <2>3 DEF Video!SkipFrame, Video!BeginDraw, Video!EndDraw, Video!queue
  <2>. QED
    BY <1>6, <2>2, <2>3 DEF Draw
<1>7. CASE Decode
  <2>1. conn # "down"
    BY <1>7 DEF Decode
  <2>2. CASE Video!AddFrame
    <3>1. /\ queueWriteIndex' = Video!Inc(queueWriteIndex)
          /\ own' = own \cup {Video!Slot(queueWriteIndex)}
      BY <1>7, <2>2 DEF Decode, Video!AddFrame
    <3>2. (Video!elements_in)' \in 0..NUM_BUFFERS /\ (Video!elements_in)' <= Video!elements_in + 1
      <4>1. CASE Video!KeepAll
        BY <3>1, <4>1, PlacesMove, VideoAssumption
        DEF Video!KeepAll, Video!MAX_QUEUEMESSAGES, Video!elements_in, QueueOK
      <4>2. CASE Video!DropOldest
        BY <3>1, <4>2, PlacesMove, VideoAssumption
        DEF Video!DropOldest, Video!elements_in, QueueOK
      <4>. QED
        BY <2>2, <4>1, <4>2 DEF Video!AddFrame
    <3>3. ASSUME NEW k \in 1..(Video!elements_in)'
          PROVE  Video!Slot(Video!Sub(queueWriteIndex', k)) \in own'
      <4>1. CASE k = 1
        <5>1. Video!Sub(queueWriteIndex', k) = queueWriteIndex
          BY <3>1, <4>1, PlacesMove
        <5>. QED
          BY <3>1, <5>1
      <4>2. CASE k # 1
        <5>1. k - 1 \in 1..Video!elements_in /\ k - 1 \in 1..NUM_BUFFERS /\ (k - 1) + 1 = k
          BY <3>2, <4>2, VideoAssumption DEF QueueOK
        <5>2. Video!Sub(queueWriteIndex', k) = Video!Sub(queueWriteIndex, k - 1)
          BY <3>1, <5>1, PlacesMove
        <5>3. Video!Slot(Video!Sub(queueWriteIndex, k - 1)) \in own
          BY <2>1, <5>1 DEF OwnQueued
        <5>. QED
          BY <3>1, <5>2, <5>3
      <4>. QED
        BY <4>1, <4>2
    <3>. QED
      BY <3>3 DEF OwnQueued
  <2>3. CASE ~Video!AddFrame
    <3>1. own' = own
      BY <1>7, <2>3 DEF Decode
    <3>2. UNCHANGED Video!queue
      BY <1>7, <2>3 DEF Decode, Video!SubmitUnit, Video!DecodeFails, Video!DecodeDone,
         Video!CountFrame
    <3>. QED
      BY <1>1, <2>1, <3>1, <3>2 DEF Video!queue
  <2>. QED
    BY <2>2, <2>3
<1>8. CASE UNCHANGED moonVars
  BY <1>1, <1>8 DEF moonVars, vars, videoVars, library
<1>. QED
  BY <1>2, <1>3, <1>4, <1>5, <1>6, <1>7, <1>8 DEF MoonNext

\* Main takes frames from the queue only while a connection is up and only such
\* as this connection has queued, and holds none when its textures are freed.
THEOREM LiveFramesDrawn == MoonSpec => DrawsLiveFrames
<1> DEFINE Step == /\ Video!TakeFrame => conn = "up" /\ Video!Slot(queueReadIndex) \in own
                   /\ display # "idle" => conn' = "up"
<1>1. MoonSpec => [](MInv /\ QueueOK)
  <2>1. VideoP!Spec => []VideoP!IInv
    BY VideoP!Invariance, VideoAssumption
  <2>. QED
    BY <2>1, QueueIsOK, MoonInvariance, MoonImplementsVideo, SameVideo, PTL
<1>2. MoonInit => OwnQueued
  BY DEF MoonInit, Init, OwnQueued
<1>3. MInv /\ QueueOK /\ OwnQueued /\ [MoonNext]_moonVars => [Step]_moonVars
  <2> SUFFICES ASSUME MInv, QueueOK, OwnQueued, MoonNext
               PROVE  Step
    OBVIOUS
  <2>1. ASSUME Video!TakeFrame
        PROVE  conn = "up" /\ Video!Slot(queueReadIndex) \in own
    <3>1. display' # display
      BY <2>1 DEF Video!TakeFrame
    <3>2. Draw
      BY <3>1 DEF MoonNext, Turn, Others, Refused, Connects, Opens, FailsToConnect, Disconnects,
         StopReset, Decode, videoVars, Video!StartStream, Video!StartReturns, Video!StartAborts,
         Video!StopStream, Video!ResetClosed, Video!SubmitUnit, Video!DecodeFails,
         Video!DecodeDone, Video!CountFrame, Video!AddFrame
    <3>3. Streams
      BY <2>1, <3>2 DEF Draw, Video!TakeFrame, Video!SkipFrame, Video!BeginDraw, Video!EndDraw
    <3>4. conn = "up"
      BY <3>3 DEF Streams, MInv, Live
    <3>5. Video!elements_in \in 1..Video!elements_in
      BY <2>1 DEF Video!TakeFrame, Video!QueueEmpty, QueueOK
    <3>6. Video!Sub(queueWriteIndex, Video!elements_in) = queueReadIndex
      BY <2>1, PlacesMove DEF Video!TakeFrame, Video!QueueEmpty
    <3>. QED
      BY <3>4, <3>5, <3>6 DEF OwnQueued
  <2>2. ASSUME display # "idle"
        PROVE  conn' = "up"
    <3>1. mpc = "poll" /\ conn = "up"
      BY <2>2 DEF MInv, Drawing
    <3>2. CASE Turn \/ Others
      BY <3>1, <3>2, ConnectionSteps DEF MInv
    <3>3. CASE Draw \/ Decode
      BY <3>1, <3>3 DEF Draw, Decode, vars, library
    <3>. QED
      BY <3>1, <3>2, <3>3 DEF MoonNext, Refused, StartRefused, Connects, LiStart, Opens,
         LiStarted, FailsToConnect, LiStartFails, Disconnects, LiStop, StopReset, FinishStop
  <2>. QED
    BY <2>1, <2>2
<1>. QED
  BY <1>1, <1>2, <1>3, NextOwnQueued, PTL DEF MoonSpec, DrawsLiveFrames
=============================================================================
