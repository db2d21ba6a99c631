--------------------------- MODULE VideoPipeline ---------------------------
(***************************************************************************)
(* The video path of Moonlight Wii U: the decoder thread, which the        *)
(* streaming library runs through wiiu_decoder_submit_decode_unit          *)
(* (src/src/wiiu/decode.c), and the display thread, the program's main     *)
(* loop in wiiu_stream_draw (src/src/wiiu/wiiu.c).  They share             *)
(*   - a ring of NUM_BUFFERS textures, written by the decoder,             *)
(*   - a queue of as many texture pointers, under queueMutex,              *)
(*   - the counters nextFrame and currentFrame, under no lock at all.      *)
(*                                                                         *)
(* A critical section of queueMutex is one step.  Everything outside it is *)
(* a step per shared access, so that the display reads the counters        *)
(* between any two steps of the decoder.  The four counters are uint32_t:  *)
(* they wrap at Word.                                                      *)
(***************************************************************************)
EXTENDS Naturals, Sequences

CONSTANTS NUM_BUFFERS,  \* textures, and queue slots (wiiu.h)
          Word,         \* 2^32 in the program
          NoFrame,      \* the display holds no texture
          Torn          \* pixels of no single frame

\* The queue turns an index into a slot with & (MAX_QUEUEMESSAGES - 1): a
\* remainder which the wrap of the index does not disturb.
ASSUME SizesAssumption == /\ NUM_BUFFERS \in Nat \ {0}
                          /\ Word \in Nat
                          /\ Word > 3 * NUM_BUFFERS + 3
                          /\ Word % NUM_BUFFERS = 0

ASSUME ValuesAssumption == /\ NoFrame \notin [tex : 0..(NUM_BUFFERS - 1), frame : 0..(Word - 1)]
                           /\ NoFrame \notin 0..(Word - 1)

MAX_QUEUEMESSAGES == NUM_BUFFERS

VARIABLES
  nextFrame,        \* frames decoded since the last reset
  currentFrame,     \* frames the display has shown or skipped
  queueMessages,    \* slot -> texture pointer
  queueWriteIndex, queueReadIndex, droppedFrames,
  currentTexture,   \* the texture the next unit is decoded into
  content,          \* texture -> number of the frame in it, or Torn
  decoder,          \* where the decoder thread is in submit_decode_unit
  display,          \* where the main thread is in wiiu_stream_draw
  held,             \* the texture the display took from the queue
  stream            \* "closed", "starting" (in LiStartConnection) or "open"

counters == <<nextFrame, currentFrame>>
queue    == <<queueMessages, queueWriteIndex, queueReadIndex, droppedFrames>>
pixels   == <<currentTexture, content>>
vars     == <<counters, queue, pixels, decoder, display, held, stream>>

Textures == 0..(NUM_BUFFERS - 1)
Slots    == 0..(MAX_QUEUEMESSAGES - 1)
Words    == 0..(Word - 1)

\* A queued pointer, with the number of the frame it was queued for: the
\* number is not in the program, it says which frame the pointer stands for.
Messages == [tex : Textures, frame : Words]

-----------------------------------------------------------------------------
(* Arithmetic on uint32_t.                                                 *)

Inc(x)    == IF x + 1 = Word THEN 0 ELSE x + 1
Sub(x, y) == IF y <= x THEN x - y ELSE (x + Word) - y
Dec(x)    == IF x = 0 THEN Word - 1 ELSE x - 1

SlotShort(index) == index % (MAX_QUEUEMESSAGES - 1)   \* mutant: mask too small
Slot(index) == index % MAX_QUEUEMESSAGES

elements_in == Sub(queueWriteIndex, queueReadIndex)
backlog     == Sub(nextFrame, currentFrame)

-----------------------------------------------------------------------------
Init == /\ nextFrame = 0 /\ currentFrame = 0
        /\ queueMessages = [s \in Slots |-> NoFrame]
        /\ queueWriteIndex = 0 /\ queueReadIndex = 0 /\ droppedFrames = 0
        /\ currentTexture = 0
        /\ content = [t \in Textures |-> Torn]
        /\ decoder = "idle" /\ display = "idle" /\ held = NoFrame
        /\ stream = "closed"

\* Mutant: a reset that forgets the display's counter.
ResetHalf == /\ nextFrame' = 0 /\ UNCHANGED currentFrame
             /\ queueWriteIndex' = 0 /\ queueReadIndex' = 0 /\ droppedFrames' = 0
             /\ UNCHANGED queueMessages

\* wiiu_stream_reset: the slots keep their old pointers.
Reset == /\ nextFrame' = 0 /\ currentFrame' = 0
         /\ queueWriteIndex' = 0 /\ queueReadIndex' = 0 /\ droppedFrames' = 0
         /\ UNCHANGED queueMessages

-----------------------------------------------------------------------------
(* The decoder thread.                                                     *)

\* A unit which fits the buffer and whose bitstream is accepted reaches
\* H264DECExecute, which starts to write into the current texture.  The two
\* early returns before it change nothing.
SubmitUnit ==
  /\ stream \in {"starting", "open"} /\ decoder = "idle"
  /\ decoder' = "decoding"
  /\ content' = [content EXCEPT ![currentTexture] = Torn]
  /\ UNCHANGED <<counters, queue, currentTexture, display, held, stream>>

\* DR_NEED_IDR: the texture keeps what was decoded so far.
DecodeFails ==
  /\ decoder = "decoding"
  /\ decoder' = "idle"
  /\ UNCHANGED <<counters, queue, pixels, display, held, stream>>

DecodeDone ==
  /\ decoder = "decoding"
  /\ decoder' = "decoded"
  /\ content' = [content EXCEPT ![currentTexture] = nextFrame]
  /\ UNCHANGED <<counters, queue, currentTexture, display, held, stream>>

\* nextFrame++, outside the mutex and before the frame is in the queue.
CountFrame ==
  /\ decoder = "decoded"
  /\ decoder' = "counted"
  /\ nextFrame' = Inc(nextFrame)
  /\ UNCHANGED <<currentFrame, queue, pixels, display, held, stream>>

\* add_frame when there is room for the frame, and when there is none.
KeepAlways == UNCHANGED <<queueReadIndex, droppedFrames>>   \* mutant: no check
KeepAll    == elements_in # MAX_QUEUEMESSAGES /\ UNCHANGED <<queueReadIndex, droppedFrames>>
DropOldest == /\ elements_in = MAX_QUEUEMESSAGES
              /\ queueReadIndex' = Inc(queueReadIndex)
              /\ droppedFrames' = Inc(droppedFrames)

\* currentTexture++ and its wrap.
NextTextureLate == IF currentTexture + 1 > NUM_BUFFERS THEN 0 ELSE currentTexture + 1   \* mutant
NextTexture == IF currentTexture + 1 >= NUM_BUFFERS THEN 0 ELSE currentTexture + 1

\* add_frame, then the decoder's move to the next texture.
AddFrame ==
  /\ decoder = "counted"
  /\ decoder' = "idle"
  /\ KeepAll \/ DropOldest
  /\ queueMessages' = [queueMessages EXCEPT ![Slot(queueWriteIndex)] =
                         [tex |-> currentTexture, frame |-> Dec(nextFrame)]]
  /\ queueWriteIndex' = Inc(queueWriteIndex)
  /\ currentTexture' = NextTexture
  /\ UNCHANGED <<counters, content, display, held, stream>>

-----------------------------------------------------------------------------
(* The display: the main loop calls wiiu_stream_draw while it is STREAMING.*)

EmptyEarly == elements_in <= 1   \* mutant: the last frame counts as none
QueueEmpty == elements_in = 0

PreIncrement == queueMessages[Slot(Inc(queueReadIndex))]   \* mutant: ++queueReadIndex
Oldest == queueMessages[Slot(queueReadIndex)]

\* When get_frame finds the queue empty nothing changes and the loop polls again.
TakeFrame ==
  /\ display = "idle" /\ ~QueueEmpty
  /\ held' = Oldest
  /\ queueReadIndex' = Inc(queueReadIndex)
  /\ display' = "got"
  /\ UNCHANGED <<counters, queueMessages, queueWriteIndex, droppedFrames,
                 pixels, decoder, stream>>

GetFrame == stream = "open" /\ TakeFrame

BehindByMore == backlog > NUM_BUFFERS + 1   \* mutant: off by one
Behind == backlog > NUM_BUFFERS

SkipFrame ==
  /\ display = "got"
  /\ Behind
  /\ currentFrame' = Inc(currentFrame)
  /\ display' = "idle" /\ held' = NoFrame
  /\ UNCHANGED <<nextFrame, queue, pixels, decoder, stream>>

BeginDraw ==
  /\ display = "got"
  /\ ~Behind
  /\ display' = "drawing"
  /\ UNCHANGED <<counters, queue, pixels, decoder, held, stream>>

\* WHBGfxFinishRender has returned; the texture is free for the decoder.
EndDraw ==
  /\ display = "drawing"
  /\ currentFrame' = Inc(currentFrame)
  /\ display' = "idle" /\ held' = NoFrame
  /\ UNCHANGED <<nextFrame, queue, pixels, decoder, stream>>

-----------------------------------------------------------------------------
(* The session around them, run by the main thread.                        *)

\* START_STREAM: wiiu_stream_reset, then LiStartConnection, which calls
\* wiiu_decoder_setup (fresh textures) and starts the decoder thread.
StartStream ==
  /\ stream = "closed"
  /\ stream' = "starting"
  /\ Reset
  /\ currentTexture' = 0
  /\ content' = [t \in Textures |-> Torn]
  /\ UNCHANGED <<decoder, display, held>>

StartReturns ==
  /\ stream = "starting"
  /\ stream' = "open"
  /\ UNCHANGED <<counters, queue, pixels, decoder, display, held>>

\* LiStartConnection fails after it has stopped what it started; main goes
\* back to CONNECTED and resets nothing.
StartAborts ==
  /\ stream = "starting" /\ decoder = "idle"
  /\ stream' = "closed"
  /\ UNCHANGED <<counters, queue, pixels, decoder, display, held>>

\* STOP_STREAM: LiStopConnection joins the decoder thread; the display is this
\* very thread.
StopStream ==
  /\ stream = "open" /\ decoder = "idle" /\ display = "idle"
  /\ stream' = "closed"
  /\ UNCHANGED <<counters, queue, pixels, decoder, display, held>>

\* wiiu_stream_reset with no stream: in STOP_STREAM after LiStopConnection, which
\* may have found nothing to stop, and in START_STREAM when stream() fails
\* before it comes to LiStartConnection.
ResetClosed ==
  /\ stream = "closed"
  /\ Reset
  /\ UNCHANGED <<pixels, decoder, display, held, stream>>

-----------------------------------------------------------------------------
Decoder == SubmitUnit \/ DecodeFails \/ DecodeDone \/ CountFrame \/ AddFrame
Display == GetFrame \/ SkipFrame \/ BeginDraw \/ EndDraw
Session == StartStream \/ StartReturns \/ StartAborts \/ StopStream \/ ResetClosed

Next == Decoder \/ Display \/ Session

Spec == Init /\ [][Next]_vars

\* The main loop keeps polling while it is STREAMING, and LiStartConnection
\* returns one way or the other.  Nothing is assumed of the decoder: the host
\* may stop sending.
FairSpec == Spec /\ WF_vars(Display) /\ WF_vars(StartReturns \/ StartAborts)

-----------------------------------------------------------------------------
TypeOK ==
  /\ nextFrame \in Words /\ currentFrame \in Words
  /\ queueMessages \in [Slots -> Messages \cup {NoFrame}]
  /\ queueWriteIndex \in Words /\ queueReadIndex \in Words
  /\ droppedFrames \in Words
  /\ currentTexture \in Textures
  /\ content \in [Textures -> Words \cup {Torn}]
  /\ decoder \in {"idle", "decoding", "decoded", "counted"}
  /\ display \in {"idle", "got", "drawing"}
  /\ held \in Messages \cup {NoFrame}
  /\ stream \in {"closed", "starting", "open"}

-----------------------------------------------------------------------------
(* Safety.                                                                 *)

Plus(x, y) == IF x + y < Word THEN x + y ELSE (x + y) - Word
One(b) == IF b THEN 1 ELSE 0

\* The queue never holds more than its slots, wrap of the indices or not:
\* elements_in == MAX_QUEUEMESSAGES in add_frame catches every overflow.
QueueBounded == elements_in <= MAX_QUEUEMESSAGES

\* Frames the display still has to account for: queued ones, the one in its
\* hand, the one counted by the decoder and not queued yet.
waiting == elements_in + One(display # "idle") + One(decoder = "counted")

\* What nextFrame - currentFrame in wiiu_stream_draw really measures: the
\* waiting frames and also every frame add_frame dropped since the reset,
\* because the drop moves queueReadIndex and not currentFrame.
Accounting == backlog = Plus(waiting, droppedFrames)

\* The queued pointers name consecutive textures and consecutive frames, up to
\* the one the decoder uses next; so no two of them share a texture.
QueueConsecutive ==
  \A k \in 1..elements_in :
    LET m == queueMessages[Slot(Sub(queueWriteIndex, k))]
        last == IF decoder = "counted" THEN Dec(nextFrame) ELSE nextFrame
    IN  /\ m.tex = (currentTexture + NUM_BUFFERS - k) % NUM_BUFFERS
        /\ m.frame = Sub(last, k)

\* What the skip in wiiu_stream_draw is worth.  When drawing starts, the texture
\* shows its own frame, but for one case: the test is > (wiiu.c:114), so a backlog
\* of exactly NUM_BUFFERS draws, and then the decoder is back at this texture
\* with its next unit, which is in it whole or in part.  It is never a frame that
\* has been counted or queued, and with less backlog the texture is untouched.
\* That much fails only while the drop counter is about to wrap: after nearly
\* 2^32 drops in one session.
WrapNear == droppedFrames >= Word - (NUM_BUFFERS + 2)

Overtaken == /\ backlog = NUM_BUFFERS
             /\ held.tex = currentTexture
             /\ held.frame = Sub(nextFrame, NUM_BUFFERS)
             /\ content[held.tex] \in {nextFrame, Torn}

OvertakenByOneAtMost ==
  [][BeginDraw /\ ~WrapNear => content[held.tex] = held.frame \/ Overtaken]_vars

\* The consequence of Accounting: once the queue has overflowed NUM_BUFFERS
\* times in one session nothing is drawn any more, until the drop counter is
\* about to wrap around or the stream is reset.
FrozenAfterDrops == [][BeginDraw => droppedFrames < NUM_BUFFERS \/ WrapNear]_vars

\* "display thread is behind decoder, skip this old frame" (wiiu.c:115): a
\* frame that is skipped is not the newest one the decoder has produced.
SkipsOnlyOldFrames == [][SkipFrame => nextFrame # Inc(held.frame)]_vars

-----------------------------------------------------------------------------
(* Liveness and refinement.                                                *)

\* While a stream runs, the frame at the head of the queue leaves it: taken by
\* the display or dropped by add_frame.  (Only the end of the stream ends the
\* wait otherwise: frames of a start that failed stay until the next reset.)
FrameLeavesQueue ==
  \A r \in Words : (stream # "closed" /\ elements_in > 0 /\ queueReadIndex = r)
                     ~> (queueReadIndex # r \/ stream = "closed")

\* The ring of slots and indices implements the drop-oldest queue: a frame is
\* put when add_frame has queued it and taken when get_frame returns it.
Queue == INSTANCE DropOldestQueue WITH
  Capacity <- MAX_QUEUEMESSAGES,
  queue <- [k \in 1..elements_in |->
              queueMessages[Slot((queueReadIndex + k - 1) % Word)].frame],
  taken <- IF held = NoFrame THEN NoFrame ELSE held.frame,
  fresh <- IF decoder = "counted" THEN Dec(nextFrame) ELSE nextFrame

ImplementsQueue == Queue!QSpec
=============================================================================
