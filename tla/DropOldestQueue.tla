-------------------------- MODULE DropOldestQueue --------------------------
(***************************************************************************)
(* What the frame queue of src/src/wiiu/wiiu.c promises its two users, the *)
(* decoder thread (add_frame) and the display thread (get_frame): a        *)
(* bounded first-in first-out queue which forgets its oldest entry when it *)
(* is full.  Frames are numbered in the order they are decoded, modulo the *)
(* width of the code's counters.  VideoPipeline implements this            *)
(* specification with a ring of slots and two wrapping indices.            *)
(***************************************************************************)
EXTENDS Naturals, Sequences

CONSTANTS Capacity,   \* entries the queue holds
          Word,       \* frame numbers are taken modulo Word
          NoFrame     \* what the display holds between two frames

VARIABLES queue,      \* the waiting frames, oldest first
          taken,      \* the frame the display is working on, or NoFrame
          fresh       \* the number the next decoded frame gets

qvars == <<queue, taken, fresh>>

QInit == queue = <<>> /\ taken = NoFrame /\ fresh = 0

\* The newest frame always gets in; only the oldest can be lost for it.
Put == /\ queue' = Append(IF Len(queue) = Capacity THEN Tail(queue) ELSE queue,
                          fresh)
       /\ fresh' = (fresh + 1) % Word
       /\ UNCHANGED taken

\* The display takes the oldest waiting frame.
Take == /\ queue # <<>> /\ taken = NoFrame
        /\ taken' = Head(queue)
        /\ queue' = Tail(queue)
        /\ UNCHANGED fresh

\* The display is done with its frame, shown or not.
Finish == taken # NoFrame /\ taken' = NoFrame /\ UNCHANGED <<queue, fresh>>

\* A stream ends or a new one begins.
Clear == taken = NoFrame /\ queue' = <<>> /\ fresh' = 0 /\ UNCHANGED taken

QNext == Put \/ Take \/ Finish \/ Clear

QSpec == QInit /\ [][QNext]_qvars
=============================================================================
