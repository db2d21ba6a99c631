------------------------ MODULE VideoPipelineProofs ------------------------
(***************************************************************************)
(* What VideoPipeline guarantees for every number of buffers and every     *)
(* width of the counters.  The invariant that is inductive is IInv: the    *)
(* types, the bound of the queue, the accounting of nextFrame and          *)
(* currentFrame, and which threads may be busy while the stream is closed. *)
(* On top of it DInv says that the queued pointers, the pointer which the  *)
(* display holds and the pixels of the textures all follow the one order   *)
(* in which the decoder goes round the textures: that gives what is drawn, *)
(* and that the ring is the queue which DropOldestQueue specifies.         *)
(***************************************************************************)
EXTENDS VideoPipeline, Integers, SequenceTheorems, TLAPS

\* A closed stream has no thread in the middle of anything, and the display
\* does not look at the queue before LiStartConnection has returned: resets
\* happen in these states only.
Phases == /\ stream = "closed" => decoder = "idle" /\ display = "idle"
          /\ stream = "starting" => display = "idle"

IInv == TypeOK /\ QueueBounded /\ Accounting /\ Phases

-----------------------------------------------------------------------------
(* Slots and wrapping counters.                                            *)

\* The index of a slot is a slot, whatever the counter has wrapped to.
LEMMA SlotType ==
  ASSUME NEW i \in Words
  PROVE  Slot(i) \in Slots
  BY SizesAssumption DEF Slot, Slots, Words, MAX_QUEUEMESSAGES

\* The results of the uint32_t operations are uint32_t.
LEMMA WordType ==
  ASSUME NEW x \in Words, NEW y \in Words
  PROVE  /\ Inc(x) \in Words
         /\ Dec(x) \in Words
         /\ Sub(x, y) \in Words
  BY SizesAssumption DEF Words, Inc, Dec, Sub

\* A difference follows its operands through every wrap: incrementing the
\* first adds one to it, incrementing the second takes one off.
LEMMA SubInc ==
  ASSUME NEW x \in Words, NEW y \in Words
  PROVE  /\ Sub(Inc(x), y) = Inc(Sub(x, y))
         /\ Sub(x, Inc(y)) = Dec(Sub(x, y))
         /\ Sub(Inc(x), Inc(y)) = Sub(x, y)
         /\ Sub(x, x) = 0
  BY SizesAssumption DEF Words, Inc, Dec, Sub

-----------------------------------------------------------------------------
\* The initial state satisfies the inductive invariant.
LEMMA InitIInv == Init => IInv
  BY SizesAssumption, SMT
  DEF Init, IInv, TypeOK, QueueBounded, Accounting, Phases, Words, Slots, Textures,
      Messages, MAX_QUEUEMESSAGES, elements_in, backlog, waiting, One, Plus, Sub

\* Every step keeps every variable in its type.
LEMMA NextTypeOK == IInv /\ [Next]_vars => TypeOK'
<1> SUFFICES ASSUME IInv, [Next]_vars
             PROVE  TypeOK'
  OBVIOUS
<1> USE SizesAssumption DEF IInv, TypeOK
<1>1. CASE SubmitUnit
  BY <1>1 DEF SubmitUnit, counters, queue
<1>2. CASE DecodeFails
  BY <1>2 DEF DecodeFails, counters, queue, pixels
<1>3. CASE DecodeDone
  BY <1>3 DEF DecodeDone, counters, queue
<1>4. CASE CountFrame
  BY <1>4, WordType DEF CountFrame, queue, pixels
<1>5. CASE AddFrame
  <2>1. /\ queueReadIndex' \in Words
        /\ droppedFrames' \in Words
        /\ queueWriteIndex' \in Words
    BY <1>5, WordType DEF AddFrame, KeepAll, DropOldest
  <2>2. queueMessages' \in [Slots -> Messages \cup {NoFrame}]
    BY <1>5, WordType DEF AddFrame, Messages
  <2>3. currentTexture' \in Textures
    BY <1>5 DEF AddFrame, NextTexture, Textures
  <2>. QED
    BY <1>5, <2>1, <2>2, <2>3 DEF AddFrame, counters
<1>6. CASE GetFrame
  <2>1. held' \in Messages \cup {NoFrame}
    BY <1>6, SlotType DEF GetFrame, TakeFrame, Oldest
  <2>2. queueReadIndex' \in Words
    BY <1>6, WordType DEF GetFrame, TakeFrame
  <2>. QED
    BY <1>6, <2>1, <2>2 DEF GetFrame, TakeFrame, counters, pixels
<1>7. CASE SkipFrame
  BY <1>7, WordType DEF SkipFrame, queue, pixels
<1>8. CASE BeginDraw
  BY <1>8 DEF BeginDraw, counters, queue, pixels
<1>9. CASE EndDraw
  BY <1>9, WordType DEF EndDraw, queue, pixels
<1>10. CASE StartStream
  BY <1>10 DEF StartStream, Reset, Words, Textures
<1>11. CASE StartReturns \/ StartAborts \/ StopStream
  BY <1>11 DEF StartReturns, StartAborts, StopStream, counters, queue, pixels
<1>12. CASE ResetClosed
  BY <1>12 DEF ResetClosed, Reset, Words, pixels
<1>13. CASE UNCHANGED vars
  BY <1>13 DEF vars, counters, queue, pixels
<1>. QED
  BY <1>1, <1>2, <1>3, <1>4, <1>5, <1>6, <1>7, <1>8, <1>9, <1>10, <1>11, <1>12, <1>13
  DEF Next, Decoder, Display, Session

-----------------------------------------------------------------------------
(* The accounting.  A step changes backlog, waiting and droppedFrames by at *)
(* most one each; the lemmas say how Plus follows.                          *)

\* A small count plus a wrapping counter, when either moves by one.
LEMMA PlusStep ==
  ASSUME NEW w \in Nat, w + 1 < Word, NEW d \in Words
  PROVE  /\ Plus(w + 1, d) = Inc(Plus(w, d))
         /\ Plus(w, Inc(d)) = Inc(Plus(w, d))
         /\ Dec(Plus(w + 1, d)) = Plus(w, d)
         /\ Plus(0, d) = d
  BY SizesAssumption DEF Words, Plus, Inc, Dec

\* How the number of queued frames moves under the queue's operations.
LEMMA ElementsStep ==
  ASSUME TypeOK, QueueBounded
  PROVE  /\ elements_in \in 0..NUM_BUFFERS
         /\ elements_in # MAX_QUEUEMESSAGES =>
              Sub(Inc(queueWriteIndex), queueReadIndex) = elements_in + 1
         /\ elements_in # 0 =>
              Sub(queueWriteIndex, Inc(queueReadIndex)) = elements_in - 1
         /\ Sub(Inc(queueWriteIndex), Inc(queueReadIndex)) = elements_in
<1>1. elements_in \in Words /\ elements_in <= NUM_BUFFERS
  BY WordType DEF TypeOK, elements_in, QueueBounded, MAX_QUEUEMESSAGES
<1>2. elements_in \in 0..NUM_BUFFERS
  BY <1>1, SizesAssumption DEF Words
<1>3. /\ Sub(Inc(queueWriteIndex), queueReadIndex) = Inc(elements_in)
      /\ Sub(queueWriteIndex, Inc(queueReadIndex)) = Dec(elements_in)
      /\ Sub(Inc(queueWriteIndex), Inc(queueReadIndex)) = elements_in
  BY SubInc DEF TypeOK, elements_in
<1>4. Inc(elements_in) = elements_in + 1
  BY <1>2, SizesAssumption DEF Inc
<1>5. elements_in # 0 => Dec(elements_in) = elements_in - 1
  BY <1>2 DEF Dec
<1>. QED
  BY <1>2, <1>3, <1>4, <1>5

\* What the display still has to account for is a small number.
LEMMA WaitingType ==
  ASSUME TypeOK, QueueBounded
  PROVE  waiting \in 0..(NUM_BUFFERS + 2)
  BY ElementsStep, SizesAssumption DEF waiting, One

\* Every step keeps the bound of the queue.
LEMMA NextQueueBounded == IInv /\ [Next]_vars => QueueBounded'
<1> SUFFICES ASSUME IInv, [Next]_vars
             PROVE  QueueBounded'
  OBVIOUS
<1>1. TypeOK /\ QueueBounded
  BY DEF IInv
<1>2. CASE AddFrame
  <2>1. CASE KeepAll
    BY <1>1, <1>2, <2>1, ElementsStep, SizesAssumption
    DEF AddFrame, KeepAll, QueueBounded, elements_in, MAX_QUEUEMESSAGES
  <2>2. CASE DropOldest
    BY <1>1, <1>2, <2>2, ElementsStep DEF AddFrame, DropOldest, QueueBounded, elements_in
  <2>. QED
    BY <1>2, <2>1, <2>2 DEF AddFrame
<1>3. CASE GetFrame
  BY <1>1, <1>3, ElementsStep, SizesAssumption
  DEF GetFrame, TakeFrame, QueueEmpty, QueueBounded, elements_in, MAX_QUEUEMESSAGES
<1>4. CASE StartStream \/ ResetClosed
  BY <1>4, SizesAssumption
  DEF StartStream, ResetClosed, Reset, QueueBounded, elements_in, Sub, MAX_QUEUEMESSAGES
<1>5. CASE UNCHANGED queue
  BY <1>1, <1>5 DEF queue, QueueBounded, elements_in
<1>. QED
  BY <1>2, <1>3, <1>4, <1>5
  DEF Next, Decoder, Display, Session, SubmitUnit, DecodeFails, DecodeDone, CountFrame,
      SkipFrame, BeginDraw, EndDraw, StartReturns, StartAborts, StopStream, vars

\* Every step keeps the account of nextFrame and currentFrame.
LEMMA NextAccounting == IInv /\ [Next]_vars => Accounting'
<1> SUFFICES ASSUME IInv, [Next]_vars
             PROVE  Accounting'
  OBVIOUS
<1>1. TypeOK /\ QueueBounded /\ Accounting /\ Phases
  BY DEF IInv
<1>2. /\ Word \in Nat /\ waiting \in Nat /\ waiting + 1 < Word
      /\ droppedFrames \in Words /\ nextFrame \in Words /\ currentFrame \in Words
  <2>1. waiting \in 0..(NUM_BUFFERS + 2)
    BY <1>1, WaitingType
  <2>. QED
    BY <1>1, <2>1, SizesAssumption DEF TypeOK
<1>3. CASE CountFrame
  <2>1. backlog' = Inc(backlog)
    BY <1>2, <1>3, SubInc DEF CountFrame, backlog
  <2>2. waiting' = waiting + 1 /\ droppedFrames' = droppedFrames
    <3>1. elements_in' = elements_in /\ display' = display /\ droppedFrames' = droppedFrames
      BY <1>3 DEF CountFrame, queue, elements_in
    <3>2. One((decoder = "counted")') = One(decoder = "counted") + 1
      BY <1>3 DEF CountFrame, One
    <3>3. elements_in \in Nat /\ One(display # "idle") \in Nat /\ One(decoder = "counted") \in Nat
      BY <1>1, ElementsStep DEF One
    <3>. QED
      BY <3>1, <3>2, <3>3 DEF waiting
  <2>. QED
    BY <1>1, <1>2, <2>1, <2>2, PlusStep DEF Accounting
<1>4. CASE AddFrame
  <2>1. backlog' = backlog
    BY <1>4 DEF AddFrame, counters, backlog
  <2>2. /\ One((display # "idle")') = One(display # "idle")
        /\ One(decoder = "counted") = 1 /\ One((decoder = "counted")') = 0
    BY <1>4 DEF AddFrame, One
  <2>3. elements_in \in Nat /\ One(display # "idle") \in Nat
    BY <1>1, ElementsStep DEF One
  <2>4. CASE KeepAll
    <3>1. elements_in' = elements_in + 1
      BY <1>1, <1>4, <2>4, ElementsStep DEF AddFrame, KeepAll, elements_in
    <3>2. waiting' = waiting /\ droppedFrames' = droppedFrames
      BY <2>2, <2>3, <2>4, <3>1 DEF waiting, KeepAll
    <3>. QED
      BY <1>1, <2>1, <3>2 DEF Accounting
  <2>5. CASE DropOldest
    <3>1. elements_in' = elements_in
      BY <1>1, <1>4, <2>5, ElementsStep DEF AddFrame, DropOldest, elements_in
    <3>2. /\ waiting' \in Nat /\ waiting' + 1 = waiting
          /\ droppedFrames' = Inc(droppedFrames)
      BY <2>2, <2>3, <2>5, <3>1 DEF waiting, DropOldest
    <3>3. \A w \in Nat : w + 1 = waiting =>
            Plus(w, Inc(droppedFrames)) = Plus(w + 1, droppedFrames)
      BY <1>2, PlusStep
    <3>4. Plus(waiting', Inc(droppedFrames)) = Plus(waiting' + 1, droppedFrames)
      BY <3>2, <3>3
    <3>. QED
      BY <1>1, <2>1, <3>2, <3>4 DEF Accounting
  <2>. QED
    BY <1>4, <2>4, <2>5 DEF AddFrame
<1>5. CASE GetFrame
  <2>1. backlog' = backlog /\ droppedFrames' = droppedFrames
    BY <1>5 DEF GetFrame, TakeFrame, counters, backlog
  <2>2. elements_in' = elements_in - 1
    BY <1>1, <1>5, ElementsStep DEF GetFrame, TakeFrame, QueueEmpty, elements_in
  <2>3. /\ One((decoder = "counted")') = One(decoder = "counted")
        /\ One(display # "idle") = 0 /\ One((display # "idle")') = 1
    BY <1>5 DEF GetFrame, TakeFrame, One
  <2>4. elements_in \in Nat /\ One(decoder = "counted") \in Nat
    BY <1>1, ElementsStep DEF One
  <2>5. waiting' = waiting
    BY <2>2, <2>3, <2>4 DEF waiting
  <2>. QED
    BY <1>1, <2>1, <2>5 DEF Accounting
<1>6. CASE SkipFrame \/ EndDraw
  <2>1. backlog' = Dec(backlog)
    BY <1>2, <1>6, SubInc DEF SkipFrame, EndDraw, backlog
  <2>2. droppedFrames' = droppedFrames /\ elements_in' = elements_in
    BY <1>6 DEF SkipFrame, EndDraw, queue, elements_in
  <2>3. /\ One((decoder = "counted")') = One(decoder = "counted")
        /\ One(display # "idle") = 1 /\ One((display # "idle")') = 0
    BY <1>6 DEF SkipFrame, EndDraw, One
  <2>4. elements_in \in Nat /\ One(decoder = "counted") \in Nat
    BY <1>1, ElementsStep DEF One
  <2>5. waiting' \in Nat /\ waiting' + 1 = waiting
    BY <2>2, <2>3, <2>4 DEF waiting
  <2>6. \A w \in Nat : w + 1 = waiting =>
          Dec(Plus(w + 1, droppedFrames)) = Plus(w, droppedFrames)
    BY <1>2, PlusStep
  <2>7. Dec(Plus(waiting' + 1, droppedFrames)) = Plus(waiting', droppedFrames)
    BY <2>5, <2>6
  <2>. QED
    BY <1>1, <2>1, <2>2, <2>5, <2>7 DEF Accounting
<1>7. CASE StartStream \/ ResetClosed
  <2>1. decoder' = "idle" /\ display' = "idle"
    BY <1>1, <1>7 DEF StartStream, ResetClosed, Phases
  <2>2. backlog' = 0 /\ elements_in' = 0 /\ droppedFrames' = 0
    BY <1>7 DEF StartStream, ResetClosed, Reset, backlog, elements_in, Sub
  <2>. QED
    BY <2>1, <2>2, SizesAssumption DEF Accounting, waiting, One, Plus
<1>8. CASE /\ UNCHANGED <<counters, queue>>
           /\ (display # "idle")' = (display # "idle")
           /\ (decoder = "counted")' = (decoder = "counted")
  <2>1. /\ backlog' = backlog /\ droppedFrames' = droppedFrames
        /\ elements_in' = elements_in
    BY <1>8 DEF counters, queue, backlog, elements_in
  <2>2. waiting' = waiting
    BY <1>8, <2>1 DEF waiting, One
  <2>. QED
    BY <1>1, <2>1, <2>2 DEF Accounting
<1>. QED
  BY <1>3, <1>4, <1>5, <1>6, <1>7, <1>8
  DEF Next, Decoder, Display, Session, SubmitUnit, DecodeFails, DecodeDone, BeginDraw,
      StartReturns, StartAborts, StopStream, vars

\* Every step keeps the threads idle while the stream is closed.
LEMMA NextPhases == IInv /\ [Next]_vars => Phases'
  BY DEF IInv, Phases, Next, Decoder, Display, Session, SubmitUnit, DecodeFails, DecodeDone,
         CountFrame, AddFrame, GetFrame, TakeFrame, SkipFrame, BeginDraw, EndDraw, StartStream, ResetClosed,
         StartReturns, StartAborts, StopStream, vars

-----------------------------------------------------------------------------
\* The inductive invariant holds in every reachable state.
THEOREM Invariance == Spec => []IInv
<1>1. IInv /\ [Next]_vars => IInv'
  BY NextTypeOK, NextQueueBounded, NextAccounting, NextPhases DEF IInv
<1>. QED
  BY InitIInv, <1>1, PTL DEF Spec

\* Every variable keeps its type.
THEOREM TypeCorrect == Spec => []TypeOK
<1>1. IInv => TypeOK
  BY DEF IInv
<1>. QED
  BY Invariance, <1>1, PTL

\* The queue never holds more frames than it has slots: add_frame sees every
\* overflow although the indices wrap.
THEOREM QueueNeverOverflows == Spec => []QueueBounded
<1>1. IInv => QueueBounded
  BY DEF IInv
<1>. QED
  BY Invariance, <1>1, PTL

\* nextFrame - currentFrame, which wiiu_stream_draw takes for the number of
\* waiting frames, is that number plus the number of drops since the reset.
THEOREM BacklogCountsDrops == Spec => []Accounting
<1>1. IInv => Accounting
  BY DEF IInv
<1>. QED
  BY Invariance, <1>1, PTL

\* After NUM_BUFFERS drops in one session the display draws nothing, until the
\* drop counter is about to wrap.
THEOREM DisplayFreezes == Spec => FrozenAfterDrops
<1> DEFINE Shown == droppedFrames < NUM_BUFFERS \/ WrapNear
<1>1. IInv /\ [Next]_vars => [BeginDraw => Shown]_vars
  <2> SUFFICES ASSUME IInv, BeginDraw
               PROVE  Shown
    OBVIOUS
  <2>1. TypeOK /\ QueueBounded /\ backlog = Plus(waiting, droppedFrames)
    BY DEF IInv, Accounting
  <2>2. waiting \in 0..(NUM_BUFFERS + 2) /\ waiting >= 1
    <3>1. One(display # "idle") = 1 /\ One(decoder = "counted") \in Nat
      BY DEF BeginDraw, One
    <3>2. elements_in \in Nat
      BY <2>1, ElementsStep
    <3>. QED
      BY <2>1, <3>1, <3>2, WaitingType DEF waiting
  <2>3. backlog <= NUM_BUFFERS
    <3>1. backlog \in Words
      BY <2>1, WordType DEF backlog, TypeOK
    <3>. QED
      BY <3>1, SizesAssumption DEF BeginDraw, Behind, Words
  <2>. QED
    BY <2>1, <2>2, <2>3, SizesAssumption DEF TypeOK, Words, Plus, WrapNear
<1>. QED
  BY Invariance, <1>1, PTL DEF Spec, FrozenAfterDrops

-----------------------------------------------------------------------------
(* What is queued, held and drawn.                                         *)

\* The frame the decoder works on, and the texture k frames before it.
Last    == IF decoder = "counted" THEN Dec(nextFrame) ELSE nextFrame
Prev(k) == (currentTexture + NUM_BUFFERS - k) % NUM_BUFFERS

(* Going round the textures and the slots.                                 *)

\* A remainder, without the division.
LEMMA ModOnce ==
  ASSUME NEW a \in 0..(2 * NUM_BUFFERS - 1)
  PROVE  a % NUM_BUFFERS = IF a < NUM_BUFFERS THEN a ELSE a - NUM_BUFFERS
  BY SizesAssumption

\* All the way round is where one was.
LEMMA RoundTrip ==
  ASSUME NEW t \in 0..(NUM_BUFFERS - 1)
  PROVE  (t + NUM_BUFFERS - NUM_BUFFERS) % NUM_BUFFERS = t
<1>1. t + NUM_BUFFERS - NUM_BUFFERS = t /\ t \in 0..(2 * NUM_BUFFERS - 1)
  BY SizesAssumption
<1>2. t < NUM_BUFFERS
  BY SizesAssumption
<1>3. t % NUM_BUFFERS = t
  BY <1>1, <1>2, ModOnce
<1>. QED
  BY <1>1, <1>3, Zenon

\* No multiple of a number lies strictly between 0 and the number.
LEMMA NoMultipleBetween ==
  ASSUME NEW n \in Nat \ {0}, NEW z \in Int
  PROVE  ~(0 < n * z /\ n * z < n)
  OBVIOUS

\* What the remainder is.
LEMMA Division ==
  ASSUME NEW n \in Nat \ {0}, NEW a \in Nat
  PROVE  a \div n \in Int /\ a = n * (a \div n) + (a % n)
  OBVIOUS

\* Two indices less than NUM_BUFFERS apart are in different slots.
LEMMA SlotsDiffer ==
  ASSUME NEW w \in Words, NEW j \in 1..(NUM_BUFFERS - 1)
  PROVE  Slot(Sub(w, j)) # Slot(w)
<1> DEFINE n == NUM_BUFFERS
           v == Sub(w, j)
<1>1. n \in Nat \ {0} /\ w \in Nat /\ v \in Nat /\ Word \in Nat
  BY SizesAssumption DEF Words, Sub
<1>2. PICK p \in Int : w = n * p + (w % n)
  BY <1>1, Division
<1>3. PICK q \in Int : v = n * q + (v % n)
  BY <1>1, Division
<1>4. PICK r \in Int : Word = n * r
  BY <1>1, Division, SizesAssumption
<1>5. ASSUME w % n = v % n
      PROVE  FALSE
  <2>1. CASE j <= w
    <3>1. w - v = j
      BY <2>1 DEF Sub, Words
    <3>2. w - v = n * p - n * q
      BY <1>1, <1>2, <1>3, <1>5
    <3>3. w - v = n * (p - q)
      BY <3>2, <1>1
    <3>. QED
      BY <3>1, <3>3, <1>1, NoMultipleBetween
  <2>2. CASE ~(j <= w)
    <3>1. w + Word - v = j
      BY <1>1, <2>2 DEF Sub, Words
    <3>2. w + Word - v = n * p + n * r - n * q
      BY <1>1, <1>2, <1>3, <1>4, <1>5
    <3>3. w + Word - v = n * (p + r - q)
      BY <3>2, <1>1
    <3>. QED
      BY <3>1, <3>3, <1>1, NoMultipleBetween
  <2>. QED
    BY <2>1, <2>2
<1>. QED
  BY <1>5 DEF Slot, MAX_QUEUEMESSAGES

\* After the decoder's move to the next texture, the texture k frames back is
\* the one that was k - 1 frames back.
LEMMA PrevStep ==
  ASSUME TypeOK, currentTexture' = NextTexture, NEW k \in 1..NUM_BUFFERS
  PROVE  /\ (currentTexture' + NUM_BUFFERS - k) % NUM_BUFFERS =
              IF k = 1 THEN currentTexture ELSE Prev(k - 1)
         /\ Prev(k) \in Textures
         /\ Prev(k) = currentTexture <=> k = NUM_BUFFERS
<1>1. currentTexture \in 0..(NUM_BUFFERS - 1) /\ NUM_BUFFERS \in Nat \ {0}
  BY SizesAssumption DEF TypeOK, Textures
<1>2. currentTexture' = IF currentTexture + 1 = NUM_BUFFERS THEN 0 ELSE currentTexture + 1
  BY <1>1 DEF NextTexture
<1>3. currentTexture' + NUM_BUFFERS - k \in 0..(2 * NUM_BUFFERS - 1)
  BY <1>1, <1>2
<1>4. currentTexture + NUM_BUFFERS - k \in 0..(2 * NUM_BUFFERS - 1)
  BY <1>1
<1>5. k # 1 => currentTexture + NUM_BUFFERS - (k - 1) \in 0..(2 * NUM_BUFFERS - 1)
  BY <1>1
<1>6. ASSUME k # 1
      PROVE  (currentTexture' + NUM_BUFFERS - k) % NUM_BUFFERS = Prev(k - 1)
  BY <1>1, <1>2, <1>3, <1>5, <1>6, ModOnce DEF Prev
<1>7. ASSUME k = 1
      PROVE  (currentTexture' + NUM_BUFFERS - k) % NUM_BUFFERS = currentTexture
  BY <1>1, <1>2, <1>3, <1>7, ModOnce
<1>8. Prev(k) \in Textures /\ (Prev(k) = currentTexture <=> k = NUM_BUFFERS)
  BY <1>1, <1>4, ModOnce DEF Prev, Textures
<1>. QED
  BY <1>6, <1>7, <1>8

\* Counting the frames back from one counter, and from the next.
LEMMA BackStep ==
  ASSUME NEW x \in Words, NEW k \in 1..NUM_BUFFERS
  PROVE  /\ Dec(Inc(x)) = x
         /\ Sub(x, 1) = Dec(x)
         /\ Sub(Inc(x), 1) = x
         /\ k # 1 => /\ Sub(x, k) = Sub(Dec(x), k - 1)
                     /\ Sub(Inc(x), k) = Sub(x, k - 1)
  BY SizesAssumption DEF Words, Inc, Dec, Sub

-----------------------------------------------------------------------------
(* The inductive invariant.                                                *)

Message(k) == queueMessages[Slot(Sub(queueWriteIndex, k))]

\* The queued pointers, QueueConsecutive in these terms.
Queued == \A k \in 1..elements_in :
            Message(k).tex = Prev(k) /\ Message(k).frame = Sub(Last, k)

\* The pointer in the display's hand is the one that was before them, unless
\* the decoder has filled the queue since.
HeldBefore ==
  display # "idle" /\ elements_in # NUM_BUFFERS =>
    held.tex = Prev(elements_in + 1) /\ held.frame = Sub(Last, elements_in + 1)

\* The textures queued or held keep their frames; the oldest of NUM_BUFFERS is
\* the one the decoder is in.
Kept ==
  \A k \in 1..NUM_BUFFERS : k <= elements_in + One(display # "idle") =>
    /\ k # NUM_BUFFERS => content[Prev(k)] = Sub(Last, k)
    /\ k = NUM_BUFFERS /\ decoder \in {"idle", "decoding"} =>
         content[currentTexture] \in {Sub(Last, k), Torn}

\* What the decoder has just finished is in its texture.
Decoded == decoder \in {"decoded", "counted"} => content[currentTexture] = Last

DInv == Queued /\ HeldBefore /\ Kept /\ Decoded

-----------------------------------------------------------------------------
\* What the draws' proof says of the queue is the property.
LEMMA QueuedIs == Queued <=> QueueConsecutive
  BY DEF Queued, QueueConsecutive, Message, Prev, Last

\* The initial state satisfies it.
LEMMA InitDInv == Init => DInv
  BY SizesAssumption
  DEF Init, DInv, Queued, HeldBefore, Kept, Decoded, elements_in, Sub, One

\* The queue is empty and the display idle when the counters are reset.
LEMMA ResetDInv ==
  ASSUME IInv, StartStream \/ ResetClosed
  PROVE  DInv'
<1>1. elements_in' = 0
  BY DEF StartStream, ResetClosed, Reset, elements_in, Sub
<1>2. decoder' = "idle" /\ display' = "idle"
  BY DEF IInv, Phases, StartStream, ResetClosed
<1>. QED
  BY <1>1, <1>2, SizesAssumption DEF DInv, Queued, HeldBefore, Kept, Decoded, One

\* add_frame: everything moves one place back, and the new frame is in front.
LEMMA AddFrameDInv ==
  ASSUME IInv, DInv, AddFrame
  PROVE  DInv'
<1>1. TypeOK /\ QueueBounded /\ nextFrame \in Words /\ queueWriteIndex \in Words
  BY DEF IInv, TypeOK
<1>2. NUM_BUFFERS \in Nat \ {0} /\ elements_in \in 0..NUM_BUFFERS
  BY <1>1, ElementsStep, SizesAssumption
<1>3. elements_in' = IF elements_in = NUM_BUFFERS THEN elements_in ELSE elements_in + 1
  BY <1>1, ElementsStep DEF AddFrame, KeepAll, DropOldest, elements_in, MAX_QUEUEMESSAGES
<1>4. /\ Last = Dec(nextFrame) /\ Last' = nextFrame /\ decoder' = "idle"
      /\ display' = display /\ held' = held /\ content' = content
      /\ currentTexture' = NextTexture
  BY DEF AddFrame, Last, counters
<1>5. \A k \in 1..NUM_BUFFERS : Prev(k)' = IF k = 1 THEN currentTexture ELSE Prev(k - 1)
  BY <1>1, <1>4, PrevStep DEF Prev
<1>6. \A k \in 1..NUM_BUFFERS : Sub(Last, k)' = IF k = 1 THEN Last ELSE Sub(Last, k - 1)
  BY <1>1, <1>4, BackStep
<1>7. Queued'
  <2> SUFFICES ASSUME NEW k \in 1..(elements_in')
               PROVE  Message(k)'.tex = Prev(k)' /\ Message(k)'.frame = Sub(Last, k)'
    BY DEF Queued
  <2>1. k \in 1..NUM_BUFFERS
    BY <1>2, <1>3
  <2>2. Slot(queueWriteIndex) \in Slots /\ Slot(Sub(queueWriteIndex, k - 1)) \in Slots
    <3>1. k - 1 \in Words
      BY <2>1, SizesAssumption DEF Words
    <3>. QED
      BY <1>1, <3>1, SlotType, WordType
  <2>3. queueMessages' = [queueMessages EXCEPT ![Slot(queueWriteIndex)] =
                            [tex |-> currentTexture, frame |-> Last]]
    BY <1>4 DEF AddFrame
  <2>4. CASE k = 1
    <3>1. Sub(queueWriteIndex', k) = queueWriteIndex
      BY <1>1, <2>1, <2>4, BackStep DEF AddFrame
    <3>2. Message(k)' = queueMessages'[Slot(queueWriteIndex)]
      BY <3>1 DEF Message
    <3>. QED
      BY <1>1, <1>5, <1>6, <2>1, <2>2, <2>3, <2>4, <3>2 DEF TypeOK
  <2>5. CASE k # 1
    <3>1. k - 1 \in 1..(NUM_BUFFERS - 1) /\ k - 1 \in 1..elements_in
      BY <1>2, <1>3, <2>1, <2>5
    <3>2. Sub(queueWriteIndex', k) = Sub(queueWriteIndex, k - 1)
      BY <1>1, <2>1, <2>5, BackStep DEF AddFrame
    <3>3. Slot(Sub(queueWriteIndex, k - 1)) # Slot(queueWriteIndex)
      BY <1>1, <3>1, SlotsDiffer
    <3>4. Message(k)' = Message(k - 1)
      BY <1>1, <2>2, <2>3, <3>2, <3>3 DEF Message, TypeOK
    <3>5. Message(k - 1).tex = Prev(k - 1) /\ Message(k - 1).frame = Sub(Last, k - 1)
      BY <3>1 DEF DInv, Queued
    <3>. QED
      BY <1>5, <1>6, <2>1, <2>5, <3>4, <3>5
  <2>. QED
    BY <2>4, <2>5
<1>8. HeldBefore'
  <2> SUFFICES ASSUME display # "idle", elements_in' # NUM_BUFFERS
               PROVE  /\ held'.tex = Prev(elements_in + 1)'
                      /\ held'.frame = Sub(Last, elements_in + 1)'
    BY <1>4 DEF HeldBefore
  <2>1. elements_in' = elements_in + 1 /\ elements_in # NUM_BUFFERS
    BY <1>2, <1>3
  <2>2. PICK k \in 1..NUM_BUFFERS :
          k # 1 /\ k - 1 = elements_in + 1 /\ k = elements_in' + 1
    BY <1>2, <2>1
  <2>3. held.tex = Prev(elements_in + 1) /\ held.frame = Sub(Last, elements_in + 1)
    BY <2>1 DEF DInv, HeldBefore
  <2>4. Prev(k)' = Prev(elements_in + 1) /\ Sub(Last, k)' = Sub(Last, elements_in + 1)
    BY <1>5, <1>6, <2>2
  <2>. QED
    BY <1>4, <2>2, <2>3, <2>4 DEF Prev
<1>9. Kept'
  <2> SUFFICES ASSUME NEW k \in 1..NUM_BUFFERS, k <= elements_in' + One(display # "idle")
               PROVE  /\ k # NUM_BUFFERS => content[Prev(k)'] = Sub(Last, k)'
                      /\ k = NUM_BUFFERS => content[currentTexture'] = Sub(Last, k)'
    BY <1>4 DEF Kept, One
  <2>1. content[Prev(k)'] = Sub(Last, k)'
    <3>1. CASE k = 1
      BY <1>5, <1>6, <3>1 DEF DInv, Decoded, AddFrame
    <3>2. CASE k # 1
      <4>1. /\ k - 1 \in 1..NUM_BUFFERS /\ k - 1 # NUM_BUFFERS
            /\ k - 1 <= elements_in + One(display # "idle")
        BY <1>2, <1>3, <3>2 DEF One
      <4>2. content[Prev(k - 1)] = Sub(Last, k - 1)
        BY <4>1 DEF DInv, Kept
      <4>. QED
        BY <1>5, <1>6, <3>2, <4>2
    <3>. QED
      BY <3>1, <3>2
  <2>2. k = NUM_BUFFERS => Prev(k)' = currentTexture'
    <3>1. currentTexture' \in 0..(NUM_BUFFERS - 1)
      BY <1>1, <1>2, <1>4 DEF TypeOK, Textures, NextTexture
    <3>. QED
      BY <3>1, RoundTrip DEF Prev
  <2>. QED
    BY <2>1, <2>2
<1>. QED
  BY <1>4, <1>7, <1>8, <1>9 DEF DInv, Decoded

\* get_frame: the oldest of the queue comes into the display's hand.
LEMMA GetFrameDInv ==
  ASSUME IInv, DInv, GetFrame
  PROVE  DInv'
<1>1. TypeOK /\ QueueBounded
  BY DEF IInv
<1>2. /\ NUM_BUFFERS \in Nat \ {0} /\ elements_in \in 1..NUM_BUFFERS
      /\ elements_in' = elements_in - 1
  BY <1>1, ElementsStep, SizesAssumption DEF GetFrame, TakeFrame, QueueEmpty, elements_in
<1>3. /\ One(display # "idle") = 0 /\ One((display # "idle")') = 1
      /\ Last' = Last /\ decoder' = decoder
      /\ queueMessages' = queueMessages /\ queueWriteIndex' = queueWriteIndex
      /\ currentTexture' = currentTexture /\ content' = content
  BY DEF GetFrame, TakeFrame, One, Last, counters, pixels
<1>4. held' = Message(elements_in)
  <2>1. Sub(queueWriteIndex, elements_in) = queueReadIndex
    BY <1>1, SizesAssumption DEF TypeOK, elements_in, Sub, Words
  <2>. QED
    BY <2>1 DEF GetFrame, TakeFrame, Oldest, Message
<1>5. Queued'
  BY <1>2, <1>3 DEF DInv, Queued, Message, Prev
<1>6. HeldBefore'
  <2>1. held'.tex = Prev(elements_in) /\ held'.frame = Sub(Last, elements_in)
    BY <1>2, <1>4 DEF DInv, Queued
  <2>. QED
    BY <1>2, <1>3, <2>1 DEF HeldBefore, Prev
<1>7. Kept'
  BY <1>2, <1>3 DEF DInv, Kept, Prev
<1>. QED
  BY <1>3, <1>5, <1>6, <1>7 DEF DInv, Decoded

\* The rest of the steps.
LEMMA NextDInv == IInv /\ DInv /\ [Next]_vars => DInv'
<1> SUFFICES ASSUME IInv, DInv, [Next]_vars
             PROVE  DInv'
  OBVIOUS
<1>1. /\ TypeOK /\ QueueBounded
      /\ NUM_BUFFERS \in Nat \ {0} /\ elements_in \in 0..NUM_BUFFERS
  BY ElementsStep, SizesAssumption DEF IInv
<1>2. \A k \in 1..NUM_BUFFERS : Prev(k) \in Textures /\ (Prev(k) = currentTexture <=> k = NUM_BUFFERS)
  <2>1. currentTexture \in 0..(NUM_BUFFERS - 1)
    BY <1>1 DEF TypeOK, Textures
  <2>2. \A k \in 1..NUM_BUFFERS : currentTexture + NUM_BUFFERS - k \in 0..(2 * NUM_BUFFERS - 1)
    BY <1>1, <2>1
  <2>. QED
    BY <1>1, <2>1, <2>2, ModOnce DEF Prev, Textures
<1>3. ASSUME UNCHANGED <<queue, currentTexture, Last>>
      PROVE  Queued'
  BY <1>3 DEF DInv, Queued, Message, Prev, queue, elements_in
<1>4. ASSUME UNCHANGED <<queue, currentTexture, Last, display, held>>
      PROVE  HeldBefore'
  BY <1>4 DEF DInv, HeldBefore, Prev, queue, elements_in
<1>5. CASE SubmitUnit
  <2>1. UNCHANGED <<queue, currentTexture, Last, display, held>> /\ decoder' = "decoding"
    BY <1>5 DEF SubmitUnit, counters, Last
  <2>2. content' = [content EXCEPT ![currentTexture] = Torn] /\ content \in [Textures -> Words \cup {Torn}]
    BY <1>1, <1>5 DEF SubmitUnit, TypeOK
  <2>3. Kept'
    BY <1>1, <1>2, <2>1, <2>2 DEF TypeOK, DInv, Kept, Prev, queue, elements_in
  <2>. QED
    BY <1>3, <1>4, <2>1, <2>3 DEF DInv, Decoded
<1>6. CASE DecodeDone
  <2>1. UNCHANGED <<queue, currentTexture, Last, display, held>> /\ decoder' = "decoded"
    BY <1>6 DEF DecodeDone, counters, Last
  <2>2. /\ content' = [content EXCEPT ![currentTexture] = Last]
        /\ content \in [Textures -> Words \cup {Torn}]
    BY <1>1, <1>6 DEF DecodeDone, TypeOK, Last
  <2>3. Kept'
    BY <1>1, <1>2, <2>1, <2>2 DEF TypeOK, DInv, Kept, Prev, queue, elements_in
  <2>4. Decoded'
    BY <1>1, <2>1, <2>2 DEF Decoded, TypeOK
  <2>. QED
    BY <1>3, <1>4, <2>1, <2>3, <2>4 DEF DInv
<1>7. CASE DecodeFails \/ CountFrame
  <2>1. Last' = Last
    BY <1>1, <1>7, BackStep DEF DecodeFails, CountFrame, counters, Last, TypeOK
  <2>2. /\ UNCHANGED <<queue, currentTexture, Last, display, held>> /\ content' = content
        /\ \/ decoder = "decoding" /\ decoder' = "idle"
           \/ decoder = "decoded" /\ decoder' = "counted"
    BY <1>7, <2>1 DEF DecodeFails, CountFrame, pixels
  <2>3. Kept'
    BY <2>2 DEF DInv, Kept, Prev, queue, elements_in
  <2>. QED
    BY <1>3, <1>4, <2>2, <2>3 DEF DInv, Decoded
<1>8. CASE SkipFrame \/ BeginDraw \/ EndDraw
  <2>1. /\ UNCHANGED <<queue, currentTexture, Last>> /\ content' = content /\ decoder' = decoder
        /\ display # "idle" /\ (display' # "idle" => held' = held)
    BY <1>8 DEF SkipFrame, BeginDraw, EndDraw, counters, pixels, Last
  <2>2. Kept'
    <3>1. elements_in' = elements_in /\ One(display # "idle") = 1 /\ One((display # "idle")') \in {0, 1}
      BY <2>1 DEF queue, elements_in, One
    <3>. QED
      BY <1>1, <2>1, <3>1 DEF DInv, Kept, Prev
  <2>3. HeldBefore'
    BY <2>1 DEF DInv, HeldBefore, Prev, queue, elements_in
  <2>. QED
    BY <1>3, <2>1, <2>2, <2>3 DEF DInv, Decoded
<1>9. CASE StartReturns \/ StartAborts \/ StopStream \/ UNCHANGED vars
  BY <1>9 DEF StartReturns, StartAborts, StopStream, vars, counters, queue, pixels, DInv, Queued, HeldBefore,
              Kept, Decoded, Message, Prev, Last, elements_in
<1>. QED
  BY <1>5, <1>6, <1>7, <1>8, <1>9, AddFrameDInv, GetFrameDInv, ResetDInv
  DEF Next, Decoder, Display, Session

-----------------------------------------------------------------------------
\* The inductive invariant holds in every reachable state.
THEOREM DrawInvariance == Spec => [](IInv /\ DInv)
<1>1. IInv /\ [Next]_vars => IInv'
  BY NextTypeOK, NextQueueBounded, NextAccounting, NextPhases DEF IInv
<1>. QED
  BY InitIInv, InitDInv, <1>1, NextDInv, PTL DEF Spec

\* The queued pointers name consecutive textures and consecutive frames.
THEOREM QueueInOrder == Spec => []QueueConsecutive
<1>1. DInv => QueueConsecutive
  BY QueuedIs DEF DInv
<1>. QED
  BY DrawInvariance, <1>1, PTL

\* The skip of wiiu_stream_draw lets the decoder be one unit ahead of a drawing
\* that starts, at a backlog of exactly NUM_BUFFERS, and no more.
THEOREM DrawsOwnOrNext == Spec => OvertakenByOneAtMost
<1> DEFINE Good == content[held.tex] = held.frame \/ Overtaken
<1>1. IInv /\ DInv /\ [Next]_vars => [BeginDraw /\ ~WrapNear => Good]_vars
  <2> SUFFICES ASSUME IInv, DInv, BeginDraw, ~WrapNear
               PROVE  Good
    OBVIOUS
  <2>1. TypeOK /\ QueueBounded /\ backlog = Plus(waiting, droppedFrames)
    BY DEF IInv, Accounting
  <2>2. NUM_BUFFERS \in Nat \ {0} /\ elements_in \in 0..NUM_BUFFERS
    BY <2>1, ElementsStep, SizesAssumption
  <2>3. One(display # "idle") = 1 /\ One(decoder = "counted") \in {0, 1}
    BY DEF BeginDraw, One
  <2>4. backlog <= NUM_BUFFERS
    <3>1. backlog \in Words
      BY <2>1, WordType DEF backlog, TypeOK
    <3>. QED
      BY <3>1, SizesAssumption DEF BeginDraw, Behind, Words
  <2>5. waiting <= NUM_BUFFERS
    BY <2>1, <2>4, WaitingType, SizesAssumption DEF TypeOK, Words, Plus, WrapNear
  <2>6. elements_in + 1 + One(decoder = "counted") <= NUM_BUFFERS
    BY <2>2, <2>3, <2>5 DEF waiting
  <2>7. held.tex = Prev(elements_in + 1) /\ held.frame = Sub(Last, elements_in + 1)
    BY <2>2, <2>3, <2>6 DEF DInv, HeldBefore, BeginDraw
  <2>8. CASE elements_in + 1 # NUM_BUFFERS
    <3>1. content[Prev(elements_in + 1)] = Sub(Last, elements_in + 1)
      BY <2>2, <2>3, <2>6, <2>8 DEF DInv, Kept
    <3>. QED
      BY <2>7, <3>1
  <2>9. CASE elements_in + 1 = NUM_BUFFERS
    <3>1. decoder # "counted"
      BY <2>2, <2>6, <2>9 DEF One
    <3>2. held.tex = currentTexture
      <4>1. currentTexture \in 0..(NUM_BUFFERS - 1)
        BY <2>1 DEF TypeOK, Textures
      <4>. QED
        BY <2>2, <2>7, <2>9, <4>1, ModOnce DEF Prev
    <3>3. Last = nextFrame
      BY <3>1 DEF Last
    <3>4. content[currentTexture] \in {held.frame, nextFrame, Torn}
      <4>1. decoder = "decoded" => content[currentTexture] = nextFrame
        BY <3>3 DEF DInv, Decoded
      <4>2. decoder \in {"idle", "decoding"} => content[currentTexture] \in {held.frame, Torn}
        BY <2>2, <2>3, <2>7, <2>9 DEF DInv, Kept
      <4>. QED
        BY <2>1, <3>1, <4>1, <4>2 DEF TypeOK
    <3>5. backlog = NUM_BUFFERS
      <4>1. waiting = NUM_BUFFERS
        BY <2>2, <2>3, <2>9, <3>1 DEF waiting, One
      <4>. QED
        BY <2>1, <2>2, <2>4, <4>1, SizesAssumption DEF TypeOK, Words, Plus, WrapNear
    <3>6. held.frame = Sub(nextFrame, NUM_BUFFERS)
      BY <2>7, <2>9, <3>3
    <3>. QED
      BY <3>2, <3>4, <3>5, <3>6 DEF Overtaken
  <2>. QED
    BY <2>8, <2>9
<1>. QED
  BY DrawInvariance, <1>1, PTL DEF Spec, OvertakenByOneAtMost

-----------------------------------------------------------------------------
(* The ring is a drop-oldest queue.                                        *)

\* The n frames before the frame `last`, oldest first.
Frames(last, n) == [k \in 1..n |-> Sub(last, n + 1 - k)]

\* They are a sequence of frame numbers.
LEMMA FramesType ==
  ASSUME NEW last \in Words, NEW n \in 0..NUM_BUFFERS
  PROVE  Frames(last, n) \in Seq(Words) /\ Len(Frames(last, n)) = n
<1>1. \A k \in 1..n : n + 1 - k \in Words
  BY SizesAssumption DEF Words
<1>2. \A k \in 1..n : Sub(last, n + 1 - k) \in Words
  BY <1>1, WordType
<1>3. n \in Nat /\ Frames(last, n) \in [1..n -> Words]
  BY <1>2, SizesAssumption DEF Frames
<1>. QED
  BY <1>3

\* The oldest of them, and the others.
LEMMA FramesTail ==
  ASSUME NEW last \in Words, NEW n \in 1..NUM_BUFFERS
  PROVE  /\ Frames(last, n) # <<>>
         /\ Head(Frames(last, n)) = Sub(last, n)
         /\ Tail(Frames(last, n)) = Frames(last, n - 1)
<1> DEFINE F == Frames(last, n)
           G == Frames(last, n - 1)
<1>1. n \in 0..NUM_BUFFERS /\ n - 1 \in 0..NUM_BUFFERS
  BY SizesAssumption
<1>2. F \in Seq(Words) /\ Len(F) = n /\ G \in Seq(Words) /\ Len(G) = n - 1
  BY <1>1, FramesType
<1>3. F[1] = Sub(last, n) /\ \A k \in 1..(n - 1) : F[k + 1] = G[k]
  BY SizesAssumption DEF Frames
<1>. HIDE DEF F, G
<1>4. F # <<>> /\ Head(F) = F[1]
  BY <1>2
<1>5. Tail(F) = G
  <2>1. /\ Tail(F) \in Seq(Words) /\ Len(Tail(F)) = n - 1
        /\ \A k \in 1..(n - 1) : Tail(F)[k] = F[k + 1]
    BY <1>2, <1>4, HeadTailProperties
  <2>. QED
    BY <1>2, <1>3, <2>1, SeqEqual
<1>. QED
  BY <1>3, <1>4, <1>5 DEF F, G

\* One more frame.
LEMMA FramesAppend ==
  ASSUME NEW last \in Words, NEW n \in 0..(NUM_BUFFERS - 1)
  PROVE  Append(Frames(last, n), last) = Frames(Inc(last), n + 1)
<1> DEFINE F == Frames(last, n)
           G == Frames(Inc(last), n + 1)
<1>1. n \in 0..NUM_BUFFERS /\ n + 1 \in 0..NUM_BUFFERS /\ Inc(last) \in Words
  BY SizesAssumption, WordType
<1>2. F \in Seq(Words) /\ Len(F) = n /\ G \in Seq(Words) /\ Len(G) = n + 1
  BY <1>1, FramesType
<1>3. G[n + 1] = last /\ \A k \in 1..n : G[k] = F[k]
  <2>1. G[n + 1] = Sub(Inc(last), 1)
    BY <1>1 DEF Frames
  <2>2. ASSUME NEW k \in 1..n
        PROVE  G[k] = F[k]
    <3>1. G[k] = Sub(Inc(last), n + 2 - k) /\ F[k] = Sub(last, n + 1 - k)
      BY <1>1 DEF Frames
    <3>2. n + 2 - k \in 1..NUM_BUFFERS /\ n + 2 - k # 1 /\ (n + 2 - k) - 1 = n + 1 - k
      BY SizesAssumption
    <3>. QED
      BY <3>1, <3>2, BackStep
  <2>. QED
    BY <1>1, <2>1, <2>2, BackStep, SizesAssumption
<1>. HIDE DEF F, G
<1>4. /\ Append(F, last) \in Seq(Words) /\ Len(Append(F, last)) = n + 1
      /\ Append(F, last)[n + 1] = last /\ \A k \in 1..n : Append(F, last)[k] = F[k]
  BY <1>2
<1>5. \A k \in 1..(n + 1) : Append(F, last)[k] = G[k]
  BY <1>3, <1>4
<1>6. Append(F, last) = G
  BY <1>2, <1>4, <1>5, SeqEqual
<1>. QED
  BY <1>6 DEF F, G

-----------------------------------------------------------------------------
\* What the refinement takes for the queue, and for the frame taken.
MappedQueue == [k \in 1..elements_in |->
                  queueMessages[Slot((queueReadIndex + k - 1) % Word)].frame]
MappedTaken == IF held = NoFrame THEN NoFrame ELSE held.frame

\* The display holds a pointer exactly from get_frame to the end of the draw.
Holding == IF display = "idle" THEN held = NoFrame ELSE held \in Messages

\* The slots between the two indices have been written.
Filled == \A k \in 1..elements_in : Message(k) \in Messages

\* A remainder of Word, without the division.
LEMMA ModWord ==
  ASSUME NEW a \in 0..(2 * Word - 1)
  PROVE  a % Word = IF a < Word THEN a ELSE a - Word
  BY SizesAssumption

\* uint32_t's increment is addition modulo Word.
LEMMA IncMod ==
  ASSUME NEW x \in Words
  PROVE  (x + 1) % Word = Inc(x)
  BY SizesAssumption DEF Words, Inc

\* The ring, read from its oldest slot, is the frames before the next one.
LEMMA MappedQueueIs == IInv /\ DInv => MappedQueue = Frames(Last, elements_in)
<1> SUFFICES ASSUME IInv, DInv
             PROVE  MappedQueue = Frames(Last, elements_in)
  OBVIOUS
<1>1. TypeOK /\ QueueBounded /\ elements_in \in 0..NUM_BUFFERS
  BY ElementsStep DEF IInv
<1>2. queueReadIndex \in Words /\ queueWriteIndex \in Words
  BY <1>1 DEF TypeOK
<1>3. ASSUME NEW k \in 1..elements_in
      PROVE  queueMessages[Slot((queueReadIndex + k - 1) % Word)].frame =
               Sub(Last, elements_in + 1 - k)
  <2>1. elements_in + 1 - k \in 1..elements_in
    BY <1>1
  <2>2. (queueReadIndex + k) - 1 \in 0..(2 * Word - 1)
    BY <1>1, <1>2, SizesAssumption DEF Words
  <2>3. PICK a \in 0..(2 * Word - 1) : a = (queueReadIndex + k) - 1
    BY <2>2, Zenon
  <2>4. a % Word = IF a < Word THEN a ELSE a - Word
    BY ModWord
  <2>5. (IF a < Word THEN a ELSE a - Word) = Sub(queueWriteIndex, elements_in + 1 - k)
    BY <1>1, <1>2, <2>3, SizesAssumption DEF Words, Sub, elements_in
  <2>6. (queueReadIndex + k - 1) % Word = Sub(queueWriteIndex, elements_in + 1 - k)
    BY <1>2, <2>3, <2>4, <2>5, SizesAssumption DEF Words
  <2>7. Message(elements_in + 1 - k).frame = Sub(Last, elements_in + 1 - k)
    BY <2>1 DEF DInv, Queued
  <2>. QED
    BY <2>6, <2>7 DEF Message
<1>. QED
  BY <1>3 DEF MappedQueue, Frames

\* add_frame writes one slot, and leaves those of the waiting frames alone.
LEMMA AddFrameFilled ==
  ASSUME IInv, Filled, AddFrame
  PROVE  Filled'
<1>1. TypeOK /\ QueueBounded /\ queueWriteIndex \in Words
  BY DEF IInv, TypeOK
<1>2. NUM_BUFFERS \in Nat \ {0} /\ elements_in \in 0..NUM_BUFFERS
  BY <1>1, ElementsStep, SizesAssumption
<1>3. elements_in' = IF elements_in = NUM_BUFFERS THEN elements_in ELSE elements_in + 1
  BY <1>1, ElementsStep DEF AddFrame, KeepAll, DropOldest, elements_in, MAX_QUEUEMESSAGES
<1> DEFINE new == [tex |-> currentTexture, frame |-> Dec(nextFrame)]
<1>4. /\ queueMessages' = [queueMessages EXCEPT ![Slot(queueWriteIndex)] = new]
      /\ queueWriteIndex' = Inc(queueWriteIndex)
      /\ new \in Messages
  <2>1. Dec(nextFrame) \in Words /\ currentTexture \in Textures
    BY <1>1, WordType DEF TypeOK
  <2>. QED
    BY <2>1 DEF AddFrame, Messages
<1> HIDE DEF new
<1> SUFFICES ASSUME NEW k \in 1..(elements_in')
             PROVE  Message(k)' \in Messages
  BY DEF Filled
<1>5. k \in 1..NUM_BUFFERS
  BY <1>2, <1>3
<1>6. CASE k = 1
  <2>1. Sub(queueWriteIndex', k) = queueWriteIndex /\ Slot(queueWriteIndex) \in Slots
    BY <1>1, <1>4, <1>5, <1>6, BackStep, SlotType
  <2>. QED
    BY <1>1, <1>4, <2>1 DEF Message, TypeOK
<1>7. CASE k # 1
  <2>1. k - 1 \in 1..(NUM_BUFFERS - 1) /\ k - 1 \in 1..elements_in
    BY <1>2, <1>3, <1>5, <1>7
  <2>2. Sub(queueWriteIndex', k) = Sub(queueWriteIndex, k - 1)
    BY <1>1, <1>4, <1>5, <1>7, BackStep
  <2>3. Slot(Sub(queueWriteIndex, k - 1)) # Slot(queueWriteIndex)
    BY <1>1, <2>1, SlotsDiffer
  <2>4. Slot(Sub(queueWriteIndex, k - 1)) \in Slots
    <3>1. k - 1 \in Words
      BY <2>1, SizesAssumption DEF Words
    <3>. QED
      BY <1>1, <3>1, SlotType, WordType
  <2>5. Message(k)' = Message(k - 1)
    BY <1>1, <1>4, <2>2, <2>3, <2>4 DEF Message, TypeOK
  <2>. QED
    BY <2>1, <2>5 DEF Filled
<1>. QED
  BY <1>6, <1>7

\* get_frame takes the last of the waiting frames.
LEMMA GetFrameTakes ==
  ASSUME IInv, GetFrame
  PROVE  /\ elements_in \in 1..NUM_BUFFERS /\ elements_in' = elements_in - 1
         /\ held' = Message(elements_in)
<1>1. TypeOK /\ QueueBounded
  BY DEF IInv
<1>2. elements_in \in 1..NUM_BUFFERS /\ elements_in' = elements_in - 1
  BY <1>1, ElementsStep, SizesAssumption DEF GetFrame, TakeFrame, QueueEmpty, elements_in
<1>3. Sub(queueWriteIndex, elements_in) = queueReadIndex
  BY <1>1, SizesAssumption DEF TypeOK, elements_in, Sub, Words
<1>. QED
  BY <1>2, <1>3 DEF GetFrame, TakeFrame, Oldest, Message

\* Every step keeps the slots filled and the display's hand in order.
LEMMA NextHolding == IInv /\ Filled /\ Holding /\ [Next]_vars => Filled' /\ Holding'
<1> SUFFICES ASSUME IInv, Filled, Holding, [Next]_vars
             PROVE  Filled' /\ Holding'
  OBVIOUS
<1>1. CASE GetFrame
  <2>1. /\ display' = "got" /\ queueMessages' = queueMessages
        /\ queueWriteIndex' = queueWriteIndex
    BY <1>1 DEF GetFrame, TakeFrame
  <2>2. held' \in Messages
    BY <1>1, GetFrameTakes DEF Filled
  <2>3. 1..(elements_in') \subseteq 1..elements_in
    BY <1>1, GetFrameTakes
  <2>. QED
    BY <2>1, <2>2, <2>3 DEF Filled, Holding, Message
<1>2. CASE AddFrame
  BY <1>2, AddFrameFilled DEF AddFrame, Holding
<1>3. CASE StartStream \/ ResetClosed
  <2>1. elements_in' = 0 /\ held' = held /\ display' = display
    BY <1>3 DEF StartStream, ResetClosed, Reset, elements_in, Sub
  <2>. QED
    BY <2>1 DEF Filled, Holding
<1>4. CASE SkipFrame \/ BeginDraw \/ EndDraw
  <2>1. /\ UNCHANGED queue
        /\ \/ display' = "idle" /\ held' = NoFrame
           \/ display # "idle" /\ display' # "idle" /\ held' = held
    BY <1>4 DEF SkipFrame, BeginDraw, EndDraw
  <2>. QED
    BY <2>1 DEF Filled, Holding, Message, queue, elements_in
<1>5. CASE \/ SubmitUnit \/ DecodeFails \/ DecodeDone \/ CountFrame
           \/ StartReturns \/ StartAborts \/ StopStream \/ UNCHANGED vars
  <2>1. UNCHANGED <<queue, display, held>>
    BY <1>5 DEF SubmitUnit, DecodeFails, DecodeDone, CountFrame, StartReturns, StartAborts, StopStream, vars
  <2>. QED
    BY <2>1 DEF Filled, Holding, Message, queue, elements_in
<1>. QED
  BY <1>1, <1>2, <1>3, <1>4, <1>5 DEF Next, Decoder, Display, Session

\* What a step of the pipeline is for the abstract queue.
LEMMA NextMapped ==
  ASSUME IInv, DInv, Holding, MappedQueue = Frames(Last, elements_in),
         Holding', MappedQueue' = Frames(Last', elements_in'), [Next]_vars
  PROVE  [Queue!QNext]_(Queue!qvars)
<1>1. /\ TypeOK /\ QueueBounded /\ elements_in \in 0..NUM_BUFFERS
      /\ NUM_BUFFERS \in Nat \ {0} /\ nextFrame \in Words
  BY ElementsStep, SizesAssumption DEF IInv, TypeOK
<1>2. Last \in Words
  BY <1>1, WordType DEF Last
<1>3. \A m \in Messages : m # NoFrame /\ m.frame # NoFrame
  BY ValuesAssumption DEF Messages, Textures, Words
<1>4. MappedTaken = NoFrame <=> display = "idle"
  BY <1>3 DEF Holding, MappedTaken
<1> DEFINE put  == /\ MappedQueue' = Append(IF Len(MappedQueue) = MAX_QUEUEMESSAGES
                                             THEN Tail(MappedQueue) ELSE MappedQueue, Last)
                   /\ Last' = (Last + 1) % Word
                   /\ MappedTaken' = MappedTaken
           take == /\ MappedQueue # <<>> /\ MappedTaken = NoFrame
                   /\ MappedTaken' = Head(MappedQueue) /\ MappedQueue' = Tail(MappedQueue)
                   /\ Last' = Last
           finish == /\ MappedTaken # NoFrame /\ MappedTaken' = NoFrame
                     /\ MappedQueue' = MappedQueue /\ Last' = Last
           clear == /\ MappedTaken = NoFrame /\ MappedQueue' = <<>> /\ Last' = 0
                    /\ MappedTaken' = MappedTaken
           rest == MappedQueue' = MappedQueue /\ MappedTaken' = MappedTaken /\ Last' = Last
<1>5. CASE AddFrame
  <2>1. /\ Last = Dec(nextFrame) /\ Last' = nextFrame /\ held' = held
    BY <1>5 DEF AddFrame, Last, counters
  <2>2. Last' = Inc(Last)
    BY <1>1, <2>1, SizesAssumption DEF Words, Inc, Dec
  <2>3. Last' = (Last + 1) % Word
    BY <1>2, <2>2, IncMod
  <2>4. Len(MappedQueue) = elements_in
    BY <1>1, <1>2, FramesType
  <2>5. elements_in' = IF elements_in = NUM_BUFFERS THEN elements_in ELSE elements_in + 1
    BY <1>1, <1>5, ElementsStep DEF AddFrame, KeepAll, DropOldest, elements_in, MAX_QUEUEMESSAGES
  <2>6. ASSUME elements_in = NUM_BUFFERS
        PROVE  MappedQueue' = Append(IF Len(MappedQueue) = MAX_QUEUEMESSAGES
                                     THEN Tail(MappedQueue) ELSE MappedQueue, Last)
    <3>1. Tail(MappedQueue) = Frames(Last, NUM_BUFFERS - 1)
      BY <1>1, <1>2, <2>6, FramesTail
    <3>2. NUM_BUFFERS - 1 \in 0..(NUM_BUFFERS - 1) /\ (NUM_BUFFERS - 1) + 1 = NUM_BUFFERS
      BY <1>1
    <3>3. Append(Frames(Last, NUM_BUFFERS - 1), Last) = Frames(Inc(Last), (NUM_BUFFERS - 1) + 1)
      BY <1>2, <3>2, FramesAppend
    <3>4. MappedQueue' = Frames(Inc(Last), NUM_BUFFERS)
      BY <2>2, <2>5, <2>6
    <3>5. MappedQueue' = Append(Tail(MappedQueue), Last)
      BY <3>1, <3>2, <3>3, <3>4, Zenon
    <3>. QED
      BY <2>4, <2>6, <3>5, Zenon DEF MAX_QUEUEMESSAGES
  <2>7. ASSUME elements_in # NUM_BUFFERS
        PROVE  MappedQueue' = Append(IF Len(MappedQueue) = MAX_QUEUEMESSAGES
                                     THEN Tail(MappedQueue) ELSE MappedQueue, Last)
    <3>1. elements_in \in 0..(NUM_BUFFERS - 1)
      BY <1>1, <2>7
    <3>2. Append(Frames(Last, elements_in), Last) = Frames(Inc(Last), elements_in + 1)
      BY <1>2, <3>1, FramesAppend
    <3>3. MappedQueue' = Frames(Inc(Last), elements_in + 1)
      BY <2>2, <2>5, <2>7
    <3>4. MappedQueue' = Append(MappedQueue, Last)
      BY <3>2, <3>3, Zenon
    <3>. QED
      BY <2>4, <2>7, <3>4, Zenon DEF MAX_QUEUEMESSAGES
  <2>8. put
    <3>1. MappedTaken' = MappedTaken
      BY <2>1 DEF MappedTaken
    <3>. QED
      BY <2>3, <2>6, <2>7, <3>1
  <2>. QED
    BY <2>8 DEF Queue!QNext, Queue!Put, MappedQueue, MappedTaken, Last
<1>6. CASE GetFrame
  <2>1. /\ elements_in \in 1..NUM_BUFFERS /\ elements_in' = elements_in - 1
        /\ held' = Message(elements_in) /\ display = "idle" /\ display' = "got" /\ Last' = Last
    BY <1>6, GetFrameTakes DEF GetFrame, TakeFrame, Last, counters
  <2>2. /\ MappedQueue # <<>> /\ Head(MappedQueue) = Sub(Last, elements_in)
        /\ Tail(MappedQueue) = Frames(Last, elements_in - 1)
    BY <1>2, <2>1, FramesTail
  <2>3. MappedTaken' = Sub(Last, elements_in)
    <3>1. held' \in Messages
      BY <2>1 DEF Holding
    <3>2. held' # NoFrame
      BY <1>3, <3>1
    <3>3. held'.frame = Sub(Last, elements_in)
      BY <2>1 DEF DInv, Queued
    <3>. QED
      BY <3>2, <3>3 DEF MappedTaken
  <2>4. take
    BY <1>4, <2>1, <2>2, <2>3
  <2>. QED
    BY <2>4 DEF Queue!QNext, Queue!Take, MappedQueue, MappedTaken, Last
<1>7. CASE SkipFrame \/ EndDraw
  <2>1. /\ display # "idle" /\ held' = NoFrame /\ UNCHANGED <<queue, nextFrame, decoder>>
    BY <1>7 DEF SkipFrame, EndDraw
  <2>2. Last' = Last /\ MappedQueue' = MappedQueue
    BY <2>1 DEF Last, queue, elements_in
  <2>3. finish
    BY <1>4, <2>1, <2>2 DEF MappedTaken
  <2>. QED
    BY <2>3 DEF Queue!QNext, Queue!Finish, MappedQueue, MappedTaken, Last
<1>8. CASE StartStream \/ ResetClosed
  <2>1. /\ display = "idle" /\ held' = held /\ elements_in' = 0 /\ Last' = 0
    BY <1>8 DEF IInv, Phases, StartStream, ResetClosed, Reset, elements_in, Sub, Last
  <2>2. MappedQueue' = <<>>
    <3>1. \A k : k \notin 1..0
      OBVIOUS
    <3>. QED
      BY <2>1, <3>1 DEF Frames
  <2>3. clear
    BY <1>4, <2>1, <2>2 DEF MappedTaken
  <2>. QED
    BY <2>3 DEF Queue!QNext, Queue!Clear, MappedQueue, MappedTaken, Last
<1>9. CASE \/ SubmitUnit \/ DecodeFails \/ DecodeDone \/ CountFrame \/ BeginDraw
           \/ StartReturns \/ StartAborts \/ StopStream \/ UNCHANGED vars
  <2>1. UNCHANGED <<queue, held>>
    BY <1>9 DEF SubmitUnit, DecodeFails, DecodeDone, CountFrame, BeginDraw,
                StartReturns, StartAborts, StopStream, vars
  <2>2. Last' = Last
    BY <1>1, <1>9, BackStep DEF SubmitUnit, DecodeFails, DecodeDone, CountFrame, BeginDraw,
                StartReturns, StartAborts, StopStream, vars, counters, Last
  <2>3. rest
    BY <2>1, <2>2 DEF MappedTaken, queue, elements_in
  <2>. QED
    BY <2>3 DEF Queue!qvars, MappedQueue, MappedTaken, Last
<1>. QED
  BY <1>5, <1>6, <1>7, <1>8, <1>9 DEF Next, Decoder, Display, Session

\* For every number of buffers and width of the counters, the ring of slots and
\* wrapping indices behaves as the bounded queue that forgets its oldest frame.
THEOREM QueueAsPromised == Spec => ImplementsQueue
<1> DEFINE Map == MappedQueue = Frames(Last, elements_in)
<1>1. Init => Filled /\ Holding
  BY DEF Init, Filled, Holding, elements_in, Sub
<1>2. Init => Queue!QInit
  BY DEF Init, Queue!QInit, elements_in, Sub
<1>3. Spec => []Holding
  BY DrawInvariance, <1>1, NextHolding, PTL DEF Spec
<1>4. Spec => [](IInv /\ DInv /\ Holding /\ Map)
  <2>1. IInv /\ DInv => Map
    BY MappedQueueIs
  <2>. QED
    BY DrawInvariance, <1>3, <2>1, PTL
<1>5. (IInv /\ DInv /\ Holding /\ Map) /\ (IInv /\ DInv /\ Holding /\ Map)' /\ [Next]_vars
        => [Queue!QNext]_(Queue!qvars)
  BY NextMapped
<1>. QED
  BY <1>2, <1>4, <1>5, PTL DEF Spec, ImplementsQueue, Queue!QSpec
=============================================================================
