# Moonlight Wii U in TLA+

TLA+ models of moonlight-wiiu, a GameStream client for the Wii U, with TLC
configurations that check them and TLAPS proofs of what matters most. Paths
below are relative to the repository: `src/src/` is the program (`src/main.c`,
`src/wiiu/*.c`), `src/libgamestream/` the client library.

Contents: 1 the system, 2 the modules, 3 what each run checks, 4 fairness,
5 what is proved, 6 where code and text disagree, 7 what is not modelled,
8 what could come next.

## 1. The system

### Threads

| thread | code | what it does |
|---|---|---|
| main | `main.c` | a loop over `state`: menus, connect, pair, start, draw, stop |
| decoder | `wiiu/decode.c`, called by moonlight-common-c | one H.264 unit at a time into the next texture, then the frame queue |
| input | `wiiu/input.c` | arms a periodic alarm and waits; the alarm's callback polls the controllers |
| callback | `_connection.c`, called by moonlight-common-c | a detached thread that reports the end of the connection |
| system | `wiiu/proc.c` | ProcUI messages, delivered in the main thread |

Only the frame queue has a lock (`queueMutex`). Everything else they share is
plain globals: `state`, `message_buffer` and `is_error`, `nextFrame` and
`currentFrame`, `thread_running`, `inputAlarm`.

### Components

| component | state | operations | hard behaviour | what makes it correct |
|---|---|---|---|---|
| Video queue and display (`wiiu/wiiu.c`) | `queueMessages`, two indices, `nextFrame`, `currentFrame` | `add_frame`, `get_frame`, `wiiu_stream_draw`, `wiiu_stream_reset` | two threads; uint32_t counters read without the lock; a full queue; resets between sessions | bounded, first-in first-out, drops the oldest; a drawing begins on the frame that was queued or, with a full backlog, on the one the decoder has just put in its place; the backlog means what the skip takes it for |
| Video decoder callbacks (`wiiu/decode.c`) | `currentTexture`, texture contents | setup, submit, cleanup | a texture is reused after `NUM_BUFFERS` frames whoever still uses it | as above |
| Main loop (`main.c`) | `state`, message, `server` | one body per state | other threads overwrite `state` at any point | a connection is always taken down again; the menus come back |
| Controllers (`wiiu/input.c`) | input thread, alarm, `home_pressed`, the touch statics | start, stop, poll, `handleTouch`, menu read | cancel and join against a thread that has not run; numbers that shift; static variables that outlive a session | numbers within the mask; HOME held stops the stream, HOME pressed does not; what is pressed at the host is released; a touch is a click or a drag |
| Connection listener (`_connection.c`) | none of its own | `connection_terminated` | arrives late, early, or in the middle of a start | the lost connection is stopped and the reason shown |
| Process control (`wiiu/proc.c`) | HOME enable, running flag | `wiiu_proc_running`, `wiiu_proc_set_home_enabled` | the system may end the program at any turn | HOME leaves the program only from the menus |
| GameStream client (`libgamestream/client.c`) | `SERVER_DATA` | status, pair, unpair, applist, start, quit | lost requests and answers; a refusal at any stage; cleanup | what the client believes of the host is so |
| HTTP (`libgamestream/http.c`) | timeout | `http_request` | timeouts | returns |
| Key store (`libgamestream/conf.c`, `mkcert.c`) | three files and a directory | load, create | power off between writes; unchecked writes | a running client's key fits its certificate; an identity is never overwritten |
| Response parsing (`libgamestream/xml.c`) | `struct xml_query`: block, counter, list | `xml_search`, `xml_search_ex`, `xml_applist`, `xml_modelist` | tags in any nesting, text in pieces, blocks handed over | every field is the document's, no block is used after it is freed |
| Configuration (`config.c`, head of `main.c`, `moonlight.conf`) | `CONFIGURATION`, `state` | parse a line, a file, an included file; default bitrate; overrides | the order of lines and files | each setting is what its last line says |
| Audio, fonts, network memory, debug, C shims, SPS, crypto wrappers, vendored code | | | | not modelled, see 7 |

### Interactions

- main -> input: `start_input_thread` after `LiStartConnection` has returned,
  `stop_input_thread` before `LiStopConnection`.
- alarm callback -> main: `state = STATE_STOP_STREAM` when HOME is held.
- callback thread -> main: message, `is_error`, then `state = STATE_STOP_STREAM`.
- decoder -> display: `nextFrame++`, then `add_frame` under the mutex.
- display -> decoder: nothing; the decoder never waits.
- main -> GameStream client: calls on the main thread, which block the menus.
- GameStream client -> response parsing: one reader per answer, on the main thread.
- configuration, key store -> main: both write `state` before the loop begins.

## 2. The modules

| module | models | state and actions against the code |
|---|---|---|
| `DropOldestQueue` | abstract: what the frame queue promises | `Put`, `Take`, `Finish`, `Clear` |
| `VideoPipeline` | `wiiu.c`, `decode.c` | variables carry the code's names. A critical section of `queueMutex` is one action (`AddFrame`, `GetFrame`), every access outside it another: `CountFrame` is the bare `nextFrame++`, `SkipFrame`/`BeginDraw` read both counters. `content` is what is in a texture: the number of the frame decoded into it, or `Torn`. A queued pointer carries the number of the frame it stands for |
| `SessionLifecycle` | abstract: the session as the user sees it | menu, starting, live, stopping, menu |
| `StreamSession` | `main.c`, the threads of `input.c`, `_connection.c`, `proc.c` | `mpc` is where main is. `Poll` is the `switch (state)`; a body is one action unless another thread can interfere within it: START_STREAM is `LiStart`, `LiStarted`/`LiStartFails`, `StartInput`, `SetStreaming`; STOP_STREAM is `StopInput`, `CancelAlarm`, `JoinInput`, `LiStop`, `FinishStop`. `ArmAlarm`, `CheckRunning`, `WaitReturns` are the input thread, `HomeHeld` the alarm's callback, `ReportEnd` and `EndStream` the callback thread |
| `GameStream` | `client.c`, as `main.c` uses it | an action is one HTTP exchange with what follows until the next. `paired`, `currentGame` are `SERVER_DATA`; `hostPaired`, `hostGame` the truth. `luck.refuses` is the set of requests the host may turn down. `ret` has three values because the code does: `GS_OK`, a negative code, and 1, which a misplaced parenthesis yields |
| `ControllerInput` | `input.c`: numbers, mask, HOME | `Update(R)` is a whole `wiiu_input_update` in which the controllers of `R` give a sample. Times are kept as ages |
| `TouchInput` | `input.c`: `handleTouch` in its three mouse modes | one action per branch; the statics carry the code's names, `touchDownMillis` is kept as an age. The two axes are one. `button`, `settled`, `pull` and `sent` are the host's side |
| `InputPoll` | `wiiu_input_update` whole: the two modules above | `Poll(R)` is `Update(R)` with `handleTouch` where the code calls it; `scene` says whether an execution is about several controllers or about a finger |
| `KeyStore` | `conf.c`, `mkcert.c`, start-up of `main.c` | one action per file operation; `PowerOff` between any two. A complete key or certificate is the number of its pair |
| `Config` | `config.c`, head of `main.c` | a line of a settings file is an action (`Line`, `LineExits`, `Include`); `EndMain` is `config_parse`'s bitrate and main's overrides, `EndHost` the change to CONNECTING |
| `Startup` | `main` up to its loop: `Config`, then `KeyStore` | `Configure`, `LoadKeys` and `Keys` in this order; `Ends` cuts a start off anywhere |
| `XmlExtract` | `xml.c` | a call of an expat handler is an action (`StartTag`, `Cdata`, `EndTag`), the document is what the calls make up. `heap` is the blocks; `ref` what the document says |
| `Moonlight` | `StreamSession` with `VideoPipeline` | the actions of both, joined where one body of the main loop does both; see below |
| `VideoPipelineProofs`, `StreamSessionProofs`, `KeyStoreProofs`, `StartupProofs`, `InputPollProofs`, `GameStreamProofs`, `MoonlightProofs`, `XmlExtractProofs` | theorems | section 5 |
| `MC*` | the same modules for TLC | values of the constants that a cfg cannot write |

How they are composed:

- `Moonlight` takes `VideoPipeline` by INSTANCE with `stream` defined from
  `conn`. `Connects` is `LiStart` with `StartStream`, `Opens` is `LiStarted` with
  `StartReturns`, `Disconnects` is `LiStop` with `StopStream` (which joins the decoder),
  `StopReset` is `FinishStop` with the `wiiu_stream_reset` after it, `ResetClosed`; a turn
  of main in STREAMING is a step of the display, and the decoder runs while
  there is a connection. What `VideoPipeline` takes from its `stream` is here
  left to `state`: the frames are taken because main reads STREAMING.
- `InputPoll` and `Startup` EXTEND their halves. `InputPoll` calls `handleTouch`
  within a poll, `Startup` runs one half after the other.
- `StreamSession` and `GameStream` meet in `paired`: `StreamSession` takes any
  result of `gs_get_status` and `gs_pair`, `GameStream` says which ones there are.
  `GameStream` and `XmlExtract` meet in the answers: `GameStream` takes a field as
  read, `XmlExtract` says that reading gives what the document has.

Variables that are chosen in `Init` and never change say what an execution
may meet: `timing` (`StreamSession`), `luck` (`GameStream`), `flaky`
(`KeyStore`), `steady` (`ControllerInput`), `tidy` (`TouchInput`), `scene`
(`InputPoll`). So one run covers the adverse
executions and the good ones, and a property that needs good ones says so in
its premise, where it can be read.

Undefined behaviour: the unlocked counters and `state` are aligned words, and
the models take a read of them as the last value written (any interleaving,
no tearing). `server` is uninitialised until the first `gs_get_status`; nothing
reads it before.

## 3. What each run checks

| run | sizes | what it shows |
|---|---|---|
| `VideoPipeline_safety` | 4 buffers, 4-bit counters | `QueueBounded`, `QueueConsecutive` (the queued pointers name consecutive textures and frames), `Accounting`, `FrozenAfterDrops`, `OvertakenByOneAtMost` (a drawing begins on the frame that was queued, or the decoder is exactly `NUM_BUFFERS` frames ahead and is writing, or has just written, its frame into that texture), `ImplementsQueue` (refinement of `DropOldestQueue`), `FrameLeavesQueue` |
| `VideoPipeline_freeze` | the same | violation, section 6 |
| `StreamSession_threads` | all adverse timings at once, and all but one | `ConnectionOwned`, `HomeOnlyInMenus`, `NoSecondThread`, `PromptAlarm`, `MessageColour`, `StopCompletes`, `LostConnectionStops`, `ImplementsLifecycle` |
| `StreamSession_alarm` | late input thread only | violation, section 6 |
| `Moonlight_session` | 2 buffers, counters modulo 10, connections that fail early and late input threads | `DrawsLiveFrames`: main takes frames from the queue only while a connection is up and only this connection's, and holds none when the textures are freed |
| `GameStream_exchanges` | losing or not; the host refuses nothing, any request, or any but /pair, but a launch, or but the status and /unpair; its people do nothing, everything or everything but unpair | `BeliefMatches`, `CurrentGameRuns`, `PairingSucceeds`, `OperationsReturn` |
| `GameStream_declined`, `GameStream_already` | nothing lost | violations, section 6 |
| `InputPoll_update` | GamePad and two channels, two numbers, hold and tap of 1 tick, three positions | `NumbersInMask`, `SteadyStopNeedsHold`, `HeldHomeStops`, `HostAgrees` (what is pressed at the host is what will be released), `PointerFollows` (the moves add up to the finger's way), `ClickOrDrag`, `LiftReleases` |
| `ControllerInput_shift` | the same | violation, section 6 |
| `Startup_crash` | two key pairs, three lines of 14 kinds, one file within another | `KeysMatch`, `IdentityKept`, `FirstStartRuns`, `SettingsAsSaid` (each setting is what its last line says; the default bitrate is only said where a line gives one), `ConnectsWithClient` |
| `XmlExtract_documents` | five elements, four open at once, three pieces of text | `SearchFindsAll`, `ListFaithful`, `BlocksOwned` |

Why the bounds are enough:

- `Word`: the code uses its counters through differences, which never exceed a
  few times the number of buffers until drops accumulate; the counters of the
  runs wrap within a session, which 2^32 does in months. `Word` has to be a
  multiple of the buffers (2^32 is one) and larger than three times their
  number plus three, which is the assumption of the proofs too. `WrapNear` names
  the one effect of the width: the drop counter coming round.
- `NUM_BUFFERS`: the program has 8. The runs take 4, and 2 in `Moonlight`, so that
  queue and counters fill, overflow and wrap in one graph; that nothing depends on
  the number is proved (section 5) for every property of the run but the liveness.
- `Timings`: the properties only get harder with more timings, except for those
  that exclude one, and each excludes at most one. So the full set and the sets
  that lack one cover all sixteen. `Moonlight_session` leaves `late_callback` out,
  which writes the same STOP_STREAM to `state` as a late alarm, and `input_fails`,
  after which there is only no alarm.
- Sessions are not counted: every model returns to its menu and goes on.
- `Channels` = 2 with `MaxControllers` = 2: three controllers for two numbers,
  the relation of five to four. With four channels nothing new can happen to a
  pair of neighbouring numbers.
- `HOLD` = 1, `TAP_MILLIS` = 1, `DRAG_DISTANCE` = 1: ages 0, 1, and more; only "more
  than three seconds" and "within the time of a tap" are tested. `WIDTH` = 2 has a
  move below the distance, at it, and beyond. `Scenes` separates the players who
  come and go from the finger that moves: the two halves share no variable, and the
  proof of `PollImplementsHalves` does without it.
- `MaxPairs` = 2: a pair that is lost or half written and one that is whole.
  `FirstStartRuns` speaks of executions below the bound.
- `MaxLines` = 3: the second and third line of a setting that two options write,
  in any two of the files. `FewLines` has one line of every kind that
  `parse_argument` tells apart.
- `MaxTags` = 5, `MaxText` = 3: two entries with a field each and a tag between them,
  a field inside a field, text in two pieces.

Deadlock is checked except in `StreamSession` and `Moonlight`, where the program
ends (`left`, `ended`) and an `INVALID` program waits for HOME, and in `XmlExtract`,
where a document ends.

## 4. Fairness

- `VideoPipeline`: weak fairness of the display (the main loop polls in
  STREAMING without waiting) and of the return of `LiStartConnection`, which
  has its own timeouts. None of the decoder: the host may stop sending.
- `StreamSession`: weak fairness of main, of the input thread and of a callback
  that has begun. None of HOME, of the host or of ProcUI. The input thread's
  `WaitReturns` rests on `OSCancelAlarm` waking `OSWaitAlarm`.
- `GameStream`: an exchange under way ends (cURL's timeout). None in the menus.
- `InputPoll` (`FairPollSpec`): the alarm is periodic and time goes on, stated for
  the executions in which every poll gets its samples. None of the players.
- `Startup` (`FairStartupSpec`): the program runs the steps of the key store it has
  begun. None of the user, of the settings or of the power.
- `Moonlight`, `XmlExtract`: none, their properties are of safety.

## 5. What is proved

With TLAPS, for every number of buffers, every counter width that fits
`SizesAssumption`, every set of adverse timings, every luck, every number of key
pairs, controllers and numbers, every width and time of the touch screen and
every set of settings' lines and every document; no bound of the runs is used.

`VideoPipelineProofs`:

| theorem | property |
|---|---|
| `TypeCorrect` | `TypeOK` |
| `QueueNeverOverflows` | `QueueBounded` |
| `BacklogCountsDrops` | `Accounting` |
| `DisplayFreezes` | `FrozenAfterDrops` |
| `QueueInOrder` | `QueueConsecutive` |
| `DrawsOwnOrNext` | `OvertakenByOneAtMost` |
| `QueueAsPromised` | `ImplementsQueue` |

The invariant is `IInv == TypeOK /\ QueueBounded /\ Accounting /\ Phases`.
`QueueBounded` is inductive only with the types: `add_frame` compares with
`==`. `Accounting` needs `QueueBounded`, so that the sum it states stays below
`Word` before it wraps, and `Phases`: a reset while a thread is in the middle
of a frame would lose a count. The lemmas `SubInc`, `PlusStep` and
`ElementsStep` carry the modular arithmetic; each action's case then is a few
citations. `DisplayFreezes` follows from `Accounting` at the moment of a draw:
the backlog is at least the drops.

`DInv`, on top of it, is about pixels. `QueueConsecutive` says which textures the
queued pointers name; to draw the right one the display's own pointer must be the
one before them (`HeldBefore`), the textures queued or held must still have
their frames (`Kept`), and what the decoder has just finished must be in its texture
(`Decoded`). `QueueConsecutive` needs that two slots less than `NUM_BUFFERS` apart
differ although the indices wrap (`SlotsDiffer`), which is where `Word` has to be a
multiple of the buffers. `OvertakenByOneAtMost` then is a count: the display goes on
to draw with a backlog of `NUM_BUFFERS` too, since `wiiu.c:114` tests `>`; by
`Accounting` nothing was dropped then, and the held texture is the one the decoder is
in, one frame ahead. With a smaller backlog it is another, and has its own frame.

`QueueAsPromised` is the refinement. The lemmas on `Frames` compute `Head`, `Tail` and
`Append` of the mapped queue, `Holding` and `Filled` say that the display holds a
pointer exactly between get_frame and the end of a draw and that what it takes was
written, and `NextMapped` maps the steps: add_frame to `Put`, get_frame to `Take`,
the end of a draw or a skip to `Finish`, resets to `Clear`, all else to nothing.

`StreamSessionProofs`:

| theorem | property |
|---|---|
| `SessionTypeCorrect` | `TypeOK` |
| `ConnectionNeverForgotten` | `ConnectionOwned` |
| `HomeEndsOnlyMenus` | `HomeOnlyInMenus` |
| `InputThreadNotReused` | `NoSecondThread` |
| `AlarmWithinConnection` | `PromptAlarm` |
| `MessagesColoured` | `MessageColour` |
| `SessionsAsPromised` | the safety part of `ImplementsLifecycle` |

The invariant is `SInv == TypeOK /\ ByPlace /\ NoThread`. `state` can be
overwritten by a callback or the alarm at any moment, so nothing about a body
under way can rest on it: `ByPlace` says for each place of main what is known of
connection and HOME, and reads `state` only where main is about to, in `poll`.
There the callbacks' only value, STOP_STREAM, is harmless. `NoThread` says where no
input thread can be left: it is what makes the reuse of the one `OSThread`
sound, and it needs the join to come before the connection goes down.

`Prompt` (in a punctual execution the alarm is set only where the input thread is
alive) and `Colour` (message and colour are written together) are invariants of
their own. For the refinement, `StateFollows` ties `state` to main's place where
main is about to read it, and every step is mapped to a step of `SessionLifecycle` or
to none; its fairness stays with TLC.

`KeyStoreProofs` and `StartupProofs`:

| theorem | property |
|---|---|
| `KeyStoreTypeCorrect` | `TypeOK` |
| `RunningKeysMatch`, `StartupKeysMatch` | `KeysMatch` |
| `IdentityNotOverwritten`, `StartupIdentityKept` | `IdentityKept` |
| `StartupImplementsKeyStore` | `StartupSpec => Spec` |
| `StartupConnects` | `ConnectsWithClient` |
| `StartupSettingsAsSaid` | `SettingsAsSaid` |

The invariant is `KInv == TypeOK /\ Progress /\ SamePair`. `load_cert` does not
compare the two files and they are written apart, so `KeysMatch` is not
inductive: `Progress` says what is in the directory at each step of
`gs_conf_init`, which goes on only in a directory it has just made. So the files
it opens for writing were not there, and the certificate it completes is beside
the key of the same pair. `StartupImplementsKeyStore` is a step simulation: settings
leave the key files alone. `StateByPlace` adds what `state` is while the keys are
loaded.

`SettingsAsSaid` compares two ways to the settings: the code's, line after line, and
reading the lines backwards for the last one that speaks of a setting. The lemma
`LastOfAppend` says how the second changes with one more line, for any list of lines,
so no induction over the list is needed: `AsSaid` says at each place of the start-up
what each setting is, `SaidOK` that main's overrides come before any line of the host's
file, and `LineAsSaid` and `EndMainAsSaid` are the two steps that change settings.

`InputPollProofs`, of `ControllerInput`, `TouchInput` and `InputPoll`:

| theorem | property |
|---|---|
| `ControllersTypeCorrect`, `TouchTypeCorrect`, `PollTypeCorrect` | the type invariants |
| `NumbersToldOf`, `PollNumbersToldOf` | `NumbersInMask` |
| `StopNeedsHold`, `PollStopNeedsHold` | `SteadyStopNeedsHold` |
| `NothingStaysPressed`, `PollHostAgrees` | `HostAgrees` |
| `MovesAddUp`, `PollTouches` | `PointerFollows` |
| `NeverBoth`, `PollTouches` | `ClickOrDrag` |
| `PollImplementsHalves` | `PollSpec => Spec /\ TouchSpec` |

`NumbersInMask` compares two countings of the same controllers, by `WPADProbe` and by
sample, and is proved by the cardinalities of their sets. `SteadyStopNeedsHold` rests
on `TimesKept`: the time stored for a number is that of the controller which has
the number. `TInv` is the type invariant (which bounds the sum of moves by
`OnScreen`), `HostAgrees`, `PointerFollows` and `NoTapAfterPull`: a touch that has
moved the mouse is marked as dragged or too old for a tap, which is what
`ClickOrDrag` needs. The poll as a whole has all this because each of its steps is a
step of either half or leaves it alone.

`GameStreamProofs`:

| theorem | property |
|---|---|
| `ExchangesTypeCorrect` | `TypeOK` |
| `MenusKnowThePairing` | `BeliefMatches` |
| `GameToResumeRuns` | `CurrentGameRuns` |

The invariant is `GInv == TypeOK /\ Known /\ GameRuns`. During a pairing the client
believes nothing while the host may have stored it already: `Known` says for
each place how far the two are apart, which is what lets the cleanup close the gap
of a host that obliges (`Obliging`: it refuses neither /unpair nor the status). Of
a host that does refuse them the theorem still has that the client takes no host
for paired that is not.

`MoonlightProofs`, of the composition with all threads, the queue and the decoder:

| theorem | property |
|---|---|
| `MoonImplementsSession` | `MoonSpec => Spec` of `StreamSession` |
| `MoonSessionAsPromised` | what `StreamSessionProofs` has, of `MoonSpec` |
| `MoonImplementsVideo` | `MoonSpec => Video!Spec`, the `Spec` of `VideoPipeline` |
| `MoonVideoAsPromised` | `OvertakenByOneAtMost` and `ImplementsQueue`, of `MoonSpec` |
| `LiveFramesDrawn` | `DrawsLiveFrames` |

`VideoPipeline` takes it for granted that frames are taken only while its stream is
open and that the stream is closed only while nothing is drawn; here main does both
because it reads `state`, which three threads write. `MInv` is
`SInv /\ Live /\ Drawing`: `SInv` is the session's own invariant, `Live` says that
`state` is STREAMING only with a connection that is up and main about to look at it,
`Drawing` that main holds a frame only in its turn of drawing. With it every step
maps to one of `VideoPipeline` or none, and all that is proved of `VideoPipeline`
holds of whole sessions. `DrawsLiveFrames` then rests on `OwnQueued`: what is in the
queue while a connection is starting or up has been queued by this connection,
since START_STREAM resets the queue before it connects.

`XmlExtractProofs`, for documents of every size and depth:

| theorem | property |
|---|---|
| `XmlTypes` | the types, and what the counter of `xml_search` counts |
| `SearchesComplete` | `SearchFindsAll` |
| `TextBlocksOwned` | `BlocksOwned` |
| `ListsFaithful` | `ListFaithful` |

`Counted` says that `start` is the cardinality of the open nodes, so that it is above zero
exactly within one; with that, `Taken` (the block has the text found so far, and
differs from the fresh block `Junk`) is inductive. `Held` says that within a wanted
element there is a block, and `Blocks` that each title has one of its own:
`TitlesKept`, that no handler writes to it or frees it, is the fact the other two
proofs rest on. `Listed` is the invariant of plain documents: `Placed` (one is in a
field only directly in an element, of which there is an entry), `Buffered` (the
block has what the field has so far, and between fields the query points to a title
or nothing) and `Agreeing` (all entries say what the document says, but for the
field one is in). The exception of `ListFaithful` comes out of `EndDocument`: of all
titles the last block is the only one that can be the query's. Nothing is claimed
of documents that are not plain, beyond `BlocksOwned`.

Proofs assume the constants' named assumptions only, each in the module that
declares the constants: `SizesAssumption` and `ValuesAssumption`,
`TimingsAssumption`, `GamesAssumption` and `LucksAssumption`, `BoundAssumption` and `FilesAssumption`,
`ConfigAssumption` and `LinesAssumption` (a flag is on or off), `TouchAssumption`,
`ScenesAssumption`. `VideoAssumption` of `Moonlight` repeats those of the
`VideoPipeline` it instantiates.

Every safety property of the passing runs is proved. Only model-checked is all
liveness, since the prover does not reason about fairness or ENABLED:
`FrameLeavesQueue`, `StopCompletes`, `LostConnectionStops`, the fair part of
`ImplementsLifecycle`, `PairingSucceeds`, `OperationsReturn`, `FirstStartRuns`,
`HeldHomeStops` and `LiftReleases`. The violations of section 6 are counterexamples
and need no proof.

## 6. Where code and text disagree

Each run below ends in a violation of a property that a comment, a message or a
guard of the code states.

- `VideoPipeline_freeze`: a frame dropped by `add_frame` (`wiiu.c:199`) moves
  `queueReadIndex` but not `currentFrame`, so the backlog keeps it. After eight
  drops in a session every frame is "old" (`wiiu.c:115`) and is skipped, the
  newest too. `Accounting` is the exact statement, `FrozenAfterDrops` the
  consequence, both proved.
- `StreamSession_alarm`: `stop_input_thread` cancels the alarm before it joins the
  thread that arms it (`input.c:407-408`). A thread that has not run yet arms it
  afterwards, and the controllers are polled, and HOME stops streams, in the
  menus; `wiiu.h:57` says "this is only relevant while streaming".
- `GameStream_declined`: a stage 1 the host declines leaves `ret` at `GS_OK`
  (`client.c:362-366`); the menu says "Succesfully paired" (`main.c:329`).
- `GameStream_already`: "Already paired" (`client.c:318`) goes through cleanup,
  which unpairs.
- `ControllerInput_shift`: the time of a HOME press is kept by controller number;
  when the number shifts, another, older time is compared and the stream stops
  at once, although the press was meant to reset it (`input.c:157`).

Behaviours the models contain that no run reports as a violation: no text of the
repository speaks against them, or a property names them as its exception, or no run
is spent on them, and then the text is quoted here.

- With a backlog of exactly `NUM_BUFFERS`, which needs no drop, the display does not
  skip (`wiiu.c:114` tests `>`) although the decoder is already at the texture it holds:
  the drawing begins on a texture that is being written, or that has the frame
  `NUM_BUFFERS` later. `OvertakenByOneAtMost` says that this is all.
- An /unpair that is lost or that the host refuses (`client.c:258-261`), also the one
  in the cleanup of a pairing (`client.c:587-589`, its result is not looked at), leaves
  the host paired while the client is told it is not. `BeliefMatches` names it.
- The comment of `client.c:343`, stage 1 "doesn't have a read timeout", no longer holds:
  `http.c:122` sets `CURLOPT_TIMEOUT`, and `main.c:322` 60 seconds. `OperationsReturn`
  rests on it.
- The default bitrate: `moonlight.conf:35` promises "5Mbps (5000) for lower resolution or
  fps", `config.c:501-504` (`BitrateTable`) takes 1000 kbps at 640x360 and 1500 at
  854x480, for 30 fps. And `moonlight.conf:32` says "Set to -1 to enable default", but
  in the host's file that leaves -1, since the default is computed before it is
  read. `SettingsAsSaid` is about a bitrate that a line gives.
- A card that is full when the unique ID is closed leaves a short one behind `GS_OK`
  (`conf.c:116-122`, `IdWritten`); it stays the client's ID.

- A connection that ends before START_STREAM is over has its STOP_STREAM
  overwritten (`main.c:360`); a system exit during a stream stops nothing.
- `currentGame` is set before the launch is known to have worked
  (`client.c:716-717`): after a refused or lost launch the menu offers to quit a
  game that does not run, until the next status. `CurrentGameRuns` names it as its
  one exception on a network that loses nothing. The timeout of a launch stays (`client.c:682`).
- A start-up cut off between `mkdir` and the last file leaves a directory that
  `gs_conf_init` will not complete (`conf.c:66`).
- `sops` and `nounsupported` are heard in the host's file only: main overrides
  both after `moonlight.conf` (`main.c:154-155`). On the Wii U a line `mapping` falls
  through to `nosops`. The default bitrate is not computed again after the host's
  file. A settings file that includes itself is read until the C stack ends.
- The title of the last application is freed when no other field follows it in
  the document (`xml.c:100`); a field without text is read from a byte that
  nothing was written to.
- A finger that is down when a session begins is never pressed there.

Outside the models, seen while reading `moonlight.conf` against `config.c`: line 24
spells the mode "touchsceen"; `rotate` and `viewonly` are parsed and used by nothing.

## 7. What is not modelled

- GX2 set-up, shaders, fonts, the debug console: output only.
- Audio: one library thread decodes and queues samples; nothing else reads it.
- Cryptography, certificates' contents, URLs, the wire formats; the buffer in which
  cURL collects an answer; `gs_download_cover`.
- `xml_status`: the attributes of the answer's root are a condition of
  `GameStream`'s exchanges. Running out of memory is left out.
- Of the configuration, the options that set one variable nobody else sets, the key
  directory, the command line, and `config_save`, which the Wii U never reaches.
- SPS rewriting, which the Wii U's decoder does not call; the hand-over of memory to
  the network stack; vendored code.
- The table of the ordinary buttons in `input.c`: a mapping of bits.
- moonlight-common-c and the host: external. They appear as the calls and
  answers the repository's code expects of them.
- `WPADProbe` counts and `KPADReadEx` samples of one poll are taken together: a
  controller that appears between the two within one callback is not covered.
- The overtaking of a drawing that has started: the queue has as many slots
  as there are textures, so the decoder may write into the texture the GPU is
  reading; bounding that needs timing the code does not give. Where the decoder may be
  when a drawing starts is `OvertakenByOneAtMost`.

## 8. What could come next

- A composition of `StreamSession` with `GameStream`, in which a status or a
  launch that blocks for its timeout meets callbacks and the system's exit. The
  properties of both are stated over any result of the other, so this would show
  timing rather than correctness.
- What liveness rests on: the proofs could be extended by the safety facts that a
  fair execution needs (that the display, the input thread and an exchange under way
  always have a step), stated without ENABLED.

Runs are merged by the rigid variables of section 2, so that a new module adds
one run and one for each disagreement.
