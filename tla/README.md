# A TLA+ model of moonlight-common-c

moonlight-common-c is the C core of the Moonlight game streaming clients. It
negotiates a session with a host over RTSP, receives video and audio over RTP,
repairs losses with Reed-Solomon FEC, hands whole frames and audio packets to
the application's decoders, and sends input and control messages back.

This directory models the parts of it where threads, packets and losses meet:
the queue all threads communicate through, the two RTP queues, the
depacketizer with its recovery protocol, the audio threads, the control
stream, the input stream, and the life of a connection from the RTSP handshake
to the last join. TLC checks the modules on small instances; TLAPS proves, for
every instance, the queue correct, and the safety of the control stream, of the
depacketizer, of the audio stream, of the batching of the input stream, and of
starting and stopping a connection.

    tlc -workers 2 -config Rtpv.cfg MCRtpVideoQueue      # a run
    tlapm LinkedBlockingQueue_proofs.tla                 # the proofs of a module

`PROJECT.json` lists the components, the runs, the lines every definition
models, the hazards, the findings and the theorems. Source paths below are
relative to `src/src/`.

## 1. Inventory

### Threads and how they interact

    network --> VideoRecv thread --> RtpVideoQueue --> VideoDepacketizer
                                                         | decodeUnitQueue (15)
                                                         v
                                          decoder thread (or the application)
    network --> AudioRecv thread --> RtpAudioQueue
                                       | packetQueue (30)
                                       v
                                     AudioDec thread
    depacketizer, RTP queue --> idrFrameRequiredEvent, referenceFrameControlQueue (20),
                                frameFecStatusQueue (8) --> control stream threads --> host
    host --> ControlRecv thread --> asyncCallbackQueue (30) --> AsyncCb thread --> application
    application --> Li* input functions --> packetQueue, packetHolderFreeList --> InputSend thread --> host

Every arrow with a bound is a `LINKED_BLOCKING_QUEUE`. Flags that describe the
state of the stream (`waitingForIdrFrame`, `dropStatePending`,
`ConnectionInterrupted`, `stopping`, `alreadyTerminated`) are shared without a
lock. Everything is file-scope static state, initialized again for each
connection.

| Component | State | Operations | What is hard | What makes it correct |
|---|---|---|---|---|
| `LinkedBlockingQueue.c` | doubly linked list, size, shutdown, draining and user-wake flags, a mutex and a condition variable | initialize, offer, poll, peek, wait, flush, shutdown, drain, user wake, destroy | a signal is sent after the unlock and only when the queue was empty; spurious wakeups; flushed lists are walked outside the lock | FIFO and bound; the list is never corrupted; no entry is lost or freed twice; a waiter is always woken |
| `RtpVideoQueue.c` | the pending block with its holes, the completed blocks of the frame, the next sequence number, loss flags | `RtpvAddPacket` | loss, duplicates, reordering, 16-bit wrap; recovery that fails; loss prediction | whole frames only, in order, each at most once; what can be recovered is submitted; what was submitted is not reported lost |
| `VideoDepacketizer.c` | what it waits for, the frame being assembled, the queue of decode units | packets of a frame, loss reports, decoder results, drop limit | two threads and three unlocked flags; which request a loss needs | the decoder never gets a frame without its reference; while frames are dropped an IDR frame was asked for |
| `RtpAudioQueue.c` | sorted list of FEC blocks, next and oldest sequence number, synchronizing flag | `RtpaAddPacket`, `RtpaGetQueuedPacket` | as video, with data handed out before a block is complete | audio in order and once; only lost audio is concealed; only lost blocks are skipped |
| `AudioStream.c` | packets still to drop, `packetQueue` | receive loop, decoder loop, start, stop, ping | overflow of the queue while it is consumed; late packets at start | as above, end to end |
| `ControlStream.c` | `idrFrameRequiredEvent`, three queues, loss statistics, ENet peer, `stopping` | requests of the other components, six threads, start, stop | an event cleared after the wait; requests merged and flushed by two threads; partial failure of start | no request is lost or sent after stop; a flush never drops a request without an IDR request taking its place |
| `Connection.c` | `stage`, `ConnectionInterrupted`, `alreadyTerminated` | start, stop, interrupt, termination callback | failure at each stage; interruption at any time; threads that lose the connection while it starts or stops | every call returns and leaves nothing behind; nothing is released under a running thread; the application hears of the end, once |
| `VideoStream.c` | sockets, threads, first frame flags | receive loop, ping loop, start, stop | failure between two thread creations | every thread joined, every queue shut down before it is destroyed |
| `InputStream.c` | `packetQueue`, free list of holders, batching state | one function per input event, send thread, start, stop | batching from a queue other threads write to; holders reused; text waits for what is in transit | the host ends with the latest state of everything; no change of a button is skipped; clicks follow the motion before them; a holder has one owner; stop drains |
| `RtspConnection.c`, `RtspParser.c` | session id, sequence number, negotiated values | OPTIONS, DESCRIBE, SETUP three times, ANNOUNCE, PLAY | retries and interruption; error paths; what later stages take for granted of what was negotiated | a bounded number of retries; a failure releases everything; the streams' assertions on negotiated values hold |
| `Platform.c` | threads, mutexes, events, condition variables | create, interrupt, join, detach; set, clear, wait | interrupted threads; an event that stays set | as used above |
| `PlatformSockets.c`, `PlatformCrypto.c`, `rswrapper.c`, `nanors/` | none of their own | wrappers; GF(2^8) arithmetic | - | external to the model |
| `SdpGenerator.c`, `ByteBuffer.c`, `SimpleStun.c`, `ConnectionTester.c`, `FakeCallbacks.c`, `RecorderCallbacks.c` | none shared | formatting, one-shot probes, stubs | - | not modelled |

The hazards themselves, each at its line with the properties that watch it,
are in `PROJECT.json`.

## 2. Modules and plan

| Module | Models | Status |
|---|---|---|
| `BoundedQueue` | abstract: a bounded FIFO of entries that can be rundown, with what each call may answer | done |
| `LinkedBlockingQueue`, `LinkedBlockingQueue_proofs` | the queue, its links and signals; the proofs | done |
| `RtpVideoQueue` | `RtpvAddPacket` on an unreliable network | done |
| `VideoDepacketizer` | receive and decoder thread, host and losses | done |
| `RtpAudioQueue`, `AudioStream` | the audio queue as operators on its structure; the two threads and the network around it | done |
| `ControlStream` | the five control threads, their event and queues, start with its failures, stop | done, without the deferred disconnect and the statistics |
| `InputStream` | every LiSend call, holders, batching, the send thread, start and stop | done |
| `Platform` | threads, sockets and signals, and the steps a call has yet to take | done |
| `RtspHandshake` | the requests, retries and error paths of the handshake and what it negotiates; extends `Platform` | done, without message text |
| `Connection` | start, stop and interrupt of a connection with all streams, and threads that lose it; extends `RtspHandshake` | done |
| `ControlStream_proofs` | no request of the video stream is forgotten, the application ends with the latest state, assertions; for any number of frames, any bounds and any messages | done |
| `VideoDepacketizer_proofs` | the decoder's input is decodable, an IDR frame is requested, assertions; for any stream and any bounds | done |
| `InputStream_proofs` | queues and holders, and a carrier for every dirty flag; for any threads, scripts and bounds | done |
| `InputDelivery_proofs` | on top of it: the state of mouse and sensors reaches the host | done |
| `AudioStream_proofs` | audio in order and once, only lost blocks skipped, a well-formed list, assertions; for any size of blocks, any modulus and any stream shorter than half of it | done |
| `AudioConcealment_proofs` | on top of it: a placeholder stands for a packet that was lost, and without reordering for one that could not be recovered | done |
| `Connection_proofs` | nothing outlives a call and nothing is used after its release; for any configuration, any number of connections, and a failure or interruption at any step | done |

The order is by importance to the user of a stream: first the component under
everything else, then what decides whether a picture and a sound are right,
then the control messages that repair them, then start and stop. Composition:
`AudioStream` extends `RtpAudioQueue`; `VideoDepacketizer` uses of
`RtpVideoQueue` only what the `video` run establishes of it (`SubmitsWholeFrames`,
`LossNeverContradicted`), and both streams use of the queue between their
threads what `BoundedQueue` says (a critical section is atomic, FIFO, bounded),
which is proved, as does `ControlStream`. `idrRequested` and `rfiRequested` of
`VideoDepacketizer` stand for what `ControlStream` does with a request:
`NoLossForgotten` and `IdrIsSent` say that it reaches the host. `Connection`
composes the start and stop of all streams; what a stream's threads do while it
runs is in that stream's module, and of it `Connection` keeps what they wait
for, what they use and that they may lose the connection. The conditions under
which `InputStream`, `ControlStream` and the others are destroyed are those that
`Connection` establishes.

The `MC` modules define the constants that a `.cfg` cannot write.

## 3. How the modules correspond to the code

**LinkedBlockingQueue.** A critical section is one step. The signal after it is
a step of its own (`pc[t] = "signal"`), as is each return of
`pthread_cond_wait`, spurious ones included, and each `free()` of a flushed
list. `flink`, `head` and `tail` are the real links (`blink` is written by the
code and never read, and is left out); `heap` is the set of allocated entries
and the flink of an entry outside it keeps its last value. `items`, `flushed`
are history. All threads may call all functions; only `Waiter` waits, because
each queue of the program has one consumer. A destroyed queue may be
initialized again.

**RtpVideoQueue.** One step is one call of `RtpvAddPacket` with a packet the
network delivers; `q` is `RTP_VIDEO_QUEUE`, and each operator on it is one
passage of that function or one function it calls. A pending packet is known by
its sequence number. `calls` is what that call told the depacketizer and the
control stream. `mode` is chosen once: debug build (`FEC_VALIDATION_MODE`), a
host that is too old for FEC, recovery that returns corrupt packets, and how
far behind the newest packet one may arrive. Time is measured in frames.
Payloads, the flags of `NV_VIDEO_PACKET` and receive timestamps are left out.

**VideoDepacketizer.** A frame is a number and a type (IDR, P, or a P frame
after RFI). The receive thread's work on a frame is split where the decoder
thread can interfere: at the first packet, at the last packet's checks, and at
the offer to `decodeUnitQueue`. Parsing of NAL units is reduced to the type it
finds. `kind` is the stream: a decoder that is strict about IDR frames, decodes in
the receive thread, peeks, or answers `DR_NEED_IDR`, and whether frames may be
predicted lost or found corrupt after their first packet. Host and network are external: they send
numbered frames, lose any of them and answer requests when they like.

**RtpAudioQueue, AudioStream.** Operators on the structure `q`, one per
function; `AudioStream` calls them from the receive thread and adds the network,
the initial dropping of packets, the handover through `packetQueue` with its
flush on overflow as two steps, and the decoder thread. Decryption and payload
contents are left out; a packet's size class is kept because the queue gives up
FEC when it changes.

**ControlStream.** One label of `at[t]` per point of a thread's loop where
another thread can come in between: the IDR thread's wait, clear, check and send
are four steps, `LiRequestIdrFrame` empties the queue and sets the event in two.
`main` creates the threads in order, fails at any of them or at START A and
START B, and stops or gives up statement by statement. `open`, `idrOwed`,
`latest` and `delivered` are history. What the host sends is one of a few
`Scripts`; who is active is a mode, because the video requests and the host's
messages share nothing but start and stop.

**InputStream.** A critical section under `batchedInputMutex` is one step, so is
a call on a queue; between them `caller[t].at` says where thread `t` is in its
call. The states that are batched are `current[k]`, with the dirty flag that
reserves the place of their packet; a holder is a number, so that
`currentQueuedControllerPacket` can point to one that was freed. The sender's
labels are the branches of `inputSendThreadProc`; at "ack" it waits, before text, until
nothing of the control stream is in transit, which is external. `config.scripts` is what each
thread of the application sends. `seen` and `moved` are history: what was
accepted and what was sent.

**Platform, RtspHandshake, Connection.** The functions that start and stop a
stream are straight-line code with error paths, so they are sequences of steps:
`startVideoStream` is the sequence of its calls, and a step that can fail
carries the statements of its error path (`undo`). `todo` is what the calling
thread has yet to do, the action for a step is that of the platform function it
calls, and a failure replaces `todo`. `LiStopConnection` undoes `stage` by stage as
the code does. `threads[t]` is a thread of the library: running, reporting a loss
(between the test and the assignment of `alreadyTerminated`), or returned;
a join waits until the thread can have returned, which depends on what it waits
for (`WaitsFor`) and on what was signalled. If the application sends text
(`conf.text`), the input thread also waits for "acks", which no step of the calling
thread signals (`Acknowledged`). A handle that was closed and not set to
`INVALID_SOCKET` is "dangling". `conf` is what the application and the host bring:
version of the host, codecs, channels, what may fail, which threads may lose the
connection. `neg` is what the handshake negotiated.

**Omissions that matter** are named at the head of each module. In common:
failing allocations.

An operator `M_X` in a module is `X` with a plausible defect. The specification
does not use it; it shows that a property notices the defect.

## 4. Runs

| Run | Instance | Checks |
|---|---|---|
| `lbq` | 3 entries, 3 threads, bound 2, one user wake per life; 472 000 states | type, list, chain and ownership invariants, no lost wakeup, refinement of `BoundedQueue`, and under fairness: every entry leaves, a rundown reaches the waiter |
| `video` | 5 frames of one to three blocks of one or two data packets, 24 sequence numbers from 8 on so that they wrap, bursts of up to 3 lost, all modes; 310 000 states | the queue is well formed (`QueueIntact`: holes and counts agree, the fast path, completed blocks), whole frames in order, the code's assertions, recoverable frames are submitted, a loss report is never contradicted |
| `depacketizer` | 6 frames, queue of 2, drop limit 3, every kind of decoder, peeking where losses are predicted and late corruption where they are not; 2 170 000 states | the decoder never gets a frame it cannot decode; types, bounds and assertions (`StateIntact`); while IDR frames are awaited, one is requested |
| `depacketizer_refresh` | a threaded decoder that asks | violated: a P frame follows `requestDecoderRefresh` |
| `audio` | blocks of 2+1, 5 of them, 24 sequence numbers, bursts of 3, queue of 2, six modes; 1 540 000 states | a well-formed list and the code's assertions (`QueueIntact`), played in order, only lost audio concealed, only lost blocks skipped |
| `audio_restart` | the same, a client that begins two blocks before the number 0 | violated: an assertion on the list of blocks holds |
| `control` | 3 frames, queues of 2, three scripts of 4 messages, every thread's creation may fail; 800 000 states | no reported loss is forgotten, assertions, the application sees the last state of everything, and under fairness: an IDR frame asked for is requested, a stop or a failed start completes |
| `input` | 2 callers and main, 8 holders, queues of 1 to 5, packets of -2..1, notches of 3, nine scripts for two kinds of host, sending may fail; 424 000 states | queues and holders are sound, dirty flags and packets agree, the host's state follows, clicks follow motion, what was accepted is sent, and under fairness: pending motion is sent and a stop completes, unless the sender waits for ever before text |
| `input_controller` | a queue of one, or two connections | violated: an event is merged into a packet that is not queued |
| `connection` | hosts of versions 3, 5, 7.1.410 and 7.1.431, every thread, socket and exchange may fail, 2 retries, up to two connections, with and without text at the end; 90 000 states | nothing outlives a call, no use after release, assertions, a bounded number of retries, and under fairness: every call returns unless it waits for a host on TCP or for acknowledgements, a loss is reported |
| `connection_start_fails` | one host, everything may fail | violated: a queue is destroyed that was not run down |
| `connection_verdict` | the same | violated: `connectionTerminated` and `stageFailed` for one connection |

**Why the bounds suffice.** The decisions of the code depend on relations
between at most two neighbouring blocks or frames, and on whether something is
empty, partial, enough or full; each instance has room for every such case and
one more. `lbq`: 3 entries in a queue of 2 let an offer fail, and let one list
be walked while another is filled. `video`: `MaxLoss` 3 loses a whole block or a
whole small frame, the layout mixes blocks with and without parity and frames of
one and several blocks, and half the modulus exceeds the lag of a late packet,
as 2^15 does in the code by far (a lag beyond it is the hazard at
`RtpVideoQueue.c:544`, not covered). Depacketizer: 6 frames are enough for
a start, a loss, its repair and a second loss during the repair; `DropLimit` 3
is reached, and so is `QueueBound` 2. `audio`: five blocks allow one done, one
partial, one lost whole and two queued behind; their ten sequence numbers are fewer
than half of the 24, because in the model a block may wait for its packets until
the stream ends, where the code gives it up after 10 ms, and `isBefore16` orders
numbers only so far (`AudioStreamAssumption`). `control`: three losses overflow a
queue of two while the thread that empties it holds one or none, and the
scripts batch, must not batch, and overflow. `input`: two updates of the same
state by two threads and one by the sender in between are the shortest ways to
confuse a dirty flag, and each script has them for one kind of state; a queue of
one is full after one packet and -2..1 needs several packets for a motion of
two. `connection`: every step that can fail does, at most one per start because a
failure ends it; two connections show what the first leaves to the second (among it, contexts
that an ENet handshake forgot and a start whose parameters are refused finds); two
threads lose the connection at a time, which is where the unsynchronized test
matters. `CHECK_DEADLOCK` is off where the
stream ends after its last frame, and where the application may be done (input,
connection); the queue itself is checked for deadlock.

`DecoderInputDecodable` and `StateIntact` of the depacketizer excuse what follows a
refresh that races (`RacingRefresh`, which is what `depacketizer_refresh` shows)
and what rests on a frame found corrupt after its first packet, which has by
then cleared `waitingForIdrFrame` (`VideoDepacketizer.c:681`); `IdrIsRequested` is
not claimed for streams with wrong loss predictions. `LossNeverContradicted` and the
second part of `ConcealsOnlyLostAudio` are about packets that come in order; what the
code does otherwise is among the hazards that no property catches. The `audio` run and
the proofs about it leave out the streams of `audio_restart`, whose numbers pass 0
before the first block is done. `AssertsHoldOnceStarted`
excuses the two faults that `connection_start_fails` shows, and only after a stage
has failed. `PendingIsSent`, `StopCompletes` of the input stream and `CallsReturn` excuse the
wait before text (`InputStream.c:557`, section 6), and only while it lasts for ever
(`WaitsForEver`, `AwaitsAcks`), so that this wait itself is not caught; `CallsReturn` also the one for a host on TCP (`AwaitsReply`).

**Fairness.** `lbq`, `control`, `input` and `connection` assume it, in `FairSpec`. `lbq`: weak fairness of each
thread's pending signal, of a woken waiter's return and of the waiter's loop, of
the walk that frees a list, and of nothing a thread is free not to do (offering,
flushing, shutting down). The code justifies it: these steps are straight-line code of
running threads, and a signalled `pthread_cond_wait` returns. `control`: weak fairness of the
three request and callback threads, of the end of an interrupted thread, of a
caller inside `LiRequestIdrFrame` and of `main` once it stops or gives up; the
host need not send anything and nobody need call. `input`: weak fairness of each
thread inside a call, of the sender and of a stop that has begun; nobody need call
or stop. The wait before text (`WaitForAcks`) is not fair, because it has no timeout
(`InputStream.c:557`). A send itself comes to its end: ENet's does not wait for the host, and the
sockets of old hosts are taken to be read. `connection`: weak fairness of the calling thread's next step, of a thread
between the test and the callback, and of the detached callback thread. The
waits of these calls have a timeout in the code, or are joins whose condition the
model states, with two exceptions, neither of which is fair: a host on TCP may never
answer START A or START B (`ControlStream.c:523`), and what the input thread waits for may
never be acknowledged. Starting, stopping, interrupting and losing the connection are not
fair either. The other modules
are checked for safety; `IdrIsRequested` is an action property and needs none.

## 5. Proofs

Each component's proofs are in a module of their own, which extends the
component. Each has an inductive invariant `IInv`, one lemma per conjunct or per
kind of step, a lemma that combines them (`NextIInv`, in `Connection_proofs`
`NextCorrect`), and the theorems that follow. The
assumptions on the constants are the named ones of the components, and TLC
evaluates them in the runs. They say of what kind the constants are (bounds are
positive, scripts are sequences of events, `main` is not a caller) and nothing
about the size of an instance.

| Module | Theorem | States |
|---|---|---|
| `LinkedBlockingQueue_proofs` | `TypeCorrect`, `ListIntegrityHolds`, `ChainIntegrityHolds`, `EntryOwnershipHolds` | the four invariants of the `lbq` run |
| | `NoLostWakeupHolds` | a sleeping waiter with a reason to wake has a signal on its way |
| | `Refinement` | every behaviour is one of `BoundedQueue` |
| `ControlStream_proofs` | `TypeCorrect`, `AssertionsHold` | types; the code's assertions: ranges are not empty and are merged in the order of their frames |
| | `LossesAreRemembered` | `NoLossForgotten`: a frame reported lost stays in the queue or in the range about to be sent until it is sent, or an IDR frame is about to be requested |
| | `LatestStateIsDelivered` | `LatestIsDelivered`: when nothing is left to deliver, and after an orderly stop, the application has the host's latest state |
| `VideoDepacketizer_proofs` | `TypeCorrect`, `AssertionsHold`, `StateStaysIntact` | types and bounds; the assertions of the receive path; `StateIntact`, which is both |
| | `DecoderInputIsDecodable` | `DecoderInputDecodable`: no frame without its reference reaches a decoder |
| | `IdrOnOrder` | `IdrIsRequested`: a frame that is received whole is dropped for want of an IDR frame only while one is on order or about to be |
| `InputStream_proofs` | `QueuesStayIntact` | `QueuesIntact`: types, the bound, the assertions on destruction, one owner for each holder |
| | `DirtyAlwaysHasCarrier` | `DirtyHasCarrier`: a dirty flag is set exactly while one packet, and no more, is under way for it |
| `InputDelivery_proofs` | `HostStateFollows` | `StateReachesHost`: motion adds up and fits, the last update of every state that is not pending has been sent, and the null state of a gyro reliably |
| `AudioStream_proofs` | `QueueStaysIntact` | `QueueIntact`: types, the blocks in order and their counters right, every `LC_ASSERT` of the audio queue |
| | `EntriesComeInOrder` | `PlayedInOrder`: the decoder gets each packet or its placeholder at most once and in order, until FEC is turned off |
| | `OnlyLostBlocksAreSkipped` | `SkipsOnlyLostBlocks`: what is passed on never goes back, and jumps only over blocks of which nothing was taken |
| | `StreamsThatDoNotWrap` | all three without their hypothesis, which holds, for streams whose numbers do not pass 0 |
| `AudioConcealment_proofs` | `OnlyLostAudioIsConcealed`, `ConcealmentWithoutWrap` | `ConcealsOnlyLostAudio`: a placeholder stands for a packet that was not taken and, unless the network reorders packets, could not be recovered |
| `Connection_proofs` | `TypeCorrect` | types; a bounded number of attempts to connect |
| | `NothingOutlivesHolds` | `NothingOutlives`: when a call has returned, no part, thread, renderer, socket or session is left, but for the contexts the ENet error paths forget |
| | `NoUseAfterReleaseHolds` | `NoUseAfterRelease`: a thread that runs finds the parts, sockets and renderers it uses |

**LinkedBlockingQueue** (`LbqAssumption`: any entries, any threads with one
waiter, any positive bound). `IInv` is the conjunction of the four invariants and
`ThreadStates`. None is inductive alone. That the links spell out `items`
(`ListIntegrity`) survives an offer only if the new entry is in no list, which
is ownership; ownership survives a walk only if the walk meets exactly the
entries in `flushed`, which is `ChainIntegrity`; that in turn needs that an
offer writes only the flink of the queue's own tail. `ThreadStates` ties a
thread's position to what it holds. The lemmas treat the kinds of steps once:
`OfferIInv`, `PopIInv` for poll and wait, `FlushIInv`, `FreeChainEntryIInv` and
`FreeDataIInv`, and `QuietIInv`, `SignalIInv`, `MoveIInv` for the steps that
leave the list alone; `NextIInv` combines them. `NoLostWakeup` is preserved
relative to `IInv` (a queue that is not empty has `currentSize` above 0). The
refinement maps the abstract queue to `items`.

**ControlStream** (`ControlAssumption`: any number of frames, any positive
bounds, any scripts of messages, any set of threads that cannot be created).
`IInv` adds to the invariants of the run `Lifecycle`, `ControlOrder` and
`Callbacks`. That a lost frame stays on record when the RFI thread merges the
head of the queue into its range needs that the range lies before all that is
queued and that the queue is in the order of the frames (`ControlOrder`):
otherwise the merged range would not cover its parts, and the assertion on it
would fail. What the application was told is compared with what the host sent
last, message by message for each thing a message is about: the last one in the
queue, else the one the callback thread has in hand, else what was delivered
(`PendingState`). A merge drops a message only if the next one says more of the
same thing. `Lifecycle` is there for the one case in which messages are
dropped, a start that fails before the last thread exists.

**VideoDepacketizer** (`DepacketizerAssumption`: any number of frames, any
positive bound and drop limit, any kinds of decoders and streams). That a P
frame finds its reference is a statement about everything behind it: `Chain`
says that the frame last decoded, the queue, and the frame under way are linked
each to its predecessor or start anew with an IDR frame. It is kept only because
of what the two threads know of each other: `Position` (frame numbers, and
where the receive thread is), `DecoderThread`, `Unraced` (what the receive
thread found in the unlocked flags stays so while it relies on it, except when
`RacingRefresh`), `FirstIdr` and `Waits` (RFI is used only after a first
IDR frame was processed). `Served` carries `IdrIsRequested`: whoever waits for an
IDR frame has asked for it, or a gap in the frame numbers ahead will make it ask.
The excuses of the properties (`RacingRefresh`, late corruption, wrong
predictions) are the ones of section 4, and no more are needed.

**InputStream** (`InputAssumption`: any callers with any scripts of events, any
number of holders and controllers, any bound and any number of connections).
`Reserved` is `DirtyHasCarrier` pair by pair of places (caller, queue, sender).
It needs `OneOwner`, since a holder in two places would carry twice; `Contents`,
which ties the packet in a caller's holder to what the caller reserved, and keeps
the pen packet that the sender saw at the head of the queue; `CallsOK` and
`SenderOK`, what each label of a thread implies of what it holds; and
`Lifecycle`, by which nobody holds anything when a new connection begins. The
attempt also found what the run alone did not: a controller event that is merged
into a freed holder (finding 2) may overwrite a packet that carries motion, whose
dirty flag then stays set without a carrier. `DirtyHasCarrier` and `Contents` excuse
it by `seen.stray`.

`InputDelivery_proofs` builds on it, with a second invariant, `Delivery`. What the
sender has in hand is right for the label it is at (`InHand`): a packet for the key
it remembers, cut to 16 bits, reliable where it must be. For each key,
`UpToDate` follows the last accepted update: it is pending, or was refused, or
is in the sender's hand with the latest value, or that value was the last one
sent. A dirty flag is cleared in two places only, and each step of the argument
there needs that the other place is not under way for the same key, which is
`Reserved`: the sender clears it when it fills its packet in, and then no caller
can be about to give the place back; a caller gives it back only after a refusal.
`LatestIsSent` has the excuse `seen.stray` for the same reason as
`DirtyHasCarrier`; `MotionConserved` and `GyroNullIsReliable` hold without any.

**AudioStream** (`AudioQueueAssumption`, `AudioStreamAssumption`: blocks of any
size that divides the modulus, any number of them as long as the stream has fewer
sequence numbers than half the modulus, any losses and reordering, any build and
host). `isBefore16` is no order, since it is not transitive, so the argument counts every
sequence number from the first of the stream (`Offset`); the lemma `Before` turns
the code's comparison of two numbers into `<` of their offsets, which is the only place
where the length of the stream is used. `IInv` says of the queue what its functions
rely on. `Ordered`: the blocks are sorted, their counters count the shards they have,
and only the first of them was begun or is being given up. `Cursor`: `next` is in
the oldest block, and `next` equals `oldest` where nothing of it was handed out.
`Keeps`: a shard the queue took is in its block until the block is older than
`oldest`, so nothing is forgotten; without it a block that was skipped could not be
said to be lost. `Settled`: between two packets nobody is being given up, which is why
`allowDiscontinuity` of a later block cannot let the queue jump early. `Passed`
relates the queue to what was handed out last, and `LineOK` that to what waits
in `out` and `packetQueue` and to what the decoder had last, also between the flush of
a full queue and the repeated offer. An insertion into the list, a block
freed at its head and a shard stored are lemmas on the operators of `RtpAudioQueue`
(`WithShardFacts`, `HandOutFacts` and those before them).

`ConcealsOnlyLostAudio` needs the converse of `Keeps` and the order of arrival, which
`CInv` (in `AudioConcealment_proofs`) adds. What a block has was taken, unless it was
recovered (`Sourced`); a recovered block has all its data (`Recovered`); and if the network
does not reorder, a block that is not recovered has fewer shards than
`completeFecBlock` needs (`Short`). `Short` is the delicate one, for a packet that is
handled at once is stored without an attempt to complete its block
(`RtpAudioQueue.c:619`). Without reordering nothing behind that packet has come
(`DeliveredFacts`: no position in `accepted` is behind `newest`), so its block has at most
the data up to it (`ShortStays`); unless it is the last one, that is less than
is needed, and if it is the last one, the block is freed. With
reordering the block may have enough shards and still be concealed, which is
noted in section 6. A placeholder is given only for the block that is given up, which
is the oldest (`FirstBlock`); it has every shard of it that was taken (`Keeps`), not the
one concealed, and so not enough (`LostIsMissing`).

Four of these theorems have the hypothesis `[]NeverRestarts`: the queue does not
take `oldestRtpBaseSequenceNumber` 0 for "not synchronized" while it holds blocks. It
is a hypothesis, and no property of the code, because the code does not ensure it: the
`audio_restart` run (finding 5) has a client that synchronizes again, and an assertion
fails. It is never used but to exclude that step. `StreamsThatDoNotWrap` and
`ConcealmentWithoutWrap` derive it from the invariant for streams that do not pass 0.

**Connection** (`ConnectionAssumption`: the two bounds are natural numbers; nothing is
assumed of the configurations, so any thread, socket or exchange may fail, on any
version of the host, for any number of connections). `todo` is what is left of a
program, so the invariant must speak of programs. It does so in the manner of
Floyd: a situation says which threads, handles, parts and renderers are held and
how many stages are complete, `Needs` says what a step requires of the situation
before it, and `After` is the one behind it. `Leads(conf, p, s, u)` says that program
`p` has such annotations from `s` to `u`, that every thread alive at each of them is served
(`UsersServed`), and that the error path of each step that may fail is annotated
likewise, down to a situation in which its stage holds nothing (`GivenUp`). The
invariant (`Annotated`) is that `todo` leads from the present situation (`Matches`) to
one in which exactly what the last complete stage stands for is held (`Over`:
stage 0 or 11). Annotated programs compose (`LeadsThen`), so the induction over
programs is an index into the annotations, and each function of the code is
annotated once, from its start to its stage:
`ControlStreamStarts`, `VideoStreamStarts`, `AudioStreamStarts`, `InputStreamStarts`,
`Handshake`, `ConnectionStarts`, with every error path on the way, and `StreamUndone`,
`EarlyUndone`, `AudioUndone` for the stages `LiStopConnection` undoes. What remains is one
lemma per action: a step changes the state as `After` says. The audio socket is
kept apart: its port setup may fail unnoticed and its handle may dangle, so a
situation only says what is known of it. `Held` and `NegShape` are what else is
needed. Because its annotations are existentially quantified this invariant is not
one TLC can evaluate; its consequences are what the `connection` run checks.

The attempt corrected two statements. `NothingOutlives` used to excuse the forgotten
contexts only in the call that failed; a later start that is refused at its
parameters returns without having touched them (`Connection.c:238`), which the run
missed until it had such a host. And `closeSocket` of an invalid handle left it
dangling in the model, where the code does nothing.

**Only model-checked**, and why:

- Liveness (`EveryEntryLeaves`, `RundownReachesWaiter`, `IdrIsSent`,
  `StopCompletes`, `PendingIsSent`, `CallsReturn`, `LossIsReported`): needs fairness
  and ENABLED, which are outside the prover's reach.
- `RtpVideoQueue`: the layout of the video stream is a fold over a sequence of frames,
  and that the queue asks for a recovery exactly when it can succeed rests on what
  that fold computes, which would need induction over data.
- `AssertsHoldOnceStarted` of `Connection`: it needs, beyond what is held, what the
  handshake negotiated and which signals were given at each point of a program; the
  annotations say neither.
- `ClickFollowsMotion`, `SentAsAccepted`: they compare recorded sequences with the
  queue through `FlattenSeq` and `IsPrefix`, an induction again. The part
  `ScrollHeldBack` of `SentAsAccepted` moreover rests on scroll calls that do not
  overlap (`batchedScrollDelta` is not synchronized, `InputStream.c:1206`), which is
  so in the scripts of the run and not for any callers.

## 6. Findings

1. `VideoDepacketizer.c:728`: a P frame may be decoded after
   `requestDecoderRefresh`, whose comment excludes it.
2. `InputStream.c:1153`: a controller packet that the full queue refused is freed
   while `currentQueuedControllerPacket` still points to it; the next event is merged
   into the freed holder and reported as queued.
3. `ControlStream.c:1878`, `VideoStream.c:352`, `AudioStream.c:460`: a start that fails
   once a receive thread runs destroys that thread's queue without running it down,
   against the assertion of `LinkedBlockingQueue.c:5`; `AudioStream.c:452` and 463 also
   leave `rtpSocket` closed and not invalid, and it is closed again.
4. `Connection.c:163`: a loss noticed while the connection is being started is reported
   by `connectionTerminated`, and then `stageFailed` may be called too, which
   `Limelight.h:394` excludes.
5. `RtpAudioQueue.c:292`: sequence number 0 is taken for "not synchronized". A client that
   synchronizes just before the numbers pass 0, and loses the blocks before that one,
   synchronizes a second time, and the assertions of lines 79 and 82 fail.

Each has a run that exhibits it; `PROJECT.json` quotes the lines. Met while
modelling, without a run:

- `InputStream.c:557`: before text the sender waits, without a timeout and never
  interrupted, until nothing is in transit. `LiStopConnection` ends `ControlRecv`
  before it stops the input stream; from then on only `LossStats` services ENet, and each
  time it has just put another reliable ping in transit (hosts since 7.1.415). A stop with
  text in the queue then hangs in the join of line 692; so does input behind text on
  a connection with a round trip above 100 ms. The liveness properties excuse it.
- `RtpVideoQueue.c:680`: `reportedLostFrame`, set when frame n is given up for a missed
  block (lines 619 and 655), is still set when frame n+2 begins: frame n+1, lost whole,
  is taken for reported. The depacketizer reports it later (`VideoDepacketizer.c:807`).
- `VideoDepacketizer.c:1137`: with a strict decoder a wrong loss prediction leaves the
  client waiting for an IDR frame nobody requested, until the drop limit.
- `VideoDepacketizer.c:269`: `LiPeekNextVideoFrame` is not synchronized with the flush of
  the receive thread, as `LinkedBlockingQueue.c:133` demands.
- `VideoDepacketizer.c:513`: a unit refused because the queue is shut down is neither
  queued nor freed.
- `RtpVideoQueue.c:653`: when the first packet of a frame that arrives is not of its block 0,
  that frame is given up, but `currentFrameNumber` is reported, which may be an earlier one.
- `RtpVideoQueue.c:544`: after an outage of more than 2^15 packets every packet is taken
  for a late one.
- `RtpAudioQueue.c:619`: a packet handled at once may be the one that makes its block
  recoverable, and recovery is then not tried.
- `ControlStream.c:523`: an old host that does not answer START A or START B keeps
  `LiStartConnection` waiting, and `LiInterruptConnection` does not shut the socket down.
- `ControlStream.c:446`: the assertion does not hold when the thread that empties the
  queue is slow.
- `InputStream.c:755`: a call that races with the stop gets `LBQ_INTERRUPTED`, where
  `LBQ_BOUND_EXCEEDED` is asserted; `InputStream.c:761`: giving the place back outside of
  the mutex leaves motion that another thread just added without a packet until the
  next motion; `InputStream.c:1398`: a reliable pen packet may be replaced by an
  unreliable one.
- `RtspConnection.c:1020`: the ENet error paths leak the crypto contexts;
  `RtspConnection.c:1060`: a status line without a number ends the handshake with
  success; `RtspConnection.c:1212`: the result of the audio port setup is ignored.
- `Connection.c:179`: the callback thread is detached and may run after
  `LiStopConnection` has returned; `Connection.c:283`: an interruption just before the reset
  is lost; `Platform.c:175`: `activeThreads` is counted without a lock.

## 7. Not modelled

Cryptography, the Reed-Solomon arithmetic, the text of SDP and RTSP messages, byte buffers, the
network probes and the callback stubs are I/O, arithmetic or formatting without
control of their own; the model uses of them only that a send may fail and that
enough shards of a block give back its data. Of the video path, hosts before
version 7.1.350, and of the RTP queues, failing allocations are left out.
Assertions on what was parsed or passed in are not modelled: malformed surround
parameters (`RtspConnection.c:782` and 811) and bad parameters (`Connection.c:216`, 223 and
230, where the model has the refusal that follows). Of `InputStream.c` the model has the assertions of
`destroyInputStream`; those of lines 755 and 1151 may fail, as section 6 says.
Of the control stream the deferred disconnect, the loss statistics and the FEC
status reports, of the input stream encryption and batching delays, and of the
sockets addresses and quality of service are left out. What the plan has left is
a proof: `AssertsHoldOnceStarted` of `Connection`, by annotations that also carry what was
negotiated and signalled.
