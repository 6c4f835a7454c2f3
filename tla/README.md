# DarkOS SvcKit in TLA+

A verification project for DarkOS SvcKit, the C++17 service layer of an IP camera (with the
applications and HALs around it): TLA+ models of its concurrent components, TLC runs that check them
on small instances, and TLAPS proofs of what matters most for every instance. `PROJECT.json` maps
every definition to the source lines it models and lists components, runs, mutants, findings,
hazards and theorems.

## 1. Inventory

The camera is layered: `platform/` has the HALs (camera, audio, codec, display, ...) and their loader
`libhardware`; `SvcKit/` has the base (event loop, buffer pool, logging, keystore), the subsystems
(media, storage, alarm, network, iva, peripheral) and the protocols (RTSP);
`applications/` compose them (`CaptureService`, `CameraEncodedVideo`). Nothing is a separate
process: components share an address space and meet through calls, callbacks and queues.

| Component | State it keeps | Operations and threads | What is hard | What makes it correct |
|---|---|---|---|---|
| **SinkFanout / BoundedQueue / sink workers** (`media_pipeline.cpp`) | table of entries, `running_`, per entry a queue, a `started` flag, a `std::thread` | `add`, `remove`, `start`, `stop`, `dispatch` from any thread; one worker per entry that calls `consume()`, which may call the pipeline again | add/remove/start/stop/dispatch meeting at one entry, joins outside the lock, re-entrant calls, partial starts | a sink's `start`/`consume`/`stop` alternate properly; one thread tears an entry down; no thread joins itself; queues are drained; calls return |
| **NodeMediaPipeline / PacketMediaPipeline** (`media_pipeline.cpp`) | `state_`, `accepting_`, flag or thread per part, frame queues, statistics, event ring | `start`, `stop`, `waitEvent`, capture callbacks, encode workers, error callbacks | eight parts that may fail to start or stop, errors at any time, order of teardown | all parts up or none; the state follows its life cycle; every captured frame is encoded or counted as dropped |
| **EventLoop** (`EventLoop.cpp`) | tasks, timers, fd callbacks, epoll set, wake-up eventfd, `quitting_` | `post`, `scheduleEvery`, `cancel`, `watchFd`, `unwatchFd`, `quit` from any thread; `run()` | wake-ups between an operation and `epoll_wait`, swapped-out tasks, fd numbers reused, late timers | tasks in order and none lost; no lost wake-up; tables agree; no timer bursts |
| **Platform media nodes** (`media_factory.cpp`) | running flags, threads, the audio block that is not yet full | `start`, `stop`, HAL callbacks, capture loops, destruction | a callback racing `stop`, a failed start that leaves a thread, samples of one run in the next | a callback never runs after `stop`; frames in order, stamped by their first sample |
| **StorageManager / Recorder** (`storage_manager.cpp`) | recordings, index file, segment files | `consume`, `stop`, `read`, `remove`, `cleanup`, reload | a crash between write and rename, a failing write half way | the index names exactly what can be played back |
| **AlarmManager** (`alarm_manager.cpp`) | records, rules, actions, journal file | `publish` (posted to the loop), `acknowledge`, `query`, reload | torn journal records, memory and journal diverging, cooldown | what was recorded survives a restart |
| **RTSP server** (`RtspServer.cpp`, `tcp_server.cpp`, `H264RtpPacketizer.cpp`) | connections, tracks, sessions, the multicast owner, output backlog | accept, requests (`SETUP/PLAY/PAUSE/TEARDOWN`), `consume` from sink workers, maintenance timer | slow clients, partial sends, a start count shared by two sinks, wrapping timestamps | interleaved messages are never torn; sessions end; the multicast group has one publisher |
| **NetworkManager** (`network_manager.cpp`) | link table, netlink socket in the loop | `start`, `stop`, messages | the kernel drops messages; `stop` from a report | a listener knows every interface or was warned |
| **Key store** (`svc_keystore.cpp`) | master key and encrypted files, shared by processes | open, `store`, `load`, `remove` | two processes create the key at once; death at any file operation | all secrets are sealed under the one key there is |
| **IVA** (`iva_manager.cpp`, tracker, rules, `platform_engine.cpp`, `inference_rknn.cpp`) | model and vendor context, tracks, state per rule and target | `start`, `analyze`, `stop`, load | targets that are missed for some frames, a load that fails half way | a target keeps its identity; one report per move or stay; nothing of a model outlives it |
| **HAL loader** (`hardware.c`) | module cache | `hw_get_module` | files and environment change between calls | all callers of one path share one module |
| **System guards** (`mpi_sys_guard.c`, `vs_sys_guard.c`) | reference count, parts of the vendor's system | `acquire`, `release` | counts shared by several HALs, partial initialisation | up for all who acquired it, down after the last |
| **Vendor HALs** (`camera_rockchip.c`, `audio_rockchip.c`, `codec_rockchip.c`, `display_rockchip.c`, `graphics_rockchip.c`, `camera_vs816.c`, `codec_vs816.c`) | flags per step of a start, threads, pools, one screen shared by devices | start/stop of raw, encoded and preview paths; encode, decode; show, overlays | any vendor call may fail; preview and capture threads use what a stop takes away | a device holds what its state needs, no less while a thread uses it |
| **Host HALs, V4L2 camera** (`platform/ubuntu_x86_64`, `camera_v4l2.c`) | buffers, threads, intervals | start/stop, discovery, `poll` | failing ioctls, threads that end themselves, wake-ups | buffers come back; calls return |
| **CaptureService, CameraEncodedVideo** (`applications/common_ipc`) | pipeline, sinks, timers, the encoded source and its thread | start and shutdown order, alarm recordings, capture loop | a step that fails half way, video that fails while the loop runs | what was begun is ended; no packet is pushed into a pipeline that is gone |
| **G.711** (`g711_audio_codec.cpp`) | - | A-law and mu-law conversion | numeric edges | a sample comes back within its quantisation step |
| Buffer pool, hash, crypto, logging, configuration, serial port, protocol headers, cJSON | see section 5 | | | |

How they interact: sources and encode workers push packets into the fanouts; a fanout's worker calls
`consume()` of an RTSP sink, a recorder or a probe; RTSP, alarms and network run their work on one
`EventLoop`; `CaptureService` pulls pipeline events and publishes alarms from them. Media nodes are
clients of the HALs, HALs of one vendor share its system guard, and the graphics HAL draws on the
screen that the display HAL owns.

`PROJECT.json` "hazards" lists, line by line, what in this code is hard to test and which property
covers it.

## 2. Plan

The order in which the models were written, the most important behaviour first:

1. **Media core** - `SinkContract` (abstract), `SinkFanout` (detailed, proved about),
   `MediaPipeline` (the node graph around it, proved about).
2. **EventLoop** - everything that is not media runs on it; proved about.
3. **Persistence** - `StorageManager`, `AlarmManager`, `KeyStore` (all proved about): crashes, failing
   files, several processes.
4. **RTSP** - `RtspServer`, `RtspStream` (both proved about), `H264RtpPacketizer`, `G711`.
5. **Platform** - `VendorSys` and `CodecContract` first, then codecs that implement the contract,
   cameras, audio, screen, loader, host devices, and the nodes above; all of them proved about.
6. **Composition** - `EncodedVideo` in `CaptureService`, `RkDisplay` and `RkGraphics` in `RkScreen`;
   `NetworkManager`, `Iva` and `Inference` (proved about).

All of it is done: a theorem states every safety property that a passing run checks, but one
(`DataComesBack`, see section 4).

Modules that compose: `CaptureService` EXTENDS `EncodedVideo`; `RkScreen` instantiates `RkDisplay` and
`RkGraphics` over one screen. Refinements: `SinkFanout` to `SinkContract`; `RkCodec`, `VsCodec` and
`HostCodec` to `CodecContract`. Three runs check several modules that share no state (`MCServices`,
`MCRtsp`, `MCPlatform`): a variable `which` says whose steps a behaviour takes and the other modules
stay in their initial states, so the state space is the sum of theirs and not the product.

## 3. Modules, runs and what they show

### SinkFanout, SinkContract (media core)

`SinkFanout.tla` models class `SinkFanout`, `BoundedQueue` and the sink workers, with the parts of
`start()`, `stop()` and `pushVideoPacket()` of the pipelines that surround them. Threads are of three
kinds: `Clients` (application threads), `Pushers` (an encode worker, or with `ExternalPush` a caller
of `pushVideoPacket()`), and one worker per entry, named by the entry's id. `pc[t]` is the place a
thread is at, `op[t]` the call it is in, `cur[t]` and `todo[t]` its position in a loop over the
entries. A short critical section of `mutex_` is one step that needs the lock free; `add()` on a
running fanout and `start()` hold it across `Sink::start()`, so there it is a variable.

| Code | Definition |
|---|---|
| `entries_`, `nextId_`, `running_`, `mutex_`, `lifecycleMutex_` | `entries`, `nextId`, `running`, `mutex`, `lifecycle` |
| `Entry::started`, `Entry::worker`, its `BoundedQueue` | `started`, `worker`, `queue`/`closed` |
| `add`, `remove` | `AddStopped`, `AddRunning`, `AddRefused`, `Remove`, `RemoveRefused` |
| `start`, `startEntry`, its rollback | `Start..`, `StartFanout`, `StartNext`, `SinkStarts`, `SinkFails`, `StartFailsLater` |
| `stop`, `ownsCurrentThread`, `stopEntry` | `Stop`, `StopRefused`, `StopLock`, `StopFanout`, `StopEntry`, `SkipEntry`, `Join`, `SinkStop`, `StopDone` |
| `dispatch`, `push`, `consumeLoop` | `Dispatch`, `Push`, `DispatchDone`, `Pop`, `ConsumeDone`, `WorkerExit` |

`SinkContract.tla` is what the pipeline promises a sink: `Begin`, `Offer`, `Consume`, `Consumed`,
`End`, without threads, locks or entries. `Contract` in `SinkFanout` maps it: the session is `sink`, the
packets pending are the queue, a sink is busy while its worker is in `consume()`.

- **FanoutReentrant** - one client and the workers of two sinks, which add, remove, start and stop from
  inside `consume()`, and `pushVideoPacket()`: `IInv` and six safety properties. Two entries are the
  least with which a rollback, a snapshot taken before a removal, and two workers acting on each other
  occur; capacity 1 and two packets fill the queue. Deadlock is not checked: two `consume()` calls may
  remove each other's sinks and join each other, and a `start()` inside `consume()` may wait for a
  `stop()` that joins it; the application must not do that.
- **FanoutContract** - two clients and an encode worker: every behaviour is one of `SinkContract`
  (`KeepsContract`), and under fairness `stop()` and `remove()` return (`TeardownReturns`); no deadlock.
  Here a `consume()` may only add sinks. One sink: the contract is each sink's own; the theorem
  `ContractKept` says it of any number.
- **FanoutStopDuringRemove** (violated) - the design document says that no sink thread lives after
  `stop()` has returned; one that a concurrent `remove()` is waiting for does.

Fairness (`Fairness`): a thread inside a call runs on (`WF` of `Step`), as the scheduler of a
preemptive system lets it; a worker runs on; and a `consume()` ends (`SF` of `ConsumeDone`) although it
may make calls. No fairness of making calls.

### MediaPipeline

The node graph of `NodeMediaPipeline` and `PacketMediaPipeline`, which start and stop the parts they
have in the same order: encoders, fanouts, workers, sources (`StartOrder`); `StopOrder` is that of
`teardown()`. `up` is the set of parts whose `...Started_` flag or thread is set; a source calls back
as soon as its thread runs (`LaunchSource`), before its `start()` returned. `at` is where each data
thread is, in a callback, in `encode()`, in `dispatch()`, or between the compare-exchange of
`markDegraded()` and its event. Frames are counted. `events` is the ring of `pushEvent()`.

- **PipelineNode** - a video pipeline (source, queue, encoder, worker, fanout), two clients: types,
  `NothingLeft` (between calls all parts are up or none, and at rest every frame is accounted for),
  `EncodeWhileUp`, `StateSteps`, and `LifecycleEnds` under fairness. Two frames and capacity 1 fill and
  overflow the queue; one error is enough to race `start()` and `stop()`; an event ring of 1 overflows
  at once.
- **PipelinePacket** - audio with a source that delivers packets and video that is pushed: two streams
  whose parts interleave, two frames, two errors, two clients: `NothingLeft`, the property that
  depends on the order of two streams' parts.
- **PipelineEventOrder** (violated) - the state is stored before its event is pushed, so Degraded can
  be announced before Running; the document has the application follow the state by the events.

Fairness: a client inside `start()` or `stop()` proceeds, workers and callbacks run on. `SF` for the
client's step stands for the join or the callback-free moment that `stop()` of a source waits for: the
source's callbacks are finite steps and the HAL's stop gets its turn between two of them.

Two more sentences of the document do not hold to the letter: parts are not stopped in the exact
reverse of their start (encoders go before fanouts, and its own sequence diagram shows that), and an
error reported while `start()` has not finished is overwritten by Running.

### EventLoop

`EpollEventLoop` with its tables, the kernel's epoll set, the eventfd and the clock. Critical sections
are single steps; the `wake()` after one is a step of its own (`waking`). `at` is where `run()` is;
tasks, timers and fd callbacks are user code in the loop's thread and call the operations as well. An
fd number is reused: `owner[f]` counts its descriptions. The constants bound the clock (`MaxTime`) and
the descriptions (`MaxOwner`); each task is posted once and each timer scheduled once at a time.

- **EventLoop** - `MCEventLoop` restricts each behaviour to one `load`. With "queue", two tasks (order),
  a timer, one-shot or with interval 1 or 2, on a clock of 3 (a loop late by more than an interval), and
  `quit()`. With "fds", two fd numbers with two descriptions each, watched, closed and reopened by
  callbacks and another thread during a batch, beside one task. Checked: types, `TasksInOrder`,
  `EarlyTasksRun`, `TablesAgree`, `NoBurst`, and under fairness `NoLostWakeUp`: tasks run, timers fire
  and `quit()` ends the loop, unless later user code keeps it from that. Deadlock is not checked: the
  loop ends when `run()` returns.
- **EventLoopFdReuse** (violated) - a comment in `run()` says that a reused fd number does not collide
  with the callback of the old one; within a batch it does, when another callback closed it.

Fairness: `run()` proceeds, user code returns (`SF`, it may call operations first), wake-ups that were
begun are written, time passes. A task posted after the last swap of `run()` is accepted and stays.


### Services that keep something: run Services

`MCServices` checks `StorageManager` (which it EXTENDS), `AlarmManager`, `KeyStore`, `Iva` and
`Inference` side by side. Its properties join those of the modules: `TypesOK`, `Durable`,
`NoResurrection`, `FilesAccounted` (storage), `StoredIsReadable` (`Alarm!Recoverable`,
`Store!SecretsReadable`), `AnalysisRight` (`Iva`, `Inference`). Deadlock is not checked: all events
and frames may be handled. There is no liveness and no fairness here: these are calls that return.
The modules share no constants but take theirs from `MCServices`, whose `ServicesAssumption` says what
they may be; `ServicesProofs` proves all six properties for every such value.

**StorageManager** - the manager with its recorders, across crashes. A recorder's mutex makes its calls
one at a time, so each recorder is one actor, idle or inside one call (`at`); `Manager` is a thread that
calls `remove()` and `cleanup()`. `lock` is `State::mutex`. Every step changes at most one thing that
survives a crash.

| Code | Model |
|---|---|
| recordings in memory, index file, `recordings.index.tmp` | `recordings`, `index`, `temporary` |
| `start()`, `consume()`, `stop()` of a recorder | `StartRecorder`; `OpenSegment`, `WritePacket`, `Rotate` and `OpenFails`; `StopRecorder` |
| `finishSegmentLocked()` | `CloseSegment`, then `ListSegment` under `lock` |
| `persistIndexLocked()` | `WriteTemporary`, `Rename`, `RenameRefused`, `SaveFails` |
| `cleanupLocked()`, `cleanup()`, `remove()` | `Clean`, `CleanFails`, `CleanDone`; `Cleanup`; `RemoveRecording` |
| `create()` and `loadIndex()` after the process died | `Crash`, `Loaded` |

A packet is one byte and a segment a number: the code's ids are unique also after a restart. Which
recording is the oldest is any choice, because start times come from a clock that restarts at boot. A
failed output stream stays failed until the segment is closed. `Durable`: what a save of the index
covered is found by the next process; `NoResurrection`: what was deleted is not found again, even before
the save; `FilesAccounted`: every file is listed once, in use by one recorder, or left behind by a
failed stream or a crash. Two recorders (symmetric) meet in the index and the lock; three segments of
one or two bytes against a limit of two bytes give rotation, cleanups of several recordings and
removals in between.

`Durable` excepts file systems that refuse the rename (`refused`): the code then removes the old index
and tries again, and a crash between the two, or a second refusal, leaves no index. Files left behind
are never reclaimed nor counted against the limit; the code has no scan for them (`leaked`).

**AlarmManager** - events go from `publish()` on any thread (`Publish` names the event under the lock,
`Post` hands it to the loop) through `processEvent()` on the loop's thread (`ProcessEvent`: the rules;
`ActionThrows`, `RecordEvent`: the actions and what follows) to `records` and a `journal` file, which
the next process loads (`Crash`, `Loaded`). `Acknowledge` works on the same two. What rules and actions
decide is any outcome. A line of the journal is a record, an acknowledgement or `Torn`: a line that was
cut off, to which the next one is glued, so that reading ends there. The queue in between keeps the
order, as `EventLoop`'s `TasksInOrder` promises. `Recoverable`: memory and journal stay in step, line by
line, through failed appends, trimming and restarts, as long as no line was cut off. Two publishers,
three events and a limit of two records trim both in memory and at load; two faults; `MaxLines` bounds
the journal since acknowledgements lost behind a torn line can be repeated for ever.

- **AlarmTornJournal** (violated) - the subsystem's readme promises records made persistent by the
  append-only journal; one cut-off line hides every later one from the next process.

**KeyStore** - processes that open the same directory, create or read the master key, and store, load
and remove secrets through temporary files, and that may die between any two file operations. A secret
is known by the key it is sealed with. `SecretsReadable`: every stored secret is sealed under the key on
the disk, unless a failed sync made its creator withdraw the key after another process had read it
(`withdrawn`). Two processes race to create the key; two names, two keys.

**Iva, Inference** - `Iva` is a session of the analysis manager with its greedy tracker and the region
and line rules, on a strip of places where boxes overlap the more the nearer they are. `OneTargetEach`:
each detection of a frame is one target's; `IdentityKept`: a number that comes back after missed frames
comes back near where it was and not after longer than tolerated; `MovesReported`: entering and leaving
are reported exactly when two successive sights differ; `IntrusionIsAStay`: an intrusion is of a target
inside for the dwell time, once per stay. `tracks` is a function of the ids: the code's list is in the
order of the ids, as a new track is appended and none moves, so `Used`, the detections that are taken
when a target's turn comes, recurs over the ids. Two targets, four frames, one of which may be missed, three places with the border after the first. `Inference` is
the engine over its device: a load or a run fails at any step; one vendor context at a time, and no
vendor buffer outlives the call that got it.


### RTSP: run Rtsp

`MCRtsp` checks four modules side by side; `Rtsp.cfg` has their bounds.

| Code | Module |
|---|---|
| `RtspServer`, `TcpServer`: sinks, acceptor, connections, sessions, tracks, multicast publisher, maintenance | `RtspServer` |
| `RtspConnection`: what a client is sent (`sendRtp`, sender reports, replies, `output_`, `onWritable`) | `RtspStream` |
| `H264RtpPacketizer`: NAL units, FU-A fragments, marker bits | `H264RtpPacketizer` |
| `g711_audio_codec.cpp`: A-law and mu-law, as RTP sends them | `G711` |

**RtspServer** - every action is one callback or task of the event loop; `Start` and `Stop` are the two
sinks'. A request is its method and what decides its branch (credentials right or not, session right or
not, transport). Erasing a closed connection is a task that `Close` posts. `OnePublisher`: the multicast
group is owned exactly by the connection with a multicast track; `NoDanglingCallback`: the fds watched
are those of the open connections; `ClosedAreErased`, `RunsForItsUsers`, `PlaysInSession`. Two sinks (video, audio), two connections, so one
is the owner and one wants to be.

**RtspStream** - a connection with two tracks on one TCP socket that takes `Room` halves of messages: a
message has two halves, so that a send can stop in its middle and the rest goes to the backlog.
`WholeMessages`: what the client reads is whole messages; `ConsecutiveNumbers`: no packet of a track
over TCP is lost or repeated; `OpensWithKeyFrame`: the first video packet after a PLAY is a key frame;
`NeverBackwards`: a track's capture times go on over the wrap; `InOrderIsSent`: no packet in order is
taken for a late one. A backlog of 3 halves is one message and a half, so a fragmented frame and a report
compete for it; timestamps wrap at 4 and capture times run to 4, sequence numbers wrap at 3; a second
setup sends video over UDP.

**H264RtpPacketizer** - units of up to five bytes of {0, 1}, with both start codes, two of them in an
access unit, payloads of up to three bytes: every arrangement of zeros next to a start code occurs, and
fragments of the least sizes. `Reassembles`: a receiver gets the units that went in; `WellMarked`: the
marker bit is on the last packet only.

**G711** - all samples of a width of 256 through encoder and decoder, for both laws: `ComesBackClose`,
within half a step, and `SettlesAtOnce`, without loss the second time. The masks that both laws apply
to a code are written bit by bit (`Flip`).

The properties of the two make up `DataComesBack`.

`NobodyHangs`: a session whose client is silent ends, deferred output goes out when the client reads.
Fairness: the loop runs the maintenance and report timers and calls the handler of a socket that is
writable (`WF`), which `EventLoop` promises; a client reads (`WF ClientReads`), without which the server
rightly keeps or drops its output. No fairness of requests, packets or sinks. Deadlock is not checked:
a stopped server with all connections used rests.


### Platform, media nodes, capture service: run Platform

`MCPlatform` (which EXTENDS `VendorSys`) checks these modules side by side; `Platform.cfg` has
their bounds.

| Module | Code | State and actions | Bounds |
|---|---|---|---|
| `VendorSys` | `mpi_sys_guard.c`, `vs_sys_guard.c` | the count, the parts that are up, a place per user | 3 users, 2 parts |
| `RkCamera` | `camera_rockchip.c` | steps of a start as `flags` and `hw`, capture and preview threads, mailbox, block pool | 2 pools, so a block of an old pool meets a new one |
| `RkAudio` | `audio_rockchip.c` | both directions, the bound encoder, the shared reference | - |
| `RkCodec`, `VsCodec`, `HostCodec` | `codec_rockchip.c`, `codec_vs816.c` with `vs_venc_stream.c`, `codec_host_x86.c` | units sent, fetched and returned; blocks and references held | 3, 3 and 2 units: one late, one behind it |
| `VsCamera` | `camera_vs816.c` | route, encoder, thread | 2 frames |
| `V4l2Camera` | `camera_v4l2.c` | ring of mapped buffers, those refused by the driver or left by a failed start, thread, failing ioctls | 2 buffers |
| `RkDisplay`, `RkGraphics` in `RkScreen` | `display_rockchip.c`, `graphics_rockchip.c` | the shared screen and its count, blocks in use, the overlay | 3 devices, of which one is the user interface's; pool of 2 |
| `HalLoader` | `hardware.c` | search path, cache, changing files | 2 ids, 2 directories, cache of 3, of which 4 entries could be wanted |
| `AudioCapture` | `PlatformAudioSource` | capture thread, block of samples, timestamps | frame of 2 samples, chunks to 3, clock to 7 |
| `MediaNodes` | the other sources and the encoder of `media_factory.cpp` | life of a node, its handler, thread and device | one node of each kind |
| `CaptureService` with `EncodedVideo` | `CaptureService.cpp`, `CameraEncodedVideo.cpp` | position in the start and shutdown, loop, alarm timers, source thread | 2 alarms, clock of 3 |
| `NetworkManager` | `network_manager.cpp` | kernel's messages and overrun, link table, one-shot watch | 2 links, room for 2 messages, 3 changes |
| `HostCamera`, `HostBluetooth`, `HostSensors` | `platform/ubuntu_x86_64` | threads, buffer, intervals and `poll()` | 2 sizes; 2 sensors, delays to 2 |

What the run checks is the conjunction of what each module states at its end:

- `UpForItsUsers` - the vendor's system is up, whole, for each that acquired it.
- `HeldIsUsed` - whichever step fails and in whatever order calls and threads come, a device that is
  at rest holds no channel, block, buffer, thread, reference or open module, and one that runs holds
  what it uses, except what is listed below.
- `UsedIsHeld` - until it is joined, a thread has the channel, block, buffer and callback it works with:
  the preview thread a live pool, the overlay its screen, the packet thread its pipeline.
- `HandsOnWhatIsRight` - bad V4L2 frames are dropped, no audio sample is lost or stamped before it was
  captured, all callers have one module, an interface's state is known or a warning was given, `poll()`
  wakes in time.
- `CodecsKeepContract` - each codec implements `CodecContract`: what an encode or decode call returns is
  a unit that was sent, in order, once, and none from before a stop or a flush. The mapping takes the
  units sent, returned and given up.
- `StepsKeepOrder` - audio frames and packet stamps go on; no module is taken from behind a bad one; no
  worker of a media node is begun over one that was not joined, and no discovery while the thread of the
  one before still runs.
- `CallsReturn` - every `stop()`, `disable()`, `close()` and `poll()` returns; alarm recordings end; the
  service ends when its video fails or it is told to; the kernel's messages are read.

Fairness: threads of a device and calls that join them proceed (`WF`); the service's loop, its timers,
`poll()` and the clock proceed. Where a thread waits for the vendor or the driver, the wait has a
time-out in the code, so `WF` of its step is what the code does. There is no fairness of making calls,
nor of vendor calls succeeding. Deadlock is not checked: devices rest.

What the code leaves or does not promise, and the properties therefore except by name (most of it is
recorded in a variable of its own that no action reads):

- `left`, V4L2: a `start()` that fails keeps the buffers it has mapped (`camera_v4l2.c:413-440`); no
  `stop()` or `close()` unmaps them. `TouchesMapped` speaks of the buffers of streams that started.
- `refused`, V4L2: a buffer that `VIDIOC_QBUF` does not take back (lines 229, 243) is lost to the ring
  until the next start. `NoBufferLost` says that no buffer is lost in any other way.
- `handlers` of a file source: `FileEncodedVideo::start()` keeps handlers and frames when no thread can
  be made, until `stop()`; the camera source clears them (`CameraEncodedVideo.cpp:110-118, 236-241`).
- `orphaned`, VS816: an encoder that cannot be started gives up the system reference under a decoder
  that runs (`codec_vs816.c:181`); the next `decode()` or `start()` that succeeds takes it again.
- Closing a host codec that was not stopped loses its x264 encoder: `HoldsWhatItUses` speaks of open
  devices. `changed`: a format set under a running host codec leaves it with the encoder of the format
  before; a raw device that is turned to H.264 so and then asked to encode has none, a call that
  `ICodec.h` forbids and the model leaves out.
- `raced`, host camera: the frame between whose `ensure_buf()` and drawing a format is set may find a
  buffer that is too small (`camera_host_x86.c:215`); all other frames have room.
- Bluetooth: a discovery that its callback ended leaves a thread that has ended and is to be joined; a
  `start_discovery()` before a `stop_discovery()` overwrites its handle (`bluetooth_host_x86.c:163-174`),
  and it is never joined. `OneDiscovery` asks that it has ended, not that it was joined. The encoded
  sources have the same step with `std::thread`, which terminates the program: the model has it as
  `"terminated"`, and `SourceHoldsWhatItUses` shows it unreachable under the capture service.
- A block put into the mailbox of `RkCamera` after the drain stays there until the next preview forgets
  it, or is shown under the next pool; `PooledWhileShown` asks for a pool, not for the block's own.
- `missed`, network: a change that came before a stop (`start()` does not ask the kernel for the present
  state), in `Net!KnowsOrIsWarned`.
- `hastened`, sensors: an interval that `set_delay()` shortened while `poll()` slept (it signals
  nobody), in `Sensing!WakesInTime`.


## 4. What is proved

All theorems are about every value of the constants: any sets of threads, any number of sinks,
packets, tasks, timers or fds. The assumptions are only the named `ASSUME`s of the modules, which say
that bounds are naturals and that names of threads are distinct.

**SinkFanout** (`SinkFanoutProofs`). The safety properties are not inductive: that `stop()` leaves no
registered worker depends on where every other thread is in which loop over which entries. `IInv` adds

- `Control`, `Locks`: which call a thread can be in at each label, and that it owns `mutex_` and
  `lifecycleMutex_` exactly at the labels inside their critical sections;
- `EntryStates`: how the `started` flag, the thread, the queue and the sink of an entry go together;
  what is neither started nor quiet is being torn down by somebody;
- `Teardowns`: what is known of an entry while a thread tears it down - in particular that it is not
  its own worker and that nobody else does;
- `Starts`, `Loops`: the same for an entry being started, and for the entries a loop has left;
- `Outsiders`: who starts or stops the fanout is not a registered worker;
- `Progress`: how far `start()` or `stop()` has come with the registered entries.

`Invariance` proves `Spec => []IInv` with one lemma per action and, under it, a step per conjunct
the action can disturb; `ConsumeInsideSessionHolds`, `NoSecondWorkerHolds`, `DrainedBeforeStopHolds`,
`OneTeardownHolds`, `RegisteredFollowsRunningHolds` and `NoSelfJoinHolds` follow from it.

`ContractKept`: with one encode worker (`OneEncoder`: no thread but it dispatches, and `stop()` joins
it), `Spec => KeepsContract` - for any clients, sinks and packets, any capacity and policy, and any
calls out of `consume()`. `CInv` adds to `IInv` what the contract needs of the packets: `Dispatches`,
that the packet of a dispatch is the newest and that none begins on a stopped fanout; `InOrder`, that
queues are ordered, bounded and newer than what was delivered; and `Newer`, that a packet still to be
pushed to an entry is newer than all it has had, and that the entry was started before. Most actions
leave all of this alone (`Elsewhere`: a lemma per action that it does, one that this suffices); `Push`,
`Pop` and the dispatch have lemmas of their own, and each visible step is named as a step of the contract.
The assumption is needed: callers of a public `pushVideoPacket()` may overtake one another between
taking their packets and pushing them, and the contract's order is then not promised.

**MediaPipeline** (`MediaPipelineProofs`). That a failed start leaves nothing depends on how far it
came, and that no frame is lost on where every data thread is. `IInv` has nine parts: the types
(`ControlTyped`, `EventsTyped`, `PlacesTyped`, `FramesTyped`); `OneClient`, that `lifecycleMutex_` has
one owner; `Phases`, what `state_`, `accepting_`, the parts and the queues are while nobody, a
`start()` or a `stop()` holds it; `Supported`, that a part is up only while what it calls is; `Threads`,
where a worker's or a source's thread can be while its part is up, not yet noticed, or closed and
draining; and `Counted`, captured frames are handled, dropped, queued or in one thread's hands.
`NextInv` has a lemma per conjunct and under it a step per action; `TypeCorrect`, `NothingIsLeft`, `EncodesWhileUp` and the action property `StateFollowsLifeCycle`
follow, for any clients, any set of streams with or without encoder, any capacities.

**EventLoop** (`EventLoopProofs`). Three inductive invariants, one per concern: `TableInv`
(`TablesAgree` with the types of the fd tables), `QueueInv` (the posted tasks are those run, those
swapped out and those queued, in this order, and what was posted before `quit()` is not behind the
last swap), and `LoopInv` (types, deadlines within the clock, and for every timer taken before how its
deadline relates to that moment). They give `TablesAgreeHolds`, `TasksInOrderHolds`,
`EarlyTasksRunHolds`, `TypeCorrect` and the action property `NoBurstHolds`.

**Services** (`ServicesProofs`, about `MCServices!ServicesSpec`). `ServicesInv` is the conjunction of one
inductive invariant per service. The assumptions are `SizesAssumption` and `ActorsAssumption` of the
storage manager, and `ServicesAssumption`: numbers are naturals (positions of a border and a line are
integers), and a `maximumRecords` and a `dwellTime` are not 0, which `AlarmManager::create()` and the
region rules refuse.

- `StorageManager`. What a crash finds is fixed before it comes: `StorageInv` relates, at each place of
  a recorder's or the manager's call, the recordings in memory, the index and the temporary file on the
  disk and the segment files to what has been saved and what has been deleted. `StorageInvariant` proves
  it; `RecordingsDurable`, `DeletedStaysDeleted` and `FilesInOneHand` follow, for any recorders, any
  number of segments and any limits.
- `AlarmManager`. `Recoverable` says what the next process loads, and is not inductive: one append more
  may shift what a trimmed list and the tail of the journal have in common. `AlarmInv` adds `OneFlight`,
  that an event is in one place (named, queued or acted upon) until it is recorded, so that all records
  are of different events; and `Mirrors`, that each written record of the list is among those of the
  journal, in its state and no farther from the end - so that trimming to the same length never drops
  it from the journal's records alone. This is kept while no line is cut off (`Whole`), as `Recoverable`
  is stated. `RecordsIn` reads a journal of any length
  by recursion over its lines; that appending a line is one more `ReadLine` is proved about the recursive
  function. `ServicesTypesOK` and, with the key store, `StoredStaysReadable` follow.
- `KeyStore` (in its module). `SecretsStayReadable`: every stored secret is sealed under the master key on
  the disk. `KeyInv` adds `HasKey`, that whoever has drawn or read a key has one, and `OneWriter`, that
  the process that made the file is the only one to write it until it is synced.
- `Iva`. That a target keeps its identity relates any two frames, a step only the last one to the next.
  `IvaInv` says what the tracker and the rules know: `Sights`, that a target last seen in frame `k` of
  `n` and still tracked has missed `n - k` and is where it was seen, and that its rule state is of that
  sight; and `Stays`, that a target that is inside has a stay which began in a frame that saw it, with
  no leaving and, unless triggered, no intrusion since. Of a frame: `Uses` follows the greedy matching
  through the targets (which detections are used, by whom, none twice), and `OneEach` is the bijection
  of supported targets and detections, from which the three counts of `OneTargetEach` follow.
- `Inference`. `Accounted`, between any two steps of a call: at most one context and one set of buffers,
  and the engine knows of both; `EngineInv` is its form between two calls. `AnalysisStaysRight` joins both.

**VendorSys** (in the module). The count equals the references held and due, one user at a time is
between the steps, and the parts that are up are a prefix decided by his place: `TypeCorrect`, `Up`
(`UpForItsUsers`) and `One`, for any users and any number of parts - both vendors' guards are instances.

**RTSP** (`RtspProofs`, about `MCRtsp!Spec`). From `ServerAssumption` and `StreamAssumption`, for any
finite set of sinks, any number of connections, any transports of the two tracks, any backlog, socket
room, fragments and moduli:

- `SessionsAlwaysAgree`. The server's invariant gives, for each connection, how its place, its tracks,
  its fd and its session go together, and relates them to the sinks that play, the multicast owner and
  the count of starts; the count is a cardinality, so that a start or a stop of one sink is one element
  more or less.
- `StreamIsAlwaysWellFormed`. What is not yet read is one sequence, `half \o wire \o output`, and
  a send, a flush or a read moves its parts without changing it, or appends the two halves of one message
  (`Halves`), or takes one half off. That numbers are consecutive is stated over neighbouring marks of a
  track (`Marks`, `Chained`) rather than over a filtered sequence: a filter is a recursion, and the
  least number of a set, from well-foundedness of the naturals (`WFMin`), gives the neighbours instead.
- `TimeGoesOn`. A packet's capture time is known modulo `Modulus`; the invariant keeps the stamps and
  the times of a track together, and a stamp that is in the window after the last is one of a later time.
- `TypesAlwaysOK`.

**Platform** (`PlatformProofs`, about `MCPlatform!PlatformSpec`). `PlatformInv` is the conjunction of an
inductive invariant per device, node, service and monitor; for each there is a lemma that the state at
rest is within it (`...Init`), that every step keeps it (`...Next`), and what it says (`...Says`).
`PlatformSteps` shows that a step of the platform is one of each device or leaves it alone. The
assumptions are `GuardAssumption` of the vendor's guard and `DeviceAssumption`, that sizes, delays and
clocks are naturals, that a frame of sound has a sample and that search paths are sequences of
directories. What is not inductive by itself, and is added:

- `RkCamera`: which suffix of its steps a call that tears down is at (`P1` to `E5`), which output there
  is meanwhile, and that a thread is there while it has work or until it was joined;
- `RkAudio`, `VsCamera`, `V4l2Camera`, the host's devices: the hardware and the references as a function
  of the flags, and which thread may be running, ending or waiting to be joined;
- `RkScreen`: the count is the cardinality of the started displays, blocks in use are the pool's, and the
  overlay's layer is on a device that the user interface keeps started;
- `HalLoader`: what was given is in the cache under its key, and the count of a plug-in is the number of
  what was given from it. `SearchEnds` shows that a search ends at the least place of the path that has
  anything to say;
- `AudioCapture`: pending samples are those captured and not lost, at least a sample apart and none later
  than the clock (`Spaced`), and the stamp is not later than the first of them;
- `RkCodec`, `VsCodec`, `HostCodec`: units fetched and returned are bounded by those sent; from it each
  step maps to a step of `CodecContract` or a stutter;
- `NetworkManager`: what the listener was told together with the messages still to be read is the state
  of an interface, unless the socket overran;
- `CaptureService`: which parts exist at each place of the start and the shutdown.

`NothingLeaks`, `NothingUsedIsGone`, `TheRightIsHandedOn`, `OrderIsKept` and `ContractKept` are the
properties `HeldIsUsed`, `UsedIsHeld`, `HandsOnWhatIsRight`, `StepsKeepOrder` and `CodecsKeepContract`
of the run, for every value of the bounds.

Only model-checked: all liveness and the fairness behind it (out of the prover's reach, as ENABLED is),
and `DataComesBack` of `H264RtpPacketizer` and `G711`, which compute over data: they are checked over all
bounded inputs. That an access unit of any length comes back is an induction over its start codes and
fragments through nested recursive functions; the sounds of the run are all there are.

The library's induction theorems have an operator as their parameter, which the provers at hand cannot
instantiate. Where a proof needs induction over numbers it argues from the least counterexample: `Least`
and `UpTo` of `ServicesProofs` and `RtspProofs` say so of sets, and `Recursion` of `ServicesProofs` builds
a function that is defined along the numbers, which is what `RecordsIn` (lines of a journal) and `Used`
(targets of a frame) need to be known to satisfy their equations.

## 5. What is not modelled

Inside the modelled components:

- A hard failure of `epoll_wait()`, failing allocations, and calls of an `EventLoop` whose `run()` has
  returned. Destruction of a pipeline, a loop or a server that is still in use; `-EDEADLK` from a
  `stop()` that a destructor makes.
- `consume()` calls that the application must not make (they deadlock by design) are in the safety
  run of the fanout and left out of its liveness run.
- `AlarmManager::waitForHandled()` and statistics; `query()` and `read()` of both managers, which change
  nothing; which rules accept an event and what actions return, any outcome of which is allowed.
- RTSP: the text of requests, replies and SDP, and digest authentication, any outcome of which is
  allowed; RTP over UDP after it was handed to the socket.
- Devices: image parameters, the copies and conversions of pixels, what the SDKs do behind a call.
  Application calls race with device threads but not with each other, as the interfaces demand, and
  nobody calls `capture()` beside a capture thread; a format or a callback set under a running thread is
  one store, not torn.
- A power failure that loses what was handed to the kernel; the code never syncs recordings or alarms.
- The capture service of a board without an encoder, which has the nodes of `MediaNodes` in place of
  `EncodedVideo`; command line options.

Without a module, and why:

- Buffer pool: nothing in the repository uses it. Hash, time and crypto: stateless functions.
- Logging: one mutex around its sinks. Board and application configuration: parsed once into values
  that do not change. Serial port: calls passed on to a HAL.
- Sinks, filters and muxers of the media subsystem but the probe sink: stubs.
- GB28181, ONVIF, RTMP, UART and web protocols: headers without an implementation.
- Host GNSS, light, Wi-Fi and graphics: values that are set and read, no threads.
- Decoding of a network's outputs to boxes: numeric. cJSON: third-party code. The vendors' SDKs are not
  in the repository.
