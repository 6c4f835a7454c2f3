------------------------------ MODULE MCPlatform ------------------------------
(* Model-checking instances of the modules of the platform's HALs, of the    *)
(* media nodes that use them, and of the service that is built of them with *)
(* its network monitor.  Those here share no state, so one run checks them   *)
(* side by side: which says whose steps a behaviour takes, the others stay   *)
(* in their initial states.                                                 *)
EXTENDS VendorSys, Sequences

CONSTANTS
  MaxPools,                                   \* RkCamera
  MaxSent,                                    \* RkCodec, VsCodec
  MaxFrames,                                  \* VsCamera
  Buffers,                                    \* V4l2Camera
  Devices, Ui, PoolSize,                      \* RkScreen
  Ids, Directories, Paths, MaxCached,         \* HalLoader
  Frame, Capacity, MaxChunk, MaxClock,        \* AudioCapture
  Kinds,                                      \* MediaNodes
  MaxUnits,                                   \* HostCodec
  MaxAlarms, MaxStamp,                        \* CaptureService
  Links, Room, MaxChanges,                    \* NetworkManager
  Sizes,                                      \* HostCamera
  Sensors, MaxDelay, MaxTimeout, MaxCalls     \* HostSensors

ASSUME DeviceAssumption ==
  /\ Sizes \subseteq Nat /\ MaxDelay \in Nat /\ MaxTimeout \in Nat
  /\ Frame \in Nat \ {0} /\ Capacity \in Nat /\ MaxChunk \in Nat /\ MaxClock \in Nat
  /\ Paths \subseteq Seq(Directories)

\* The search paths of the instance for TLC.
TwoPaths == {<<"d1", "d2">>, <<"d2">>}

VARIABLES
  which,
  camHw, camFlags, camStreaming, camEncoded, camRunning, camOn, camDirect, camMailbox,
  camPool, camPools, camCapture, camTaken, camPreview, camShown, camCall,
  audIn, audOut, audEncoded, audCreated, audBound, audSys, audHw, audRefs,
  codEncoding, codDecoding, codSys_acquired, codHw, codRefs, codBlocks, codSent,
  codFetched, codGot, codFloor,
  vcodEncoding, vcodDecoding, vcodSys_acquired, vcodOrphaned, vcodHw, vcodRefs, vcodBlocks,
  vcodSent, vcodFetched, vcodGot, vcodFloor,
  vcamHw, vcamFlags, vcamStreaming, vcamEncoded, vcamThread_run, vcamThread,
  vcamFrames, vcamHeld, vcamStopping,
  usbCallback, usbStreaming, usbRunning, usbN_bufs, usbMapped, usbLeft, usbOn, usbQueued,
  usbRefused, usbThread, usbHeld, usbStopping, usbShown,
  scrStarted, scrRefcount, scrHw, scrPool, scrHolding, scrTarget, scrAttached,
  scrVo_ready, scrSys_acquired, scrHas_blk, scrOsd, scrRefs, scrCanvas,
  ldPlugin, ldCache, ldOpen, ldGiven,
  srcStarted, srcRunning, srcStopping, srcDevice, srcHandler, srcThread, srcCapacity,
  srcPending, srcStamp, srcClock, srcUnread, srcLast,
  nodLife, nodOpen, nodRunning, nodDevice, nodHandler, nodThread, nodStopping,
  hostOpen, hostCodec, hostChanged, hostEncoding, hostEnc, hostSent, hostGot, hostFloor,
  appAt, appWatched, appMonitor, appPipeline, appSinks, appTimers, appRaised, appQuit,
  appKind, appRunning, appThread, appEncoded, appPreview, appDisplay, appHandlers,
  appLast, appStopping,
  netLink, netMessages, netOverrun, netChanges, netRunning, netWatched, netHandling,
  netLinkStates, netTold, netWarned, netMentioned, netDropped, netMissed,
  drwOpen, drwFmt, drwBuf, drwRaced, drwCallback, drwStreaming, drwRunning, drwThread, drwCall,
  btOpen, btOn, btDiscovering, btStarted, btThread, btCall,
  senEnabled, senDelay, senDue, senAt, senRoom, senDeadline, senUntil, senHastened, senCalls

cameraVars == <<camHw, camFlags, camStreaming, camEncoded, camRunning, camOn,
  camDirect, camMailbox, camPool, camPools, camCapture, camTaken, camPreview,
  camShown, camCall>>
audioVars == <<audIn, audOut, audEncoded, audCreated, audBound, audSys, audHw,
  audRefs>>
codecVars == <<codEncoding, codDecoding, codSys_acquired, codHw, codRefs, codBlocks,
  codSent, codFetched, codGot, codFloor>>
vcodecVars == <<vcodEncoding, vcodDecoding, vcodSys_acquired, vcodOrphaned, vcodHw,
  vcodRefs, vcodBlocks, vcodSent, vcodFetched, vcodGot, vcodFloor>>
vcameraVars == <<vcamHw, vcamFlags, vcamStreaming, vcamEncoded, vcamThread_run,
  vcamThread, vcamFrames, vcamHeld, vcamStopping>>
usbVars == <<usbCallback, usbStreaming, usbRunning, usbN_bufs, usbMapped, usbLeft,
  usbOn, usbQueued, usbRefused, usbThread, usbHeld, usbStopping, usbShown>>
screenVars == <<scrStarted, scrRefcount, scrHw, scrPool, scrHolding, scrTarget,
  scrAttached, scrVo_ready, scrSys_acquired, scrHas_blk, scrOsd, scrRefs, scrCanvas>>
loaderVars == <<ldPlugin, ldCache, ldOpen, ldGiven>>
sourceVars == <<srcStarted, srcRunning, srcStopping, srcDevice, srcHandler, srcThread,
  srcCapacity, srcPending, srcStamp, srcClock, srcUnread, srcLast>>
nodesVars == <<nodLife, nodOpen, nodRunning, nodDevice, nodHandler, nodThread, nodStopping>>
hostVars == <<hostOpen, hostCodec, hostChanged, hostEncoding, hostEnc, hostSent, hostGot,
  hostFloor>>
appVars == <<appAt, appWatched, appMonitor, appPipeline, appSinks, appTimers, appRaised,
  appQuit, appKind, appRunning, appThread, appEncoded, appPreview, appDisplay,
  appHandlers, appLast, appStopping>>
netVars == <<netLink, netMessages, netOverrun, netChanges, netRunning, netWatched,
  netHandling, netLinkStates, netTold, netWarned, netMentioned, netDropped, netMissed>>
drawnVars == <<drwOpen, drwFmt, drwBuf, drwRaced, drwCallback, drwStreaming, drwRunning,
  drwThread, drwCall>>
bluetoothVars == <<btOpen, btOn, btDiscovering, btStarted, btThread, btCall>>
sensorVars == <<senEnabled, senDelay, senDue, senAt, senRoom, senDeadline, senUntil,
  senHastened, senCalls>>
guardVars == <<lock, refcount, up, pc, holders>>
visionVars == <<cameraVars, vcameraVars, usbVars, drawnVars>>
soundVars == <<audioVars, sourceVars>>
codingVars == <<codecVars, vcodecVars, hostVars>>
otherVars == <<screenVars, loaderVars, nodesVars, guardVars, bluetoothVars, sensorVars>>
serviceVars == <<appVars, netVars>>
platformVars == <<which, visionVars, soundVars, codingVars, otherVars, serviceVars>>

Camera == INSTANCE RkCamera WITH
  hw <- camHw, flags <- camFlags, streaming <- camStreaming,
  encoded <- camEncoded, running <- camRunning, on <- camOn, direct <- camDirect,
  mailbox <- camMailbox, pool <- camPool, pools <- camPools, capture <- camCapture,
  taken <- camTaken, preview <- camPreview, shown <- camShown, call <- camCall

Audio == INSTANCE RkAudio WITH
  in <- audIn, out <- audOut, encoded <- audEncoded, created <- audCreated,
  bound <- audBound, sys <- audSys, hw <- audHw, refs <- audRefs

Codec == INSTANCE RkCodec WITH
  encoding <- codEncoding, decoding <- codDecoding,
  sys_acquired <- codSys_acquired, hw <- codHw, refs <- codRefs, blocks <- codBlocks,
  sent <- codSent, fetched <- codFetched, got <- codGot, floor <- codFloor

VCodec == INSTANCE VsCodec WITH
  encoding <- vcodEncoding, decoding <- vcodDecoding,
  sys_acquired <- vcodSys_acquired, orphaned <- vcodOrphaned, hw <- vcodHw, refs <- vcodRefs,
  blocks <- vcodBlocks, sent <- vcodSent, fetched <- vcodFetched, got <- vcodGot,
  floor <- vcodFloor

VCamera == INSTANCE VsCamera WITH
  hw <- vcamHw, flags <- vcamFlags, streaming <- vcamStreaming,
  encoded <- vcamEncoded, thread_run <- vcamThread_run, thread <- vcamThread,
  frames <- vcamFrames, held <- vcamHeld, stopping <- vcamStopping

Usb == INSTANCE V4l2Camera WITH
  callback <- usbCallback, streaming <- usbStreaming,
  running <- usbRunning, n_bufs <- usbN_bufs, mapped <- usbMapped,
  left <- usbLeft, on <- usbOn, queued <- usbQueued, refused <- usbRefused,
  thread <- usbThread, held <- usbHeld, stopping <- usbStopping, shown <- usbShown

Screen == INSTANCE RkScreen WITH
  started <- scrStarted,
  refcount <- scrRefcount, hw <- scrHw, pool <- scrPool, holding <- scrHolding,
  target <- scrTarget, attached <- scrAttached, vo_ready <- scrVo_ready,
  sys_acquired <- scrSys_acquired, has_blk <- scrHas_blk, osd <- scrOsd,
  refs <- scrRefs, canvas <- scrCanvas

Loader == INSTANCE HalLoader WITH
  plugin <- ldPlugin,
  cache <- ldCache, open <- ldOpen, given <- ldGiven

Source == INSTANCE AudioCapture WITH
  MaxTime <- MaxClock, started <- srcStarted,
  running <- srcRunning, stopping <- srcStopping, device <- srcDevice,
  handler <- srcHandler, thread <- srcThread, capacity <- srcCapacity,
  pending <- srcPending, stamp <- srcStamp, clock <- srcClock, unread <- srcUnread,
  last <- srcLast

Nodes == INSTANCE MediaNodes WITH
  life <- nodLife, open <- nodOpen,
  running <- nodRunning, device <- nodDevice, handler <- nodHandler, thread <- nodThread, stopping <- nodStopping

Host == INSTANCE HostCodec WITH
  MaxSent <- MaxUnits, open <- hostOpen, codec <- hostCodec, changed <- hostChanged,
  encoding <- hostEncoding, enc <- hostEnc, sent <- hostSent, got <- hostGot, floor <- hostFloor

App == INSTANCE CaptureService WITH
  MaxTime <- MaxStamp, at <- appAt, watched <- appWatched,
  monitor <- appMonitor, pipeline <- appPipeline, sinks <- appSinks,
  timers <- appTimers, raised <- appRaised, quit <- appQuit, kind <- appKind,
  running <- appRunning, thread <- appThread, encoded <- appEncoded,
  preview <- appPreview, display <- appDisplay, handlers <- appHandlers,
  last <- appLast, stopping <- appStopping

Net == INSTANCE NetworkManager WITH
  link <- netLink, messages <- netMessages,
  overrun <- netOverrun, changes <- netChanges, running <- netRunning,
  watched <- netWatched, handling <- netHandling, linkStates <- netLinkStates,
  told <- netTold, warned <- netWarned, mentioned <- netMentioned,
  dropped <- netDropped, missed <- netMissed

Drawn == INSTANCE HostCamera WITH
  open <- drwOpen, fmt <- drwFmt, buf <- drwBuf, raced <- drwRaced, callback <- drwCallback,
  streaming <- drwStreaming, running <- drwRunning, thread <- drwThread, call <- drwCall

Bluetooth == INSTANCE HostBluetooth WITH
  open <- btOpen, on <- btOn, discovering <- btDiscovering, started <- btStarted,
  thread <- btThread, call <- btCall

Sensing == INSTANCE HostSensors WITH
  enabled <- senEnabled,
  delay <- senDelay, due <- senDue, at <- senAt, room <- senRoom, deadline <- senDeadline,
  until <- senUntil, hastened <- senHastened, calls <- senCalls

\* A service that has returned, of which no step is due.
AppRests ==
  /\ appAt = "returned" /\ appWatched = FALSE /\ appMonitor = FALSE /\ appPipeline = "none"
  /\ appSinks = {} /\ appTimers = {} /\ appRaised = 0 /\ appQuit = FALSE /\ appKind = "file"
  /\ appRunning = FALSE /\ appThread = "off" /\ appEncoded = FALSE /\ appPreview = FALSE
  /\ appDisplay = FALSE /\ appHandlers = FALSE /\ appLast = 0 /\ appStopping = FALSE

PlatformInit ==
  /\ which \in {"guard", "camera", "audio", "codec", "vcodec", "vcamera", "usb", "drawn",
               "screen", "loader", "source", "nodes", "host", "bluetooth",
               "sensors", "app", "net"}
  /\ Init /\ Camera!Init /\ Audio!Init /\ Codec!Init /\ VCodec!Init
  /\ VCamera!Init /\ Usb!Init /\ Screen!Init /\ Source!Init /\ Nodes!Init
  /\ Host!Init /\ Net!Init /\ Drawn!Init /\ Bluetooth!Init /\ Sensing!Init
  /\ IF which = "app" THEN App!Init ELSE AppRests
  /\ which # "net" => netLink = <<"gone", "gone">>
  /\ IF which = "loader" THEN Loader!Init
     ELSE ldPlugin = <<>> /\ ldCache = <<>> /\ ldOpen = <<>> /\ ldGiven = {}

PlatformNext ==
  \/ /\ which = "guard" /\ Next
     /\ UNCHANGED <<which, visionVars, soundVars, codingVars, screenVars,
                    loaderVars, nodesVars, bluetoothVars, sensorVars, serviceVars>>
  \/ /\ which = "camera" /\ Camera!Next
     /\ UNCHANGED <<which, vcameraVars, usbVars, drawnVars, soundVars, codingVars,
                    otherVars, serviceVars>>
  \/ /\ which = "audio" /\ Audio!Next
     /\ UNCHANGED <<which, visionVars, sourceVars, codingVars,
                    otherVars, serviceVars>>
  \/ /\ which = "codec" /\ Codec!Next
     /\ UNCHANGED <<which, visionVars, soundVars, vcodecVars, hostVars, otherVars,
                    serviceVars>>
  \/ /\ which = "vcodec" /\ VCodec!Next
     /\ UNCHANGED <<which, visionVars, soundVars, codecVars, hostVars, otherVars,
                    serviceVars>>
  \/ /\ which = "vcamera" /\ VCamera!Next
     /\ UNCHANGED <<which, cameraVars, usbVars, drawnVars, soundVars, codingVars,
                    otherVars, serviceVars>>
  \/ /\ which = "usb" /\ Usb!Next
     /\ UNCHANGED <<which, cameraVars, vcameraVars, drawnVars, soundVars,
                    codingVars, otherVars, serviceVars>>
  \/ /\ which = "drawn" /\ Drawn!Next
     /\ UNCHANGED <<which, cameraVars, vcameraVars, usbVars, soundVars,
                    codingVars, otherVars, serviceVars>>
  \/ /\ which = "screen" /\ Screen!Next
     /\ UNCHANGED <<which, visionVars, soundVars, codingVars, loaderVars,
                    nodesVars, guardVars, bluetoothVars, sensorVars, serviceVars>>
  \/ /\ which = "loader" /\ Loader!Next
     /\ UNCHANGED <<which, visionVars, soundVars, codingVars, screenVars,
                    nodesVars, guardVars, bluetoothVars, sensorVars, serviceVars>>
  \/ /\ which = "source" /\ Source!Next
     /\ UNCHANGED <<which, visionVars, audioVars, codingVars, otherVars,
                    serviceVars>>
  \/ /\ which = "nodes" /\ Nodes!Next
     /\ UNCHANGED <<which, visionVars, soundVars, codingVars, screenVars,
                    loaderVars, guardVars, bluetoothVars, sensorVars, serviceVars>>
  \/ /\ which = "host" /\ Host!Next
     /\ UNCHANGED <<which, visionVars, soundVars, codecVars, vcodecVars,
                    otherVars, serviceVars>>
  \/ /\ which = "bluetooth" /\ Bluetooth!Next
     /\ UNCHANGED <<which, visionVars, soundVars, codingVars, screenVars,
                    loaderVars, nodesVars, guardVars, sensorVars, serviceVars>>
  \/ /\ which = "sensors" /\ Sensing!Next
     /\ UNCHANGED <<which, visionVars, soundVars, codingVars, screenVars,
                    loaderVars, nodesVars, guardVars, bluetoothVars, serviceVars>>
  \/ /\ which = "app" /\ App!Next
     /\ UNCHANGED <<which, visionVars, soundVars, codingVars, otherVars, netVars>>
  \/ /\ which = "net" /\ Net!Next
     /\ UNCHANGED <<which, visionVars, soundVars, codingVars, otherVars, appVars>>

PlatformSpec ==
  /\ PlatformInit /\ [][PlatformNext]_platformVars
  /\ Camera!Fairness /\ VCamera!Fairness /\ Usb!Fairness /\ Source!Fairness /\ Nodes!Fairness
  /\ App!Fairness /\ Net!Fairness
  /\ Drawn!Fairness /\ Bluetooth!Fairness /\ Sensing!Fairness

-----------------------------------------------------------------------------
(* Correctness: of each device what its module states. *)

(* Nothing leaks: what a device holds of the vendor's layer, the driver or  *)
(* another HAL is what its state needs, after a step of a start has failed, *)
(* whoever else uses it, and in whatever order calls and threads came.      *)
(* What the code does leave is left out by name where each module states    *)
(* it: a buffer its V4L2 driver refuses, the mappings and the handlers of a *)
(* start that failed, the system a failed start() gives up under a decoder, *)
(* an encoder that close() was not asked to stop first.                     *)
HeldIsUsed ==
  /\ Camera!NothingLeft /\ Audio!RestsClean /\ Codec!HoldsWhatItUses /\ VCodec!HoldsWhatItUses
  /\ VCamera!HoldsItsMode /\ Usb!NoBufferLost /\ Screen!UpWhileUsed /\ Screen!WholeOrNothing
  /\ which = "loader" => Loader!OpenWhileGiven
  /\ Source!NothingOfARunIsLeft /\ Nodes!StoppedHoldsNothing /\ Nodes!OpenWhileAlive
  /\ Host!HoldsWhatItUses /\ App!LeavesNothing /\ App!SourceHoldsWhatItUses
  /\ App!RecordingsAreTimed
  /\ Drawn!StoppedIsQuiet /\ Bluetooth!DiscoveringIsTrue

(* Nothing is used that is gone: a thread has the channel, the block, the   *)
(* buffer or the callback that it works with, until it has been joined.     *)
UsedIsHeld ==
  /\ Camera!UsesWhatIsThere /\ Camera!PooledWhileShown /\ Audio!SharedIsHeld
  /\ VCamera!FramesHaveRoute /\ Usb!TouchesMapped /\ Screen!BlockLives
  /\ Screen!OverlayHasScreen /\ Nodes!DeliversToHandler
  /\ App!PushesIntoPipeline /\ Drawn!DrawsInRoom /\ Bluetooth!ShowsWhileOn

(* The right thing is handed on: no bad frame, no sample lost or stamped    *)
(* before it was captured, the overlay that is shown, the module that the   *)
(* other callers have, the state that an interface has.                     *)
HandsOnWhatIsRight ==
  /\ Usb!BadFramesDropped /\ Screen!FlushesWhatIsShown
  /\ which = "loader" => Loader!OneModule
  /\ Source!NoSampleLost /\ Source!NeverFromTheFuture
  /\ Net!KnowsOrIsWarned /\ Sensing!WakesInTime

(* Steps keep the interfaces' promises: the codecs implement theirs, audio  *)
(* frames come in order and packets' timestamps go on, no module is taken   *)
(* from behind a bad one, no worker is begun over one not joined, and no    *)
(* discovery while the thread of the one before still runs.                 *)
CodecsKeepContract == Codec!ImplementsContract /\ VCodec!ImplementsContract /\ Host!ImplementsContract
StepsKeepOrder == Source!FramesInOrder /\ Loader!NotPastBad /\ Nodes!OneThread
                  /\ App!StampsIncrease /\ Bluetooth!OneDiscovery

(* Every stop() returns: no thread sleeps through it or is stuck.  What     *)
(* begins by itself ends: a recording of an alarm, the service without its  *)
(* video or on a signal, the messages of the kernel.                        *)
CallsReturn ==
  /\ Camera!CallsReturn /\ VCamera!StopReturns /\ Usb!StopReturns
  /\ Source!StopReturns /\ Nodes!StopReturns
  /\ App!RecordingsEnd /\ App!ServiceEnds /\ Net!MessagesAreRead
  /\ Drawn!StopReturns /\ Bluetooth!StopReturns /\ Sensing!PollReturns
=============================================================================
