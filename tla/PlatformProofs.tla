--------------------------- MODULE PlatformProofs ---------------------------
(* Proofs about the devices of the platform, for every value of the bounds: *)
(* each has an inductive invariant that its steps keep, whichever of them   *)
(* fails and in whatever order calls and threads take them; together they   *)
(* are the invariant of PlatformSpec, from which follow the properties that *)
(* the run of MCPlatform checks.                                            *)
EXTENDS MCPlatform, WellFoundedInduction, SequenceTheorems, TLAPS

\* The parts of the vendor's layer that the audio device holds are those of the
\* directions and the encoder that run, and so is the reference to its system.
AudioInv ==
  /\ audIn \in BOOLEAN /\ audOut \in BOOLEAN /\ audEncoded \in BOOLEAN
  /\ audCreated = audEncoded /\ audBound = audEncoded /\ (audEncoded => audIn)
  /\ audSys = (audIn \/ audOut) /\ audRefs = IF audSys THEN 1 ELSE 0
  /\ \A p : p \in audHw <=> \/ audIn /\ p \in Audio!Input
                            \/ audOut /\ p \in Audio!Output
                            \/ audEncoded /\ p \in {"aenc", "bind"}

\* At rest the audio device holds nothing of the layer.
LEMMA AudioInit == Audio!Init => AudioInv
  BY DEF Audio!Init, AudioInv

\* The reference is kept while a direction runs, whoever took it.
LEMMA AudioReference ==
  ASSUME NEW i \in BOOLEAN, NEW o \in BOOLEAN, NEW held \in BOOLEAN, NEW count,
         held => count = 1, ~held => count = 0 /\ ~i /\ ~o, Audio!KeepSys(i, o, held, count)
  PROVE  audSys' = (i \/ o) /\ audRefs' = IF audSys' THEN 1 ELSE 0
  BY DEF Audio!KeepSys, Audio!SysIf

\* Audio starts: all of a direction, or nothing.
LEMMA AudioStart ==
  ASSUME AudioInv, NEW dir \in {"in", "out"}, Audio!Start(dir) PROVE AudioInv'
<1>1. /\ Audio!KeepSys(audIn', audOut', TRUE, Audio!Taken) /\ Audio!Taken = 1
      /\ UNCHANGED <<audEncoded, audCreated, audBound>>
  <2>1. Audio!Taken = 1
    BY DEF Audio!Taken, AudioInv
  <2> QED
    BY <2>1, Zenon DEF Audio!Start
<1>2. \/ UNCHANGED <<audIn, audOut, audHw>>
      \/ audIn' = TRUE /\ UNCHANGED audOut /\ audHw' = audHw \cup Audio!Input
      \/ audOut' = TRUE /\ UNCHANGED audIn /\ audHw' = audHw \cup Audio!Output
  <2>1. CASE dir = "in"
    <3>1. PICK r \in Audio!AiStart(audHw) : audHw' = r[2] /\ audIn' = (audIn \/ r[1]) /\ UNCHANGED audOut
      BY <2>1 DEF Audio!Start, AudioInv
    <3> QED
      <4>1. r = <<TRUE, audHw \cup Audio!Input>> \/ r = <<FALSE, audHw>>
        BY <3>1, Zenon DEF Audio!AiStart
      <4>2. CASE r = <<TRUE, audHw \cup Audio!Input>>
        BY <3>1, <4>2
      <4>3. CASE r = <<FALSE, audHw>>
        BY <3>1, <4>3 DEF AudioInv
      <4> QED
        BY <4>1, <4>2, <4>3
  <2>2. CASE dir = "out"
    <3>1. PICK r \in Audio!AoStart(audHw) : audHw' = r[2] /\ audOut' = (audOut \/ r[1]) /\ UNCHANGED audIn
      BY <2>2 DEF Audio!Start, AudioInv
    <3> QED
      <4>1. r = <<TRUE, audHw \cup Audio!Output>> \/ r = <<FALSE, audHw>>
        BY <3>1, Zenon DEF Audio!AoStart
      <4>2. CASE r = <<TRUE, audHw \cup Audio!Output>>
        BY <3>1, <4>2
      <4>3. CASE r = <<FALSE, audHw>>
        BY <3>1, <4>3 DEF AudioInv
      <4> QED
        BY <4>1, <4>2, <4>3
  <2> QED
    BY <2>1, <2>2
<1>3. audIn' \in BOOLEAN /\ audOut' \in BOOLEAN
  BY <1>2 DEF AudioInv
<1>4. audSys' = (audIn' \/ audOut') /\ audRefs' = IF audSys' THEN 1 ELSE 0
  BY <1>1, <1>3, AudioReference
<1> QED
  BY <1>1, <1>2, <1>3, <1>4 DEF AudioInv

\* A direction stops, unless an encoder needs it.
LEMMA AudioStop ==
  ASSUME AudioInv, NEW dir \in {"in", "out"}, Audio!Stop(dir) PROVE AudioInv'
<1> DEFINE s == IF dir = "in" THEN Audio!AiStop([in |-> audIn, hw |-> audHw]) ELSE [in |-> audIn, hw |-> audHw]
<1>1. /\ ~(dir = "in" /\ audIn /\ audEncoded) /\ audIn' = s.in /\ audOut' = (audOut /\ dir # "out")
      /\ audHw' = IF dir = "out" /\ audOut THEN s.hw \ Audio!Output ELSE s.hw
      /\ Audio!KeepSys(audIn', audOut', audSys, audRefs) /\ UNCHANGED <<audEncoded, audCreated, audBound>>
  BY DEF Audio!Stop
<1>2. /\ s.in = (audIn /\ dir # "in")
      /\ s.hw = IF dir = "in" /\ audIn THEN audHw \ Audio!Input ELSE audHw
  BY DEF Audio!AiStop, AudioInv
<1>3. audIn' \in BOOLEAN /\ audOut' \in BOOLEAN /\ (audIn' => audIn) /\ (audOut' => audOut)
  BY <1>1, <1>2 DEF AudioInv
<1>4. audSys' = (audIn' \/ audOut') /\ audRefs' = IF audSys' THEN 1 ELSE 0
  BY <1>1, <1>3, AudioReference DEF AudioInv
<1> HIDE DEF s
<1>5. \A p : p \in audHw' <=> \/ audIn' /\ p \in Audio!Input
                              \/ audOut' /\ p \in Audio!Output
                              \/ audEncoded /\ p \in {"aenc", "bind"}
  BY <1>1, <1>2 DEF AudioInv, Audio!Input, Audio!Output
<1>6. audEncoded => audIn'
  BY <1>1, <1>2 DEF AudioInv
<1> QED
  BY <1>1, <1>3, <1>4, <1>5, <1>6 DEF AudioInv

\* The encoder starts with its input and its binding, or not at all.
LEMMA AudioEncodedStart ==
  ASSUME AudioInv, Audio!EncodedStart PROVE AudioInv'
<1>1. ~audEncoded /\ ~audIn /\ UNCHANGED audOut
  BY DEF Audio!EncodedStart
<1>2. CASE audIn' = TRUE /\ audHw' = audHw \cup Audio!Input \cup {"aenc", "bind"} /\ audCreated' = TRUE
           /\ audBound' = TRUE /\ audEncoded' = TRUE /\ Audio!AcquireSys
  <2>1. audSys' = TRUE /\ audRefs' = 1
    BY <1>2 DEF AudioInv, Audio!AcquireSys
  <2>2. \A p : p \in audHw' <=> \/ p \in Audio!Input
                                \/ audOut /\ p \in Audio!Output
                                \/ p \in {"aenc", "bind"}
    BY <1>1, <1>2 DEF AudioInv
  <2> QED
    BY <1>1, <1>2, <2>1, <2>2 DEF AudioInv
<1>3. CASE \E r \in Audio!AiStart(audHw) :
             /\ audHw' = IF r[1] THEN Audio!AiStop([in |-> TRUE, hw |-> r[2]]).hw ELSE r[2]
             /\ Audio!KeepSys(FALSE, audOut, TRUE, Audio!Taken)
             /\ UNCHANGED <<audIn, audEncoded, audCreated, audBound>>
  <2>1. PICK r \in Audio!AiStart(audHw) :
             /\ audHw' = IF r[1] THEN r[2] \ Audio!Input ELSE r[2]
             /\ Audio!KeepSys(FALSE, audOut, TRUE, Audio!Taken)
             /\ UNCHANGED <<audIn, audEncoded, audCreated, audBound>>
    BY <1>3 DEF Audio!AiStop
  <2>2. audHw' = audHw \/ audHw' = (audHw \cup Audio!Input) \ Audio!Input
    <3>1. r = <<TRUE, audHw \cup Audio!Input>> \/ r = <<FALSE, audHw>>
      BY <2>1, Zenon DEF Audio!AiStart
    <3>2. CASE r = <<TRUE, audHw \cup Audio!Input>>
      BY <2>1, <3>2
    <3>3. CASE r = <<FALSE, audHw>>
      BY <2>1, <3>3
    <3> QED
      BY <3>1, <3>2, <3>3
  <2>3. \A p : p \in audHw' <=> audOut /\ p \in Audio!Output
    BY <1>1, <2>2 DEF AudioInv, Audio!Input, Audio!Output
  <2>4. Audio!Taken = 1
    BY DEF AudioInv, Audio!Taken
  <2>5. audSys' = audOut /\ audRefs' = IF audSys' THEN 1 ELSE 0
    BY <2>1, <2>4, AudioReference DEF AudioInv
  <2> QED
    BY <1>1, <2>1, <2>3, <2>5 DEF AudioInv
<1> QED
  BY <1>2, <1>3 DEF Audio!EncodedStart

\* The encoder stops, and its input with it.
LEMMA AudioEncodedStop ==
  ASSUME AudioInv, Audio!EncodedStop PROVE AudioInv'
<1>1. audEncoded /\ audIn /\ audBound /\ audCreated /\ audSys
  BY DEF AudioInv, Audio!EncodedStop
<1>2. /\ audIn' = FALSE /\ audHw' = (audHw \ ({"bind"} \cup {"aenc"})) \ Audio!Input
      /\ audEncoded' = FALSE /\ audCreated' = FALSE /\ audBound' = FALSE
      /\ Audio!KeepSys(FALSE, audOut, audSys, audRefs) /\ UNCHANGED audOut
  BY <1>1 DEF Audio!EncodedStop, Audio!AiStop
<1>3. audSys' = audOut /\ audRefs' = IF audSys' THEN 1 ELSE 0
  BY <1>1, <1>2, AudioReference DEF AudioInv
<1>4. \A p : p \in audHw' <=> audOut /\ p \in Audio!Output
  BY <1>1, <1>2 DEF AudioInv, Audio!Input, Audio!Output
<1> QED
  BY <1>2, <1>3, <1>4 DEF AudioInv

\* Every step of the audio device keeps the invariant.
LEMMA AudioNext == AudioInv /\ [Audio!Next]_(Audio!vars) => AudioInv'
  BY AudioStart, AudioStop, AudioEncodedStart, AudioEncodedStop DEF Audio!Next, Audio!vars, AudioInv
\* What the invariant says of the audio device.
LEMMA AudioSays == AudioInv => Audio!RestsClean /\ Audio!SharedIsHeld
  BY DEF AudioInv, Audio!RestsClean, Audio!SharedIsHeld, Audio!Input, Audio!Output

\* The VS816 camera holds the route in either mode, the encoder in one, and its
\* thread runs and holds a frame only while it streams.
VCameraInv ==
  /\ vcamStreaming \in BOOLEAN /\ vcamEncoded \in BOOLEAN /\ vcamStopping \in BOOLEAN
  /\ vcamThread \in {"off", "acquire", "callback"}
  /\ vcamHeld = IF vcamThread = "callback" THEN 1 ELSE 0
  /\ (vcamStopping => vcamStreaming) /\ ~(vcamStreaming /\ vcamEncoded)
  /\ vcamThread # "off" => vcamStreaming
  /\ vcamFlags = vcamHw
  /\ vcamHw = IF vcamStreaming THEN VCamera!Reached(VCamera!Route, 6)
              ELSE IF vcamEncoded
              THEN VCamera!Reached(VCamera!Route, 6) \cup VCamera!Reached(VCamera!Encoder, 3) ELSE {}

\* What has been reached of a route or an encoder is a part of the whole of it.
LEMMA VCameraParts ==
  /\ \A n \in 0 .. 6 : VCamera!Reached(VCamera!Route, n) \subseteq VCamera!Reached(VCamera!Route, 6)
  /\ \A m \in 0 .. 3 : VCamera!Reached(VCamera!Encoder, m) \subseteq VCamera!Reached(VCamera!Encoder, 3)
  BY DEF VCamera!Reached

\* The VS816 camera starts, whichever step fails.
LEMMA VCameraStarts ==
  ASSUME VCameraInv, NEW n \in 0 .. 6,
         \/ \E threaded \in BOOLEAN : VCamera!Start(n, threaded)
         \/ \E m \in 0 .. 3 : VCamera!EncodedStart(n, m)
  PROVE  VCameraInv'
<1> DEFINE R == VCamera!Reached(VCamera!Route, 6)
           E == VCamera!Reached(VCamera!Encoder, 3)
<1>1. VCamera!RouteStart(n) \subseteq R /\ (n = 6 => VCamera!RouteStart(n) = R)
  BY VCameraParts DEF VCamera!RouteStart, VCamera!RouteStop
<1>2. ~vcamStopping /\ ~vcamStreaming /\ ~vcamEncoded /\ vcamThread = "off"
  BY DEF VCameraInv, VCamera!Start, VCamera!EncodedStart, VCamera!Idle
<1>3. ASSUME NEW threaded \in BOOLEAN, VCamera!Start(n, threaded) PROVE VCameraInv'
  <2>1. CASE n = 6 /\ threaded
    <3>1. /\ vcamHw' = VCamera!RouteStart(n) /\ vcamFlags' = VCamera!RouteStart(n)
          /\ vcamStreaming' = TRUE /\ vcamThread' = "acquire"
          /\ UNCHANGED <<vcamEncoded, vcamHeld, vcamStopping>>
      BY <1>3, <2>1 DEF VCamera!Start
    <3> QED
      BY <1>1, <1>2, <2>1, <3>1 DEF VCameraInv
  <2>2. CASE ~(n = 6 /\ threaded)
    <3>1. /\ vcamHw' = VCamera!RouteStart(n) \ R /\ vcamFlags' = vcamHw'
          /\ UNCHANGED <<vcamStreaming, vcamThread, vcamEncoded, vcamHeld, vcamStopping>>
      BY <1>3, <2>2 DEF VCamera!Start, VCamera!RouteStop
    <3>2. vcamHw' = {}
      BY <1>1, <3>1
    <3> QED
      BY <1>2, <3>1, <3>2 DEF VCameraInv
  <2> QED
    BY <2>1, <2>2
<1>4. ASSUME NEW m \in 0 .. 3, VCamera!EncodedStart(n, m) PROVE VCameraInv'
  <2> DEFINE made == VCamera!RouteStart(n) \cup IF n = 6 THEN VCamera!Reached(VCamera!Encoder, m) ELSE {}
  <2>1. /\ vcamHw' = (IF n = 6 /\ m = 3 THEN made ELSE (made \ E) \ R) /\ vcamFlags' = vcamHw'
        /\ vcamEncoded' = (n = 6 /\ m = 3)
        /\ UNCHANGED <<vcamStreaming, vcamThread, vcamHeld, vcamStopping>>
    BY <1>4 DEF VCamera!EncodedStart, VCamera!RouteStop, VCamera!VencDestroy, VCamera!threads
  <2>2. made \subseteq R \cup E /\ (n = 6 /\ m = 3 => made = R \cup E)
    BY <1>1, VCameraParts
  <2> HIDE DEF made
  <2>3. vcamHw' = IF n = 6 /\ m = 3 THEN R \cup E ELSE {}
    BY <2>1, <2>2
  <2> QED
    BY <1>2, <2>1, <2>3 DEF VCameraInv
<1> QED
  BY <1>3, <1>4

\* Every step of the VS816 camera keeps its invariant, and so does its thread.
LEMMA VCameraNext == VCameraInv /\ [VCamera!Next]_(VCamera!vars) => VCameraInv'
<1> SUFFICES ASSUME VCameraInv, [VCamera!Next]_(VCamera!vars) PROVE VCameraInv'
  OBVIOUS
<1>1. CASE VCamera!EncodedStop
  BY <1>1 DEF VCameraInv, VCamera!EncodedStop, VCamera!RouteStop, VCamera!VencDestroy, VCamera!threads
<1>2. CASE VCamera!Capture \/ VCamera!Stop
  <2>1. CASE VCamera!Capture
    BY <2>1 DEF VCameraInv, VCamera!Capture
  <2>2. CASE VCamera!Stop
    BY <2>2 DEF VCameraInv, VCamera!Stop
  <2> QED
    BY <1>2, <2>1, <2>2
<1>3. CASE VCamera!Joined
  BY <1>3 DEF VCameraInv, VCamera!Joined, VCamera!RouteStop, VCamera!threads
<1>4. CASE VCamera!Acquire
  BY <1>4 DEF VCameraInv, VCamera!Acquire
<1>5. ASSUME NEW more \in BOOLEAN, VCamera!Callback(more) PROVE VCameraInv'
  BY <1>5 DEF VCameraInv, VCamera!Callback
<1>6. CASE UNCHANGED VCamera!vars
  BY <1>6 DEF VCameraInv, VCamera!vars
<1> QED
  BY <1>1, <1>2, <1>3, <1>4, <1>5, <1>6, VCameraStarts DEF VCamera!Next, VCamera!ThreadStep

\* What the invariant says of the VS816 camera.
LEMMA VCameraSays ==
  /\ VCamera!Init => VCameraInv
  /\ VCameraInv => VCamera!HoldsItsMode /\ VCamera!FramesHaveRoute
<1>1. VCamera!Init => VCameraInv
  BY DEF VCamera!Init, VCameraInv
<1>2. VCameraInv => VCamera!HoldsItsMode
  BY DEF VCameraInv, VCamera!HoldsItsMode, VCamera!Idle
<1>3. VCameraInv => VCamera!FramesHaveRoute
  BY DEF VCameraInv, VCamera!FramesHaveRoute
<1> QED
  BY <1>1, <1>2, <1>3

-----------------------------------------------------------------------------
(* The USB camera. *)

\* While the USB camera streams or stops, every buffer of its ring is mapped, and is
\* the driver's, the thread's or was refused; else none is mapped for the stream.
UsbInv ==
  /\ usbCallback \in BOOLEAN /\ usbStreaming \in BOOLEAN /\ usbStopping \in BOOLEAN
  /\ usbThread \in {"off", "dequeue", "convert"} /\ usbShown \in {"none", "whole"}
  /\ ~(usbStreaming /\ usbStopping) /\ (usbThread # "off" => usbStreaming \/ usbStopping)
  /\ usbThread # "convert" => usbHeld = {}
  /\ usbStreaming \/ usbStopping =>
       /\ usbMapped = usbN_bufs /\ usbN_bufs = usbQueued \cup usbHeld \cup usbRefused
       /\ usbQueued \cap usbHeld = {} /\ usbRefused \cap (usbQueued \cup usbHeld) = {}
  /\ ~usbStreaming /\ ~usbStopping => usbMapped = {} /\ usbOn = FALSE

\* The USB camera starts, whatever the driver grants and refuses.
LEMMA UsbStart ==
  ASSUME UsbInv, NEW granted, NEW touched, NEW reached, NEW ok \in BOOLEAN,
         Usb!Start(granted, touched, reached, ok)
  PROVE  UsbInv'
<1>1. ~usbStopping /\ ~usbStreaming /\ usbThread = "off" /\ usbHeld = {}
      /\ UNCHANGED <<usbCallback, usbHeld, usbStopping, usbShown>>
  BY DEF UsbInv, Usb!Start, Usb!Idle
<1>2. CASE UNCHANGED <<usbMapped, usbOn, usbStreaming, usbThread>>
  BY <1>1, <1>2 DEF UsbInv
<1>3. CASE /\ usbN_bufs' = granted /\ usbMapped' = granted /\ usbQueued' = granted /\ usbRefused' = {}
           /\ usbStreaming' = TRUE /\ usbThread' = IF usbCallback THEN "dequeue" ELSE "off"
  BY <1>1, <1>3 DEF UsbInv
<1> QED
  BY <1>2, <1>3 DEF Usb!Start, Usb!driver

\* Every step of the USB camera keeps its ring.
LEMMA UsbNext == UsbInv /\ [Usb!Next]_(Usb!vars) => UsbInv'
<1> SUFFICES ASSUME UsbInv, [Usb!Next]_(Usb!vars) PROVE UsbInv'
  OBVIOUS
<1>1. ASSUME NEW set \in BOOLEAN, Usb!SetFrameCallback(set) PROVE UsbInv'
  BY <1>1 DEF UsbInv, Usb!SetFrameCallback, Usb!driver
<1>2. CASE Usb!Stop
  BY <1>2 DEF UsbInv, Usb!Stop, Usb!driver, Usb!Idle
<1>3. CASE Usb!Stopped
  BY <1>3 DEF UsbInv, Usb!Stopped
<1>4. ASSUME NEW quality \in Usb!Qualities, NEW ok \in BOOLEAN, Usb!Capture(quality, ok) PROVE UsbInv'
  <2>1. /\ usbStreaming /\ ~usbStopping /\ usbThread = "off" /\ usbHeld = {} /\ usbShown' \in {"none", "whole"}
        /\ UNCHANGED <<usbCallback, usbStreaming, usbN_bufs, usbMapped, usbOn, usbThread, usbHeld, usbStopping>>
    BY <1>4 DEF UsbInv, Usb!Capture, Usb!Handed, Usb!Idle
  <2>2. PICK b \in usbQueued : Usb!Requeued(quality, {b}, ok)
    BY <1>4 DEF Usb!Capture
  <2>3. /\ usbN_bufs = usbQueued \cup usbRefused /\ usbRefused \cap usbQueued = {}
        /\ usbMapped = usbN_bufs
    BY <2>1 DEF UsbInv
  <2>4. CASE ok
    <3>1. usbQueued' = usbQueued /\ usbRefused' = usbRefused
      BY <2>2, <2>4 DEF Usb!Requeued
    <3> QED
      BY <2>1, <2>3, <3>1 DEF UsbInv
  <2>5. CASE ~ok
    <3>1. usbQueued' = usbQueued \ {b} /\ usbRefused' = usbRefused \cup {b}
      BY <2>2, <2>5 DEF Usb!Requeued
    <3> QED
      BY <2>1, <2>2, <2>3, <3>1 DEF UsbInv
  <2> QED
    BY <2>4, <2>5
<1>5. CASE Usb!Dequeue
  <2>1. usbThread = "dequeue" /\ usbHeld = {}
        /\ UNCHANGED <<usbCallback, usbStreaming, usbN_bufs, usbMapped, usbOn, usbRefused, usbStopping, usbShown>>
    BY <1>5 DEF UsbInv, Usb!Dequeue
  <2>2. CASE usbThread' = "off" /\ UNCHANGED <<usbQueued, usbHeld>>
    BY <2>1, <2>2 DEF UsbInv
  <2>3. CASE \E b \in usbQueued : usbQueued' = usbQueued \ {b} /\ usbHeld' = {b} /\ usbThread' = "convert"
    BY <2>1, <2>3 DEF UsbInv
  <2> QED
    BY <1>5, <2>2, <2>3 DEF Usb!Dequeue
<1>6. CASE Usb!Unplugged
  BY <1>6 DEF UsbInv, Usb!Unplugged, Usb!driver
<1>7. ASSUME NEW quality \in Usb!Qualities, NEW ok \in BOOLEAN, Usb!Convert(quality, ok) PROVE UsbInv'
  <2>1. /\ (usbStreaming \/ usbStopping) /\ usbHeld' = {} /\ usbThread' \in {"off", "dequeue"}
        /\ usbShown' \in {"none", "whole"}
        /\ UNCHANGED <<usbCallback, usbStreaming, usbN_bufs, usbMapped, usbOn, usbStopping>>
    BY <1>7 DEF UsbInv, Usb!Convert, Usb!Handed
  <2>2. /\ usbN_bufs = usbQueued \cup usbHeld \cup usbRefused /\ usbQueued \cap usbHeld = {}
        /\ usbRefused \cap (usbQueued \cup usbHeld) = {} /\ usbMapped = usbN_bufs
    BY <2>1 DEF UsbInv
  <2>3. CASE ok
    <3>1. usbQueued' = usbQueued \cup usbHeld /\ usbRefused' = usbRefused
      BY <1>7, <2>3 DEF Usb!Convert, Usb!Requeued
    <3> QED
      BY <2>1, <2>2, <3>1 DEF UsbInv
  <2>4. CASE ~ok
    <3>1. usbQueued' = usbQueued \ usbHeld /\ usbRefused' = usbRefused \cup usbHeld
      BY <1>7, <2>4 DEF Usb!Convert, Usb!Requeued
    <3> QED
      BY <2>1, <2>2, <3>1 DEF UsbInv
  <2> QED
    BY <2>3, <2>4
<1>8. CASE UNCHANGED Usb!vars
  BY <1>8 DEF UsbInv, Usb!vars, Usb!driver
<1> QED
  BY <1>1, <1>2, <1>3, <1>4, <1>5, <1>6, <1>7, <1>8, UsbStart DEF Usb!Next, Usb!ThreadStep

\* What the invariant says of the USB camera.
LEMMA UsbSays ==
  /\ Usb!Init => UsbInv
  /\ UsbInv => Usb!NoBufferLost /\ Usb!TouchesMapped /\ Usb!BadFramesDropped
  BY DEF Usb!Init, UsbInv, Usb!NoBufferLost, Usb!TouchesMapped, Usb!BadFramesDropped, Usb!Idle

\* The drawn camera's thread runs while the camera streams or a call waits for it,
\* and draws only into a buffer that is large enough, unless the format is set meanwhile.
DrawnInv ==
  /\ drwOpen \in BOOLEAN /\ drwCallback \in BOOLEAN /\ drwStreaming \in BOOLEAN /\ drwRunning \in BOOLEAN
  /\ drwFmt \in Nat /\ drwBuf \in Nat
  /\ drwThread \in {"off", "ensure", "fill"} /\ drwCall \in {"none", "stop", "close"}
  /\ drwRaced \in BOOLEAN /\ (drwRunning => drwStreaming)
  /\ drwThread # "off" => drwOpen /\ (drwRunning \/ drwCall # "none")
  /\ drwCall # "none" => drwOpen /\ ~drwStreaming
  /\ drwThread = "fill" /\ ~drwRaced => drwBuf >= drwFmt
  /\ ~drwOpen => drwBuf = 0

\* Every step of the drawn camera keeps its invariant.
LEMMA DrawnNext == DrawnInv /\ [Drawn!Next]_(Drawn!vars) => DrawnInv'
<1> SUFFICES ASSUME DrawnInv, [Drawn!Next]_(Drawn!vars) PROVE DrawnInv'
  OBVIOUS
<1> USE DEF DrawnInv, Drawn!Idle
<1>1. ASSUME NEW size \in Sizes, Drawn!SetFormat(size) PROVE DrawnInv'
  BY <1>1, DeviceAssumption DEF Drawn!SetFormat
<1>2. ASSUME NEW set \in BOOLEAN, Drawn!SetFrameCallback(set) PROVE DrawnInv'
  BY <1>2 DEF Drawn!SetFrameCallback
<1>3. ASSUME NEW ok \in BOOLEAN, Drawn!Start(ok) PROVE DrawnInv'
  BY <1>3 DEF Drawn!Start
<1>4. ASSUME NEW ok \in BOOLEAN, Drawn!Capture(ok) PROVE DrawnInv'
  BY <1>4 DEF Drawn!Capture, Drawn!Ensure
<1>5. ASSUME NEW c \in {"stop", "close"}, Drawn!Stop(c) PROVE DrawnInv'
  BY <1>5 DEF Drawn!Stop
<1>6. CASE Drawn!Joined
  <2>1. CASE drwCall = "close"
    <3>1. /\ drwCall' = "none" /\ drwThread = "off" /\ drwOpen' = FALSE /\ drwBuf' = 0
          /\ UNCHANGED <<drwFmt, drwRaced, drwCallback, drwStreaming, drwRunning, drwThread>>
      BY <1>6, <2>1 DEF Drawn!Joined, Drawn!Freed
    <3> QED
      BY <3>1
  <2>2. CASE drwCall # "close"
    BY <1>6, <2>2 DEF Drawn!Joined
  <2> QED
    BY <2>1, <2>2
<1>7. CASE Drawn!StopAtOnce
  BY <1>7 DEF Drawn!StopAtOnce
<1>8. CASE Drawn!Close
  BY <1>8 DEF Drawn!Close, Drawn!Freed
<1>9. CASE Drawn!Prepare
  BY <1>9 DEF Drawn!Prepare, Drawn!Ensure
<1>10. CASE Drawn!Fill
  BY <1>10 DEF Drawn!Fill
<1>11. CASE UNCHANGED Drawn!vars
  BY <1>11 DEF Drawn!vars
<1> QED
  BY <1>1, <1>2, <1>3, <1>4, <1>5, <1>6, <1>7, <1>8, <1>9, <1>10, <1>11 DEF Drawn!Next, Drawn!ThreadStep

\* What the invariant says of the drawn camera.
LEMMA DrawnSays ==
  /\ Drawn!Init => DrawnInv
  /\ DrawnInv => Drawn!DrawsInRoom /\ Drawn!StoppedIsQuiet
<1>1. Drawn!Init => DrawnInv
  <2> SUFFICES ASSUME Drawn!Init PROVE DrawnInv
    OBVIOUS
  <2>1. /\ drwOpen = TRUE /\ drwFmt \in Nat /\ drwBuf = 0 /\ drwRaced = FALSE /\ drwCallback = FALSE
        /\ drwStreaming = FALSE /\ drwRunning = FALSE /\ drwThread = "off" /\ drwCall = "none"
    BY DeviceAssumption DEF Drawn!Init
  <2> QED
    BY <2>1 DEF DrawnInv
<1>2. DrawnInv => Drawn!DrawsInRoom
  BY DEF DrawnInv, Drawn!DrawsInRoom
<1>3. DrawnInv => Drawn!StoppedIsQuiet
  BY DEF DrawnInv, Drawn!StoppedIsQuiet
<1> QED
  BY <1>1, <1>2, <1>3

-----------------------------------------------------------------------------
(* The Bluetooth adapter. *)

\* The adapter's thread runs while discovery goes on or a call waits for it, and
\* only then is an open adapter that is on.
BluetoothInv ==
  /\ btOpen \in BOOLEAN /\ btOn \in BOOLEAN /\ btDiscovering \in BOOLEAN /\ btStarted \in BOOLEAN
  /\ btThread \in {"off", "check", "show", "end"} /\ btCall \in Bluetooth!Calls \cup {"none"}
  /\ btThread # "off" => btOpen /\ btOn /\ btStarted
  /\ btDiscovering => btThread # "off" /\ btCall = "none"
  /\ btCall = "none" /\ ~btDiscovering => btThread = "off"
  /\ (btCall # "none" => btOpen) /\ (~btOpen => ~btStarted)

\* Every step of the adapter keeps its invariant, and begins no thread while one runs.
LEMMA BluetoothNext ==
  BluetoothInv /\ [Bluetooth!Next]_(Bluetooth!vars) =>
    /\ BluetoothInv'
    /\ btThread' # btThread /\ btThread' = "check" => btThread \in {"off", "show"}
<1> SUFFICES ASSUME BluetoothInv, [Bluetooth!Next]_(Bluetooth!vars)
             PROVE  /\ BluetoothInv'
                    /\ btThread' # btThread /\ btThread' = "check" => btThread \in {"off", "show"}
  OBVIOUS
<1> USE DEF BluetoothInv, Bluetooth!Idle, Bluetooth!Calls
<1>1. CASE Bluetooth!Enable
  BY <1>1 DEF Bluetooth!Enable
<1>2. CASE \E ok \in BOOLEAN : Bluetooth!StartDiscovery(ok)
  BY <1>2 DEF Bluetooth!StartDiscovery
<1>3. CASE \E c \in Bluetooth!Calls : Bluetooth!AtOnce(c)
  BY <1>3 DEF Bluetooth!AtOnce, Bluetooth!Joins, Bluetooth!Leaves
<1>4. CASE \E c \in Bluetooth!Calls : Bluetooth!StopDiscovery(c)
  <2>1. PICK c \in Bluetooth!Calls : Bluetooth!StopDiscovery(c)
    BY <1>4
  <2>2. btCall' # "none" /\ btCall' \in Bluetooth!Calls
    BY <2>1 DEF Bluetooth!StopDiscovery
  <2> QED
    BY <2>1, <2>2 DEF Bluetooth!StopDiscovery
<1>5. CASE Bluetooth!Joined
  BY <1>5 DEF Bluetooth!Joined, Bluetooth!Leaves
<1>6. CASE Bluetooth!Check
  BY <1>6 DEF Bluetooth!Check
<1>7. CASE Bluetooth!Show
  BY <1>7 DEF Bluetooth!Show
<1>8. CASE Bluetooth!End
  BY <1>8 DEF Bluetooth!End
<1>9. CASE UNCHANGED Bluetooth!vars
  BY <1>9 DEF Bluetooth!vars
<1> QED
  BY <1>1, <1>2, <1>3, <1>4, <1>5, <1>6, <1>7, <1>8, <1>9 DEF Bluetooth!Next, Bluetooth!ThreadStep

\* What the invariant says of the adapter.
LEMMA BluetoothSays ==
  /\ Bluetooth!Init => BluetoothInv
  /\ BluetoothInv => Bluetooth!ShowsWhileOn /\ Bluetooth!DiscoveringIsTrue
  BY DEF Bluetooth!Init, BluetoothInv, Bluetooth!ShowsWhileOn, Bluetooth!DiscoveringIsTrue

\* A node has a device while it lives; a device that is started has a thread that
\* delivers to a handler, or one that has to be joined.
NodesTyped ==
  /\ nodLife \in [Kinds -> {"none", "alive", "dying"}] /\ nodOpen \in [Kinds -> {0, 1}]
  /\ nodRunning \in [Kinds -> BOOLEAN] /\ nodDevice \in [Kinds -> BOOLEAN]
  /\ nodHandler \in [Kinds -> BOOLEAN] /\ nodStopping \in [Kinds -> BOOLEAN]
  /\ nodThread \in [Kinds -> {"off", "wait", "deliver", "ended"}]
NodeFine(k) ==
  /\ nodOpen[k] = IF nodLife[k] = "none" THEN 0 ELSE 1
  /\ nodDevice[k] \/ nodStopping[k] => nodLife[k] # "none"
  /\ nodStopping[k] => ~nodRunning[k]
  /\ nodRunning[k] \/ nodThread[k] # "off" => nodDevice[k]
  /\ nodThread[k] # "off" => nodHandler[k]
  /\ k = "encoder" => nodThread[k] = "off" /\ ~nodStopping[k]
  /\ nodThread[k] # "off" /\ k # "packet" => nodRunning[k] \/ nodStopping[k]
  /\ ~nodRunning[k] /\ ~nodStopping[k] /\ nodThread[k] = "off" => ~nodDevice[k] /\ ~nodHandler[k]
NodesInv == NodesTyped /\ \A k \in Kinds : NodeFine(k)

\* Every step of a node keeps the invariant, and begins no thread over one that has
\* not been joined.
LEMMA NodeStep ==
  ASSUME NodesInv, NEW k \in Kinds,
         \/ \E ok, threaded \in BOOLEAN : Nodes!Start(k, ok, threaded)
         \/ \E step \in {"module", "device", "operations", "format", "capacity", "none"} : Nodes!Create(k, step)
         \/ Nodes!Destroy(k) \/ Nodes!Destroyed(k) \/ Nodes!Stop(k) \/ Nodes!Stopped(k)
         \/ Nodes!Wait(k) \/ Nodes!Deliver(k) \/ Nodes!Fail(k)
  PROVE  /\ NodesInv'
         /\ \A j \in Kinds : nodThread[j] = "ended" => nodThread'[j] \in {"ended", "off"}
<1> DEFINE Others == \A j \in Kinds \ {k} :
             /\ nodLife'[j] = nodLife[j] /\ nodOpen'[j] = nodOpen[j] /\ nodRunning'[j] = nodRunning[j]
             /\ nodDevice'[j] = nodDevice[j] /\ nodHandler'[j] = nodHandler[j]
             /\ nodThread'[j] = nodThread[j] /\ nodStopping'[j] = nodStopping[j]
           Good == NodesTyped' /\ Others /\ NodeFine(k)' /\ (nodThread[k] = "ended" => nodThread'[k] \in {"ended", "off"})
<1>1. NodesTyped /\ NodeFine(k)
  BY DEF NodesInv
<1>2. ASSUME NEW ok \in BOOLEAN, NEW threaded \in BOOLEAN, Nodes!Start(k, ok, threaded) PROVE Good
  BY <1>1, <1>2 DEF NodesTyped, NodeFine, Nodes!Start, Nodes!HalStart, Nodes!Set, Nodes!node
<1>3. ASSUME NEW step \in {"module", "device", "operations", "format", "capacity", "none"}, Nodes!Create(k, step)
      PROVE  Good
  BY <1>1, <1>3 DEF NodesTyped, NodeFine, Nodes!Create, Nodes!Closed, Nodes!Set
<1>4. CASE Nodes!Destroy(k)
  <2>1. Good
    BY <1>1, <1>4 DEF NodesTyped, NodeFine, Nodes!Destroy, Nodes!Set
  <2> QED
    BY <2>1 DEF NodesInv, NodeFine
<1>5. CASE Nodes!Destroyed(k)
  <2>1. Good
    BY <1>1, <1>5 DEF NodesTyped, NodeFine, Nodes!Destroyed, Nodes!Set
  <2> QED
    BY <2>1 DEF NodesInv, NodeFine
<1>6. CASE Nodes!Stop(k)
  <2>1. Good
    <3>1. NodesTyped' /\ Others
      BY <1>1, <1>6 DEF NodesTyped, Nodes!Stop, Nodes!Set, Nodes!node
    <3>2. NodeFine(k)'
      <4>1. CASE k = "encoder"
        BY <1>1, <1>6, <4>1 DEF NodesTyped, NodeFine, Nodes!Stop, Nodes!Set, Nodes!node
      <4>2. CASE k # "encoder"
        BY <1>1, <1>6, <4>2 DEF NodesTyped, NodeFine, Nodes!Stop, Nodes!Set, Nodes!node
      <4> QED
        BY <4>1, <4>2
    <3>3. nodThread[k] = "ended" => nodThread'[k] \in {"ended", "off"}
      BY <1>1, <1>6 DEF NodesTyped, Nodes!Stop, Nodes!Set, Nodes!node
    <3> QED
      BY <3>1, <3>2, <3>3
  <2> QED
    BY <2>1 DEF NodesInv, NodeFine
<1>7. CASE Nodes!Stopped(k)
  <2>1. Good
    <3>1. NodesTyped' /\ Others
      BY <1>1, <1>7 DEF NodesTyped, Nodes!Stopped, Nodes!Set, Nodes!node
    <3>2. NodeFine(k)'
      <4>1. CASE k = "encoder"
        BY <1>1, <1>7, <4>1 DEF NodesTyped, NodeFine, Nodes!Stopped, Nodes!Set, Nodes!node
      <4>2. CASE k # "encoder"
        BY <1>1, <1>7, <4>2 DEF NodesTyped, NodeFine, Nodes!Stopped, Nodes!Set, Nodes!node
      <4> QED
        BY <4>1, <4>2
    <3>3. nodThread[k] = "ended" => nodThread'[k] \in {"ended", "off"}
      BY <1>1, <1>7 DEF NodesTyped, Nodes!Stopped, Nodes!Set, Nodes!node
    <3> QED
      BY <3>1, <3>2, <3>3
  <2> QED
    BY <2>1 DEF NodesInv, NodeFine
<1>8. CASE Nodes!Wait(k) \/ Nodes!Deliver(k)
  <2>1. Good
    BY <1>1, <1>8 DEF NodesTyped, NodeFine, Nodes!Wait, Nodes!Deliver, Nodes!Set, Nodes!node
  <2> QED
    BY <2>1 DEF NodesInv, NodeFine
<1>9. CASE Nodes!Fail(k)
  <2>1. Good
    BY <1>1, <1>9 DEF NodesTyped, NodeFine, Nodes!Fail, Nodes!Set, Nodes!node
  <2> QED
    BY <2>1 DEF NodesInv, NodeFine
<1>10. ASSUME Good
       PROVE  NodesInv' /\ \A j \in Kinds : nodThread[j] = "ended" => nodThread'[j] \in {"ended", "off"}
  BY <1>10 DEF NodesInv, NodeFine
<1> HIDE DEF Good
<1> QED
  BY <1>2, <1>3, <1>4, <1>5, <1>6, <1>7, <1>8, <1>9, <1>10

\* Every step of the nodes keeps the invariant.
LEMMA NodesNext ==
  NodesInv /\ [Nodes!Next]_(Nodes!vars) =>
    /\ NodesInv'
    /\ \A j \in Kinds : nodThread[j] = "ended" => nodThread'[j] \in {"ended", "off"}
<1> SUFFICES ASSUME NodesInv, [Nodes!Next]_(Nodes!vars)
             PROVE  /\ NodesInv'
                    /\ \A j \in Kinds : nodThread[j] = "ended" => nodThread'[j] \in {"ended", "off"}
  OBVIOUS
<1>1. CASE UNCHANGED Nodes!vars
  BY <1>1 DEF NodesInv, NodesTyped, NodeFine, Nodes!vars
<1> QED
  BY <1>1, NodeStep DEF Nodes!Next

\* What the invariant says of the nodes.
LEMMA NodesSay ==
  /\ Nodes!Init => NodesInv
  /\ NodesInv => Nodes!DeliversToHandler /\ Nodes!StoppedHoldsNothing /\ Nodes!OpenWhileAlive
<1>1. Nodes!Init => NodesInv
  BY DEF Nodes!Init, NodesInv, NodesTyped, NodeFine
<1>2. NodesInv => Nodes!DeliversToHandler
  BY DEF NodesInv, NodesTyped, NodeFine, Nodes!DeliversToHandler
<1>3. NodesInv => Nodes!StoppedHoldsNothing
  BY DEF NodesInv, NodesTyped, NodeFine, Nodes!StoppedHoldsNothing
<1>4. NodesInv => Nodes!OpenWhileAlive
  BY DEF NodesInv, NodesTyped, NodeFine, Nodes!OpenWhileAlive
<1> QED
  BY <1>1, <1>2, <1>3, <1>4

\* A set of numbers that is not empty has a least one.
LEMMA LeastOf ==
  ASSUME NEW T, T \subseteq Nat, T # {}
  PROVE  \E x \in T : \A y \in T : x <= y
<1>1. PICK x \in T : \A y \in T : <<y, x>> \notin OpToRel(<, Nat)
  BY NatLessThanWellFounded, WFMin
<1>2. \A y \in T : ~(y < x)
  BY <1>1 DEF OpToRel
<1> QED
  BY <1>2

-----------------------------------------------------------------------------
(* The network manager. *)

NetTyped ==
  /\ netLink \in [Links -> Net!States] /\ netMessages \in Seq(Links \X Net!States)
  /\ netLinkStates \in [Links -> Net!States] /\ netTold \in [Links -> Net!States \cup {Net!Unknown}]
  /\ netOverrun \in BOOLEAN /\ netRunning \in BOOLEAN /\ netWarned \in BOOLEAN
  /\ netDropped \in BOOLEAN /\ netMissed \in BOOLEAN /\ netMentioned \subseteq Links

\* As long as no message was dropped, the last one of a link has its state.
NetTrue ==
  ~netDropped => \A i \in 1 .. Len(netMessages) :
    (\A j \in i + 1 .. Len(netMessages) : netMessages[j][1] # netMessages[i][1]) =>
      netLink[netMessages[i][1]] = netMessages[i][2]

\* The listener knows every link of which no message is to be read...
NetKnown ==
  netRunning /\ ~netDropped => \A l \in netMentioned :
    (\E i \in 1 .. Len(netMessages) : netMessages[i][1] = l) \/ netTold[l] = netLink[l]

\* ...and what the manager remembers; a loss is told or will be.
NetTold ==
  /\ netRunning => \A l \in Links : netLinkStates[l] # "gone" => netTold[l] = netLinkStates[l]
  /\ netOverrun => netDropped
  /\ netRunning /\ ~netMissed /\ netDropped => netOverrun \/ netWarned

NetInv == NetTyped /\ NetTrue /\ NetKnown /\ NetTold

\* The kernel tells of a change, or drops it.
LEMMA NetChange ==
  ASSUME NetInv, NEW l \in Links, NEW state \in Net!States, Net!Change(l, state)
  PROVE  NetInv'
<1>1. /\ netLink' = [netLink EXCEPT ![l] = state] /\ netMentioned' = netMentioned \cup {l}
      /\ \/ netMessages' = Append(netMessages, <<l, state>>) /\ UNCHANGED <<netOverrun, netDropped>>
         \/ netOverrun' = TRUE /\ netDropped' = TRUE /\ UNCHANGED netMessages
      /\ UNCHANGED <<netRunning, netLinkStates, netTold, netWarned, netMissed>>
  BY DEF Net!Change
<1>2. CASE netOverrun' = TRUE /\ netDropped' = TRUE /\ UNCHANGED netMessages
  BY <1>1, <1>2 DEF NetInv, NetTyped, NetTrue, NetKnown, NetTold
<1>3. CASE netMessages' = Append(netMessages, <<l, state>>) /\ UNCHANGED <<netOverrun, netDropped>>
  <2> DEFINE n == Len(netMessages)
  <2>1. /\ n \in Nat /\ Len(netMessages') = n + 1 /\ netMessages'[n + 1] = <<l, state>>
        /\ \A i \in 1 .. n : netMessages'[i] = netMessages[i]
        /\ netMessages' \in Seq(Links \X Net!States)
    BY <1>3 DEF NetInv, NetTyped
  <2>2. \A i \in 1 .. n : netMessages[i] \in Links \X Net!States
    BY DEF NetInv, NetTyped
  <2> HIDE DEF n
  <2>3. NetTyped'
    BY <1>1, <1>3, <2>1 DEF NetInv, NetTyped
  <2>4. NetTrue'
    <3> SUFFICES ASSUME ~netDropped', NEW i \in 1 .. n + 1,
                        \A j \in i + 1 .. n + 1 : netMessages'[j][1] # netMessages'[i][1]
                 PROVE  netLink'[netMessages'[i][1]] = netMessages'[i][2]
      BY <2>1 DEF NetTrue
    <3>1. CASE i = n + 1
      BY <1>1, <2>1, <3>1 DEF NetInv, NetTyped
    <3>2. CASE i # n + 1
      <4>1. i \in 1 .. n /\ n + 1 \in i + 1 .. n + 1
        BY <2>1, <3>2
      <4>2. netMessages[i][1] # l /\ netMessages[i][1] \in Links
        BY <2>1, <2>2, <4>1
      <4>3. \A j \in i + 1 .. n : netMessages[j][1] # netMessages[i][1]
        BY <2>1, <4>1
      <4>4. netLink[netMessages[i][1]] = netMessages[i][2]
        BY <1>3, <4>1, <4>3 DEF NetInv, NetTrue, n
      <4> QED
        BY <1>1, <2>1, <4>1, <4>2, <4>4 DEF NetInv, NetTyped
    <3> QED
      BY <3>1, <3>2
  <2>5. NetKnown'
    <3> SUFFICES ASSUME netRunning', ~netDropped', NEW m \in netMentioned'
                 PROVE  (\E i \in 1 .. n + 1 : netMessages'[i][1] = m) \/ netTold'[m] = netLink'[m]
      BY <2>1 DEF NetKnown
    <3>1. CASE m = l
      BY <2>1, <3>1
    <3>2. CASE m # l
      <4>1. (\E i \in 1 .. n : netMessages[i][1] = m) \/ netTold[m] = netLink[m]
        BY <1>1, <1>3, <3>2 DEF NetInv, NetKnown, n
      <4>2. m \in Links
        BY <1>1, <3>2 DEF NetInv, NetTyped
      <4> QED
        BY <1>1, <2>1, <3>2, <4>1, <4>2 DEF NetInv, NetTyped
    <3> QED
      BY <3>1, <3>2
  <2>6. NetTold'
    BY <1>1, <1>3 DEF NetInv, NetTold
  <2> QED
    BY <2>3, <2>4, <2>5, <2>6 DEF NetInv
<1> QED
  BY <1>1, <1>2, <1>3

\* A message is read, and reported if it says something new.
LEMMA NetReceive ==
  ASSUME NetInv, Net!Receive
  PROVE  NetInv'
<1> DEFINE n == Len(netMessages)
           l == netMessages[1][1]
           state == netMessages[1][2]
<1>1. /\ netMessages # <<>> /\ Net!ParseLink(l, state) /\ netMessages' = Tail(netMessages)
      /\ UNCHANGED <<netLink, netOverrun, netDropped, netWarned, netMentioned, netMissed>>
  BY DEF Net!Receive
<1>2. /\ n \in Nat \ {0} /\ Len(netMessages') = n - 1 /\ netMessages' \in Seq(Links \X Net!States)
      /\ \A i \in 1 .. n - 1 : netMessages'[i] = netMessages[i + 1]
  BY <1>1 DEF NetInv, NetTyped
<1>3. l \in Links /\ state \in Net!States
  BY <1>1, <1>2 DEF NetInv, NetTyped
<1> HIDE DEF n, l, state
<1>4. /\ netRunning' => netRunning /\ netTold'[l] = state
                        /\ \A k \in Links : k # l => netTold'[k] = netTold[k]
      /\ netRunning' \in BOOLEAN /\ netLinkStates' \in [Links -> Net!States]
      /\ netTold' \in [Links -> Net!States \cup {Net!Unknown}]
      /\ netLinkStates'[l] = state /\ \A k \in Links : k # l => netLinkStates'[k] = netLinkStates[k]
  <2>1. CASE state # "gone" /\ netLinkStates[l] = state
    <3>1. UNCHANGED <<netLinkStates, netTold, netRunning>>
      BY <1>1, <2>1 DEF Net!ParseLink
    <3>2. netRunning => netTold[l] = state
      BY <1>3, <2>1 DEF NetInv, NetTold
    <3> QED
      BY <2>1, <3>1, <3>2 DEF NetInv, NetTyped
  <2>2. CASE ~(state # "gone" /\ netLinkStates[l] = state)
    <3>1. netLinkStates' = [netLinkStates EXCEPT ![l] = state] /\ Net!Publish(l, state)
      BY <1>1, <2>2 DEF Net!ParseLink
    <3>2. CASE netRunning
      <4>1. netTold' = [netTold EXCEPT ![l] = state] /\ netRunning' \in BOOLEAN
        BY <3>1, <3>2 DEF Net!Publish
      <4> QED
        BY <1>3, <3>1, <3>2, <4>1 DEF NetInv, NetTyped
    <3>3. CASE ~netRunning
      <4>1. UNCHANGED <<netTold, netRunning>>
        BY <3>1, <3>3 DEF Net!Publish
      <4> QED
        BY <1>3, <3>1, <3>3, <4>1 DEF NetInv, NetTyped
    <3> QED
      BY <3>2, <3>3
  <2> QED
    BY <2>1, <2>2
<1>5. NetTyped'
  BY <1>1, <1>2, <1>4 DEF NetInv, NetTyped
<1>6. NetTrue'
  <2> SUFFICES ASSUME ~netDropped', NEW i \in 1 .. n - 1,
                      \A j \in i + 1 .. n - 1 : netMessages'[j][1] # netMessages'[i][1]
               PROVE  netLink'[netMessages'[i][1]] = netMessages'[i][2]
    BY <1>2 DEF NetTrue
  <2>1. i + 1 \in 1 .. n /\ netMessages'[i] = netMessages[i + 1]
    BY <1>2
  <2>2. ASSUME NEW j \in i + 1 + 1 .. n PROVE netMessages[j][1] # netMessages[i + 1][1]
    <3>1. j - 1 \in i + 1 .. n - 1 /\ j - 1 \in 1 .. n - 1 /\ (j - 1) + 1 = j
      BY <1>2
    <3>2. netMessages'[j - 1] = netMessages[(j - 1) + 1]
      BY <1>2, <3>1
    <3> QED
      BY <2>1, <3>1, <3>2
  <2>3. netLink[netMessages[i + 1][1]] = netMessages[i + 1][2]
    BY <1>1, <2>1, <2>2 DEF NetInv, NetTrue, n
  <2> QED
    BY <1>1, <2>1, <2>3
<1>7. NetKnown'
  <2> SUFFICES ASSUME netRunning', ~netDropped', NEW m \in netMentioned'
               PROVE  (\E i \in 1 .. n - 1 : netMessages'[i][1] = m) \/ netTold'[m] = netLink'[m]
    BY <1>2 DEF NetKnown
  <2>1. netRunning /\ ~netDropped /\ m \in netMentioned /\ m \in Links /\ netLink' = netLink
    BY <1>1, <1>4 DEF NetInv, NetTyped
  <2>2. (\E i \in 1 .. n : netMessages[i][1] = m) \/ netTold[m] = netLink[m]
    BY <2>1 DEF NetInv, NetKnown, n
  <2>3. ASSUME NEW i \in 1 .. n, netMessages[i][1] = m, i # 1
        PROVE  \E k \in 1 .. n - 1 : netMessages'[k][1] = m
    <3>1. i - 1 \in 1 .. n - 1 /\ (i - 1) + 1 = i
      BY <1>2, <2>3
    <3>2. netMessages'[i - 1] = netMessages[(i - 1) + 1]
      BY <1>2, <3>1
    <3> QED
      BY <2>3, <3>1, <3>2
  <2>4. CASE \A i \in 1 .. n : netMessages[i][1] = m => i = 1
    <3>1. CASE m = l
      <4>1. 1 \in 1 .. n /\ \A j \in 1 + 1 .. n : netMessages[j][1] # netMessages[1][1]
        BY <1>2, <2>4, <3>1 DEF l
      <4>2. netLink[netMessages[1][1]] = netMessages[1][2]
        BY <2>1, <4>1 DEF NetInv, NetTrue, n
      <4> QED
        BY <1>4, <2>1, <3>1, <4>2 DEF l, state
    <3>2. CASE m # l
      <4>1. ~\E i \in 1 .. n : netMessages[i][1] = m
        BY <2>4, <3>2 DEF l
      <4> QED
        BY <1>4, <2>1, <2>2, <3>2, <4>1
    <3> QED
      BY <3>1, <3>2
  <2> QED
    BY <2>3, <2>4
<1>8. NetTold'
  BY <1>1, <1>3, <1>4 DEF NetInv, NetTold
<1> QED
  BY <1>5, <1>6, <1>7, <1>8 DEF NetInv

\* Every step of the network manager keeps the invariant.
LEMMA NetNext == NetInv /\ [Net!Next]_(Net!vars) => NetInv'
<1> SUFFICES ASSUME NetInv, [Net!Next]_(Net!vars) PROVE NetInv'
  OBVIOUS
<1>1. CASE Net!Start
  <2>1. /\ netLinkStates' = [l \in Links |-> "gone"] /\ netTold' = [l \in Links |-> Net!Unknown]
        /\ netRunning' = TRUE /\ netWarned' = FALSE /\ netMissed' = netDropped
        /\ netMentioned' = {netMessages[i][1] : i \in DOMAIN netMessages}
        /\ UNCHANGED <<netLink, netMessages, netOverrun, netDropped>>
    BY <1>1 DEF Net!Start, Net!kernelVars
  <2>2. \A i \in DOMAIN netMessages : i \in 1 .. Len(netMessages) /\ netMessages[i][1] \in Links
    BY DEF NetInv, NetTyped
  <2>3. NetTyped'
    BY <2>1, <2>2 DEF NetInv, NetTyped, Net!States
  <2>4. NetTrue' /\ NetTold'
    BY <2>1 DEF NetInv, NetTrue, NetTold
  <2>5. NetKnown'
    BY <2>1, <2>2 DEF NetKnown
  <2> QED
    BY <2>3, <2>4, <2>5 DEF NetInv
<1>2. CASE Net!Stop \/ Net!Ready
  <2>1. /\ netRunning' \in BOOLEAN /\ (netRunning' => netRunning)
        /\ UNCHANGED <<netLink, netMessages, netOverrun, netDropped, netLinkStates, netTold, netWarned,
                       netMentioned, netMissed>>
    BY <1>2 DEF Net!Stop, Net!Ready, Net!kernelVars, NetInv, NetTyped
  <2>2. NetTyped'
    BY <2>1 DEF NetInv, NetTyped
  <2>3. NetTrue'
    BY <2>1 DEF NetInv, NetTrue
  <2>4. NetKnown'
    BY <2>1 DEF NetInv, NetKnown
  <2>5. NetTold'
    BY <2>1 DEF NetInv, NetTold
  <2> QED
    BY <2>2, <2>3, <2>4, <2>5 DEF NetInv
<1>3. CASE Net!Rearm
  <2>1. /\ UNCHANGED <<netLink, netMessages, netDropped, netLinkStates, netTold, netMentioned, netMissed>>
        /\ netOverrun' = FALSE /\ (netRunning' => netRunning) /\ netRunning' \in BOOLEAN /\ netWarned' \in BOOLEAN
        /\ netRunning' /\ (netOverrun \/ netWarned) => netWarned'
    <3>1. CASE /\ netWarned' = (netWarned \/ (netOverrun /\ netRunning)) /\ netWatched' = netRunning
               /\ UNCHANGED netRunning
      BY <1>3, <3>1 DEF Net!Rearm, NetInv, NetTyped
    <3>2. CASE netWarned' = netRunning /\ netWatched' = FALSE /\ netRunning' = FALSE
      BY <1>3, <3>2 DEF Net!Rearm, NetInv, NetTyped
    <3> QED
      BY <1>3, <3>1, <3>2 DEF Net!Rearm
  <2>2. NetTyped'
    BY <2>1 DEF NetInv, NetTyped
  <2>3. NetTrue'
    BY <2>1 DEF NetInv, NetTrue
  <2>4. NetKnown'
    BY <2>1 DEF NetInv, NetKnown
  <2>5. NetTold'
    BY <2>1 DEF NetInv, NetTold
  <2> QED
    BY <2>2, <2>3, <2>4, <2>5 DEF NetInv
<1>4. CASE UNCHANGED Net!vars
  BY <1>4 DEF NetInv, NetTyped, NetTrue, NetKnown, NetTold, Net!vars
<1> QED
  BY <1>1, <1>2, <1>3, <1>4, NetChange, NetReceive DEF Net!Next

\* What the invariant says of the network manager.
LEMMA NetSays ==
  /\ Net!Init => NetInv
  /\ NetInv => Net!KnowsOrIsWarned
<1>1. Net!Init => NetInv
  <2> SUFFICES ASSUME Net!Init PROVE NetInv
    OBVIOUS
  <2>1. NetTyped
    <3>1. netMessages \in Seq(Links \X Net!States)
      BY DEF Net!Init
    <3>2. /\ netLink \in [Links -> Net!States] /\ netLinkStates \in [Links -> Net!States]
          /\ netTold \in [Links -> Net!States \cup {Net!Unknown}]
      BY DEF Net!Init, Net!States
    <3> QED
      BY <3>1, <3>2 DEF Net!Init, NetTyped
  <2> QED
    BY <2>1 DEF Net!Init, NetInv, NetTrue, NetKnown, NetTold
<1>2. NetInv => Net!KnowsOrIsWarned
  <2> SUFFICES ASSUME NetInv, netRunning, ~Net!Unread, ~netWarned, ~netMissed, NEW l \in netMentioned
               PROVE  netTold[l] = netLink[l]
    BY DEF Net!KnowsOrIsWarned
  <2>1. netMessages = <<>> /\ ~netOverrun
    BY DEF Net!Unread
  <2>2. ~netDropped
    BY <2>1 DEF NetInv, NetTold
  <2> QED
    BY <2>1, <2>2 DEF NetInv, NetKnown
<1> QED
  BY <1>1, <1>2

-----------------------------------------------------------------------------
(* The sensors. *)

\* The wait of a poll() ends with its limit, and with the reading of each active
\* sensor that has not been hastened; no time is longer than Never.
SensingInv ==
  /\ senEnabled \subseteq Sensors /\ senAt \in {"out", "look", "waiting"}
  /\ senDelay \in [Sensors -> 0 .. MaxDelay] /\ senDue \in [Sensors -> 0 .. MaxDelay]
  /\ senDeadline \in 0 .. Sensing!Never /\ senUntil \in 0 .. Sensing!Never
  /\ Sensing!WakesInTime

\* The earliest reading is that of an active sensor, or none is active.
LEMMA EarliestIs ==
  ASSUME SensingInv
  PROVE  /\ Sensing!Earliest \in 0 .. Sensing!Never
         /\ \A s \in senEnabled : Sensing!Earliest <= senDue[s]
<1> DEFINE T == {senDue[s] : s \in senEnabled}
           Fits(t) == \A s \in senEnabled : t <= senDue[s]
<1>1. Sensing!Never \in Nat /\ MaxDelay \in Nat /\ MaxDelay <= Sensing!Never
  BY DeviceAssumption DEF Sensing!Never
<1>2. T \subseteq 0 .. MaxDelay
  BY DEF SensingInv
<1>3. \E t \in {Sensing!Never} \cup T : Fits(t)
  <2>1. CASE senEnabled = {}
    BY <2>1
  <2>2. CASE senEnabled # {}
    <3>1. T # {} /\ T \subseteq Nat
      BY <1>1, <1>2, <2>2
    <3>2. PICK t \in T : \A y \in T : t <= y
      BY <3>1, LeastOf
    <3> QED
      BY <3>2
  <2> QED
    BY <2>1, <2>2
<1>4. Sensing!Earliest = CHOOSE t \in {Sensing!Never} \cup T : Fits(t)
  BY DEF Sensing!Earliest
<1> HIDE DEF T, Fits
<1>5. Sensing!Earliest \in {Sensing!Never} \cup T /\ Fits(Sensing!Earliest)
  BY <1>3, <1>4
<1> QED
  BY <1>1, <1>2, <1>5 DEF Fits

\* Every step of the sensors keeps the invariant.
LEMMA SensingNext == SensingInv /\ [Sensing!Next]_(Sensing!vars) => SensingInv'
<1> SUFFICES ASSUME SensingInv, [Sensing!Next]_(Sensing!vars) PROVE SensingInv'
  OBVIOUS
<1>0. MaxDelay \in Nat /\ MaxTimeout \in Nat /\ Sensing!Never = MaxDelay + MaxTimeout + 1
  BY DeviceAssumption DEF Sensing!Never
<1>1. ASSUME NEW s \in Sensors, NEW on \in BOOLEAN, Sensing!Activate(s, on) PROVE SensingInv'
  BY <1>0, <1>1 DEF SensingInv, Sensing!Activate, Sensing!Broadcast, Sensing!WakesInTime
<1>2. ASSUME NEW s \in Sensors, NEW d \in 1 .. MaxDelay, Sensing!SetDelay(s, d) PROVE SensingInv'
  BY <1>0, <1>2 DEF SensingInv, Sensing!SetDelay, Sensing!WakesInTime
<1>3. ASSUME NEW n, NEW timeout \in (0 .. MaxTimeout) \cup {Sensing!Never}, Sensing!Poll(n, timeout)
    PROVE  SensingInv'
  BY <1>0, <1>3 DEF SensingInv, Sensing!Poll, Sensing!WakesInTime
<1>4. CASE Sensing!Report
  BY <1>0, <1>4 DEF SensingInv, Sensing!Report, Sensing!WakesInTime
<1>5. CASE Sensing!TimeOut
  BY <1>5 DEF SensingInv, Sensing!TimeOut, Sensing!WakesInTime
<1>6. CASE Sensing!Wait
  <2>1. senUntil' = Sensing!Least(Sensing!Earliest, senDeadline) /\ senHastened' = {} /\ senAt' = "waiting"
        /\ UNCHANGED <<senEnabled, senDelay, senDue, senDeadline>>
    BY <1>6 DEF Sensing!Wait
  <2>2. /\ senUntil' \in 0 .. Sensing!Never /\ senUntil' <= senDeadline
        /\ \A s \in senEnabled : senUntil' <= senDue[s]
    BY <1>0, <2>1, EarliestIs DEF SensingInv, Sensing!Least
  <2> QED
    BY <2>1, <2>2 DEF SensingInv, Sensing!WakesInTime
<1>7. CASE Sensing!Expire \/ Sensing!ExpireEarly
  BY <1>7 DEF SensingInv, Sensing!Expire, Sensing!ExpireEarly, Sensing!WakesInTime
<1>8. CASE Sensing!Tick
  <2>1. /\ senDue' = [s \in Sensors |-> IF s \in senEnabled THEN Sensing!Sooner(senDue[s]) ELSE senDue[s]]
        /\ senDeadline' = (IF senAt = "out" THEN senDeadline ELSE Sensing!Sooner(senDeadline))
        /\ senUntil' = (IF senAt = "waiting" THEN Sensing!Sooner(senUntil) ELSE senUntil)
        /\ UNCHANGED <<senEnabled, senDelay, senAt, senHastened>>
    BY <1>8 DEF Sensing!Tick
  <2>2. \A t \in 0 .. Sensing!Never : Sensing!Sooner(t) = (IF t = 0 \/ t = Sensing!Never THEN t ELSE t - 1)
    BY DEF Sensing!Sooner
  <2>3. \A s \in Sensors : senDue[s] \in 0 .. MaxDelay /\ senDue[s] \in 0 .. Sensing!Never /\ senDue[s] < Sensing!Never
    BY <1>0 DEF SensingInv
  <2>4. senDue' \in [Sensors -> 0 .. MaxDelay]
    BY <1>0, <2>1, <2>2, <2>3
  <2>5. senDeadline' \in 0 .. Sensing!Never /\ senUntil' \in 0 .. Sensing!Never
    BY <1>0, <2>1, <2>2 DEF SensingInv
  <2>6. Sensing!WakesInTime'
    <3> SUFFICES ASSUME senAt = "waiting"
                 PROVE  senUntil' <= senDeadline' /\ \A s \in senEnabled \ senHastened : senUntil' <= senDue'[s]
      BY <2>1 DEF Sensing!WakesInTime
    <3>1. senUntil' <= senDeadline'
      BY <1>0, <2>1, <2>2 DEF SensingInv, Sensing!WakesInTime
    <3>2. ASSUME NEW s \in senEnabled \ senHastened PROVE senUntil' <= senDue'[s]
      <4>1. s \in Sensors /\ senUntil <= senDue[s] /\ senDue'[s] = Sensing!Sooner(senDue[s])
        BY <2>1, <3>2 DEF SensingInv, Sensing!WakesInTime
      <4> QED
        BY <1>0, <2>1, <2>2, <2>3, <4>1 DEF SensingInv
    <3> QED
      BY <3>1, <3>2
  <2> QED
    BY <2>1, <2>4, <2>5, <2>6 DEF SensingInv
<1>9. CASE UNCHANGED Sensing!vars
  BY <1>9 DEF SensingInv, Sensing!vars, Sensing!WakesInTime
<1> QED
  BY <1>1, <1>2, <1>3, <1>4, <1>5, <1>6, <1>7, <1>8, <1>9 DEF Sensing!Next, Sensing!PollStep

\* At first no sensor is active.
LEMMA SensingInit == Sensing!Init => SensingInv
<1>0. MaxDelay \in Nat /\ MaxTimeout \in Nat /\ Sensing!Never = MaxDelay + MaxTimeout + 1
  BY DeviceAssumption DEF Sensing!Never
<1> QED
  BY <1>0 DEF Sensing!Init, SensingInv, Sensing!WakesInTime

-----------------------------------------------------------------------------
(* The audio source. *)

\* Samples are spaced as their numbers are, and come before the time c.
Spaced(s, c) ==
  /\ \A i, j \in 1 .. Len(s) : i <= j => s[j] - s[i] >= j - i
  /\ \A i \in 1 .. Len(s) : s[i] + (Len(s) - i) < c

SourceTyped ==
  /\ srcStarted \in BOOLEAN /\ srcRunning \in BOOLEAN /\ srcStopping \in BOOLEAN
  /\ srcDevice \in BOOLEAN /\ srcHandler \in BOOLEAN /\ srcThread \in {"off", "read", "deliver"}
  /\ srcPending \in Seq(Nat) /\ srcStamp \in Nat /\ srcClock \in 0 .. MaxClock
  /\ srcLast.samples \in Seq(Nat) /\ srcLast.stamp \in Int
\* A run has a thread only between its start and the end of its stop().
SourceRuns ==
  /\ (srcStopping => srcStarted) /\ (srcThread # "off" => srcStarted)
  /\ (srcStarted <=> srcDevice) /\ (srcStarted <=> srcHandler)
  /\ ~srcStarted => srcPending = <<>>
\* What is pending is stamped with a time at which its first sample was captured.
SourcePends ==
  /\ Len(srcPending) = srcUnread /\ Spaced(srcPending, srcClock)
  /\ srcPending # <<>> => srcStamp <= srcPending[1]
\* The last frame comes before all that is pending, also in time.
SourceDelivered ==
  IF srcLast = Source!NoFrame THEN TRUE
  ELSE /\ Len(srcLast.samples) = Frame /\ Spaced(srcLast.samples, srcClock)
       /\ srcLast.stamp \in Nat /\ srcLast.stamp <= srcLast.samples[1]
       /\ \A i \in 1 .. Frame, j \in 1 .. Len(srcPending) : srcLast.samples[i] < srcPending[j]
       /\ srcPending # <<>> => srcStamp >= srcLast.stamp + Frame

SourceInv == SourceTyped /\ SourceRuns /\ SourcePends /\ SourceDelivered

\* The frame that is handed on is later than the last one.
SourceForward ==
  srcLast' # srcLast => /\ \A i \in 1 .. Len(srcLast.samples) : srcLast.samples[i] < srcLast'.samples[1]
                        /\ srcLast'.stamp >= srcLast.stamp + (IF srcLast = Source!NoFrame THEN 0 ELSE Frame)

\* As the clock goes on, what was captured stays so.
LEMMA SpacedLater ==
  ASSUME NEW s \in Seq(Nat), NEW c \in Int, NEW d \in Int, c <= d, Spaced(s, c)
  PROVE  Spaced(s, d)
<1>1. Len(s) \in Nat /\ \A i \in 1 .. Len(s) : s[i] \in Nat
  OBVIOUS
<1> QED
  BY <1>1 DEF Spaced

\* A chunk is read behind what is pending.
LEMMA SourceRead ==
  ASSUME SourceInv, NEW size \in 1 .. MaxChunk, Source!Read(size)
  PROVE  SourceInv' /\ SourceForward
<1> DEFINE chunk == [i \in 1 .. size |-> srcClock + i - 1]
           n == Len(srcPending)
<1>0. MaxChunk \in Nat /\ MaxClock \in Nat /\ Frame \in Nat \ {0}
  BY DeviceAssumption
<1>1. /\ srcThread = "read" /\ srcClock + size <= MaxClock
      /\ srcPending' = srcPending \o chunk /\ srcStamp' = (IF srcPending = <<>> THEN srcClock ELSE srcStamp)
      /\ srcClock' = srcClock + size /\ srcUnread' = srcUnread + size
      /\ srcThread' = "deliver"
      /\ UNCHANGED <<srcStarted, srcRunning, srcStopping, srcDevice, srcHandler, srcLast>>
  BY DEF Source!Read, Source!Goes, Source!Stamped
<1>2. srcClock \in Nat /\ size \in Nat \ {0} /\ n \in Nat /\ srcPending \in Seq(Nat)
  BY <1>0 DEF SourceInv, SourceTyped
<1>3. chunk \in Seq(Nat) /\ Len(chunk) = size
  BY <1>2
<1>4. /\ srcPending' \in Seq(Nat) /\ Len(srcPending') = n + size
      /\ \A i \in 1 .. n + size : srcPending'[i] = IF i <= n THEN srcPending[i] ELSE chunk[i - n]
  BY <1>1, <1>2, <1>3, ConcatProperties
<1>5. \A i \in 1 .. size : chunk[i] = srcClock + i - 1
  OBVIOUS
<1> HIDE DEF chunk, n
<1>6. \A i \in 1 .. n + size : srcPending'[i] = IF i <= n THEN srcPending[i] ELSE srcClock + (i - n) - 1
  <2> TAKE i \in 1 .. n + size
  <2>1. CASE i <= n
    BY <1>4, <2>1
  <2>2. CASE ~(i <= n)
    <3>1. i - n \in 1 .. size
      BY <1>2, <2>2
    <3> QED
      BY <1>4, <1>5, <2>2, <3>1
  <2> QED
    BY <2>1, <2>2
<1>7. /\ \A i, j \in 1 .. n : i <= j => srcPending[j] - srcPending[i] >= j - i
      /\ \A i \in 1 .. n : srcPending[i] \in Nat /\ srcPending[i] + (n - i) < srcClock
      /\ n = srcUnread
  BY <1>2 DEF SourceInv, SourcePends, Spaced, n
<1>8. Spaced(srcPending', srcClock')
  <2>1. ASSUME NEW i \in 1 .. n + size, NEW j \in 1 .. n + size, i <= j
        PROVE  srcPending'[j] - srcPending'[i] >= j - i
    <3>1. CASE j <= n
      <4>1. i \in 1 .. n /\ j \in 1 .. n
        BY <1>2, <2>1, <3>1
      <4> QED
        BY <1>6, <1>7, <2>1, <3>1, <4>1
    <3>2. CASE ~(j <= n) /\ i <= n
      <4>1. i \in 1 .. n
        BY <1>2, <3>2
      <4>2. srcPending'[i] = srcPending[i] /\ srcPending'[j] = srcClock + (j - n) - 1
        BY <1>6, <3>2
      <4>3. srcPending[i] \in Nat /\ srcPending[i] + (n - i) < srcClock
        BY <1>7, <4>1
      <4> QED
        BY <1>2, <4>2, <4>3
    <3>3. CASE ~(i <= n)
      <4>1. srcPending'[i] = srcClock + (i - n) - 1 /\ srcPending'[j] = srcClock + (j - n) - 1
        BY <1>2, <1>6, <2>1, <3>3
      <4> QED
        BY <1>2, <4>1
    <3> QED
      BY <3>1, <3>2, <3>3
  <2>2. ASSUME NEW i \in 1 .. n + size PROVE srcPending'[i] + (n + size - i) < srcClock'
    <3>1. CASE i <= n
      <4>1. i \in 1 .. n
        BY <1>2, <3>1
      <4>2. srcPending[i] \in Nat /\ srcPending[i] + (n - i) < srcClock /\ srcPending'[i] = srcPending[i]
        BY <1>6, <1>7, <3>1, <4>1
      <4> QED
        BY <1>1, <1>2, <4>2, SMTT(30)
    <3>2. CASE ~(i <= n)
      <4>1. srcPending'[i] = srcClock + (i - n) - 1
        BY <1>6, <3>2
      <4> QED
        BY <1>1, <1>2, <4>1
    <3> QED
      BY <3>1, <3>2
  <2> DEFINE q == srcPending'
             m == n + size
             c == srcClock'
  <2>3. Len(q) = m /\ \A i, j \in 1 .. m : i <= j => q[j] - q[i] >= j - i
    BY <1>4, <2>1
  <2>4. \A i \in 1 .. m : q[i] + (m - i) < c
    <3> TAKE i \in 1 .. m
    <3>1. n + (size - i) = m - i
      BY <1>2
    <3> QED
      BY <2>2, <3>1
  <2>5. Spaced(q, c)
    <3> HIDE DEF q, m, c
    <3> QED
      BY <2>3, <2>4 DEF Spaced
  <2> QED
    BY <2>5
<1>9. SourcePends'
  <2>1. Len(srcPending') = srcUnread'
    BY <1>1, <1>4, <1>7
  <2>2. srcStamp' <= srcPending'[1]
    <3>1. 1 \in 1 .. n + size
      BY <1>2
    <3>2. CASE n = 0
      <4>1. srcPending = <<>> /\ srcPending'[1] = srcClock
        BY <1>2, <1>6, <3>1, <3>2 DEF n
      <4> QED
        BY <1>1, <1>2, <4>1
    <3>3. CASE n # 0
      <4>1. srcPending # <<>> /\ srcPending'[1] = srcPending[1]
        BY <1>2, <1>6, <3>1, <3>3 DEF n
      <4> QED
        BY <1>1, <4>1 DEF SourceInv, SourcePends
    <3> QED
      BY <3>2, <3>3
  <2> QED
    BY <1>8, <2>1, <2>2 DEF SourcePends
<1>10. SourceDelivered'
  <2> SUFFICES ASSUME srcLast # Source!NoFrame PROVE SourceDelivered'
    BY <1>1 DEF SourceDelivered, Source!NoFrame
  <2>1. /\ Len(srcLast.samples) = Frame /\ Spaced(srcLast.samples, srcClock)
        /\ srcLast.stamp \in Nat /\ srcLast.stamp <= srcLast.samples[1]
        /\ \A i \in 1 .. Frame, j \in 1 .. n : srcLast.samples[i] < srcPending[j]
        /\ srcPending # <<>> => srcStamp >= srcLast.stamp + Frame
        /\ srcLast.samples \in Seq(Nat)
    BY DEF SourceInv, SourceDelivered, SourceTyped, n
  <2>2. \A i \in 1 .. Frame : srcLast.samples[i] \in Nat /\ srcLast.samples[i] + (Frame - i) < srcClock
    <3> DEFINE q == srcLast.samples
    <3>1. q \in Seq(Nat) /\ Len(q) = Frame /\ Spaced(q, srcClock)
      BY <2>1
    <3> HIDE DEF q
    <3>2. \A i \in 1 .. Frame : q[i] \in Nat /\ q[i] + (Frame - i) < srcClock
      BY <3>1 DEF Spaced
    <3> QED
      BY <3>2 DEF q
  <2>3. Spaced(srcLast.samples, srcClock')
    BY <1>1, <1>2, <2>1, SpacedLater
  <2>4. ASSUME NEW i \in 1 .. Frame, NEW j \in 1 .. n + size PROVE srcLast.samples[i] < srcPending'[j]
    <3>1. CASE j <= n
      <4>1. j \in 1 .. n
        BY <1>2, <3>1
      <4> QED
        BY <1>6, <2>1, <3>1, <4>1
    <3>2. CASE ~(j <= n)
      <4>1. srcPending'[j] = srcClock + (j - n) - 1
        BY <1>6, <3>2
      <4>2. srcLast.samples[i] \in Nat /\ srcLast.samples[i] + (Frame - i) < srcClock
        BY <2>2
      <4> QED
        BY <1>0, <1>2, <3>2, <4>1, <4>2
    <3> QED
      BY <3>1, <3>2
  <2>5. srcStamp' >= srcLast.stamp + Frame
    <3>1. 1 \in 1 .. Frame /\ Frame \in 1 .. Frame
      BY <1>0
    <3>2. srcLast.samples[1] \in Nat /\ srcLast.samples[1] + (Frame - 1) < srcClock
      BY <2>2, <3>1
    <3>3. srcLast.stamp + Frame <= srcClock
      BY <1>0, <1>2, <2>1, <3>2
    <3> QED
      BY <1>1, <2>1, <3>3
  <2> QED
    BY <1>1, <1>4, <2>1, <2>3, <2>4, <2>5 DEF SourceDelivered
<1>11. SourceTyped'
  BY <1>0, <1>1, <1>2, <1>4 DEF SourceInv, SourceTyped
<1>12. SourceRuns' /\ SourceForward
  BY <1>1 DEF SourceInv, SourceRuns, SourceForward
<1> QED
  BY <1>9, <1>10, <1>11, <1>12 DEF SourceInv
\* Taking frames off the front of what is pending.
LEMMA SourceDeliver ==
  ASSUME SourceInv, Source!Deliver PROVE SourceInv' /\ SourceForward
<1> DEFINE n == Len(srcPending)
<1>0. Frame \in Nat \ {0}
  BY DeviceAssumption
<1>1. n \in Nat /\ srcPending \in Seq(Nat)
  BY DEF SourceInv, SourceTyped
<1>2. CASE n >= Frame /\ srcRunning
  <2> DEFINE first == SubSeq(srcPending, 1, Frame)
             rest == SubSeq(srcPending, Frame + 1, Len(srcPending))
  <2>1. /\ srcThread = "deliver" /\ srcThread' = "deliver"
        /\ srcLast' = [samples |-> first, stamp |-> srcStamp]
        /\ srcPending' = rest /\ srcStamp' = srcStamp + Frame /\ srcUnread' = srcUnread - Frame
        /\ UNCHANGED <<srcStarted, srcRunning, srcStopping, srcDevice, srcHandler, srcClock>>
    BY <1>2 DEF Source!Deliver, Source!Goes, Source!Rest, Source!NextStamp, n
  <2>2. /\ first \in Seq(Nat) /\ Len(first) = Frame /\ \A i \in 1 .. Frame : first[i] = srcPending[i]
    <3>1. 1 \in 1 .. n + 1 /\ Frame \in 1 .. n
      BY <1>0, <1>1, <1>2
    <3>2. \A i \in 1 .. Frame : srcPending[i] \in Nat
      BY <1>0, <1>1, <1>2
    <3> QED
      BY <1>0, <1>1, <3>1, <3>2
  <2>3. /\ rest \in Seq(Nat) /\ Len(rest) = n - Frame
        /\ \A i \in 1 .. n - Frame : rest[i] = srcPending[i + Frame]
    <3>1. \A i \in Frame + 1 .. n : srcPending[i] \in Nat
      BY <1>0, <1>1, <1>2
    <3> QED
      BY <1>0, <1>1, <1>2, <3>1
  <2> HIDE DEF n, first, rest
  <2>4. /\ \A i, j \in 1 .. n : i <= j => srcPending[j] - srcPending[i] >= j - i
        /\ \A i \in 1 .. n : srcPending[i] \in Nat /\ srcPending[i] + (n - i) < srcClock
        /\ n = srcUnread /\ srcStamp <= srcPending[1] /\ srcStamp \in Nat /\ srcClock \in Nat
    <3>1. srcPending # <<>>
      BY <1>0, <1>1, <1>2 DEF n
    <3>2. MaxClock \in Nat
      BY DeviceAssumption
    <3>3. SourcePends /\ srcPending \in Seq(Nat) /\ srcStamp \in Nat /\ srcClock \in Nat
      BY <3>2 DEF SourceInv, SourceTyped
    <3> QED
      BY <1>1, <3>1, <3>3 DEF SourcePends, Spaced, n
  <2>5. Spaced(first, srcClock)
    <3>1. \A i, j \in 1 .. Frame : i <= j => first[j] - first[i] >= j - i
      <4> TAKE i, j \in 1 .. Frame
      <4>1. i \in 1 .. n /\ j \in 1 .. n
        BY <1>0, <1>1, <1>2
      <4> QED
        BY <2>2, <2>4, <4>1
    <3>2. \A i \in 1 .. Frame : first[i] + (Frame - i) < srcClock
      <4> TAKE i \in 1 .. Frame
      <4>1. i \in 1 .. n /\ first[i] = srcPending[i]
        BY <1>0, <1>1, <1>2, <2>2
      <4> QED
        BY <1>0, <1>1, <1>2, <2>4, <4>1
    <3> QED
      BY <2>2, <3>1, <3>2 DEF Spaced
  <2>6. Spaced(rest, srcClock)
    <3>1. \A i, j \in 1 .. n - Frame : i <= j => rest[j] - rest[i] >= j - i
      <4> TAKE i, j \in 1 .. n - Frame
      <4>1. i + Frame \in 1 .. n /\ j + Frame \in 1 .. n /\ (j + Frame) - (i + Frame) = j - i
            /\ (i <= j => i + Frame <= j + Frame)
        BY <1>0, <1>1, <1>2
      <4>2. rest[i] = srcPending[i + Frame] /\ rest[j] = srcPending[j + Frame]
        BY <2>3
      <4> QED
        BY <2>4, <4>1, <4>2
    <3>2. \A i \in 1 .. n - Frame : rest[i] + ((n - Frame) - i) < srcClock
      <4> TAKE i \in 1 .. n - Frame
      <4>1. i + Frame \in 1 .. n /\ n - (i + Frame) = (n - Frame) - i
        BY <1>0, <1>1, <1>2
      <4>2. rest[i] = srcPending[i + Frame]
        BY <2>3
      <4> QED
        BY <2>4, <4>1, <4>2
    <3> QED
      BY <2>3, <3>1, <3>2 DEF Spaced
  <2>7. \A i \in 1 .. Frame, j \in 1 .. n - Frame : first[i] < rest[j]
    <3> TAKE i \in 1 .. Frame, j \in 1 .. n - Frame
    <3>1. i \in 1 .. n /\ j + Frame \in 1 .. n /\ i < j + Frame
      BY <1>0, <1>1, <1>2
    <3>2. srcPending[j + Frame] - srcPending[i] >= (j + Frame) - i
      BY <2>4, <3>1
    <3>3. srcPending[i] \in Nat /\ srcPending[j + Frame] \in Nat
      BY <2>4, <3>1
    <3>4. first[i] = srcPending[i] /\ rest[j] = srcPending[j + Frame]
      BY <2>2, <2>3
    <3> QED
      BY <1>0, <1>1, <3>1, <3>2, <3>3, <3>4
  <2>8. 1 \in 1 .. Frame /\ 1 \in 1 .. n /\ first[1] = srcPending[1] /\ first[1] \in Nat
    BY <1>0, <1>1, <1>2, <2>2, <2>4
  <2>9. rest # <<>> => srcStamp + Frame <= rest[1]
    <3> SUFFICES ASSUME rest # <<>> PROVE srcStamp + Frame <= rest[1]
      OBVIOUS
    <3>1. 1 \in 1 .. n - Frame
      BY <1>0, <1>1, <1>2, <2>3
    <3>2. rest[1] = srcPending[1 + Frame] /\ 1 + Frame \in 1 .. n
      BY <1>0, <1>1, <2>3, <3>1
    <3>3. srcPending[1 + Frame] - srcPending[1] >= Frame /\ srcPending[1 + Frame] \in Nat
      BY <1>0, <2>4, <2>8, <3>2
    <3> QED
      BY <1>0, <2>4, <2>8, <3>2, <3>3
  <2>10. SourcePends'
    BY <1>0, <1>1, <2>1, <2>3, <2>4, <2>6, <2>9 DEF SourcePends
  <2>11. SourceDelivered'
    <3>1. srcLast'.samples = first /\ srcLast'.stamp = srcStamp
      BY <2>1
    <3>2. /\ Len(srcLast'.samples) = Frame /\ Spaced(srcLast'.samples, srcClock')
          /\ srcLast'.stamp \in Nat /\ srcLast'.stamp <= srcLast'.samples[1]
      BY <2>1, <2>2, <2>4, <2>5, <2>8, <3>1
    <3>3. \A i \in 1 .. Frame, j \in 1 .. Len(srcPending') : srcLast'.samples[i] < srcPending'[j]
      BY <2>1, <2>3, <2>7, <3>1
    <3>4. srcStamp' >= srcLast'.stamp + Frame
      BY <1>0, <2>1, <2>4, <3>1
    <3> QED
      BY <3>2, <3>3, <3>4 DEF SourceDelivered
  <2>12. SourceTyped'
    <3>1. srcStamp' \in Nat /\ srcPending' \in Seq(Nat) /\ srcLast'.samples \in Seq(Nat)
          /\ srcLast'.stamp \in Int
      BY <1>0, <2>1, <2>2, <2>3, <2>4
    <3> QED
      BY <2>1, <3>1 DEF SourceInv, SourceTyped
  <2>13. SourceRuns'
    BY <2>1 DEF SourceInv, SourceRuns
  <2>14. SourceForward
    <3>1. srcLast'.samples = first /\ srcLast'.stamp = srcStamp /\ srcPending # <<>>
      BY <1>0, <1>1, <1>2, <2>1 DEF n
    <3>2. CASE srcLast = Source!NoFrame
      <4>1. srcLast.samples = <<>> /\ srcLast.stamp = -1
        BY <3>2 DEF Source!NoFrame
      <4> QED
        BY <2>4, <3>1, <3>2, <4>1 DEF SourceForward
    <3>3. CASE srcLast # Source!NoFrame
      <4>1. /\ Len(srcLast.samples) = Frame /\ srcStamp >= srcLast.stamp + Frame
            /\ \A i \in 1 .. Frame, j \in 1 .. n : srcLast.samples[i] < srcPending[j]
        BY <3>1, <3>3 DEF SourceInv, SourceDelivered, n
      <4>2. \A i \in 1 .. Len(srcLast.samples) : srcLast.samples[i] < srcLast'.samples[1]
        BY <2>8, <3>1, <4>1
      <4> QED
        BY <3>1, <3>3, <4>1, <4>2 DEF SourceForward
    <3> QED
      BY <3>2, <3>3
  <2> QED
    BY <2>10, <2>11, <2>12, <2>13, <2>14 DEF SourceInv
<1>3. CASE ~(n >= Frame /\ srcRunning)
  <2>1. /\ srcThread = "deliver" /\ srcThread' = "read"
        /\ UNCHANGED <<srcStarted, srcRunning, srcStopping, srcDevice, srcHandler, srcClock,
                       srcLast, srcPending, srcStamp, srcUnread>>
    BY <1>3 DEF Source!Deliver, Source!Goes, n
  <2> QED
    BY <2>1 DEF SourceInv, SourceTyped, SourceRuns, SourcePends, SourceDelivered, SourceForward, Spaced
<1> QED
  BY <1>2, <1>3

\* The state of a run's buffers while the clock goes on.
LEMMA SourceClockOn ==
  ASSUME SourceInv, srcClock' \in 0 .. MaxClock, srcClock <= srcClock',
         UNCHANGED <<srcPending, srcStamp, srcUnread, srcLast>>
  PROVE  SourcePends' /\ SourceDelivered' /\ SourceForward
<1>1. srcClock \in Int /\ srcClock' \in Int /\ srcPending \in Seq(Nat) /\ srcLast.samples \in Seq(Nat)
  BY DeviceAssumption DEF SourceInv, SourceTyped
<1>2. Spaced(srcPending, srcClock')
  BY <1>1, SpacedLater DEF SourceInv, SourcePends
<1>3. srcLast # Source!NoFrame => Spaced(srcLast.samples, srcClock')
  BY <1>1, SpacedLater DEF SourceInv, SourceDelivered
<1> QED
  BY <1>2, <1>3 DEF SourceInv, SourcePends, SourceDelivered, SourceForward, Source!NoFrame

\* Every step of the audio source.
LEMMA SourceNext ==
  ASSUME SourceInv, Source!Next PROVE SourceInv' /\ SourceForward
<1>0. MaxClock \in Nat /\ srcClock \in 0 .. MaxClock
  BY DeviceAssumption DEF SourceInv, SourceTyped
<1>1. CASE Source!Stop
  <2>1. /\ srcStarted /\ srcStopping' = TRUE /\ srcRunning' = FALSE
        /\ UNCHANGED <<srcStarted, srcDevice, srcHandler, srcThread, srcPending, srcStamp, srcClock,
                       srcUnread, srcLast>>
    BY <1>1 DEF Source!Stop, Source!buffers
  <2>2. SourcePends' /\ SourceDelivered' /\ SourceForward
    BY <1>0, <2>1, SourceClockOn
  <2> QED
    BY <2>1, <2>2 DEF SourceInv, SourceTyped, SourceRuns
<1>2. CASE Source!Stopped
  <2>1. /\ srcThread = "off" /\ srcStopping' = FALSE /\ srcStarted' = FALSE /\ srcDevice' = FALSE
        /\ srcHandler' = FALSE /\ srcPending' = <<>> /\ srcUnread' = 0
        /\ UNCHANGED <<srcRunning, srcThread, srcStamp, srcClock, srcLast>>
    BY <1>2 DEF Source!Stopped
  <2>2. Len(<<>>) = 0 /\ <<>> \in Seq(Nat)
    OBVIOUS
  <2>3. SourcePends'
    <3>1. Spaced(<<>>, srcClock)
      BY <2>2 DEF Spaced
    <3> QED
      BY <2>1, <2>2, <3>1 DEF SourcePends
  <2>4. SourceDelivered'
    BY <2>1, <2>2 DEF SourceInv, SourceDelivered
  <2>5. SourceTyped'
    BY <2>1, <2>2 DEF SourceInv, SourceTyped
  <2> QED
    BY <2>1, <2>3, <2>4, <2>5 DEF SourceInv, SourceRuns, SourceForward
<1>3. CASE Source!Lose
  <2>1. /\ srcClock' = srcClock + 1 /\ srcClock < MaxClock
        /\ UNCHANGED <<srcStarted, srcRunning, srcStopping, srcDevice, srcHandler, srcThread,
                       srcPending, srcStamp, srcUnread, srcLast>>
    BY <1>3 DEF Source!Lose
  <2>2. srcClock' \in 0 .. MaxClock /\ srcClock <= srcClock'
    BY <1>0, <2>1
  <2>3. SourcePends' /\ SourceDelivered' /\ SourceForward
    BY <2>1, <2>2, SourceClockOn
  <2> QED
    BY <2>1, <2>2, <2>3 DEF SourceInv, SourceTyped, SourceRuns
<1>4. ASSUME NEW ok \in BOOLEAN, Source!Start(ok) PROVE SourceInv' /\ SourceForward
  <2>1. /\ ~srcStopping /\ ~srcStarted /\ srcStarted' = ok /\ srcRunning' = ok /\ srcDevice' = ok
        /\ srcHandler' = ok /\ srcThread' = (IF ok THEN "read" ELSE "off")
        /\ UNCHANGED <<srcStopping, srcPending, srcStamp, srcClock, srcUnread, srcLast>>
    BY <1>4 DEF Source!Start, Source!buffers
  <2>2. SourcePends' /\ SourceDelivered' /\ SourceForward
    BY <1>0, <2>1, SourceClockOn
  <2>3. SourceTyped'
    BY <2>1 DEF SourceInv, SourceTyped
  <2>4. SourceRuns'
    <3>1. CASE ok = TRUE
      BY <2>1, <3>1 DEF SourceInv, SourceRuns
    <3>2. CASE ok = FALSE
      BY <2>1, <3>2 DEF SourceInv, SourceRuns
    <3> QED
      BY <3>1, <3>2
  <2> QED
    BY <2>2, <2>3, <2>4 DEF SourceInv
<1>5. CASE Source!Leave \/ Source!Fail
  <2>1. /\ srcThread # "off" /\ srcThread' = "off" /\ srcRunning' \in BOOLEAN
        /\ UNCHANGED <<srcStarted, srcStopping, srcDevice, srcHandler, srcPending, srcStamp, srcClock,
                       srcUnread, srcLast>>
    BY <1>5 DEF Source!Leave, Source!Fail, Source!Ends, Source!buffers, SourceInv, SourceTyped
  <2>2. SourcePends' /\ SourceDelivered' /\ SourceForward
    BY <1>0, <2>1, SourceClockOn
  <2> QED
    BY <2>1, <2>2 DEF SourceInv, SourceTyped, SourceRuns
<1>6. CASE Source!Deliver
  BY <1>6, SourceDeliver
<1>7. CASE Source!DeliverFails
  <2>1. /\ srcThread = "deliver" /\ srcThread' = "read" /\ srcRunning' = FALSE
        /\ UNCHANGED <<srcStarted, srcStopping, srcDevice, srcHandler, srcPending, srcStamp, srcClock,
                       srcUnread, srcLast>>
    BY <1>7 DEF Source!DeliverFails, Source!Goes, Source!buffers
  <2>2. SourcePends' /\ SourceDelivered' /\ SourceForward
    BY <1>0, <2>1, SourceClockOn
  <2> QED
    BY <2>1, <2>2 DEF SourceInv, SourceTyped, SourceRuns
<1>8. ASSUME NEW size \in 1 .. MaxChunk, Source!Read(size) PROVE SourceInv' /\ SourceForward
  BY <1>8, SourceRead
<1>9. ASSUME NEW size \in 1 .. MaxChunk, NEW ok \in BOOLEAN, Source!Grow(size, ok)
      PROVE  SourceInv' /\ SourceForward
  <2>1. /\ srcThread = "read" /\ srcThread' = "read" /\ srcRunning' = ok
        /\ srcClock' = Source!Min({srcClock + size, MaxClock})
        /\ UNCHANGED <<srcStarted, srcStopping, srcDevice, srcHandler, srcPending, srcStamp,
                       srcUnread, srcLast>>
    BY <1>9 DEF Source!Grow, Source!Goes
  <2>2. srcClock' \in 0 .. MaxClock /\ srcClock <= srcClock'
    <3>1. srcClock + size \in Nat /\ MaxClock \in Nat
      BY <1>0, DeviceAssumption
    <3>2. \E x \in {srcClock + size, MaxClock} : \A y \in {srcClock + size, MaxClock} : x <= y
      BY <3>1
    <3>3. /\ srcClock' \in {srcClock + size, MaxClock}
          /\ \A y \in {srcClock + size, MaxClock} : srcClock' <= y
      BY <2>1, <3>2 DEF Source!Min
    <3> QED
      BY <1>0, <3>1, <3>3
  <2>3. SourcePends' /\ SourceDelivered' /\ SourceForward
    BY <2>1, <2>2, SourceClockOn
  <2> QED
    BY <2>1, <2>2, <2>3 DEF SourceInv, SourceTyped, SourceRuns
<1> QED
  BY <1>1, <1>2, <1>3, <1>4, <1>5, <1>6, <1>7, <1>8, <1>9 DEF Source!Next, Source!ThreadStep

\* What the invariant says of the audio source.
LEMMA SourceSays ==
  SourceInv => Source!NothingOfARunIsLeft /\ Source!NoSampleLost /\ Source!NeverFromTheFuture
<1> SUFFICES ASSUME SourceInv
             PROVE  Source!NothingOfARunIsLeft /\ Source!NoSampleLost /\ Source!NeverFromTheFuture
  OBVIOUS
<1>1. Source!NothingOfARunIsLeft
  BY DEF SourceInv, SourceTyped, SourceRuns, Source!NothingOfARunIsLeft
<1>2. Source!NoSampleLost
  BY DEF SourceInv, SourcePends, Source!NoSampleLost
<1>3. Source!NeverFromTheFuture
  BY DEF SourceInv, SourceDelivered, Source!NeverFromTheFuture
<1> QED
  BY <1>1, <1>2, <1>3

\* A source that was not started holds nothing.
LEMMA SourceInit == Source!Init => SourceInv
<1> SUFFICES ASSUME Source!Init PROVE SourceInv
  OBVIOUS
<1>1. MaxClock \in Nat /\ Len(<<>>) = 0 /\ <<>> \in Seq(Nat)
  BY DeviceAssumption
<1>2. Spaced(<<>>, 0)
  BY <1>1 DEF Spaced
<1>3. SourceTyped /\ SourceRuns
  <2>1. srcLast.samples = <<>> /\ srcLast.stamp = -1 /\ srcPending = <<>>
    BY DEF Source!Init, Source!NoFrame
  <2>2. srcLast.samples \in Seq(Nat) /\ srcLast.stamp \in Int /\ srcPending \in Seq(Nat)
    BY <1>1, <2>1
  <2>3. /\ srcStarted = FALSE /\ srcRunning = FALSE /\ srcStopping = FALSE /\ srcDevice = FALSE
        /\ srcHandler = FALSE /\ srcThread = "off" /\ srcStamp = 0 /\ srcClock = 0
    BY DEF Source!Init
  <2>4. srcClock \in 0 .. MaxClock /\ srcStamp \in Nat
    BY <1>1, <2>3
  <2>5. SourceTyped
    BY <2>2, <2>3, <2>4 DEF SourceTyped
  <2> QED
    BY <2>1, <2>3, <2>5 DEF SourceRuns
<1>4. SourcePends
  BY <1>1, <1>2 DEF Source!Init, SourcePends
<1>5. SourceDelivered
  BY DEF Source!Init, SourceDelivered
<1> QED
  BY <1>3, <1>4, <1>5 DEF SourceInv

-----------------------------------------------------------------------------
(* The loader. *)

\* What was given from a directory.
GivenFrom(S, d) == {g \in S : g[3] = d}

\* The count of a plug-in is that of the modules given from it.
LEMMA OpenCounts ==
  Loader!OpenWhileGiven <=> \A d \in Directories : ldOpen[d] = Cardinality(GivenFrom(ldGiven, d))
  BY DEF Loader!OpenWhileGiven, GivenFrom, Loader!Cardinality, Cardinality

\* What callers were given is what is cached, under the same key.
LoaderInv ==
  /\ ldOpen \in [Directories -> Int] /\ IsFiniteSet(ldGiven)
  /\ \A g \in ldGiven : /\ g = <<g[1], g[2], g[3]>>
                        /\ <<g[1], g[2]>> \in DOMAIN ldCache /\ ldCache[<<g[1], g[2]>>] = g[3]
  /\ \A k \in DOMAIN ldCache : <<k[1], k[2], ldCache[k]>> \in ldGiven
  /\ \A d \in Directories : ldOpen[d] = Cardinality(GivenFrom(ldGiven, d))

\* No module comes from behind a bad plug-in.
LoaderFront ==
  \A g \in ldGiven' \ ldGiven :
    \A i \in DOMAIN g[2] : ldPlugin[g[2][i]] = Loader!Broken => \E j \in 1 .. i - 1 : g[2][j] = g[3]

\* A search that succeeds ends at the first directory of the path that has anything to say.
LEMMA SearchEnds ==
  ASSUME NEW path \in Paths, NEW id \in Ids, Loader!Search(path, id) # "none"
  PROVE  \E i \in DOMAIN path :
           /\ Loader!Search(path, id) = path[i] /\ path[i] \in Directories
           /\ Loader!LoadFrom(path[i], id) = "found"
           /\ \A j \in DOMAIN path : Loader!LoadFrom(path[j], id) # "absent" => i <= j
<1> DEFINE ends == {i \in DOMAIN path : Loader!LoadFrom(path[i], id) # "absent"}
           first == CHOOSE i \in ends : \A j \in ends : i <= j
<1>1. path \in Seq(Directories) /\ DOMAIN path = 1 .. Len(path) /\ Len(path) \in Nat
  BY DeviceAssumption
<1>2. ends # {} /\ ends \subseteq Nat
  BY <1>1 DEF Loader!Search
<1>3. first \in ends /\ \A j \in ends : first <= j
  <2>1. \E i \in ends : \A j \in ends : i <= j
    <3> HIDE DEF ends, first
    <3> QED
      BY <1>2, LeastOf
  <2> QED
    BY <2>1
<1>4. Loader!LoadFrom(path[first], id) = "found" /\ Loader!Search(path, id) = path[first]
  BY <1>2 DEF Loader!Search
<1>5. first \in DOMAIN path /\ \A j \in DOMAIN path : Loader!LoadFrom(path[j], id) # "absent" => first <= j
  BY <1>3
<1> HIDE DEF first
<1>6. path[first] \in Directories
  BY <1>1, <1>5
<1> QED
  BY <1>4, <1>5, <1>6

\* A search finds a module, and nothing bad is before it.
LEMMA LoaderFound ==
  ASSUME LoaderInv, NEW id \in Ids, NEW path \in Paths, Loader!Found(id, path)
  PROVE  LoaderInv' /\ LoaderFront
<1> DEFINE d == Loader!Search(path, id)
           key == <<id, path>>
           new == <<id, path, d>>
<1>1. /\ key \notin DOMAIN ldCache /\ d # "none"
      /\ ldCache' = [k \in DOMAIN ldCache \cup {key} |-> IF k = key THEN d ELSE ldCache[k]]
      /\ ldOpen' = [ldOpen EXCEPT ![d] = @ + 1] /\ ldGiven' = ldGiven \cup {new}
  BY DEF Loader!Found, Loader!Cached
<1>2. PICK i \in DOMAIN path : /\ d = path[i] /\ path[i] \in Directories
                               /\ Loader!LoadFrom(path[i], id) = "found"
                               /\ \A j \in DOMAIN path : Loader!LoadFrom(path[j], id) # "absent" => i <= j
  BY <1>1, SearchEnds
<1>3. DOMAIN path = 1 .. Len(path) /\ Len(path) \in Nat
  BY DeviceAssumption
<1>4. new[1] = id /\ new[2] = path /\ new[3] = d
  OBVIOUS
<1>5. new \notin ldGiven
  BY <1>1, <1>4 DEF LoaderInv
<1>6. DOMAIN ldCache' = DOMAIN ldCache \cup {key} /\ ldCache'[key] = d
      /\ \A k \in DOMAIN ldCache : ldCache'[k] = ldCache[k]
  BY <1>1
<1>7. key[1] = id /\ key[2] = path
  OBVIOUS
<1>8. IsFiniteSet(ldGiven')
  BY <1>1, FS_AddElement DEF LoaderInv
<1>9. ldOpen' \in [Directories -> Int]
  <2> HIDE DEF d
  <2> QED
    BY <1>1, <1>2 DEF LoaderInv
<1>10. ASSUME NEW g \in ldGiven'
       PROVE  /\ g = <<g[1], g[2], g[3]>>
              /\ <<g[1], g[2]>> \in DOMAIN ldCache' /\ ldCache'[<<g[1], g[2]>>] = g[3]
  <2>1. CASE g = new
    <3>1. g = <<g[1], g[2], g[3]>> /\ <<g[1], g[2]>> = key /\ g[3] = d
      BY <2>1
    <3> HIDE DEF d, key, new
    <3> QED
      BY <1>6, <3>1
  <2>2. CASE g \in ldGiven
    <3> HIDE DEF d, key, new
    <3> QED
      BY <1>6, <2>2 DEF LoaderInv
  <2> HIDE DEF new
  <2> QED
    BY <1>1, <2>1, <2>2
<1>11. ASSUME NEW k \in DOMAIN ldCache' PROVE <<k[1], k[2], ldCache'[k]>> \in ldGiven'
  <2>1. CASE k = key
    <3>1. k[1] = id /\ k[2] = path /\ ldCache'[k] = d
      BY <1>6, <2>1
    <3> QED
      BY <1>1, <3>1
  <2>2. CASE k \in DOMAIN ldCache
    <3> HIDE DEF d, key, new
    <3> QED
      BY <1>1, <1>6, <2>2 DEF LoaderInv
  <2> HIDE DEF d, key, new
  <2> QED
    BY <1>6, <2>1, <2>2
<1>12. \A e \in Directories : ldOpen'[e] = Cardinality(GivenFrom(ldGiven', e))
  <2> TAKE e \in Directories
  <2> DEFINE mine == GivenFrom(ldGiven, e)
  <2>1. ldOpen[e] = Cardinality(mine) /\ IsFiniteSet(mine) /\ new \notin mine
    <3>1. mine \subseteq ldGiven
      BY DEF GivenFrom
    <3> HIDE DEF mine, new
    <3>2. IsFiniteSet(mine) /\ new \notin mine
      BY <1>5, <3>1, FS_Subset DEF LoaderInv
    <3> QED
      BY <3>2 DEF LoaderInv, mine
  <2>2. CASE e = d
    <3>1. GivenFrom(ldGiven', e) = mine \cup {new}
      <4> HIDE DEF new, d
      <4> QED
        BY <1>1, <1>4, <2>2 DEF GivenFrom
    <3>2. Cardinality(mine \cup {new}) = Cardinality(mine) + 1
      <4> HIDE DEF mine, new
      <4> QED
        BY <2>1, FS_AddElement
    <3>3. ldOpen'[e] = ldOpen[e] + 1
      <4> HIDE DEF d
      <4> QED
        BY <1>1, <2>2 DEF LoaderInv
    <3> HIDE DEF mine, new
    <3> QED
      BY <2>1, <3>1, <3>2, <3>3
  <2>3. CASE e # d
    <3>1. GivenFrom(ldGiven', e) = mine
      <4> HIDE DEF new, d
      <4> QED
        BY <1>1, <1>4, <2>3 DEF GivenFrom
    <3>2. ldOpen'[e] = ldOpen[e]
      <4> HIDE DEF d
      <4> QED
        BY <1>1, <2>3 DEF LoaderInv
    <3> HIDE DEF mine, new
    <3> QED
      BY <2>1, <3>1, <3>2
  <2> QED
    BY <2>2, <2>3
<1>13. LoaderFront
  <2> SUFFICES ASSUME NEW j \in DOMAIN path, ldPlugin[path[j]] = Loader!Broken
               PROVE  \E k \in 1 .. j - 1 : path[k] = d
    <3> HIDE DEF new
    <3> QED
      BY <1>1, <1>4 DEF LoaderFront
  <2>1. Loader!LoadFrom(path[j], id) = "bad"
    BY DEF Loader!LoadFrom
  <2>2. i <= j /\ i # j
    BY <1>2, <2>1
  <2>3. i \in 1 .. j - 1
    BY <1>3, <2>2
  <2> QED
    BY <1>2, <2>3
<1> HIDE DEF d, key, new
<1> QED
  BY <1>8, <1>9, <1>10, <1>11, <1>12, <1>13 DEF LoaderInv

\* Every step of the loader keeps the invariant, and takes nothing from behind a bad plug-in.
LEMMA LoaderNext ==
  ASSUME LoaderInv, Loader!Next PROVE LoaderInv' /\ LoaderFront
<1>1. ASSUME UNCHANGED <<ldCache, ldOpen, ldGiven>> PROVE LoaderInv' /\ LoaderFront
  BY <1>1 DEF LoaderInv, LoaderFront
<1>2. ASSUME NEW id \in Ids, NEW path \in Paths, Loader!FromCache(id, path) PROVE LoaderInv' /\ LoaderFront
  <2> DEFINE key == <<id, path>>
  <2>1. key \in DOMAIN ldCache /\ ldGiven' = ldGiven \cup {<<id, path, ldCache[key]>>}
        /\ UNCHANGED <<ldCache, ldOpen>>
    BY <1>2 DEF Loader!FromCache, Loader!Cached
  <2>2. key[1] = id /\ key[2] = path
    OBVIOUS
  <2>3. <<id, path, ldCache[key]>> \in ldGiven
    BY <2>1, <2>2 DEF LoaderInv
  <2>4. ldGiven' = ldGiven
    BY <2>1, <2>3
  <2> QED
    BY <1>1, <2>1, <2>4
<1>3. ASSUME NEW id \in Ids, NEW path \in Paths, Loader!NotFound(id, path) \/ Loader!CacheFull(id, path)
      PROVE  LoaderInv' /\ LoaderFront
  BY <1>1, <1>3 DEF Loader!NotFound, Loader!CacheFull, Loader!vars
<1>4. ASSUME NEW d \in Directories, NEW p, Loader!Install(d, p) PROVE LoaderInv' /\ LoaderFront
  BY <1>1, <1>4 DEF Loader!Install
<1> QED
  BY <1>2, <1>3, <1>4, LoaderFound DEF Loader!Next, Loader!GetModule

\* What the invariant says of the loader.
LEMMA LoaderSays ==
  /\ Loader!Init => LoaderInv
  /\ LoaderInv => Loader!OpenWhileGiven /\ Loader!OneModule
<1>1. ASSUME Loader!Init PROVE LoaderInv
  <2>1. ldOpen = [d \in Directories |-> 0] /\ ldGiven = {} /\ DOMAIN ldCache = {}
    BY <1>1 DEF Loader!Init
  <2>2. \A d \in Directories : GivenFrom({}, d) = {}
    BY DEF GivenFrom
  <2>3. IsFiniteSet({}) /\ Cardinality({}) = 0
    BY FS_EmptySet
  <2>4. ldOpen \in [Directories -> Int] /\ \A d \in Directories : ldOpen[d] = 0
    BY <2>1
  <2>5. \A d \in Directories : ldOpen[d] = Cardinality(GivenFrom(ldGiven, d))
    BY <2>1, <2>2, <2>3, <2>4
  <2> QED
    BY <2>1, <2>3, <2>4, <2>5 DEF LoaderInv
<1>2. LoaderInv => Loader!OpenWhileGiven
  BY OpenCounts DEF LoaderInv
<1>3. LoaderInv => Loader!OneModule
  <2> SUFFICES ASSUME LoaderInv, NEW g \in ldGiven, NEW h \in ldGiven, g[1] = h[1], g[2] = h[2]
               PROVE  g[3] = h[3]
    BY Zenon DEF Loader!OneModule
  <2>1. ldCache[<<g[1], g[2]>>] = g[3] /\ ldCache[<<h[1], h[2]>>] = h[3]
    BY DEF LoaderInv
  <2> QED
    BY <2>1
<1> QED
  BY <1>1, <1>2, <1>3

-----------------------------------------------------------------------------
(* The RV1126B codec. *)

CodecUnitType ==
  /\ codSent \in [Codec!Sides -> Nat] /\ codFetched \in [Codec!Sides -> Nat]
  /\ codGot \in [Codec!Sides -> Nat] /\ codFloor \in [Codec!Sides -> Nat]

(* What was returned, and where the run began, is of units that the vendor's *)
(* channel has given back; it gives back no more than it has taken.        *)
CodecBounded ==
  \A s \in Codec!Sides : codGot[s] <= codFetched[s] /\ codFloor[s] <= codFetched[s] /\ codFetched[s] <= codSent[s]

CodecFlagType == codEncoding \in BOOLEAN /\ codDecoding \in BOOLEAN
CodecCountType == codRefs \in Int /\ codBlocks \in Int

(* The reference is the encoder's, which the decoder never outlives.       *)
CodecFlags == CodecFlagType /\ CodecCountType /\ codSys_acquired = codEncoding /\ (codDecoding => codEncoding)
         /\ Codec!HoldsWhatItUses

CodecInv == CodecUnitType /\ CodecBounded /\ CodecFlags

(* The two channels share no part. *)
LEMMA CodecParts ==
  /\ Codec!Reached(Codec!Encoder, 3) = {"venc", "vencrecv", "rawpool"}
  /\ Codec!Reached(Codec!Decoder, 3) = {"vdec", "vdecrecv", "streampool"}
<1>1. 1 .. 3 = {1, 2, 3}
  OBVIOUS
<1> QED
  BY <1>1 DEF Codec!Reached, Codec!Encoder, Codec!Decoder

(* A channel is made whole or not at all. *)
LEMMA CodecWholeChannel ==
  \A steps, n : Codec!Create(steps, n) = IF n = 3 THEN Codec!Reached(steps, 3) ELSE {}
  BY DEF Codec!Create

(* An exchange hands in one unit, of one side, and returns a later one.    *)
LEMMA CodecExchangeSteps ==
  ASSUME CodecUnitType, CodecBounded, codBlocks \in Int, NEW side \in Codec!Sides, NEW outcome, NEW own,
         Codec!Exchange(side, outcome, own)
  PROVE  /\ CodecUnitType' /\ CodecBounded' /\ codBlocks' = codBlocks
         /\ codSent' \in {codSent, [codSent EXCEPT ![side] = @ + 1]} /\ UNCHANGED codFloor
         /\ \/ UNCHANGED codGot
            \/ \E unit \in 1 .. codSent'[side] :
                 unit > codGot[side] /\ unit > codFloor[side] /\ codGot' = [codGot EXCEPT ![side] = unit]
<1>1. codBlocks' = codBlocks
  BY DEF Codec!Exchange, Codec!Owned
<1>2. CASE UNCHANGED Codec!units
  BY <1>1, <1>2 DEF Codec!units, CodecUnitType, CodecBounded
<1>3. CASE ~UNCHANGED Codec!units
  <2>1. /\ codSent' = [codSent EXCEPT ![side] = @ + 1] /\ UNCHANGED codFloor
        /\ codFetched' = IF outcome = "late" THEN codFetched ELSE [codFetched EXCEPT ![side] = @ + 1]
        /\ codGot' = IF outcome = "returned" THEN [codGot EXCEPT ![side] = codFetched[side] + 1] ELSE codGot
    BY <1>3 DEF Codec!Exchange
  <2>2. CodecUnitType'
    BY <2>1 DEF CodecUnitType
  <2>3. CodecBounded'
    BY <2>1 DEF CodecUnitType, CodecBounded
  <2>4. CASE outcome = "returned"
    <3>1. codGot' = [codGot EXCEPT ![side] = codFetched[side] + 1]
      BY <2>1, <2>4
    <3>2. codFetched[side] + 1 \in 1 .. codSent'[side]
      BY <2>1 DEF CodecUnitType, CodecBounded
    <3>3. codFetched[side] + 1 > codGot[side] /\ codFetched[side] + 1 > codFloor[side]
      BY DEF CodecUnitType, CodecBounded
    <3> QED
      BY <1>1, <2>1, <2>2, <2>3, <3>1, <3>2, <3>3
  <2>5. CASE outcome # "returned"
    BY <1>1, <2>1, <2>2, <2>3, <2>5
  <2> QED
    BY <2>4, <2>5
<1> QED
  BY <1>2, <1>3

\* At rest the RV1126B codec holds nothing, and no unit was handed in.
LEMMA CodecInit == Codec!Init => CodecInv
<1> SUFFICES ASSUME Codec!Init PROVE CodecInv
  OBVIOUS
<1>1. CodecUnitType /\ CodecBounded
  BY DEF Codec!Init, CodecUnitType, CodecBounded
<1>2. Codec!HoldsWhatItUses
  BY DEF Codec!Init, Codec!HoldsWhatItUses
<1>3. CodecFlagType
  BY DEF Codec!Init, CodecFlagType
<1>4. codSys_acquired = codEncoding /\ (codDecoding => codEncoding)
  BY DEF Codec!Init
<1>5. CodecCountType
  BY DEF Codec!Init, CodecCountType
<1>6. CodecFlags
  BY <1>2, <1>3, <1>4, <1>5 DEF CodecFlags
<1> QED
  BY <1>1, <1>6 DEF CodecInv

(* Every step keeps the invariant, and is one of the interface, or none.   *)
LEMMA CodecNext ==
  CodecInv /\ [Codec!Next]_(Codec!vars) => CodecInv' /\ [Codec!Contract!Next]_(Codec!Contract!vars)
<1> SUFFICES ASSUME CodecInv, [Codec!Next]_(Codec!vars)
    PROVE  CodecInv' /\ [Codec!Contract!Next]_(Codec!Contract!vars)
  OBVIOUS
<1> USE DEF CodecFlagType, CodecCountType
<1>1. CASE Codec!Stop
  <2>1. CodecUnitType' /\ CodecBounded'
    BY <1>1 DEF Codec!Stop, CodecInv, CodecUnitType, CodecBounded
  <2>2. codHw' = {} /\ codRefs' = 0 /\ codBlocks' = 0
    BY <1>1 DEF Codec!Stop, CodecInv, CodecFlags, Codec!HoldsWhatItUses
  <2>3. ~codEncoding' /\ ~codDecoding' /\ ~codSys_acquired'
        /\ codEncoding' \in BOOLEAN /\ codDecoding' \in BOOLEAN /\ codSys_acquired' \in BOOLEAN
    BY <1>1 DEF Codec!Stop
  <2>4. CodecFlags'
    BY <2>2, <2>3 DEF CodecFlags, Codec!HoldsWhatItUses
  <2>5. Codec!Contract!Stop
    BY <1>1 DEF Codec!Stop, Codec!Contract!Stop
  <2> QED
    BY <2>1, <2>4, <2>5 DEF CodecInv, Codec!Contract!Next
<1>2. CASE Codec!Flush
  <2>1. CodecUnitType' /\ CodecBounded'
    BY <1>2 DEF Codec!Flush, CodecInv, CodecUnitType, CodecBounded
  <2>2. CodecFlags'
    BY <1>2 DEF Codec!Flush, CodecInv, CodecFlags, Codec!HoldsWhatItUses
  <2>3. Codec!Contract!Flush
    BY <1>2, <2>1 DEF Codec!Flush, CodecInv, CodecUnitType, Codec!Contract!Flush
  <2> QED
    BY <2>1, <2>2, <2>3 DEF CodecInv, Codec!Contract!Next
<1>3. ASSUME NEW n \in 0 .. 3, Codec!Start(n) PROVE CodecInv' /\ [Codec!Contract!Next]_(Codec!Contract!vars)
  <2>1. CodecUnitType' /\ CodecBounded'
    BY <1>3 DEF Codec!Start, Codec!units, CodecInv, CodecUnitType, CodecBounded
  <2>2. CodecFlags'
    <3>1. ~codEncoding /\ ~codDecoding /\ codHw = {} /\ codRefs = 0 /\ codBlocks = 0 /\ ~codSys_acquired
      BY <1>3 DEF Codec!Start, CodecInv, CodecFlags, Codec!HoldsWhatItUses
    <3>2. UNCHANGED <<codDecoding, codBlocks>>
      BY <1>3 DEF Codec!Start
    <3>3. CASE UNCHANGED <<codEncoding, codSys_acquired, codHw, codRefs>>
      BY <3>2, <3>3 DEF CodecInv, CodecFlags, Codec!HoldsWhatItUses
    <3>4. CASE /\ codHw' = codHw \cup Codec!Create(Codec!Encoder, n) /\ codEncoding' = (n = 3)
               /\ codSys_acquired' = (n = 3) /\ codRefs' = IF n = 3 THEN codRefs + 1 ELSE codRefs
      <4>1. CASE n = 3
        <5>1. codHw' = Codec!Reached(Codec!Encoder, 3) /\ codRefs' = 1 /\ codBlocks' = 0
          BY <3>1, <3>2, <3>4, <4>1, CodecWholeChannel
        <5>2. codEncoding' = TRUE /\ codSys_acquired' = TRUE /\ codDecoding' = FALSE
          BY <3>1, <3>2, <3>4, <4>1 DEF CodecInv, CodecFlags
        <5>3. Codec!HoldsWhatItUses'
          BY <5>1, <5>2 DEF Codec!HoldsWhatItUses
        <5>4. CodecCountType'
          BY <5>1 DEF CodecCountType
        <5>5. CodecFlagType' /\ codSys_acquired' = codEncoding' /\ (codDecoding' => codEncoding')
          BY <5>2 DEF CodecFlagType
        <5> QED
          BY <5>3, <5>4, <5>5 DEF CodecFlags
      <4>2. CASE n # 3
        BY <3>1, <3>2, <3>4, <4>2, CodecWholeChannel DEF CodecInv, CodecFlags, Codec!HoldsWhatItUses
      <4> QED
        BY <4>1, <4>2
    <3> QED
      BY <1>3, <3>3, <3>4 DEF Codec!Start
  <2>3. Codec!Contract!Start \/ UNCHANGED Codec!Contract!vars
    BY <1>3 DEF Codec!Start, Codec!units, CodecInv, CodecFlags, Codec!Contract!Start, Codec!Contract!vars
  <2> QED
    BY <2>1, <2>2, <2>3 DEF CodecInv, Codec!Contract!Next
<1>4. ASSUME NEW n \in 0 .. 3, NEW outcome \in Codec!Outcomes, Codec!Decode(outcome, n)
      PROVE  CodecInv' /\ [Codec!Contract!Next]_(Codec!Contract!vars)
  <2>1. CASE n = 3
    <3>1. "dec" \in Codec!Sides /\ Codec!Exchange("dec", outcome, TRUE)
      BY <1>4, <2>1 DEF Codec!Decode, Codec!Sides
    <3>2. CodecUnitType' /\ CodecBounded' /\ codBlocks' = codBlocks
      BY <3>1, CodecExchangeSteps DEF CodecInv, CodecFlags
    <3>3. CodecFlags'
      BY <1>4, <2>1, <3>2, CodecParts, CodecWholeChannel DEF Codec!Decode, CodecInv, CodecFlags,
         Codec!HoldsWhatItUses
    <3>4. Codec!Contract!Process("dec")
      BY <1>4, <3>1, CodecExchangeSteps DEF Codec!Decode, CodecInv, CodecFlags, Codec!Contract!Process
    <3> QED
      BY <3>1, <3>2, <3>3, <3>4 DEF CodecInv, Codec!Contract!Next
  <2>2. CASE n # 3
    <3>1. UNCHANGED <<codBlocks, codSent, codFetched, codGot, codFloor>>
      BY <1>4, <2>2 DEF Codec!Decode, Codec!units
    <3>2. CodecUnitType' /\ CodecBounded'
      BY <3>1 DEF CodecInv, CodecUnitType, CodecBounded
    <3>3. CodecFlags'
      BY <1>4, <2>2, <3>1, CodecParts, CodecWholeChannel DEF Codec!Decode, CodecInv, CodecFlags,
         Codec!HoldsWhatItUses
    <3>4. UNCHANGED Codec!Contract!vars
      BY <1>4, <3>1 DEF Codec!Decode, Codec!Contract!vars
    <3> QED
      BY <3>2, <3>3, <3>4 DEF CodecInv
  <2> QED
    BY <2>1, <2>2
<1>5. ASSUME NEW outcome \in Codec!Outcomes, NEW own \in BOOLEAN, Codec!Encode(outcome, own)
      PROVE  CodecInv' /\ [Codec!Contract!Next]_(Codec!Contract!vars)
  <2>1. "enc" \in Codec!Sides /\ Codec!Exchange("enc", outcome, own)
    BY <1>5 DEF Codec!Encode, Codec!Sides
  <2>2. CodecUnitType' /\ CodecBounded' /\ codBlocks' = codBlocks
    BY <2>1, CodecExchangeSteps DEF CodecInv, CodecFlags
  <2>3. CodecFlags'
    BY <1>5, <2>2 DEF Codec!Encode, CodecInv, CodecFlags, Codec!HoldsWhatItUses
  <2>4. Codec!Contract!Process("enc")
    BY <1>5, <2>1, CodecExchangeSteps DEF Codec!Encode, CodecInv, CodecFlags, Codec!Contract!Process
  <2> QED
    BY <2>1, <2>2, <2>3, <2>4 DEF CodecInv, Codec!Contract!Next
<1>6. CASE UNCHANGED Codec!vars
  BY <1>6 DEF Codec!vars, CodecInv, CodecUnitType, CodecBounded, CodecFlags, Codec!HoldsWhatItUses,
     Codec!Contract!vars
<1> QED
  BY <1>1, <1>2, <1>3, <1>4, <1>5, <1>6 DEF Codec!Next

-----------------------------------------------------------------------------
(* The VS816 codec. *)

VCodecUnitType ==
  /\ vcodSent \in [VCodec!Sides -> Nat] /\ vcodFetched \in [VCodec!Sides -> Nat]
  /\ vcodGot \in [VCodec!Sides -> Nat] /\ vcodFloor \in [VCodec!Sides -> Nat]

(* What was returned, and where the run began, is of units that the vendor's *)
(* channel has given back; it gives back no more than it has taken.        *)
VCodecBounded ==
  \A s \in VCodec!Sides : vcodGot[s] <= vcodFetched[s] /\ vcodFloor[s] <= vcodFetched[s] /\ vcodFetched[s] <= vcodSent[s]

VCodecFlagType ==
  /\ vcodEncoding \in BOOLEAN /\ vcodDecoding \in BOOLEAN /\ vcodSys_acquired \in BOOLEAN
  /\ vcodOrphaned \in BOOLEAN

(* The parts of what is held. *)
VCodecChannels == vcodHw = (IF vcodEncoding THEN {"venc"} ELSE {}) \cup (IF vcodDecoding THEN {"vdec"} ELSE {})
VCodecReference == vcodRefs = IF vcodSys_acquired THEN 1 ELSE 0
VCodecSystem ==
  (vcodEncoding => vcodSys_acquired) /\ (vcodDecoding /\ ~vcodOrphaned => vcodSys_acquired)
VCodecNoBlock == vcodBlocks = 0

VCodecFlags == VCodecFlagType /\ VCodecChannels /\ VCodecReference /\ VCodecSystem /\ VCodecNoBlock

VCodecInv == VCodecUnitType /\ VCodecBounded /\ VCodecFlags

(* An exchange hands in one unit, of one side, and returns a later one.    *)
LEMMA VCodecExchangeSteps ==
  ASSUME VCodecUnitType, VCodecBounded, NEW side \in VCodec!Sides, NEW outcome, VCodec!Exchange(side, outcome)
  PROVE  /\ VCodecUnitType' /\ VCodecBounded'
         /\ vcodSent' \in {vcodSent, [vcodSent EXCEPT ![side] = @ + 1]} /\ UNCHANGED vcodFloor
         /\ \/ UNCHANGED vcodGot
            \/ \E unit \in 1 .. vcodSent'[side] :
                 unit > vcodGot[side] /\ unit > vcodFloor[side] /\ vcodGot' = [vcodGot EXCEPT ![side] = unit]
<1>2. CASE UNCHANGED VCodec!units
  BY <1>2 DEF VCodec!units, VCodecUnitType, VCodecBounded
<1>3. CASE ~UNCHANGED VCodec!units
  <2>1. /\ vcodSent' = [vcodSent EXCEPT ![side] = @ + 1] /\ UNCHANGED vcodFloor
        /\ vcodFetched' = IF outcome = "late" THEN vcodFetched ELSE [vcodFetched EXCEPT ![side] = @ + 1]
        /\ vcodGot' = IF outcome = "returned" THEN [vcodGot EXCEPT ![side] = vcodFetched[side] + 1] ELSE vcodGot
    BY <1>3 DEF VCodec!Exchange
  <2>2. VCodecUnitType'
    BY <2>1 DEF VCodecUnitType
  <2>3. VCodecBounded'
    BY <2>1 DEF VCodecUnitType, VCodecBounded
  <2>4. CASE outcome = "returned"
    <3>1. vcodGot' = [vcodGot EXCEPT ![side] = vcodFetched[side] + 1]
      BY <2>1, <2>4
    <3>2. vcodFetched[side] + 1 \in 1 .. vcodSent'[side]
      BY <2>1 DEF VCodecUnitType, VCodecBounded
    <3>3. vcodFetched[side] + 1 > vcodGot[side] /\ vcodFetched[side] + 1 > vcodFloor[side]
      BY DEF VCodecUnitType, VCodecBounded
    <3> QED
      BY <2>1, <2>2, <2>3, <3>1, <3>2, <3>3
  <2>5. CASE outcome # "returned"
    BY <2>1, <2>2, <2>3, <2>5
  <2> QED
    BY <2>4, <2>5
<1> QED
  BY <1>2, <1>3

(* Whichever side takes it, there is one reference. *)
LEMMA VCodecOneTaken == VCodecReference => VCodec!Taken = 1
<1> SUFFICES ASSUME VCodecReference PROVE VCodec!Taken = 1
  OBVIOUS
<1>1. CASE vcodSys_acquired
  BY <1>1 DEF VCodecReference, VCodec!Taken
<1>2. CASE ~vcodSys_acquired
  BY <1>2 DEF VCodecReference, VCodec!Taken
<1> QED
  BY <1>1, <1>2

\* At rest the VS816 codec holds nothing, and no unit was handed in.
LEMMA VCodecInit == VCodec!Init => VCodecInv
<1> SUFFICES ASSUME VCodec!Init PROVE VCodecInv
  OBVIOUS
<1>1. VCodecUnitType /\ VCodecBounded
  BY DEF VCodec!Init, VCodecUnitType, VCodecBounded
<1>2. VCodecFlagType /\ VCodecChannels /\ VCodecSystem
  BY DEF VCodec!Init, VCodecFlagType, VCodecChannels, VCodecSystem
<1>3. VCodecReference /\ VCodecNoBlock
  BY DEF VCodec!Init, VCodecReference, VCodecNoBlock
<1> QED
  BY <1>1, <1>2, <1>3 DEF VCodecInv, VCodecFlags

(* Every step keeps the invariant, and is one of the interface, or none.   *)
LEMMA VCodecNext ==
  VCodecInv /\ [VCodec!Next]_(VCodec!vars) => VCodecInv' /\ [VCodec!Contract!Next]_(VCodec!Contract!vars)
<1> SUFFICES ASSUME VCodecInv, [VCodec!Next]_(VCodec!vars)
    PROVE  VCodecInv' /\ [VCodec!Contract!Next]_(VCodec!Contract!vars)
  OBVIOUS
<1>1. CASE VCodec!Stop
  <2>1. VCodecUnitType' /\ VCodecBounded'
    BY <1>1 DEF VCodec!Stop, VCodecInv, VCodecUnitType, VCodecBounded
  <2>2. VCodecFlagType' /\ VCodecChannels' /\ VCodecSystem'
    BY <1>1 DEF VCodec!Stop, VCodecInv, VCodecFlags, VCodecFlagType, VCodecChannels, VCodecSystem
  <2>3. VCodecReference' /\ VCodecNoBlock'
    BY <1>1 DEF VCodec!Stop, VCodecInv, VCodecFlags, VCodecReference, VCodecNoBlock
  <2>4. VCodec!Contract!Stop
    BY <1>1 DEF VCodec!Stop, VCodec!Contract!Stop
  <2> QED
    BY <2>1, <2>2, <2>3, <2>4 DEF VCodecInv, VCodecFlags, VCodec!Contract!Next
<1>2. CASE VCodec!Flush
  <2>1. VCodecUnitType' /\ VCodecBounded'
    BY <1>2 DEF VCodec!Flush, VCodecInv, VCodecUnitType, VCodecBounded
  <2>2. VCodecFlags'
    BY <1>2 DEF VCodec!Flush, VCodecInv, VCodecFlags, VCodecFlagType, VCodecChannels, VCodecReference,
       VCodecSystem, VCodecNoBlock
  <2>3. VCodec!Contract!Flush
    BY <1>2, <2>1 DEF VCodec!Flush, VCodecInv, VCodecUnitType, VCodec!Contract!Flush
  <2> QED
    BY <2>1, <2>2, <2>3 DEF VCodecInv, VCodec!Contract!Next
<1>3. ASSUME NEW result \in {"nosys", "failed", "up"}, VCodec!Start(result)
      PROVE  VCodecInv' /\ [VCodec!Contract!Next]_(VCodec!Contract!vars)
  <2>1. VCodecUnitType' /\ VCodecBounded'
    BY <1>3 DEF VCodec!Start, VCodec!units, VCodecInv, VCodecUnitType, VCodecBounded
  <2>2. VCodecFlagType' /\ VCodecChannels' /\ VCodecSystem'
    <3>1. CASE result = "up"
      <4>1. vcodEncoding' = TRUE /\ vcodSys_acquired' = TRUE /\ vcodDecoding' = vcodDecoding
            /\ vcodOrphaned' = FALSE
        BY <1>3, <3>1 DEF VCodec!Start
      <4>2. vcodDecoding \in BOOLEAN /\ vcodHw = IF vcodDecoding THEN {"vdec"} ELSE {}
        BY <1>3 DEF VCodec!Start, VCodecInv, VCodecFlags, VCodecFlagType, VCodecChannels
      <4>3. vcodHw' = {"venc"} \cup IF vcodDecoding THEN {"vdec"} ELSE {}
        BY <1>3, <3>1, <4>2 DEF VCodec!Start
      <4> QED
        BY <4>1, <4>2, <4>3 DEF VCodecFlagType, VCodecChannels, VCodecSystem
    <3>2. CASE result # "up"
      <4>1. UNCHANGED <<vcodEncoding, vcodDecoding, vcodHw>> /\ ~vcodEncoding
        BY <1>3, <3>2 DEF VCodec!Start
      <4>2. \/ UNCHANGED <<vcodSys_acquired, vcodOrphaned>>
            \/ vcodSys_acquired' = FALSE /\ vcodOrphaned' = vcodDecoding
        BY <1>3, <3>2 DEF VCodec!Start
      <4> QED
        BY <4>1, <4>2 DEF VCodecInv, VCodecFlags, VCodecFlagType, VCodecChannels, VCodecSystem
    <3> QED
      BY <3>1, <3>2
  <2>3. VCodecReference' /\ VCodecNoBlock'
    <3>1. VCodec!Taken = 1 /\ VCodecReference /\ VCodecNoBlock
      BY VCodecOneTaken DEF VCodecInv, VCodecFlags
    <3>2. VCodecNoBlock'
      BY <1>3, <3>1 DEF VCodec!Start, VCodecNoBlock
    <3>3. CASE result = "nosys"
      <4>1. UNCHANGED <<vcodRefs, vcodSys_acquired>>
        BY <1>3, <3>3 DEF VCodec!Start
      <4> QED
        BY <3>1, <3>2, <4>1 DEF VCodecReference
    <3>4. CASE result = "failed"
      <4>1. vcodRefs' = 0 /\ vcodSys_acquired' = FALSE
        BY <1>3, <3>1, <3>4 DEF VCodec!Start
      <4> QED
        BY <3>2, <4>1 DEF VCodecReference
    <3>5. CASE result = "up"
      <4>1. vcodRefs' = 1 /\ vcodSys_acquired' = TRUE
        BY <1>3, <3>1, <3>5 DEF VCodec!Start
      <4> QED
        BY <3>2, <4>1 DEF VCodecReference
    <3> QED
      BY <3>2, <3>3, <3>4, <3>5
  <2>4. VCodec!Contract!Start \/ UNCHANGED VCodec!Contract!vars
    BY <1>3 DEF VCodec!Start, VCodec!units, VCodecInv, VCodecFlags, VCodecFlagType,
       VCodec!Contract!Start, VCodec!Contract!vars
  <2> QED
    BY <2>1, <2>2, <2>3, <2>4 DEF VCodecInv, VCodecFlags, VCodec!Contract!Next
<1>4. ASSUME NEW made \in {"nosys", "failed", "up"}, NEW outcome \in VCodec!Outcomes,
             VCodec!Decode(outcome, made)
      PROVE  VCodecInv' /\ [VCodec!Contract!Next]_(VCodec!Contract!vars)
  <2>1. VCodecFlagType' /\ VCodecChannels' /\ VCodecSystem'
    <3>1. vcodSys_acquired' \in BOOLEAN /\ vcodOrphaned' \in BOOLEAN /\ vcodDecoding' \in BOOLEAN
          /\ vcodEncoding' = vcodEncoding
      BY <1>4 DEF VCodec!Decode, VCodecInv, VCodecFlags, VCodecFlagType
    <3>2. VCodecChannels'
      BY <1>4 DEF VCodec!Decode, VCodecInv, VCodecFlags, VCodecFlagType, VCodecChannels
    <3>3. VCodecSystem'
      BY <1>4 DEF VCodec!Decode, VCodecInv, VCodecFlags, VCodecFlagType, VCodecSystem
    <3> QED
      BY <3>1, <3>2, <3>3 DEF VCodecInv, VCodecFlags, VCodecFlagType
  <2>2. VCodecReference' /\ VCodecNoBlock'
    <3>1. VCodec!Taken = 1 /\ VCodecReference /\ VCodecNoBlock
      BY VCodecOneTaken DEF VCodecInv, VCodecFlags
    <3>2. VCodecNoBlock'
      BY <1>4, <3>1 DEF VCodec!Decode, VCodecNoBlock
    <3>3. CASE made = "nosys"
      <4>1. vcodRefs' = vcodRefs /\ vcodSys_acquired' = FALSE /\ vcodSys_acquired = FALSE
        BY <1>4, <3>3 DEF VCodec!Decode, VCodecInv, VCodecFlags, VCodecFlagType
      <4> QED
        BY <3>1, <3>2, <4>1 DEF VCodecReference
    <3>4. CASE made # "nosys"
      <4>1. vcodRefs' = 1 /\ vcodSys_acquired' = TRUE
        BY <1>4, <3>1, <3>4 DEF VCodec!Decode
      <4> QED
        BY <3>2, <4>1 DEF VCodecReference
    <3> QED
      BY <3>3, <3>4
  <2>3. CASE made = "up"
    <3>1. "dec" \in VCodec!Sides /\ VCodec!Exchange("dec", outcome)
      BY <1>4, <2>3 DEF VCodec!Decode, VCodec!Sides
    <3>2. VCodecUnitType' /\ VCodecBounded'
      BY <3>1, VCodecExchangeSteps DEF VCodecInv
    <3>3. VCodec!Contract!Process("dec")
      BY <1>4, <2>3, <3>1, VCodecExchangeSteps DEF VCodec!Decode, VCodecInv, VCodec!Contract!Process
    <3> QED
      BY <2>1, <2>2, <3>1, <3>2, <3>3 DEF VCodecInv, VCodecFlags, VCodec!Contract!Next
  <2>4. CASE made # "up"
    <3>1. UNCHANGED <<vcodSent, vcodFetched, vcodGot, vcodFloor>>
      BY <1>4, <2>4 DEF VCodec!Decode, VCodec!units
    <3>2. VCodecUnitType' /\ VCodecBounded'
      BY <3>1 DEF VCodecInv, VCodecUnitType, VCodecBounded
    <3>3. UNCHANGED <<vcodEncoding, vcodDecoding>>
      BY <1>4, <2>4 DEF VCodec!Decode, VCodecInv, VCodecFlags, VCodecFlagType
    <3>4. UNCHANGED VCodec!Contract!vars
      BY <3>1, <3>3 DEF VCodec!Contract!vars
    <3> QED
      BY <2>1, <2>2, <3>2, <3>4 DEF VCodecInv, VCodecFlags
  <2> QED
    BY <2>3, <2>4
<1>5. ASSUME NEW outcome \in VCodec!Outcomes, NEW own \in BOOLEAN, VCodec!Encode(outcome, own)
      PROVE  VCodecInv' /\ [VCodec!Contract!Next]_(VCodec!Contract!vars)
  <2>1. "enc" \in VCodec!Sides /\ VCodec!Exchange("enc", outcome)
    BY <1>5 DEF VCodec!Encode, VCodec!Sides
  <2>2. VCodecUnitType' /\ VCodecBounded'
    BY <2>1, VCodecExchangeSteps DEF VCodecInv
  <2>3. UNCHANGED <<vcodEncoding, vcodDecoding, vcodSys_acquired, vcodOrphaned, vcodHw, vcodRefs>>
        /\ vcodEncoding
    BY <1>5 DEF VCodec!Encode
  <2>4. VCodecNoBlock'
    BY <1>5 DEF VCodec!Encode, VCodec!Owned, VCodecInv, VCodecFlags, VCodecNoBlock
  <2>5. VCodec!Contract!Process("enc")
    BY <2>1, <2>3, VCodecExchangeSteps DEF VCodecInv, VCodec!Contract!Process
  <2> QED
    BY <2>1, <2>2, <2>3, <2>4, <2>5 DEF VCodecInv, VCodecFlags, VCodecFlagType, VCodecChannels,
       VCodecReference, VCodecSystem, VCodec!Contract!Next
<1>6. CASE UNCHANGED VCodec!vars
  BY <1>6 DEF VCodec!vars, VCodecInv, VCodecUnitType, VCodecBounded, VCodecFlags, VCodecFlagType,
     VCodecChannels, VCodecReference, VCodecSystem, VCodecNoBlock,
     VCodec!Contract!vars
<1> QED
  BY <1>1, <1>2, <1>3, <1>4, <1>5, <1>6 DEF VCodec!Next

\* What the invariant says of the VS816 codec.
LEMMA VCodecSays == VCodecInv => VCodec!HoldsWhatItUses
  BY DEF VCodecInv, VCodecFlags, VCodecChannels, VCodecReference, VCodecSystem, VCodecNoBlock,
         VCodec!HoldsWhatItUses

-----------------------------------------------------------------------------
(* The host's codec. *)

\* Nothing comes back that was not handed in, nothing is behind the start that was not.
HostInv ==
  /\ hostSent \in [Host!Sides -> Nat] /\ hostGot \in [Host!Sides -> Nat] /\ hostFloor \in [Host!Sides -> Nat]
  /\ \A s \in Host!Sides : hostGot[s] <= hostSent[s] /\ hostFloor[s] <= hostSent[s]
  /\ hostEncoding \in BOOLEAN /\ hostChanged \in BOOLEAN /\ Host!HoldsWhatItUses

\* At rest the host codec is one of the interface, and holds nothing.
LEMMA HostInit == Host!Init => HostInv /\ Host!Contract!Init
<1> SUFFICES ASSUME Host!Init PROVE HostInv /\ Host!Contract!Init
  OBVIOUS
<1>1. hostEncoding = FALSE /\ hostEnc = FALSE /\ hostChanged = FALSE
  BY DEF Host!Init
<1>2. \A s \in Host!Sides : hostSent[s] = 0 /\ hostGot[s] = 0 /\ hostFloor[s] = 0
  BY DEF Host!Init
<1>3. /\ hostSent \in [Host!Sides -> Nat] /\ hostGot \in [Host!Sides -> Nat]
      /\ hostFloor \in [Host!Sides -> Nat]
  BY DEF Host!Init
<1>4. HostInv
  <2>1. \A s \in Host!Sides : hostGot[s] <= hostSent[s] /\ hostFloor[s] <= hostSent[s]
    BY <1>2
  <2>2. Host!HoldsWhatItUses
    BY <1>1 DEF Host!HoldsWhatItUses
  <2> QED
    BY <1>1, <1>3, <2>1, <2>2 DEF HostInv
<1>5. Host!Contract!Init
  BY DEF Host!Init, Host!Contract!Init
<1> QED
  BY <1>4, <1>5

\* Every step of the host's codec is one of the interface, or none.
LEMMA HostNext ==
  HostInv /\ [Host!Next]_(Host!vars) => HostInv' /\ [Host!Contract!Next]_(Host!Contract!vars)
<1> SUFFICES ASSUME HostInv, [Host!Next]_(Host!vars)
             PROVE  HostInv' /\ [Host!Contract!Next]_(Host!Contract!vars)
  OBVIOUS
<1>1. CASE Host!SetFormat
  BY <1>1 DEF Host!SetFormat, Host!units, HostInv, Host!HoldsWhatItUses, Host!Contract!vars
<1>2. CASE Host!Start
  <2>1. HostInv'
    BY <1>2 DEF Host!Start, Host!units, HostInv, Host!HoldsWhatItUses
  <2>2. Host!Contract!Start
    BY <1>2 DEF Host!Start, Host!units, Host!Contract!Start
  <2> QED
    BY <2>1, <2>2 DEF Host!Contract!Next
<1>3. CASE Host!Stop
  <2>1. HostInv'
    <3>1. hostEncoding' = FALSE /\ hostEnc' = FALSE /\ hostChanged' = FALSE /\ hostFloor' = hostSent
          /\ UNCHANGED <<hostSent, hostGot>>
      BY <1>3 DEF Host!Stop
    <3>2. \A s \in Host!Sides : hostGot'[s] <= hostSent'[s] /\ hostFloor'[s] <= hostSent'[s]
      BY <3>1 DEF HostInv
    <3> QED
      BY <3>1, <3>2 DEF HostInv, Host!HoldsWhatItUses
  <2>2. Host!Contract!Stop
    BY <1>3 DEF Host!Stop, Host!Contract!Stop
  <2> QED
    BY <2>1, <2>2 DEF Host!Contract!Next
<1>4. CASE Host!Close \/ Host!Flush \/ UNCHANGED Host!vars
  BY <1>4 DEF Host!Close, Host!units, Host!Flush, Host!vars, HostInv, Host!HoldsWhatItUses, Host!Contract!vars
<1>5. ASSUME NEW side \in Host!Sides, Host!Process(side)
      PROVE  HostInv' /\ [Host!Contract!Next]_(Host!Contract!vars)
  <2>1. /\ hostEncoding /\ hostSent' = [hostSent EXCEPT ![side] = @ + 1]
        /\ \/ hostGot' = hostGot
           \/ hostGot' = [hostGot EXCEPT ![side] = hostSent[side] + 1]
        /\ UNCHANGED <<hostOpen, hostCodec, hostChanged, hostEncoding, hostEnc, hostFloor>>
    BY <1>5 DEF Host!Process
  <2>2. HostInv'
    <3>1. /\ hostSent' \in [Host!Sides -> Nat] /\ hostGot' \in [Host!Sides -> Nat]
          /\ hostFloor' \in [Host!Sides -> Nat]
      BY <2>1 DEF HostInv
    <3>2. \A s \in Host!Sides : hostGot'[s] <= hostSent'[s] /\ hostFloor'[s] <= hostSent'[s]
      BY <2>1 DEF HostInv
    <3> QED
      BY <2>1, <3>1, <3>2 DEF HostInv, Host!HoldsWhatItUses
  <2>3. Host!Contract!Process(side)
    <3>1. hostEncoding' = TRUE
      BY <2>1 DEF HostInv
    <3>2. CASE hostGot' = hostGot
      BY <2>1, <3>1, <3>2 DEF Host!Contract!Process
    <3>3. CASE hostGot' = [hostGot EXCEPT ![side] = hostSent[side] + 1]
      <4>1. hostSent[side] + 1 \in 1 .. hostSent'[side]
        BY <2>1 DEF HostInv
      <4>2. hostSent[side] + 1 > hostGot[side] /\ hostSent[side] + 1 > hostFloor[side]
        BY DEF HostInv
      <4> QED
        BY <2>1, <3>1, <3>3, <4>1, <4>2 DEF Host!Contract!Process
    <3> QED
      BY <2>1, <3>2, <3>3
  <2> QED
    BY <2>2, <2>3 DEF Host!Contract!Next
<1> QED
  BY <1>1, <1>2, <1>3, <1>4, <1>5 DEF Host!Next

-----------------------------------------------------------------------------
(* The screen: the displays that share it, and the overlay on it. *)

\* Only what a start has brought up is up, and a display's block is of the pool there is.
ShownInv ==
  /\ IsFiniteSet(scrStarted) /\ scrRefcount = Cardinality(scrStarted)
  /\ scrHw = (IF scrStarted = {} THEN {} ELSE Screen!Display!Screen)
  /\ \A d \in scrStarted : d \in Devices => scrHolding[d] = 0 \/ scrHolding[d] = scrPool
  /\ DOMAIN scrHolding = Devices /\ scrStarted \subseteq Devices
\* The flags of the overlay tell its target, which is the last one that there was a canvas for.
OverlayInv ==
  /\ scrCanvas \in BOOLEAN /\ scrTarget \in {"vo", "venc"}
  /\ scrAttached = (scrCanvas /\ scrTarget = "venc") /\ scrVo_ready = (scrCanvas /\ scrTarget = "vo")
  /\ scrHas_blk = scrVo_ready /\ scrSys_acquired = scrCanvas
  /\ Screen!Graphics!WholeOrNothing

ScreenInv == ShownInv /\ OverlayInv /\ (scrVo_ready => Ui \in scrStarted)

\* Every failure of a bring-up undoes what was done.
LEMMA NothingLeftUp == \A k \in 1 .. 6 : Screen!Display!LeftAt(k) = {}
<1> DEFINE S(k) == {Screen!Display!Steps[i] : i \in 1 .. k - 1}
<1> USE DEF Screen!Display!Steps, Screen!Display!OutSys, Screen!Display!OutDev, Screen!Display!OutLayer,
            Screen!Display!OutChn
<1>1. \A k \in 1 .. 6 : \A x \in S(k) :
        x \in <<{}, Screen!Display!OutSys, Screen!Display!OutDev, Screen!Display!OutLayer,
                Screen!Display!OutLayer, Screen!Display!OutChn>>[k]
  <2> SUFFICES ASSUME NEW k \in 1 .. 6, NEW i \in 1 .. k - 1
               PROVE  Screen!Display!Steps[i]
                        \in <<{}, Screen!Display!OutSys, Screen!Display!OutDev, Screen!Display!OutLayer,
                              Screen!Display!OutLayer, Screen!Display!OutChn>>[k]
    OBVIOUS
  <2>1. k \in {1, 2, 3, 4, 5, 6} /\ i \in {1, 2, 3, 4, 5} /\ i < k
    OBVIOUS
  <2> QED
    BY <2>1
<1> QED
  BY <1>1 DEF Screen!Display!LeftAt

\* What the invariant says of the screen that the displays share.
LEMMA ScreenShared ==
  ShownInv => Screen!UpWhileUsed /\ Screen!BlockLives
<1> SUFFICES ASSUME ShownInv PROVE Screen!UpWhileUsed /\ Screen!BlockLives
  OBVIOUS
<1>1. Screen!UpWhileUsed
  BY DEF ShownInv, Screen!UpWhileUsed, Screen!Display!UpWhileUsed, Screen!Display!Cardinality, Cardinality
<1>2. Screen!BlockLives
  BY DEF ShownInv, Screen!BlockLives, Screen!Display!BlockLives, Screen!Display!Screen,
         Screen!Display!Steps
<1> QED
  BY <1>1, <1>2

\* The count is zero when no display is started.
LEMMA CountedUsers ==
  ASSUME ShownInv
  PROVE  scrRefcount \in Nat /\ (scrRefcount = 0 <=> scrStarted = {})
  BY FS_EmptySet, FS_CardinalityType DEF ShownInv

\* A display starts, whichever step of the bring-up fails.
LEMMA ScreenStart ==
  ASSUME ShownInv, NEW d \in Devices, NEW k \in 1 .. 7, Screen!Display!Start(d, k)
  PROVE  ShownInv'
<1>0. DOMAIN Screen!Display!Steps = 1 .. 6
  BY DEF Screen!Display!Steps
<1>1. scrHolding[d] = 0 /\ d \notin scrStarted /\ UNCHANGED scrHolding
  BY DEF Screen!Display!Start
<1>2. IsFiniteSet(scrStarted \cup {d}) /\ Cardinality(scrStarted \cup {d}) = scrRefcount + 1
  BY <1>1, FS_AddElement DEF ShownInv
<1>3. scrRefcount \in Nat /\ (scrRefcount = 0 <=> scrStarted = {})
  BY CountedUsers
<1>4. CASE scrRefcount > 0
  <2>1. scrRefcount' = scrRefcount + 1 /\ scrStarted' = scrStarted \cup {d} /\ UNCHANGED <<scrHw, scrPool>>
    BY <1>4 DEF Screen!Display!Start
  <2>2. scrStarted # {} /\ scrStarted' # {}
    BY <1>3, <1>4, <2>1
  <2> QED
    BY <1>1, <1>2, <2>1, <2>2 DEF ShownInv
<1>5. CASE ~(scrRefcount > 0) /\ k \in 1 .. 6
  <2>1. scrHw' = scrHw \cup Screen!Display!LeftAt(k) /\ UNCHANGED <<scrStarted, scrRefcount, scrPool>>
    BY <1>0, <1>5 DEF Screen!Display!Start
  <2>2. scrHw' = scrHw
    BY <1>5, <2>1, NothingLeftUp
  <2> QED
    BY <1>1, <2>1, <2>2 DEF ShownInv
<1>6. CASE ~(scrRefcount > 0) /\ k \notin 1 .. 6
  <2>1. scrHw' = scrHw \cup Screen!Display!Screen /\ scrRefcount' = 1 /\ scrStarted' = scrStarted \cup {d}
    BY <1>0, <1>6 DEF Screen!Display!Start
  <2>2. scrStarted = {} /\ scrHw = {} /\ scrStarted' = {d} /\ scrRefcount = 0
    BY <1>3, <1>6, <2>1 DEF ShownInv
  <2>3. scrHw' = Screen!Display!Screen
    BY <2>1, <2>2
  <2> QED
    BY <1>1, <1>2, <1>3, <2>1, <2>2, <2>3 DEF ShownInv
<1> QED
  BY <1>4, <1>5, <1>6

\* A display stops; the last one takes the screen down.
LEMMA ScreenStop ==
  ASSUME ShownInv, NEW d \in Devices, Screen!Display!Stop(d) PROVE ShownInv'
<1>1. /\ scrHolding[d] = 0 /\ d \in scrStarted /\ scrStarted' = scrStarted \ {d}
      /\ scrRefcount' = scrRefcount - 1 /\ UNCHANGED <<scrPool, scrHolding>>
  BY DEF Screen!Display!Stop
<1>2. IsFiniteSet(scrStarted \ {d}) /\ Cardinality(scrStarted \ {d}) = scrRefcount - 1
  BY <1>1, FS_RemoveElement DEF ShownInv
<1>3. scrRefcount \in Nat /\ (scrRefcount - 1 = 0 <=> scrStarted \ {d} = {})
  BY <1>2, FS_EmptySet, CountedUsers
<1>4. scrHw = Screen!Display!Screen
  BY <1>1 DEF ShownInv
<1>5. scrHw' = (IF scrStarted' = {} THEN {} ELSE Screen!Display!Screen)
  <2>1. CASE scrRefcount = 1
    <3>1. scrHw' = scrHw \ Screen!Display!Screen /\ scrStarted' = {}
      BY <1>1, <1>3, <2>1 DEF Screen!Display!Stop, Screen!Display!Teardown
    <3> QED
      BY <1>4, <3>1
  <2>2. CASE scrRefcount # 1
    <3>1. scrHw' = scrHw /\ scrStarted' # {}
      BY <1>1, <1>3, <2>2 DEF Screen!Display!Stop
    <3> QED
      BY <1>4, <3>1
  <2> QED
    BY <2>1, <2>2
<1> QED
  BY <1>1, <1>2, <1>5 DEF ShownInv

\* Every step of the displays keeps the invariant of the screen.
LEMMA ScreenDisplay ==
  ASSUME ShownInv, Screen!Display!Next PROVE ShownInv'
<1>1. ASSUME NEW d \in Devices, Screen!Display!Show(d) PROVE ShownInv'
  <2>1. scrHolding' = [scrHolding EXCEPT ![d] = scrPool]
        /\ UNCHANGED <<scrStarted, scrRefcount, scrHw, scrPool>>
    BY <1>1 DEF Screen!Display!Show
  <2> QED
    BY <2>1 DEF ShownInv
<1>2. ASSUME NEW d \in Devices, Screen!Display!Shown(d) PROVE ShownInv'
  <2>1. scrHolding' = [scrHolding EXCEPT ![d] = 0]
        /\ UNCHANGED <<scrStarted, scrRefcount, scrHw, scrPool>>
    BY <1>2 DEF Screen!Display!Shown
  <2> QED
    BY <2>1 DEF ShownInv
<1> QED
  BY <1>1, <1>2, ScreenStart, ScreenStop DEF Screen!Display!Next

\* What an overlay takes of the layer, on the panel and on the encoder.
LEMMA OverlayParts ==
  /\ Screen!Graphics!All("vo") = {"uibind", "uilayer", "uichn", "mmz", "address"}
  /\ Screen!Graphics!All("venc") = {"region", "attach", "canvas"}
  BY DEF Screen!Graphics!All, Screen!Graphics!Parts, Screen!Graphics!OnScreen, Screen!Graphics!InPicture

\* Every step of the overlay keeps its invariant.
LEMMA OverlayNext ==
  ASSUME OverlayInv, Screen!Graphics!Next PROVE OverlayInv'
<1>1. scrOsd = (IF scrCanvas THEN Screen!Graphics!All(scrTarget) ELSE {})
      /\ scrRefs = (IF scrCanvas THEN 1 ELSE 0)
  BY DEF OverlayInv, Screen!Graphics!WholeOrNothing
<1>2. CASE Screen!Graphics!Destroy
  <2>1. scrOsd' = {}
    <3>1. CASE scrCanvas /\ scrTarget = "vo"
      BY <1>1, <1>2, <3>1, OverlayParts DEF Screen!Graphics!Destroy, OverlayInv
    <3>2. CASE scrCanvas /\ scrTarget = "venc"
      BY <1>1, <1>2, <3>2 DEF Screen!Graphics!Destroy, OverlayInv
    <3>3. CASE ~scrCanvas
      BY <1>1, <1>2, <3>3 DEF Screen!Graphics!Destroy, OverlayInv
    <3> QED
      BY <3>1, <3>2, <3>3 DEF OverlayInv
  <2>2. scrRefs' = 0
    BY <1>1, <1>2 DEF Screen!Graphics!Destroy, OverlayInv
  <2>3. /\ scrAttached' = FALSE /\ scrVo_ready' = FALSE /\ scrHas_blk' = FALSE /\ scrCanvas' = FALSE
        /\ scrSys_acquired' = FALSE /\ scrTarget' = scrTarget
    BY <1>2 DEF Screen!Graphics!Destroy
  <2> QED
    BY <2>1, <2>2, <2>3 DEF OverlayInv, Screen!Graphics!WholeOrNothing
<1>3. ASSUME NEW t \in {"vo", "venc"}, Screen!Graphics!CreateFails(t) PROVE OverlayInv'
  <2>1. ~scrCanvas /\ scrTarget' \in {"vo", "venc"}
        /\ UNCHANGED <<scrAttached, scrVo_ready, scrSys_acquired, scrHas_blk, scrRefs, scrCanvas>>
    BY <1>3 DEF Screen!Graphics!CreateFails, OverlayInv
  <2>2. scrOsd' = scrOsd
    BY <1>3 DEF Screen!Graphics!CreateFails, Screen!Graphics!Undone
  <2> QED
    BY <1>1, <2>1, <2>2 DEF OverlayInv, Screen!Graphics!WholeOrNothing
<1>4. ASSUME NEW t \in {"vo", "venc"}, Screen!Graphics!Create(t) PROVE OverlayInv'
  <2>1. ~scrCanvas /\ scrOsd = {} /\ scrRefs = 0 /\ ~scrHas_blk
    BY <1>1, <1>4 DEF Screen!Graphics!Create, OverlayInv
  <2>2. /\ scrTarget' = t /\ scrOsd' = Screen!Graphics!All(t) /\ scrCanvas' = TRUE
        /\ scrAttached' = (t = "venc") /\ scrVo_ready' = (t = "vo") /\ scrHas_blk' = (t = "vo")
        /\ scrSys_acquired' = TRUE /\ scrRefs' = 1
    BY <1>4, <2>1 DEF Screen!Graphics!Create, OverlayInv
  <2> QED
    BY <2>2 DEF OverlayInv, Screen!Graphics!WholeOrNothing
<1> QED
  BY <1>2, <1>3, <1>4 DEF Screen!Graphics!Next

\* Every step of the display and of the overlay on it.
LEMMA ScreenNext == ScreenInv /\ [Screen!Next]_(Screen!vars) => ScreenInv'
<1> SUFFICES ASSUME ScreenInv, [Screen!Next]_(Screen!vars) PROVE ScreenInv'
  OBVIOUS
<1>1. CASE Screen!DisplayStep
  <2>1. ShownInv'
    BY <1>1, ScreenDisplay DEF Screen!DisplayStep, ScreenInv
  <2>2. UNCHANGED <<scrTarget, scrAttached, scrVo_ready, scrSys_acquired, scrHas_blk, scrOsd, scrRefs, scrCanvas>>
        /\ (scrVo_ready => Ui \in scrStarted')
    BY <1>1 DEF Screen!DisplayStep, Screen!graphicsVars
  <2> QED
    BY <2>1, <2>2 DEF ScreenInv, OverlayInv, Screen!Graphics!WholeOrNothing
<1>2. CASE Screen!GraphicsStep
  <2>1. OverlayInv'
    BY <1>2, OverlayNext DEF Screen!GraphicsStep, ScreenInv
  <2>2. UNCHANGED <<scrStarted, scrRefcount, scrHw, scrPool, scrHolding>>
        /\ (scrVo_ready' => Ui \in scrStarted)
    BY <1>2 DEF Screen!GraphicsStep, Screen!displayVars
  <2> QED
    BY <2>1, <2>2 DEF ScreenInv, ShownInv
<1>3. CASE UNCHANGED Screen!vars
  BY <1>3 DEF Screen!vars, Screen!displayVars, Screen!graphicsVars, ScreenInv, ShownInv, OverlayInv,
              Screen!Graphics!WholeOrNothing
<1> QED
  BY <1>1, <1>2, <1>3 DEF Screen!Next

\* At rest nothing is shown.
LEMMA ScreenInit == Screen!Init => ScreenInv
<1> SUFFICES ASSUME Screen!Init PROVE ScreenInv
  OBVIOUS
<1>1. ShownInv
  <2>1. scrStarted = {} /\ scrRefcount = 0 /\ scrHw = {} /\ scrHolding = [d \in Devices |-> 0]
    BY DEF Screen!Init, Screen!Display!Init
  <2> QED
    BY <2>1, FS_EmptySet DEF ShownInv
<1>2. OverlayInv
  BY DEF Screen!Init, Screen!Graphics!Init, OverlayInv, Screen!Graphics!WholeOrNothing
<1>3. ~scrVo_ready
  BY DEF Screen!Init, Screen!Graphics!Init
<1> QED
  BY <1>1, <1>2, <1>3 DEF ScreenInv

\* What the invariant says of the screen and the overlay.
LEMMA ScreenSays ==
  ScreenInv => /\ Screen!UpWhileUsed /\ Screen!BlockLives /\ Screen!WholeOrNothing
               /\ Screen!FlushesWhatIsShown /\ Screen!OverlayHasScreen
<1> SUFFICES ASSUME ScreenInv
             PROVE  /\ Screen!UpWhileUsed /\ Screen!BlockLives /\ Screen!WholeOrNothing
                    /\ Screen!FlushesWhatIsShown /\ Screen!OverlayHasScreen
  OBVIOUS
<1>1. Screen!UpWhileUsed /\ Screen!BlockLives
  BY ScreenShared DEF ScreenInv
<1>2. Screen!WholeOrNothing
  BY DEF ScreenInv, OverlayInv, Screen!WholeOrNothing
<1>3. Screen!FlushesWhatIsShown
  BY DEF ScreenInv, OverlayInv, Screen!FlushesWhatIsShown, Screen!Graphics!FlushesWhatIsShown,
         Screen!Graphics!FlushesTo
<1>4. Screen!OverlayHasScreen
  <2> SUFFICES ASSUME "uilayer" \in scrOsd PROVE {"sys", "dev"} \subseteq scrHw
    BY DEF Screen!OverlayHasScreen
  <2>1. scrCanvas /\ scrTarget = "vo"
    BY OverlayParts DEF ScreenInv, OverlayInv, Screen!Graphics!WholeOrNothing
  <2>2. scrStarted # {}
    BY <2>1 DEF ScreenInv, OverlayInv
  <2>3. scrHw = Screen!Display!Screen
    BY <2>2 DEF ScreenInv, ShownInv
  <2>4. "sys" \in Screen!Display!Screen /\ "dev" \in Screen!Display!Screen
    <3>1. 1 \in DOMAIN Screen!Display!Steps /\ 2 \in DOMAIN Screen!Display!Steps
          /\ Screen!Display!Steps[1] = "sys" /\ Screen!Display!Steps[2] = "dev"
      BY DEF Screen!Display!Steps
    <3> QED
      BY <3>1 DEF Screen!Display!Screen
  <2> QED
    BY <2>3, <2>4
<1> QED
  BY <1>1, <1>2, <1>3, <1>4

-----------------------------------------------------------------------------
(* The RV1126B camera. *)

\* What may be left of a call: of preview_stop(), of stop(), of encoded_stop().
P1 == <<"unpreview", "joinPreview", "drain", "destroyPool">>
P2 == <<"joinPreview", "drain", "destroyPool">>
P3 == <<"drain", "destroyPool">>
P4 == <<"destroyPool">>
R1 == <<"unpreview", "joinPreview", "drain", "destroyPool", "halt", "joinCapture", "releaseRaw">>
R2 == <<"joinPreview", "drain", "destroyPool", "halt", "joinCapture", "releaseRaw">>
R3 == <<"drain", "destroyPool", "halt", "joinCapture", "releaseRaw">>
R4 == <<"destroyPool", "halt", "joinCapture", "releaseRaw">>
R5 == <<"halt", "joinCapture", "releaseRaw">>
R6 == <<"joinCapture", "releaseRaw">>
R7 == <<"releaseRaw">>
E1 == <<"unpreview", "joinPreview", "drain", "destroyPool", "cleanup">>
E5 == <<"cleanup">>

CallSteps ==
  {"unpreview", "joinPreview", "drain", "destroyPool", "halt", "joinCapture", "releaseRaw", "cleanup"}

\* A sequence made of two others is their concatenation, and its end is the second.
LEMMA TwoParts ==
  ASSUME NEW S, NEW p \in Seq(S), NEW q \in Seq(S), NEW w \in Seq(S), Len(w) = Len(p) + Len(q),
         \A i \in 1 .. Len(p) : w[i] = p[i], \A i \in 1 .. Len(q) : w[Len(p) + i] = q[i]
  PROVE  p \o q = w /\ SubSeq(w, Len(p) + 1, Len(w)) = q
<1> DEFINE a == Len(p)
           b == Len(q)
<1>0. a \in Nat /\ b \in Nat /\ Len(w) = a + b
  OBVIOUS
<1>1. p \o q \in Seq(S) /\ Len(p \o q) = a + b
      /\ \A i \in 1 .. a + b : (p \o q)[i] = IF i <= a THEN p[i] ELSE q[i - a]
  BY ConcatProperties
<1> HIDE DEF a, b
<1>2. \A i \in 1 .. a + b : (p \o q)[i] = w[i]
  <2> TAKE i \in 1 .. a + b
  <2>1. CASE i <= a
    <3>1. i \in 1 .. a
      BY <1>0, <2>1
    <3> QED
      BY <1>1, <2>1, <3>1 DEF a
  <2>2. CASE ~(i <= a)
    <3>1. i - a \in 1 .. b /\ a + (i - a) = i
      BY <1>0, <2>2
    <3> QED
      BY <1>1, <2>2, <3>1 DEF a, b
  <2> QED
    BY <2>1, <2>2
<1>3. p \o q = w
  <2> HIDE <1>2
  <2> QED
    BY <1>0, <1>1, <1>2, SeqEqual
<1>4. \A i \in a + 1 .. a + b : w[i] \in S
  BY <1>0
<1>5. /\ SubSeq(w, a + 1, a + b) \in Seq(S) /\ Len(SubSeq(w, a + 1, a + b)) = b
      /\ \A i \in 1 .. b : SubSeq(w, a + 1, a + b)[i] = w[a + i]
  BY <1>0, <1>4
<1>6. SubSeq(w, a + 1, a + b) = q
  BY <1>5, SeqEqual DEF a, b
<1> QED
  BY <1>0, <1>3, <1>6 DEF a

\* What is left of preview_stop() after each of its steps.
LEMMA CallsPreview ==
  /\ Camera!PreviewSteps = P1
  /\ Head(P1) = "unpreview" /\ Len(P1) = 4 /\ Tail(P1) = P2 /\ SubSeq(P1, 5, Len(P1)) = <<>>
  /\ Head(P2) = "joinPreview" /\ Len(P2) = 3 /\ Tail(P2) = P3
  /\ Head(P3) = "drain" /\ Len(P3) = 2 /\ Tail(P3) = P4
  /\ Head(P4) = "destroyPool" /\ Len(P4) = 1 /\ Tail(P4) = <<>>
  BY DEF P1, P2, P3, P4, Camera!PreviewSteps

\* What is left of stop() after each of its steps.
LEMMA CallsRaw ==
  /\ Camera!PreviewSteps \o Camera!StopSteps = R1
  /\ Head(R1) = "unpreview" /\ Len(R1) = 7 /\ Tail(R1) = R2 /\ SubSeq(R1, 5, Len(R1)) = R5
  /\ Head(R2) = "joinPreview" /\ Len(R2) = 6 /\ Tail(R2) = R3
  /\ Head(R3) = "drain" /\ Len(R3) = 5 /\ Tail(R3) = R4
  /\ Head(R4) = "destroyPool" /\ Len(R4) = 4 /\ Tail(R4) = R5
  /\ Head(R5) = "halt" /\ Len(R5) = 3 /\ Tail(R5) = R6
  /\ Head(R6) = "joinCapture" /\ Len(R6) = 2 /\ Tail(R6) = R7
  /\ Head(R7) = "releaseRaw" /\ Len(R7) = 1 /\ Tail(R7) = <<>>
<1>1. P1 \in Seq(CallSteps) /\ R5 \in Seq(CallSteps) /\ R1 \in Seq(CallSteps)
      /\ Len(P1) = 4 /\ Len(R5) = 3 /\ Len(R1) = 7
  <2>1. P1 \in Seq(CallSteps) /\ Len(P1) = 4
    BY DEF P1, CallSteps
  <2>2. R1 \in Seq(CallSteps) /\ Len(R1) = 7
    BY DEF R1, CallSteps
  <2>3. R5 \in Seq(CallSteps) /\ Len(R5) = 3
    BY DEF R5, CallSteps
  <2> QED
    BY <2>1, <2>2, <2>3
<1>2. (\A i \in 1 .. 4 : R1[i] = P1[i]) /\ (\A i \in 1 .. 3 : R1[4 + i] = R5[i])
  BY DEF P1, R1, R5
<1>0. Camera!PreviewSteps \o Camera!StopSteps = R1 /\ SubSeq(R1, 5, Len(R1)) = R5
  <2>1. Len(R1) = Len(P1) + Len(R5) /\ Len(P1) + 1 = 5
    BY <1>1
  <2>2. (\A i \in 1 .. Len(P1) : R1[i] = P1[i]) /\ (\A i \in 1 .. Len(R5) : R1[Len(P1) + i] = R5[i])
    BY <1>1, <1>2
  <2>3. P1 \o R5 = R1 /\ SubSeq(R1, Len(P1) + 1, Len(R1)) = R5
    BY <1>1, <2>1, <2>2, TwoParts
  <2> QED
    BY <2>1, <2>3 DEF P1, R5, Camera!PreviewSteps, Camera!StopSteps
<1>3. Head(R1) = "unpreview" /\ Len(R1) = 7 /\ Tail(R1) = R2
  BY DEF R1, R2
<1>4. Head(R2) = "joinPreview" /\ Len(R2) = 6 /\ Tail(R2) = R3
  BY DEF R2, R3
<1>5. /\ Head(R3) = "drain" /\ Len(R3) = 5 /\ Tail(R3) = R4
      /\ Head(R4) = "destroyPool" /\ Len(R4) = 4 /\ Tail(R4) = R5
  BY DEF R3, R4, R5
<1>6. /\ Head(R5) = "halt" /\ Len(R5) = 3 /\ Tail(R5) = R6
      /\ Head(R6) = "joinCapture" /\ Len(R6) = 2 /\ Tail(R6) = R7
      /\ Head(R7) = "releaseRaw" /\ Len(R7) = 1 /\ Tail(R7) = <<>>
  BY DEF R5, R6, R7
<1> QED
  BY <1>0, <1>3, <1>4, <1>5, <1>6

\* What is left of encoded_stop() after each of its steps.
LEMMA CallsEncoded ==
  /\ Camera!PreviewSteps \o <<"cleanup">> = E1
  /\ Head(E1) = "unpreview" /\ Len(E1) = 5 /\ SubSeq(E1, 5, Len(E1)) = E5
  /\ Head(E5) = "cleanup" /\ Len(E5) = 1 /\ Tail(E5) = <<>>
<1>1. P1 \in Seq(CallSteps) /\ E5 \in Seq(CallSteps) /\ E1 \in Seq(CallSteps)
      /\ Len(P1) = 4 /\ Len(E5) = 1 /\ Len(E1) = 5
  <2>1. P1 \in Seq(CallSteps) /\ Len(P1) = 4
    BY DEF P1, CallSteps
  <2>2. E1 \in Seq(CallSteps) /\ Len(E1) = 5
    BY DEF E1, CallSteps
  <2>3. E5 \in Seq(CallSteps) /\ Len(E5) = 1
    BY DEF E5, CallSteps
  <2> QED
    BY <2>1, <2>2, <2>3
<1>2. (\A i \in 1 .. 4 : E1[i] = P1[i]) /\ (\A i \in 1 .. 1 : E1[4 + i] = E5[i])
  BY DEF P1, E1, E5
<1>0. Camera!PreviewSteps \o <<"cleanup">> = E1 /\ SubSeq(E1, 5, Len(E1)) = E5
  <2>1. Len(E1) = Len(P1) + Len(E5) /\ Len(P1) + 1 = 5
    BY <1>1
  <2>2. (\A i \in 1 .. Len(P1) : E1[i] = P1[i]) /\ (\A i \in 1 .. Len(E5) : E1[Len(P1) + i] = E5[i])
    BY <1>1, <1>2
  <2>3. P1 \o E5 = E1 /\ SubSeq(E1, Len(P1) + 1, Len(E1)) = E5
    BY <1>1, <2>1, <2>2, TwoParts
  <2> QED
    BY <2>1, <2>3 DEF P1, E5, Camera!PreviewSteps
<1>3. Head(E1) = "unpreview" /\ Len(E1) = 5 /\ Head(E5) = "cleanup" /\ Len(E5) = 1 /\ Tail(E5) = <<>>
  BY DEF E1, E5
<1> QED
  BY <1>0, <1>3

\* The stop() of raw frames is past its "halt": the threads' channel is still there.
Halted == camCall \in {R6, R7}
Raw == camStreaming \/ Halted

CameraTyped ==
  /\ camStreaming \in BOOLEAN /\ camEncoded \in BOOLEAN /\ camOn \in BOOLEAN /\ camDirect \in BOOLEAN
  /\ camPools \in Nat
  /\ camCall \in {<<>>, P1, P2, P3, P4, R1, R2, R3, R4, R5, R6, R7, E1, E5}
\* What has a flag is there, and nothing else; which it is goes by the output.
CameraHas ==
  /\ camHw = camFlags
  /\ Raw => /\ \A p \in {"sys", "dev", "rawchn"} : p \in camFlags
            /\ \A p \in camFlags : p \in {"sys", "dev", "rawchn", "aiq"}
  /\ camEncoded => /\ \A p \in {"sys", "dev", "encchn", "venc", "bind"} : p \in camFlags
                   /\ \A p \in camFlags :
                        p \in {"sys", "dev", "encchn", "venc", "bind", "aiq", "prvchn", "prvbind"}
                   /\ ("prvchn" \in camFlags <=> camDirect) /\ ("prvbind" \in camFlags <=> camDirect)
  /\ ~Raw /\ ~camEncoded => camFlags = {}
\* Which output there is while a call is made, and what is previewed.
CameraModes ==
  /\ ~(Raw /\ camEncoded)
  /\ camDirect => camEncoded /\ camOn
  /\ camOn => camDirect \/ camStreaming
  /\ camOn => camCall \in {<<>>, P1, R1, E1}
  /\ camCall \in {R1, R2, R3, R4, R5} => camStreaming
  /\ Halted => ~camStreaming
  /\ camCall \in {E1, E5} => camEncoded
\* A thread is there while it has work, or until it has been joined.
CameraThreads ==
  /\ camCapture # "off" => camStreaming \/ camCall = R6
  /\ camPreview # "off" => camPool # 0 /\ ((camOn /\ ~camDirect) \/ camCall \in {P2, R2})
  /\ camPool # 0 => (camOn /\ ~camDirect) \/ camCall \in {P2, P3, P4, R2, R3, R4}
  /\ camShown # 0 => camPreview = "send"

CameraInv == CameraTyped /\ CameraHas /\ CameraModes /\ CameraThreads

\* The places that a call may be at, and the place after each.
LEMMA CameraPlaces ==
  ASSUME CameraTyped
  PROVE  /\ Camera!At("unpreview") => camCall \in {P1, R1, E1}
         /\ Camera!At("joinPreview") => (camCall = P2 /\ Tail(camCall) = P3) \/ (camCall = R2 /\ Tail(camCall) = R3)
         /\ Camera!At("drain") => (camCall = P3 /\ Tail(camCall) = P4) \/ (camCall = R3 /\ Tail(camCall) = R4)
         /\ Camera!At("destroyPool") =>
              (camCall = P4 /\ Tail(camCall) = <<>>) \/ (camCall = R4 /\ Tail(camCall) = R5)
         /\ Camera!At("halt") => camCall = R5 /\ Tail(camCall) = R6
         /\ Camera!At("joinCapture") => camCall = R6 /\ Tail(camCall) = R7
         /\ Camera!At("releaseRaw") => camCall = R7 /\ Tail(camCall) = <<>>
         /\ Camera!At("cleanup") => camCall = E5 /\ Tail(camCall) = <<>>
<1> SUFFICES ASSUME camCall # <<>>
             PROVE  /\ Head(camCall) = "unpreview" => camCall \in {P1, R1, E1}
                    /\ Head(camCall) = "joinPreview" =>
                         (camCall = P2 /\ Tail(camCall) = P3) \/ (camCall = R2 /\ Tail(camCall) = R3)
                    /\ Head(camCall) = "drain" =>
                         (camCall = P3 /\ Tail(camCall) = P4) \/ (camCall = R3 /\ Tail(camCall) = R4)
                    /\ Head(camCall) = "destroyPool" =>
                         (camCall = P4 /\ Tail(camCall) = <<>>) \/ (camCall = R4 /\ Tail(camCall) = R5)
                    /\ Head(camCall) = "halt" => camCall = R5 /\ Tail(camCall) = R6
                    /\ Head(camCall) = "joinCapture" => camCall = R6 /\ Tail(camCall) = R7
                    /\ Head(camCall) = "releaseRaw" => camCall = R7 /\ Tail(camCall) = <<>>
                    /\ Head(camCall) = "cleanup" => camCall = E5 /\ Tail(camCall) = <<>>
  BY DEF Camera!At, Camera!Idle
<1>1. CASE camCall \in {P1, P2, P3, P4}
  BY <1>1, CallsPreview
<1>2. CASE camCall \in {R1, R2, R3, R4, R5, R6, R7}
  BY <1>2, CallsRaw
<1>3. CASE camCall \in {E1, E5}
  BY <1>3, CallsEncoded
<1> QED
  BY <1>1, <1>2, <1>3 DEF CameraTyped

\* The places differ.
LEMMA PlacesDiffer ==
  /\ <<>> \notin {P1, P2, P3, P4, R1, R2, R3, R4, R5, R6, R7, E1, E5}
  /\ P1 \notin {P2, P3, P4, R1, R2, R3, R4, R5, R6, R7, E1, E5}
  /\ P2 \notin {P3, P4, R1, R2, R3, R4, R5, R6, R7, E1, E5}
  /\ P3 \notin {P4, R1, R2, R3, R4, R5, R6, R7, E1, E5}
  /\ P4 \notin {R1, R2, R3, R4, R5, R6, R7, E1, E5}
  /\ R1 \notin {R2, R3, R4, R5, R6, R7, E1, E5} /\ R2 \notin {R3, R4, R5, R6, R7, E1, E5}
  /\ R3 \notin {R4, R5, R6, R7, E1, E5} /\ R4 \notin {R5, R6, R7, E1, E5}
  /\ R5 \notin {R6, R7, E1, E5} /\ R6 \notin {R7, E1, E5} /\ R7 \notin {E1, E5} /\ E1 # E5
<1>1. <<>> \notin {P1, P2, P3, P4, R1, R2, R3, R4, R5, R6, R7, E1, E5}
  <2>1. Len(<<>>) = 0
    OBVIOUS
  <2> QED
    BY <2>1, CallsPreview, CallsRaw, CallsEncoded
<1>2. Len(P1) = 4 /\ Len(P2) = 3 /\ Len(P3) = 2 /\ Len(P4) = 1
      /\ Head(P1) = "unpreview" /\ Head(P2) = "joinPreview" /\ Head(P3) = "drain"
      /\ Head(P4) = "destroyPool"
  BY CallsPreview
<1>3. /\ P1 \notin {P2, P3, P4} /\ P2 \notin {P3, P4} /\ P3 # P4
  BY <1>2
<1>p. Len(R1) = 7 /\ Len(R2) = 6 /\ Len(R3) = 5 /\ Len(R4) = 4 /\ Len(R5) = 3 /\ Len(R6) = 2
      /\ Len(R7) = 1 /\ Head(R4) = "destroyPool" /\ Head(R5) = "halt"
      /\ Head(R6) = "joinCapture" /\ Head(R7) = "releaseRaw"
  BY CallsRaw
<1>q. Len(E1) = 5 /\ Len(E5) = 1 /\ Head(E5) = "cleanup"
  BY CallsEncoded
<1>r. P1 \notin {R1, R2, R3, R4, R5, R6, R7, E1, E5}
  BY <1>2, <1>p, <1>q
<1>s. P2 \notin {R1, R2, R3, R4, R5, R6, R7, E1, E5}
  BY <1>2, <1>p, <1>q
<1>t. P3 \notin {R1, R2, R3, R4, R5, R6, R7, E1, E5}
  BY <1>2, <1>p, <1>q
<1>u. P4 \notin {R1, R2, R3, R4, R5, R6, R7, E1, E5}
  BY <1>2, <1>p, <1>q
<1>4. /\ R1 \notin {R2, R3, R4, R5, R6, R7, E1, E5} /\ R2 \notin {R3, R4, R5, R6, R7, E1, E5}
      /\ R3 \notin {R4, R5, R6, R7, E1, E5} /\ R4 \notin {R5, R6, R7, E1, E5}
  BY CallsRaw, CallsEncoded
<1>5. R5 \notin {R6, R7, E1, E5} /\ R6 \notin {R7, E1, E5} /\ R7 \notin {E1, E5} /\ E1 # E5
  BY CallsRaw, CallsEncoded
<1> QED
  BY <1>1, <1>3, <1>r, <1>s, <1>t, <1>u, <1>4, <1>5

-----------------------------------------------------------------------------
\* The calls that start something.
LEMMA CameraStarts ==
  ASSUME CameraInv, Camera!Idle,
         \/ \E aiq \in {{}, {"aiq"}} :
              \/ \E n \in 0 .. Len(Camera!RawSteps), threaded \in BOOLEAN : Camera!Start(aiq, n, threaded)
              \/ \E n \in 0 .. Len(Camera!EncodedSteps) : Camera!EncodedStart(aiq, n)
         \/ \E ok \in BOOLEAN : Camera!DirectPreviewStart(ok) \/ Camera!PreviewStart(ok)
  PROVE  CameraInv'
<1>0. camCall = <<>> /\ ~Halted
  BY PlacesDiffer DEF Camera!Idle, Halted
<1>r. Camera!Reached(Camera!RawSteps, Len(Camera!RawSteps)) = {"sys", "dev", "rawchn"}
  <2>1. Len(Camera!RawSteps) = 3 /\ 1 .. 3 = {1, 2, 3}
    BY DEF Camera!RawSteps
  <2> QED
    BY <2>1 DEF Camera!RawSteps, Camera!Reached
<1>e. Camera!Reached(Camera!EncodedSteps, Len(Camera!EncodedSteps)) = {"sys", "dev", "encchn", "venc", "bind"}
  <2>1. Len(Camera!EncodedSteps) = 5 /\ 1 .. 5 = {1, 2, 3, 4, 5}
    BY DEF Camera!EncodedSteps
  <2> QED
    BY <2>1 DEF Camera!EncodedSteps, Camera!Reached
<1>1. ASSUME NEW aiq \in {{}, {"aiq"}}, NEW n \in 0 .. Len(Camera!RawSteps), NEW threaded \in BOOLEAN,
             Camera!Start(aiq, n, threaded)
      PROVE  CameraInv'
  <2>1. ~camStreaming /\ ~camEncoded /\ camFlags = {} /\ camHw = {} /\ ~camOn /\ ~camDirect
        /\ camPool = 0 /\ camPreview = "off" /\ camCapture = "off"
    BY <1>0, <1>1, PlacesDiffer
    DEF Camera!Start, Camera!Busy, CameraInv, CameraTyped, CameraHas, CameraModes, CameraThreads, Raw
  <2>2. UNCHANGED <<camEncoded, camOn, camDirect, camPool, camPools, camPreview, camShown, camCall>>
    BY <1>1 DEF Camera!Start
  <2>3. CASE UNCHANGED <<camStreaming, camCapture>> /\ camHw' = {} /\ camFlags' = {}
    BY <1>0, <2>1, <2>2, <2>3
    DEF CameraInv, CameraTyped, CameraHas, CameraModes, CameraThreads, Raw, Halted
  <2>4. CASE /\ camHw' = {"sys", "dev", "rawchn"} \cup aiq /\ camFlags' = {"sys", "dev", "rawchn"} \cup aiq
             /\ camStreaming' = TRUE
    <3>1. CameraHas'
      <4>1. \A p : p \in camFlags' <=> p \in {"sys", "dev", "rawchn"} \/ p \in aiq
        BY <2>4
      <4>2. \A p \in aiq : p = "aiq"
        OBVIOUS
      <4>3. camHw' = camFlags' /\ camEncoded' = FALSE /\ camStreaming'
        BY <2>1, <2>2, <2>4 DEF CameraInv, CameraTyped
      <4> QED
        BY <4>1, <4>2, <4>3 DEF CameraHas, Raw
    <3>2. CameraTyped' /\ CameraModes' /\ CameraThreads'
      BY <1>0, <2>1, <2>2, <2>4, PlacesDiffer
      DEF CameraInv, CameraTyped, CameraModes, CameraThreads, Raw, Halted
    <3> QED
      BY <3>1, <3>2 DEF CameraInv
  <2> QED
    <3>1. CASE /\ n = Len(Camera!RawSteps) /\ camStreaming' = TRUE
               /\ camHw' = camHw \cup (Camera!Reached(Camera!RawSteps, n) \cup aiq)
               /\ camFlags' = camFlags \cup (Camera!Reached(Camera!RawSteps, n) \cup aiq)
      BY <1>r, <2>1, <2>4, <3>1
    <3>2. CASE /\ camHw' = (camHw \cup (Camera!Reached(Camera!RawSteps, n) \cup aiq))
                             \ (camFlags \cup (Camera!Reached(Camera!RawSteps, n) \cup aiq))
               /\ camFlags' = {} /\ UNCHANGED <<camStreaming, camCapture>>
      BY <2>1, <2>3, <3>2
    <3> QED
      BY <1>1, <3>1, <3>2 DEF Camera!Start
<1>2. ASSUME NEW aiq \in {{}, {"aiq"}}, NEW n \in 0 .. Len(Camera!EncodedSteps), Camera!EncodedStart(aiq, n)
      PROVE  CameraInv'
  <2>1. ~camStreaming /\ ~camEncoded /\ camFlags = {} /\ camHw = {} /\ ~camOn /\ ~camDirect
        /\ camPool = 0 /\ camPreview = "off" /\ camCapture = "off"
    BY <1>0, <1>2, PlacesDiffer
    DEF Camera!EncodedStart, Camera!Busy, CameraInv, CameraTyped, CameraHas, CameraModes, CameraThreads, Raw
  <2>2. UNCHANGED <<camStreaming, camOn, camDirect, camPool, camPools, camPreview, camShown, camCall, camCapture>>
    BY <1>2 DEF Camera!EncodedStart, Camera!threads
  <2>3. CASE UNCHANGED camEncoded /\ camHw' = {} /\ camFlags' = {}
    BY <1>0, <2>1, <2>2, <2>3
    DEF CameraInv, CameraTyped, CameraHas, CameraModes, CameraThreads, Raw, Halted
  <2>4. CASE /\ camHw' = {"sys", "dev", "encchn", "venc", "bind"} \cup aiq
             /\ camFlags' = {"sys", "dev", "encchn", "venc", "bind"} \cup aiq
             /\ camEncoded' = TRUE
    <3>1. CameraHas'
      <4>1. \A p : p \in camFlags' <=> p \in {"sys", "dev", "encchn", "venc", "bind"} \/ p \in aiq
        BY <2>4
      <4>2. \A p \in aiq : p = "aiq"
        OBVIOUS
      <4>3. camHw' = camFlags' /\ camEncoded' /\ ~camStreaming' /\ ~camDirect' /\ ~Halted' /\ ~Raw'
        BY <1>0, <2>1, <2>2, <2>4 DEF Raw, Halted
      <4> QED
        BY <4>1, <4>2, <4>3 DEF CameraHas
    <3>2. CameraTyped' /\ CameraModes' /\ CameraThreads'
      BY <1>0, <2>1, <2>2, <2>4, PlacesDiffer
      DEF CameraInv, CameraTyped, CameraModes, CameraThreads, Raw, Halted
    <3> QED
      BY <3>1, <3>2 DEF CameraInv
  <2>5. CASE n = Len(Camera!EncodedSteps)
    BY <1>2, <1>e, <2>1, <2>4, <2>5 DEF Camera!EncodedStart
  <2>6. CASE n # Len(Camera!EncodedSteps)
    BY <1>2, <2>1, <2>3, <2>6 DEF Camera!EncodedStart
  <2> QED
    BY <2>5, <2>6
<1>3. ASSUME NEW ok \in BOOLEAN, Camera!DirectPreviewStart(ok) PROVE CameraInv'
  <2>1. camEncoded /\ ~camOn /\ ~Raw
    BY <1>3 DEF Camera!DirectPreviewStart, CameraInv, CameraModes
  <2>2. UNCHANGED <<camStreaming, camEncoded, camPool, camPools, camPreview, camShown, camCall, camCapture>>
    BY <1>3 DEF Camera!DirectPreviewStart, Camera!threads
  <2>3. camPool = 0 /\ camPreview = "off" /\ camCapture = "off"
    BY <1>0, <2>1, PlacesDiffer DEF CameraInv, CameraModes, CameraThreads, Raw
  <2>4. CASE ok = FALSE
    <3>1. UNCHANGED <<camHw, camFlags, camOn, camDirect>>
      BY <1>3, <2>4 DEF Camera!DirectPreviewStart
    <3> QED
      BY <2>2, <3>1 DEF CameraInv, CameraTyped, CameraHas, CameraModes, CameraThreads, Raw, Halted
  <2>5. CASE ok = TRUE
    <3>1. /\ camHw' = camHw \cup {"prvchn", "prvbind"} /\ camFlags' = camFlags \cup {"prvchn", "prvbind"}
          /\ camOn' = TRUE /\ camDirect' = TRUE
      BY <1>3, <2>5 DEF Camera!DirectPreviewStart
    <3>2. CameraHas'
      <4>1. \A p : p \in camFlags' <=> p \in camFlags \/ p \in {"prvchn", "prvbind"}
        BY <3>1
      <4>2. ~Raw' /\ camHw' = camFlags' /\ camEncoded' /\ camDirect'
        BY <2>1, <2>2, <3>1 DEF CameraInv, CameraHas, Raw, Halted
      <4> QED
        BY <2>1, <4>1, <4>2 DEF CameraInv, CameraHas
    <3>3. CameraTyped' /\ CameraModes' /\ CameraThreads'
      BY <1>0, <2>1, <2>2, <2>3, <3>1, PlacesDiffer
      DEF CameraInv, CameraTyped, CameraModes, CameraThreads, Raw, Halted
    <3> QED
      BY <3>2, <3>3 DEF CameraInv
  <2> QED
    BY <2>4, <2>5
<1>4. ASSUME NEW ok \in BOOLEAN, Camera!PreviewStart(ok) PROVE CameraInv'
  <2>1. camStreaming /\ ~camOn /\ ~camEncoded /\ ~camDirect
    BY <1>4 DEF Camera!PreviewStart, CameraInv, CameraModes
  <2>2. UNCHANGED <<camHw, camFlags, camStreaming, camEncoded, camDirect, camShown, camCall, camCapture>>
    BY <1>4 DEF Camera!PreviewStart
  <2>3. CameraHas'
    BY <2>2 DEF CameraInv, CameraHas, Raw, Halted
  <2>4. CASE ok = FALSE
    <3>1. UNCHANGED <<camPools, camPool, camOn, camPreview>>
      BY <1>4, <2>4 DEF Camera!PreviewStart
    <3> QED
      BY <2>2, <2>3, <3>1 DEF CameraInv, CameraTyped, CameraModes, CameraThreads, Raw, Halted
  <2>5. CASE ok = TRUE
    <3>1. camPools' = camPools + 1 /\ camPool' = camPools + 1 /\ camOn' = TRUE /\ camPreview' = "check"
      BY <1>4, <2>5 DEF Camera!PreviewStart
    <3>2. camPools' \in Nat /\ camPool' # 0
      BY <3>1 DEF CameraInv, CameraTyped
    <3>3. camShown = 0
      BY <1>0, <2>1, PlacesDiffer DEF CameraInv, CameraThreads
    <3> QED
      BY <1>0, <2>1, <2>2, <2>3, <3>1, <3>2, <3>3, PlacesDiffer
      DEF CameraInv, CameraTyped, CameraModes, CameraThreads, Raw, Halted
  <2> QED
    BY <2>4, <2>5
<1> QED
  BY <1>1, <1>2, <1>3, <1>4

\* The calls that begin to tear down.
LEMMA CameraCalls ==
  ASSUME CameraInv, Camera!PreviewStop \/ Camera!Stop \/ Camera!EncodedStop PROVE CameraInv'
<1>0. camCall = <<>> /\ ~Halted
  BY PlacesDiffer DEF Camera!PreviewStop, Camera!Stop, Camera!EncodedStop, Camera!Idle, Halted
<1>1. UNCHANGED <<camHw, camFlags, camStreaming, camEncoded, camRunning, camOn, camDirect, camPool, camPools,
                  camMailbox, camCapture, camTaken, camPreview, camShown>>
  BY DEF Camera!PreviewStop, Camera!Stop, Camera!EncodedStop, Camera!threads
<1>2. \/ camCall' = P1 \/ (camCall' = R1 /\ camStreaming) \/ (camCall' = E1 /\ camEncoded)
  BY CallsPreview, CallsRaw, CallsEncoded DEF Camera!PreviewStop, Camera!Stop, Camera!EncodedStop
<1>3. ~Halted'
  BY <1>2, PlacesDiffer DEF Halted
<1>4. CameraTyped'
  BY <1>1, <1>2 DEF CameraInv, CameraTyped
<1>5. CameraHas' /\ CameraModes'
  BY <1>0, <1>1, <1>2, <1>3, PlacesDiffer DEF CameraInv, CameraHas, CameraModes, Raw
<1>6. CameraThreads'
  <2>1. camCapture # "off" => camStreaming
    BY <1>0, PlacesDiffer DEF CameraInv, CameraThreads
  <2>2. /\ camPreview # "off" => camPool # 0 /\ camOn /\ ~camDirect
        /\ camPool # 0 => camOn /\ ~camDirect
    BY <1>0, PlacesDiffer DEF CameraInv, CameraThreads
  <2> QED
    BY <1>1, <2>1, <2>2 DEF CameraInv, CameraThreads
<1> QED
  BY <1>4, <1>5, <1>6 DEF CameraInv

\* The steps of the calls that tear down.
LEMMA CameraCallSteps == ASSUME CameraInv, Camera!CallStep PROVE CameraInv'
<1>0. CameraTyped
  BY DEF CameraInv
<1>1. CASE Camera!PreviewEnds
  <2>1. UNCHANGED <<camStreaming, camEncoded, camPool, camPools, camCapture, camPreview, camShown>>
        /\ (camDirect \/ ~camOn) /\ camCall' = SubSeq(camCall, 5, Len(camCall))
    BY <1>1 DEF Camera!PreviewEnds, Camera!threads
  <2>2. camCall \in {P1, R1, E1}
    BY <1>0, <1>1, CameraPlaces DEF Camera!PreviewEnds
  <2>3. \/ camCall = P1 /\ camCall' = <<>>
        \/ camCall = R1 /\ camCall' = R5
        \/ camCall = E1 /\ camCall' = E5
    BY <2>1, <2>2, CallsPreview, CallsRaw, CallsEncoded
  <2>4. ~Halted /\ ~Halted' /\ camPool = 0 /\ camPreview = "off" /\ (camCall = R1 => camStreaming)
        /\ (camCapture # "off" => camStreaming)
    BY <2>1, <2>3, PlacesDiffer DEF CameraInv, CameraModes, CameraThreads, Halted
  <2>5. camOn' = FALSE /\ camDirect' = FALSE
    <3>1. CASE camDirect
      BY <1>1, <3>1 DEF Camera!PreviewEnds
    <3>2. CASE ~camDirect
      BY <1>1, <2>1, <3>2 DEF Camera!PreviewEnds, CameraInv, CameraTyped
    <3> QED
      BY <3>1, <3>2
  <2>6. CameraHas'
    <3>1. CASE camDirect
      <4>1. /\ camHw' = camHw \ ({"prvchn", "prvbind"} \cap camFlags)
            /\ camFlags' = camFlags \ {"prvchn", "prvbind"}
        BY <1>1, <3>1 DEF Camera!PreviewEnds
      <4>2. camHw' = camFlags'
        BY <4>1 DEF CameraInv, CameraHas
      <4>3. \A p : p \in camFlags' <=> p \in camFlags /\ p \notin {"prvchn", "prvbind"}
        BY <4>1
      <4>4. camEncoded /\ camEncoded' /\ ~Raw'
        BY <2>1, <2>4, <3>1 DEF CameraInv, CameraModes, Raw
      <4> QED
        BY <2>5, <4>2, <4>3, <4>4 DEF CameraInv, CameraHas
    <3>2. CASE ~camDirect
      <4>1. UNCHANGED <<camHw, camFlags>>
        BY <1>1, <3>2 DEF Camera!PreviewEnds
      <4> QED
        BY <2>1, <2>4, <2>5, <3>2, <4>1 DEF CameraInv, CameraHas, Raw
    <3> QED
      BY <3>1, <3>2
  <2>7. CameraTyped'
    BY <2>1, <2>3, <2>5 DEF CameraInv, CameraTyped
  <2>8. CameraModes'
    BY <2>1, <2>3, <2>4, <2>5, PlacesDiffer DEF CameraInv, CameraModes, Raw
  <2>9. CameraThreads'
    BY <2>1, <2>4 DEF CameraInv, CameraThreads
  <2> QED
    BY <2>6, <2>7, <2>8, <2>9 DEF CameraInv
<1>2. CASE Camera!PreviewOff
  <2>1. UNCHANGED <<camHw, camFlags, camStreaming, camEncoded, camDirect, camPool, camPools, camCapture, camShown>>
        /\ ~camDirect /\ camOn /\ camOn' = FALSE /\ camCall' = Tail(camCall)
        /\ camPreview' = (IF camPreview = "sleep" THEN "check" ELSE camPreview)
    BY <1>2 DEF Camera!PreviewOff, Camera!Done
  <2>2. camCall \in {P1, R1, E1} /\ camStreaming
    BY <1>0, <1>2, <2>1, CameraPlaces DEF Camera!PreviewOff, CameraInv, CameraModes
  <2>3. ~(camCall = E1)
    <3>1. ~camEncoded
      BY <2>2 DEF CameraInv, CameraModes, Raw
    <3> QED
      BY <3>1, <2>1, <2>2 DEF CameraInv, CameraModes
  <2>4. (camCall = P1 /\ camCall' = P2) \/ (camCall = R1 /\ camCall' = R2)
    BY <2>1, <2>2, <2>3, CallsPreview, CallsRaw
  <2> QED
    BY <2>1, <2>2, <2>4, PlacesDiffer
    DEF CameraInv, CameraTyped, CameraHas, CameraModes, CameraThreads, Raw, Halted
<1>3. CASE Camera!JoinPreview \/ Camera!Drain \/ Camera!DestroyPool
  <2>1. UNCHANGED <<camHw, camFlags, camStreaming, camEncoded, camOn, camDirect, camPools, camCapture,
                    camPreview, camShown>> /\ camCall' = Tail(camCall)
    BY <1>3 DEF Camera!JoinPreview, Camera!Drain, Camera!DestroyPool, Camera!threads, Camera!Done
  <2>2. CASE Camera!JoinPreview
    <3>1. camPreview = "off" /\ UNCHANGED camPool
      BY <2>2 DEF Camera!JoinPreview
    <3>2. (camCall = P2 /\ camCall' = P3) \/ (camCall = R2 /\ camCall' = R3)
      BY <1>0, <2>1, <2>2, CameraPlaces DEF Camera!JoinPreview
    <3> QED
      BY <2>1, <3>1, <3>2, PlacesDiffer
      DEF CameraInv, CameraTyped, CameraHas, CameraModes, CameraThreads, Raw, Halted
  <2>3. CASE Camera!Drain
    <3>1. UNCHANGED camPool
      BY <2>3 DEF Camera!Drain
    <3>2. (camCall = P3 /\ camCall' = P4) \/ (camCall = R3 /\ camCall' = R4)
      BY <1>0, <2>1, <2>3, CameraPlaces DEF Camera!Drain
    <3> QED
      BY <2>1, <3>1, <3>2, PlacesDiffer
      DEF CameraInv, CameraTyped, CameraHas, CameraModes, CameraThreads, Raw, Halted
  <2>4. CASE Camera!DestroyPool
    <3>1. camPool' = 0
      BY <2>4 DEF Camera!DestroyPool
    <3>2. (camCall = P4 /\ camCall' = <<>>) \/ (camCall = R4 /\ camCall' = R5)
      BY <1>0, <2>1, <2>4, CameraPlaces DEF Camera!DestroyPool
    <3> QED
      BY <2>1, <3>1, <3>2, PlacesDiffer
      DEF CameraInv, CameraTyped, CameraHas, CameraModes, CameraThreads, Raw, Halted
  <2> QED
    BY <1>3, <2>2, <2>3, <2>4
<1>4. CASE Camera!Halt
  <2>1. UNCHANGED <<camHw, camFlags, camEncoded, camOn, camDirect, camPool, camPools, camCapture,
                    camPreview, camShown>> /\ camCall' = Tail(camCall) /\ camStreaming' = FALSE
    BY <1>4 DEF Camera!Halt, Camera!threads, Camera!Done
  <2>2. camCall = R5 /\ camCall' = R6
    BY <1>0, <1>4, <2>1, CameraPlaces DEF Camera!Halt
  <2> QED
    BY <2>1, <2>2, PlacesDiffer
    DEF CameraInv, CameraTyped, CameraHas, CameraModes, CameraThreads, Raw, Halted
<1>5. CASE Camera!JoinCapture
  <2>1. UNCHANGED <<camHw, camFlags, camStreaming, camEncoded, camOn, camDirect, camPool, camPools, camCapture,
                    camPreview, camShown>> /\ camCall' = Tail(camCall) /\ camCapture = "off"
    BY <1>5 DEF Camera!JoinCapture, Camera!threads, Camera!Done
  <2>2. camCall = R6 /\ camCall' = R7
    BY <1>0, <1>5, <2>1, CameraPlaces DEF Camera!JoinCapture
  <2> QED
    BY <2>1, <2>2, PlacesDiffer
    DEF CameraInv, CameraTyped, CameraHas, CameraModes, CameraThreads, Raw, Halted
<1>6. CASE Camera!Release
  <2>1. /\ UNCHANGED <<camStreaming, camOn, camDirect, camPool, camPools, camCapture, camPreview, camShown>>
        /\ camCall' = Tail(camCall) /\ camEncoded' = FALSE
        /\ camHw' = camHw \ (camFlags \ {"prvchn", "prvbind"})
        /\ camFlags' = camFlags \cap {"prvchn", "prvbind"}
    BY <1>6 DEF Camera!Release, Camera!threads, Camera!Done
  <2>2. (camCall = R7 \/ camCall = E5) /\ camCall' = <<>>
    BY <1>0, <1>6, <2>1, CameraPlaces DEF Camera!Release
  <2>3. ~camOn /\ ~camDirect
    BY <2>2, PlacesDiffer DEF CameraInv, CameraModes
  <2>4. "prvchn" \notin camFlags /\ "prvbind" \notin camFlags
    <3>1. CASE Raw
      BY <3>1 DEF CameraInv, CameraHas
    <3>2. CASE camEncoded
      BY <2>3, <3>2 DEF CameraInv, CameraHas
    <3>3. CASE ~Raw /\ ~camEncoded
      BY <3>3 DEF CameraInv, CameraHas
    <3> QED
      BY <3>1, <3>2, <3>3
  <2>5. camFlags' = {} /\ camHw' = {}
    BY <2>1, <2>4 DEF CameraInv, CameraHas
  <2>6. ~camStreaming
    <3>1. CASE camCall = R7
      BY <3>1 DEF CameraInv, CameraModes, Halted
    <3>2. CASE camCall = E5
      BY <3>2 DEF CameraInv, CameraModes, Raw
    <3> QED
      BY <2>2, <3>1, <3>2
  <2> QED
    BY <2>1, <2>2, <2>3, <2>5, <2>6, PlacesDiffer
    DEF CameraInv, CameraTyped, CameraHas, CameraModes, CameraThreads, Raw, Halted
<1> QED
  BY <1>1, <1>2, <1>3, <1>4, <1>5, <1>6 DEF Camera!CallStep

\* The threads.
LEMMA CameraThreadSteps == ASSUME CameraInv, Camera!CaptureStep \/ Camera!PreviewStep PROVE CameraInv'
<1>1. UNCHANGED <<camHw, camFlags, camStreaming, camEncoded, camOn, camDirect, camPool, camPools, camCall>>
  BY DEF Camera!CaptureStep, Camera!PreviewStep, Camera!CaptureFrame, Camera!TakeBlock, Camera!PostBlock,
         Camera!Callback, Camera!PreviewTakes, Camera!PreviewSends, Camera!CaptureVars
<1>2. CameraTyped' /\ CameraHas' /\ CameraModes'
  BY <1>1 DEF CameraInv, CameraTyped, CameraHas, CameraModes, Raw, Halted
<1>3. /\ camCapture' # "off" => camCapture # "off"
      /\ camPreview' # "off" => camPreview # "off"
      /\ camShown' # 0 => camPreview' = "send" \/ (camShown' = camShown /\ camPreview # "send")
                          \/ UNCHANGED <<camShown, camPreview>>
  BY DEF Camera!CaptureStep, Camera!PreviewStep, Camera!CaptureFrame, Camera!TakeBlock, Camera!PostBlock,
         Camera!Callback, Camera!PreviewTakes, Camera!PreviewSends, Camera!CaptureVars, Camera!Capture
<1>4. CameraThreads'
  BY <1>1, <1>3 DEF CameraInv, CameraThreads
<1> QED
  BY <1>2, <1>4 DEF CameraInv

\* Every step of the camera.
LEMMA CameraNext == CameraInv /\ [Camera!Next]_(Camera!vars) => CameraInv'
<1> SUFFICES ASSUME CameraInv, [Camera!Next]_(Camera!vars) PROVE CameraInv'
  OBVIOUS
<1>1. CASE UNCHANGED Camera!vars
  BY <1>1 DEF Camera!vars, Camera!threads, CameraInv, CameraTyped, CameraHas, CameraModes, CameraThreads,
              Raw, Halted
<1>2. CASE \/ \E aiq \in {{}, {"aiq"}} :
                \/ \E n \in 0 .. Len(Camera!RawSteps), threaded \in BOOLEAN : Camera!Start(aiq, n, threaded)
                \/ \E n \in 0 .. Len(Camera!EncodedSteps) : Camera!EncodedStart(aiq, n)
           \/ \E ok \in BOOLEAN : Camera!DirectPreviewStart(ok) \/ Camera!PreviewStart(ok)
  <2>1. Camera!Idle
    BY <1>2 DEF Camera!Start, Camera!EncodedStart, Camera!DirectPreviewStart, Camera!PreviewStart
  <2> QED
    BY <1>2, <2>1, CameraStarts
<1> QED
  BY <1>1, <1>2, CameraCalls, CameraCallSteps, CameraThreadSteps DEF Camera!Next

\* At rest the camera holds nothing, and no call is made.
LEMMA CameraInit == Camera!Init => CameraInv
<1> SUFFICES ASSUME Camera!Init PROVE CameraInv
  OBVIOUS
<1>1. /\ camHw = {} /\ camFlags = {} /\ camStreaming = FALSE /\ camEncoded = FALSE
      /\ camOn = FALSE /\ camDirect = FALSE /\ camPool = 0 /\ camPools = 0
      /\ camCapture = "off" /\ camPreview = "off" /\ camShown = 0 /\ camCall = <<>>
  BY DEF Camera!Init
<1> QED
  BY <1>1, PlacesDiffer DEF CameraInv, CameraTyped, CameraHas, CameraModes, CameraThreads, Raw, Halted

\* What the invariant says of the camera.
LEMMA CameraSays ==
  CameraInv => Camera!NothingLeft /\ Camera!UsesWhatIsThere /\ Camera!PooledWhileShown
<1> SUFFICES ASSUME CameraInv
             PROVE  Camera!NothingLeft /\ Camera!UsesWhatIsThere /\ Camera!PooledWhileShown
  OBVIOUS
<1>1. Camera!NothingLeft
  <2> SUFFICES ASSUME camCall = <<>>, ~camStreaming, ~camEncoded
               PROVE  /\ camHw = {} /\ camFlags = {} /\ ~camOn /\ camPool = 0
                      /\ camCapture = "off" /\ camPreview = "off"
    BY DEF Camera!NothingLeft, Camera!Idle, Camera!Busy
  <2> QED
    BY PlacesDiffer DEF CameraInv, CameraHas, CameraModes, CameraThreads, Raw, Halted
<1>2. Camera!UsesWhatIsThere
  <2>1. camCapture # "off" => Raw
    BY DEF CameraInv, CameraThreads, Raw, Halted
  <2>2. CASE Raw
    <3>1. ~camEncoded /\ camHw = camFlags
      BY <2>2 DEF CameraInv, CameraModes, CameraHas
    <3> QED
      BY <2>2, <3>1 DEF CameraInv, CameraHas, Camera!UsesWhatIsThere
  <2>3. CASE camEncoded /\ ~Raw
    BY <2>1, <2>3 DEF CameraInv, CameraHas, Camera!UsesWhatIsThere
  <2>4. CASE ~Raw /\ ~camEncoded
    BY <2>1, <2>4 DEF CameraInv, CameraHas, Camera!UsesWhatIsThere
  <2> QED
    BY <2>2, <2>3, <2>4
<1>3. Camera!PooledWhileShown
  BY DEF CameraInv, CameraThreads, Camera!PooledWhileShown
<1> QED
  BY <1>1, <1>2, <1>3

-----------------------------------------------------------------------------
(* The capture service. *)

AppSteps ==
  {"signals", "network", "create", "pipeline", "video", "preview", "run", "stopVideo", "joinVideo",
   "stopPipeline", "leave", "destroyVideo", "videoGone", "returned"}

AppTyped ==
  /\ appAt \in AppSteps /\ appStopping \in BOOLEAN /\ appEncoded \in BOOLEAN
  /\ appThread \in {"off", "wait", "deliver", "failed", "ended"}
  /\ appLast \in Int /\ appRaised \in Nat
\* The source has its thread, which may have ended, from its start to the end of its stop().
AppSource ==
  /\ appPreview = appDisplay
  /\ appStopping <=> appAt \in {"joinVideo", "videoGone"}
  /\ appStopping => ~appRunning
  /\ IF appAt \in {"preview", "run", "stopVideo", "joinVideo"}
     THEN /\ appThread # "off" /\ appHandlers /\ (appEncoded <=> appKind = "camera")
          /\ appPipeline = "started"
     ELSE /\ appThread = "off" /\ ~appEncoded /\ ~appPreview /\ ~appRunning
          /\ appHandlers => /\ appKind = "file"
                           /\ appAt \in {"stopPipeline", "leave", "destroyVideo", "videoGone"}
\* What there is at each step.
AppBuilt ==
  /\ appAt = "signals" => ~appWatched /\ ~appMonitor /\ appPipeline = "none" /\ appSinks = {}
  /\ appAt \in {"signals", "network", "create", "pipeline", "video", "preview"} => appTimers = {}
  /\ appAt \in {"pipeline", "video", "preview"} => appSinks = {0}
  /\ appAt = "video" => appPipeline = "started"
  /\ appAt = "run" => appSinks \ {0} = appTimers
  /\ appAt \in {"destroyVideo", "videoGone", "returned"} =>
       appPipeline = "none" /\ appSinks = {} /\ ~appWatched
  /\ appAt = "returned" => ~appMonitor /\ appTimers = {}

AppInv == AppTyped /\ AppSource /\ AppBuilt

AppForward == appLast # 0 /\ appLast' \notin {0, appLast} => appLast' > appLast

\* Every step of the service itself keeps the invariant.
LEMMA AppServes == ASSUME AppInv, App!Serve PROVE AppInv' /\ AppForward
<1> USE DEF AppInv, AppTyped, AppSource, AppBuilt, AppForward, AppSteps, App!sourceVars, App!serviceVars,
            App!outputVars
<1>1. CASE App!Watch
  BY <1>1 DEF App!Watch
<1>2. CASE App!StartMonitor
  BY <1>2 DEF App!StartMonitor
<1>3. CASE App!Create
  BY <1>3 DEF App!Create
<1>4. CASE App!StartPipeline
  BY <1>4 DEF App!StartPipeline
<1>5. CASE App!StartVideo
  <2>1. PICK ok \in BOOLEAN : App!StartSource(ok) /\ appAt' = IF ok THEN "preview" ELSE "stopPipeline"
    BY <1>5 DEF App!StartVideo
  <2>2. /\ appAt = "video" /\ appThread = "off" /\ ~appStopping /\ ~appPreview /\ ~appEncoded /\ ~appHandlers
        /\ UNCHANGED <<appKind, appPreview, appDisplay, appStopping, appWatched, appMonitor, appPipeline,
                       appSinks, appTimers, appRaised>>
    BY <1>5 DEF App!StartVideo, App!StartSource
  <2>3. CASE ok
    <3>1. /\ appThread' = "wait" /\ appRunning' = TRUE /\ appHandlers' = TRUE /\ appLast' = 0
          /\ appEncoded' = (appKind = "camera")
      BY <2>1, <2>2, <2>3 DEF App!StartSource, App!StartCamera, App!StartFile, App!Begins
    <3>2. AppTyped'
      BY <2>1, <2>2, <2>3, <3>1
    <3>3. AppSource'
      BY <2>1, <2>2, <2>3, <3>1
    <3>4. AppBuilt'
      BY <2>1, <2>2, <2>3
    <3> QED
      BY <3>1, <3>2, <3>3, <3>4
  <2>4. CASE ~ok
    <3>1. /\ UNCHANGED <<appRunning, appThread>> /\ appEncoded' = FALSE /\ appLast' \in {0, appLast}
          /\ (appHandlers' => appKind = "file")
      BY <2>1, <2>2, <2>4 DEF App!StartSource, App!StartCamera, App!StartFile
    <3>2. AppTyped'
      <4>1. appAt' = "stopPipeline" /\ appThread' = "off"
        BY <2>1, <2>2, <2>4, <3>1
      <4>2. appLast' \in Int /\ appRaised' \in Nat
        BY <2>2, <3>1
      <4>3. appStopping' \in BOOLEAN /\ appEncoded' \in BOOLEAN
        BY <2>2, <3>1, Zenon
      <4> QED
        BY <4>1, <4>2, <4>3
    <3>3. AppSource'
      BY <2>1, <2>2, <2>4, <3>1 DEF App!StartSource
    <3>4. AppBuilt'
      BY <2>1, <2>2, <2>4
    <3> QED
      BY <3>1, <3>2, <3>3, <3>4
  <2> QED
    BY <2>3, <2>4
<1>6. CASE App!ShowPreview
  <2>1. /\ appAt = "preview" /\ appAt' \in {"run", "stopVideo"} /\ appPreview' = appDisplay'
        /\ UNCHANGED <<appKind, appRunning, appThread, appEncoded, appHandlers, appLast, appStopping,
                       appWatched, appMonitor, appPipeline, appSinks, appTimers, appRaised>>
    BY <1>6 DEF App!ShowPreview, App!StartPreview
  <2>2. AppSource'
    BY <2>1
  <2>3. AppBuilt'
    BY <2>1
  <2> QED
    BY <2>1, <2>2, <2>3
<1>7. CASE App!Quit
  BY <1>7 DEF App!Quit
<1>8. CASE App!StopVideo
  BY <1>8 DEF App!StopVideo, App!StopSource
<1>9. CASE App!VideoStopped
  <2>1. /\ appAt = "joinVideo" /\ appAt' = "stopPipeline" /\ appThread' = "off" /\ appStopping' = FALSE
        /\ appEncoded' = FALSE /\ appPreview' = FALSE /\ appDisplay' = FALSE /\ appHandlers' = FALSE
        /\ UNCHANGED <<appKind, appRunning, appLast, appWatched, appMonitor, appPipeline, appSinks,
                       appTimers, appRaised>>
    BY <1>9 DEF App!VideoStopped, App!SourceStopped
  <2>2. AppSource'
    BY <2>1
  <2>3. AppBuilt'
    BY <2>1
  <2> QED
    BY <2>1, <2>2, <2>3
<1>10. CASE App!StopPipeline
  BY <1>10 DEF App!StopPipeline
<1>11. CASE App!Leave
  BY <1>11 DEF App!Leave
<1>12. CASE App!DestroyVideo
  BY <1>12 DEF App!DestroyVideo, App!StopSource
<1>13. CASE App!Return
  <2>1. /\ appAt = "videoGone" /\ appAt' = "returned" /\ appThread' = "off" /\ appStopping' = FALSE
        /\ appEncoded' = FALSE /\ appPreview' = FALSE /\ appDisplay' = FALSE /\ appHandlers' = FALSE
        /\ appMonitor' = FALSE /\ appTimers' = {}
        /\ UNCHANGED <<appKind, appRunning, appLast, appWatched, appPipeline, appSinks, appRaised>>
    BY <1>13 DEF App!Return, App!SourceStopped
  <2>2. AppSource'
    BY <2>1
  <2>3. AppBuilt'
    BY <2>1
  <2> QED
    BY <2>1, <2>2, <2>3
<1> QED
  BY <1>1, <1>2, <1>3, <1>4, <1>5, <1>6, <1>7, <1>8, <1>9, <1>10, <1>11, <1>12, <1>13 DEF App!Serve

\* Every step of the service, its alarms and its source's thread.
LEMMA AppNext == AppInv /\ [App!Next]_(App!vars) => AppInv' /\ AppForward
<1> SUFFICES ASSUME AppInv, [App!Next]_(App!vars) PROVE AppInv' /\ AppForward
  OBVIOUS
<1> USE DEF AppInv, AppTyped, AppSource, AppBuilt, AppForward, AppSteps, App!sourceVars, App!serviceVars,
            App!outputVars
<1>1. CASE App!Signal
  BY <1>1 DEF App!Signal
<1>2. CASE App!RecordAlarm
  BY <1>2 DEF App!RecordAlarm
<1>3. ASSUME NEW alarm \in App!Alarms, App!EndRecording(alarm) PROVE AppInv' /\ AppForward
  BY <1>3 DEF App!EndRecording
<1>4. CASE App!Packets
  <2>1. UNCHANGED <<appAt, appKind, appRunning, appEncoded, appPreview, appDisplay, appHandlers,
                    appStopping, appWatched, appMonitor, appPipeline, appSinks, appTimers, appRaised>>
    BY <1>4 DEF App!Packets, App!NextPacket, App!Delivered
  <2>2. appThread # "off" /\ appThread' \in {"wait", "deliver", "failed", "ended"}
    BY <1>4 DEF App!Packets, App!NextPacket, App!Delivered
  <2>3. appLast' \in Int /\ AppForward
    <3>1. CASE UNCHANGED appLast
      BY <3>1
    <3>2. CASE \E time \in 1 .. MaxStamp : appLast' = App!Stamp(time)
      BY <3>2 DEF App!Stamp
    <3> QED
      BY <1>4, <3>1, <3>2 DEF App!Packets, App!NextPacket, App!Delivered
  <2> QED
    BY <2>1, <2>2, <2>3
<1>5. CASE App!VideoFails
  BY <1>5 DEF App!VideoFails, App!ReportFailure
<1>6. CASE UNCHANGED App!vars
  BY <1>6 DEF App!vars
<1> QED
  BY <1>1, <1>2, <1>3, <1>4, <1>5, <1>6, AppServes DEF App!Next

\* The service begins within the invariant, and one that has returned is within it.
LEMMA AppInit == (App!Init => AppInv) /\ (AppRests => AppInv)
<1> USE DEF AppInv, AppTyped, AppSource, AppBuilt, AppSteps
<1>1. ASSUME App!Init PROVE AppInv
  <2>1. AppTyped
    <3>1. appAt \in AppSteps /\ appThread = "off"
      BY <1>1 DEF App!Init, App!SourceInit
    <3>2. appStopping \in BOOLEAN /\ appEncoded \in BOOLEAN
      BY <1>1, Zenon DEF App!Init, App!SourceInit
    <3>3. appLast = 0 /\ appRaised = 0
      BY <1>1 DEF App!Init, App!SourceInit
    <3> QED
      BY <3>1, <3>2, <3>3
  <2>2. AppSource
    BY <1>1 DEF App!Init, App!SourceInit
  <2>3. AppBuilt
    BY <1>1 DEF App!Init, App!SourceInit
  <2> QED
    BY <2>1, <2>2, <2>3
<1>2. ASSUME AppRests PROVE AppInv
  <2>1. AppTyped
    <3>1. appAt \in AppSteps /\ appThread = "off"
      BY <1>2 DEF AppRests
    <3>2. appStopping \in BOOLEAN /\ appEncoded \in BOOLEAN
      BY <1>2, Zenon DEF AppRests
    <3>3. appLast = 0 /\ appRaised = 0
      BY <1>2 DEF AppRests
    <3> QED
      BY <3>1, <3>2, <3>3
  <2>2. AppSource
    BY <1>2 DEF AppRests
  <2>3. AppBuilt
    BY <1>2 DEF AppRests
  <2> QED
    BY <2>1, <2>2, <2>3
<1> QED
  BY <1>1, <1>2

\* What the invariant says of the service.
LEMMA AppSays ==
  AppInv => /\ App!LeavesNothing /\ App!SourceHoldsWhatItUses /\ App!RecordingsAreTimed
            /\ App!PushesIntoPipeline
  BY DEF AppInv, AppTyped, AppSource, AppBuilt, App!LeavesNothing, App!SourceHoldsWhatItUses,
         App!RecordingsAreTimed, App!PushesIntoPipeline, App!Idle

-----------------------------------------------------------------------------
(* The devices side by side. *)

\* The state of each device is that of its module.
LEMMA DeviceVars ==
  /\ UNCHANGED cameraVars => UNCHANGED Camera!vars
  /\ UNCHANGED audioVars => UNCHANGED Audio!vars
  /\ UNCHANGED codecVars => UNCHANGED Codec!vars
  /\ UNCHANGED vcodecVars => UNCHANGED VCodec!vars
  /\ UNCHANGED vcameraVars => UNCHANGED VCamera!vars
  /\ UNCHANGED usbVars => UNCHANGED Usb!vars
  /\ UNCHANGED drawnVars => UNCHANGED Drawn!vars
  /\ UNCHANGED screenVars => UNCHANGED Screen!vars
  /\ UNCHANGED sourceVars => UNCHANGED Source!vars
  /\ UNCHANGED nodesVars => UNCHANGED Nodes!vars
  /\ UNCHANGED hostVars => UNCHANGED Host!vars
  /\ UNCHANGED bluetoothVars => UNCHANGED Bluetooth!vars
  /\ UNCHANGED sensorVars => UNCHANGED Sensing!vars
  /\ UNCHANGED appVars => UNCHANGED App!vars
  /\ UNCHANGED netVars => UNCHANGED Net!vars
  /\ UNCHANGED loaderVars => UNCHANGED Loader!vars
<1>1. UNCHANGED cameraVars => UNCHANGED Camera!vars
  BY DEF cameraVars, Camera!vars, Camera!threads
<1>2. UNCHANGED audioVars => UNCHANGED Audio!vars
  BY DEF audioVars, Audio!vars
<1>3. UNCHANGED codecVars => UNCHANGED Codec!vars
  BY DEF codecVars, Codec!vars
<1>4. UNCHANGED vcodecVars => UNCHANGED VCodec!vars
  BY DEF vcodecVars, VCodec!vars
<1>5. UNCHANGED vcameraVars => UNCHANGED VCamera!vars
  BY DEF vcameraVars, VCamera!vars
<1>6. UNCHANGED usbVars => UNCHANGED Usb!vars
  BY DEF usbVars, Usb!vars
<1>7. UNCHANGED drawnVars => UNCHANGED Drawn!vars
  BY DEF drawnVars, Drawn!vars
<1>8. UNCHANGED screenVars => UNCHANGED Screen!vars
  BY DEF screenVars, Screen!vars, Screen!displayVars, Screen!graphicsVars
<1>9. UNCHANGED sourceVars => UNCHANGED Source!vars
  BY DEF sourceVars, Source!vars
<1>10. UNCHANGED nodesVars => UNCHANGED Nodes!vars
  BY DEF nodesVars, Nodes!vars
<1>11. UNCHANGED hostVars => UNCHANGED Host!vars
  BY DEF hostVars, Host!vars
<1>12. UNCHANGED bluetoothVars => UNCHANGED Bluetooth!vars
  BY DEF bluetoothVars, Bluetooth!vars
<1>13. UNCHANGED sensorVars => UNCHANGED Sensing!vars
  BY DEF sensorVars, Sensing!vars
<1>14. UNCHANGED appVars => UNCHANGED App!vars
  BY DEF appVars, App!vars, App!serviceVars, App!sourceVars
<1>15. UNCHANGED netVars => UNCHANGED Net!vars
  BY DEF netVars, Net!vars
<1>16. UNCHANGED loaderVars => UNCHANGED Loader!vars
  BY DEF loaderVars, Loader!vars
<1> QED
  BY <1>1, <1>2, <1>3, <1>4, <1>5, <1>6, <1>7, <1>8, <1>9, <1>10, <1>11, <1>12, <1>13, <1>14, <1>15, <1>16

\* A step of the platform is of one device at most, and leaves the others alone.
DeviceSteps ==
  /\ Camera!Next \/ UNCHANGED cameraVars
  /\ Audio!Next \/ UNCHANGED audioVars
  /\ Codec!Next \/ UNCHANGED codecVars
  /\ VCodec!Next \/ UNCHANGED vcodecVars
  /\ VCamera!Next \/ UNCHANGED vcameraVars
  /\ Usb!Next \/ UNCHANGED usbVars
  /\ Drawn!Next \/ UNCHANGED drawnVars
  /\ Screen!Next \/ UNCHANGED screenVars
  /\ Source!Next \/ UNCHANGED sourceVars
  /\ Nodes!Next \/ UNCHANGED nodesVars
  /\ Host!Next \/ UNCHANGED hostVars
  /\ Bluetooth!Next \/ UNCHANGED bluetoothVars
  /\ Sensing!Next \/ UNCHANGED sensorVars
  /\ App!Next \/ UNCHANGED appVars
  /\ Net!Next \/ UNCHANGED netVars
  /\ Loader!Next \/ UNCHANGED loaderVars

\* What a step of the platform is to each device; the one that is loaded stays.
LEMMA PlatformSteps ==
  ASSUME [PlatformNext]_platformVars
  PROVE  DeviceSteps /\ UNCHANGED which /\ (which # "loader" => UNCHANGED loaderVars)
<1>1. CASE PlatformNext
  BY <1>1 DEF PlatformNext, DeviceSteps, visionVars, soundVars, codingVars, otherVars, serviceVars
<1>2. CASE UNCHANGED platformVars
  BY <1>2 DEF platformVars, DeviceSteps, visionVars, soundVars, codingVars, otherVars, serviceVars
<1> QED
  BY <1>1, <1>2

\* Each device keeps its invariant; of the loader there is a state if it is the one that is run.
PlatformInv ==
  /\ CameraInv
  /\ AudioInv
  /\ CodecInv
  /\ VCodecInv
  /\ VCameraInv
  /\ UsbInv
  /\ DrawnInv
  /\ ScreenInv
  /\ SourceInv
  /\ NodesInv
  /\ HostInv
  /\ BluetoothInv
  /\ SensingInv
  /\ AppInv
  /\ NetInv
  /\ which = "loader" => LoaderInv

\* Each device begins within its invariant.
LEMMA PlatformBegins == PlatformInit => PlatformInv
<1> SUFFICES ASSUME PlatformInit PROVE PlatformInv
  OBVIOUS
<1>1. CameraInv
  BY CameraInit DEF PlatformInit
<1>2. AudioInv
  BY AudioInit DEF PlatformInit
<1>3. CodecInv
  BY CodecInit DEF PlatformInit
<1>4. VCodecInv
  BY VCodecInit DEF PlatformInit
<1>5. VCameraInv
  BY VCameraSays DEF PlatformInit
<1>6. UsbInv
  BY UsbSays DEF PlatformInit
<1>7. DrawnInv
  BY DrawnSays DEF PlatformInit
<1>8. ScreenInv
  BY ScreenInit DEF PlatformInit
<1>9. SourceInv
  BY SourceInit DEF PlatformInit
<1>10. NodesInv
  BY NodesSay DEF PlatformInit
<1>11. HostInv
  BY HostInit DEF PlatformInit
<1>12. BluetoothInv
  BY BluetoothSays DEF PlatformInit
<1>13. SensingInv
  BY SensingInit DEF PlatformInit
<1>14. NetInv
  BY NetSays DEF PlatformInit
<1>15. AppInv
  BY AppInit DEF PlatformInit
<1>16. which = "loader" => LoaderInv
  BY LoaderSays DEF PlatformInit
<1> QED
  BY <1>1, <1>2, <1>3, <1>4, <1>5, <1>6, <1>7, <1>8, <1>9, <1>10, <1>11, <1>12, <1>13, <1>14, <1>15,
     <1>16 DEF PlatformInv

\* Each device keeps its invariant, and takes its steps in order.
PlatformOrder ==
  /\ [SourceForward]_(Source!vars) /\ [LoaderFront]_(Loader!vars)
  /\ [\A k \in Kinds : nodThread[k] = "ended" => nodThread'[k] \in {"ended", "off"}]_(Nodes!vars)
  /\ [AppForward]_appLast
  /\ [btThread' # btThread /\ btThread' = "check" => btThread \in {"off", "show"}]_(Bluetooth!vars)
  /\ [Codec!Contract!Next]_(Codec!Contract!vars) /\ [VCodec!Contract!Next]_(VCodec!Contract!vars)
  /\ [Host!Contract!Next]_(Host!Contract!vars)

\* Every step of the platform keeps the invariant and the order.
LEMMA PlatformGoesOn == PlatformInv /\ [PlatformNext]_platformVars => PlatformInv' /\ PlatformOrder
<1> SUFFICES ASSUME PlatformInv, [PlatformNext]_platformVars PROVE PlatformInv' /\ PlatformOrder
  OBVIOUS
<1>0. DeviceSteps /\ UNCHANGED which /\ (which # "loader" => UNCHANGED loaderVars)
  BY PlatformSteps
<1>camera. CameraInv'
  <2>1. [Camera!Next]_(Camera!vars)
    BY <1>0, DeviceVars DEF DeviceSteps
  <2> QED
    BY <2>1, CameraNext DEF PlatformInv
<1>audio. AudioInv'
  <2>1. [Audio!Next]_(Audio!vars)
    BY <1>0, DeviceVars DEF DeviceSteps
  <2> QED
    BY <2>1, AudioNext DEF PlatformInv
<1>codec. CodecInv' /\ [Codec!Contract!Next]_(Codec!Contract!vars)
  <2>1. [Codec!Next]_(Codec!vars)
    BY <1>0, DeviceVars DEF DeviceSteps
  <2> QED
    BY <2>1, CodecNext DEF PlatformInv
<1>vcodec. VCodecInv' /\ [VCodec!Contract!Next]_(VCodec!Contract!vars)
  <2>1. [VCodec!Next]_(VCodec!vars)
    BY <1>0, DeviceVars DEF DeviceSteps
  <2> QED
    BY <2>1, VCodecNext DEF PlatformInv
<1>vcamera. VCameraInv'
  <2>1. [VCamera!Next]_(VCamera!vars)
    BY <1>0, DeviceVars DEF DeviceSteps
  <2> QED
    BY <2>1, VCameraNext DEF PlatformInv
<1>usb. UsbInv'
  <2>1. [Usb!Next]_(Usb!vars)
    BY <1>0, DeviceVars DEF DeviceSteps
  <2> QED
    BY <2>1, UsbNext DEF PlatformInv
<1>drawn. DrawnInv'
  <2>1. [Drawn!Next]_(Drawn!vars)
    BY <1>0, DeviceVars DEF DeviceSteps
  <2> QED
    BY <2>1, DrawnNext DEF PlatformInv
<1>screen. ScreenInv'
  <2>1. [Screen!Next]_(Screen!vars)
    BY <1>0, DeviceVars DEF DeviceSteps
  <2> QED
    BY <2>1, ScreenNext DEF PlatformInv
<1>source. SourceInv' /\ [SourceForward]_(Source!vars)
  <2>1. CASE Source!Next
    BY <2>1, SourceNext DEF PlatformInv
  <2>2. CASE UNCHANGED Source!vars
    <3>1. SourceInv
      BY DEF PlatformInv
    <3> QED
      BY <2>2, <3>1 DEF SourceInv, SourceTyped, SourceRuns, SourcePends, SourceDelivered, Source!vars
  <2> QED
    BY <1>0, <2>1, <2>2, DeviceVars DEF DeviceSteps
<1>nodes. NodesInv' /\ [\A k \in Kinds : nodThread[k] = "ended" => nodThread'[k] \in {"ended", "off"}]_(Nodes!vars)
  <2>1. [Nodes!Next]_(Nodes!vars)
    BY <1>0, DeviceVars DEF DeviceSteps
  <2> QED
    BY <2>1, NodesNext DEF PlatformInv
<1>host. HostInv' /\ [Host!Contract!Next]_(Host!Contract!vars)
  <2>1. [Host!Next]_(Host!vars)
    BY <1>0, DeviceVars DEF DeviceSteps
  <2> QED
    BY <2>1, HostNext DEF PlatformInv
<1>bluetooth. BluetoothInv' /\ [btThread' # btThread /\ btThread' = "check" => btThread \in {"off", "show"}]_(Bluetooth!vars)
  <2>1. [Bluetooth!Next]_(Bluetooth!vars)
    BY <1>0, DeviceVars DEF DeviceSteps
  <2> QED
    BY <2>1, BluetoothNext DEF PlatformInv
<1>sensors. SensingInv'
  <2>1. [Sensing!Next]_(Sensing!vars)
    BY <1>0, DeviceVars DEF DeviceSteps
  <2> QED
    BY <2>1, SensingNext DEF PlatformInv
<1>app. AppInv' /\ [AppForward]_appLast
  <2>1. [App!Next]_(App!vars)
    BY <1>0, DeviceVars DEF DeviceSteps
  <2> QED
    BY <2>1, AppNext DEF PlatformInv
<1>net. NetInv'
  <2>1. [Net!Next]_(Net!vars)
    BY <1>0, DeviceVars DEF DeviceSteps
  <2> QED
    BY <2>1, NetNext DEF PlatformInv
<1>loader. (which' = "loader" => LoaderInv') /\ [LoaderFront]_(Loader!vars)
  <2>1. CASE which = "loader" /\ Loader!Next
    BY <2>1, LoaderNext DEF PlatformInv
  <2>2. CASE UNCHANGED Loader!vars
    <3>1. ASSUME which' = "loader" PROVE LoaderInv'
      <4>1. LoaderInv
        BY <1>0, <3>1 DEF PlatformInv
      <4> QED
        BY <2>2, <4>1 DEF LoaderInv, Loader!vars
    <3> QED
      BY <2>2, <3>1
  <2> QED
    BY <1>0, <2>1, <2>2, DeviceVars DEF DeviceSteps
<1> QED
  BY <1>camera, <1>audio, <1>codec, <1>vcodec, <1>vcamera, <1>usb, <1>drawn, <1>screen, <1>source,
     <1>nodes, <1>host, <1>bluetooth, <1>sensors, <1>app, <1>net, <1>loader DEF PlatformInv, PlatformOrder

\* The invariant of the platform, in every behaviour of it.
LEMMA PlatformStays == PlatformSpec => []PlatformInv
  BY PlatformBegins, PlatformGoesOn, PTL DEF PlatformSpec

(* Nothing leaks: a device holds what its state needs of the vendor's layer, *)
(* the driver or another HAL, after starts that failed too, but for what the *)
(* code leaves and the properties of the modules name (start() and stop() of *)
(* src/platform's devices, HalLoader's hw_get_module(), the nodes' and the   *)
(* service's teardown).                                                      *)
THEOREM NothingLeaks == PlatformSpec => []HeldIsUsed
<1>1. PlatformInv => HeldIsUsed
  BY CameraSays, AudioSays, VCodecSays, VCameraSays, UsbSays, ScreenSays, LoaderSays,
     SourceSays, NodesSay, AppSays, DrawnSays, BluetoothSays
  DEF PlatformInv, CodecInv, CodecFlags, HostInv, HeldIsUsed
<1> QED
  BY <1>1, PlatformStays, PTL

(* Nothing is used that is gone: what a thread of a device or a node works   *)
(* with is there until it was joined (capture_thread(), preview_thread() and *)
(* the loops of src/platform; the nodes of the media subsystem).             *)
THEOREM NothingUsedIsGone == PlatformSpec => []UsedIsHeld
<1>1. PlatformInv => UsedIsHeld
  BY CameraSays, AudioSays, VCameraSays, UsbSays, ScreenSays, NodesSay, AppSays, DrawnSays,
     BluetoothSays DEF PlatformInv, UsedIsHeld
<1> QED
  BY <1>1, PlatformStays, PTL

(* What a device hands on is right: no bad frame of the USB camera, no sample *)
(* lost or stamped before it was captured, the overlay that is shown, the     *)
(* module that others have, the state that an interface has, or a warning.    *)
THEOREM TheRightIsHandedOn == PlatformSpec => []HandsOnWhatIsRight
<1>1. PlatformInv => HandsOnWhatIsRight
  BY UsbSays, ScreenSays, LoaderSays, SourceSays, NetSays DEF PlatformInv, SensingInv, HandsOnWhatIsRight
<1> QED
  BY <1>1, PlatformStays, PTL

(* Steps are taken in order: audio frames and packets' timestamps go on, no   *)
(* module is taken from behind a bad one, no node's thread begins over one    *)
(* that was not joined, no discovery while one goes on (readLoop(),           *)
(* hw_get_module(), the nodes' start(), pushPacket(), start_discovery()).     *)
THEOREM OrderIsKept == PlatformSpec => StepsKeepOrder
<1>1. PlatformInv /\ [PlatformNext]_platformVars =>
        /\ [srcLast' # srcLast =>
              /\ \A i \in 1 .. Len(srcLast.samples) : srcLast.samples[i] < srcLast'.samples[1]
              /\ srcLast'.stamp >= srcLast.stamp + (IF srcLast = Source!NoFrame THEN 0 ELSE Frame)]_(Source!vars)
        /\ [\A g \in ldGiven' \ ldGiven :
              \A i \in DOMAIN g[2] :
                ldPlugin[g[2][i]] = Loader!Broken => \E j \in 1 .. i - 1 : g[2][j] = g[3]]_(Loader!vars)
        /\ [\A k \in Kinds : nodThread[k] = "ended" => nodThread'[k] \in {"ended", "off"}]_(Nodes!vars)
        /\ [appLast # 0 /\ appLast' \notin {0, appLast} => appLast' > appLast]_appLast
        /\ [btThread' # btThread /\ btThread' = "check" => btThread \in {"off", "show"}]_(Bluetooth!vars)
  BY PlatformGoesOn DEF PlatformOrder, SourceForward, LoaderFront, AppForward
<1> QED
  BY <1>1, PlatformStays, PTL
  DEF PlatformSpec, StepsKeepOrder, Source!FramesInOrder, Loader!NotPastBad, Nodes!OneThread,
      App!StampsIncrease, Bluetooth!OneDiscovery

(* The codecs implement what their interface promises about order (encode(), *)
(* decode(), flush() of the RV1126B's, the VS816's and the host's codec).    *)
THEOREM ContractKept == PlatformSpec => CodecsKeepContract
<1>1. PlatformInit => Codec!Contract!Init /\ VCodec!Contract!Init /\ Host!Contract!Init
  <2> SUFFICES ASSUME PlatformInit PROVE Codec!Contract!Init /\ VCodec!Contract!Init /\ Host!Contract!Init
    OBVIOUS
  <2>1. Codec!Contract!Init
    BY DEF PlatformInit, Codec!Init, Codec!Contract!Init
  <2>2. VCodec!Contract!Init
    BY DEF PlatformInit, VCodec!Init, VCodec!Contract!Init
  <2>3. Host!Contract!Init
    BY HostInit DEF PlatformInit
  <2> QED
    BY <2>1, <2>2, <2>3
<1>2. PlatformInv /\ [PlatformNext]_platformVars =>
        /\ [Codec!Contract!Next]_(Codec!Contract!vars) /\ [VCodec!Contract!Next]_(VCodec!Contract!vars)
        /\ [Host!Contract!Next]_(Host!Contract!vars)
  BY PlatformGoesOn DEF PlatformOrder
<1> QED
  BY <1>1, <1>2, PlatformStays, PTL
  DEF PlatformSpec, CodecsKeepContract, Codec!ImplementsContract, VCodec!ImplementsContract,
      Host!ImplementsContract, Codec!Contract!Spec, VCodec!Contract!Spec, Host!Contract!Spec
==============================================================================
